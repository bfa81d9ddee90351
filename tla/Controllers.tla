----------------------------- MODULE Controllers -----------------------------
(***************************************************************************)
(* Game controllers: what they are called on the host, and what the host   *)
(* is told they hold.                                                      *)
(*   app/src/main/java/com/limelight/binding/input/ControllerHandler.java  *)
(*   .../binding/input/driver/UsbDriverService.java                        *)
(*   .../binding/input/driver/AbstractXboxController.java                  *)
(*                                                                         *)
(* ControllerHandler keeps a context for every input device of Android,    *)
(* for every controller of the application's own USB driver, and one, the  *)
(* default context, for the on-screen controls.  A context gets a number   *)
(* with its first input; the numbers in use are bits of a mask the host    *)
(* gets with every packet.  Contexts with the same number are fused: two   *)
(* devices may be halves of one controller.                                *)
(*                                                                         *)
(* Input devices and on-screen controls speak on the main thread, a USB    *)
(* controller on a thread of its own, and nothing is locked.  A thread     *)
(* that sends is split where another can come between: it reads the mask,  *)
(* stores the mask with the number it found, fuses the contexts, hands the *)
(* packet to the connection.                                               *)
(*                                                                         *)
(* A button is a member of {A, Start}: Start for the mouse emulation, A    *)
(* for all others (in mouse emulation it is the left mouse button).  Left  *)
(* out: the remapping of keys, sticks and triggers, rumble, sensors, LEDs  *)
(* and batteries.                                                          *)
(***************************************************************************)
EXTENDS Naturals, FiniteSets

CONSTANTS
    Pads,         \* external input devices with joystick axes
    Touchpads,    \* external input devices without them
    Builtins,     \* input devices that are not external (they have axes)
    Usb,          \* controllers for the USB driver
    Osc,          \* the on-screen controls, with the default context
    Joystick,     \* the pad a touchpad is a part of, or None
    Main,         \* the main thread
    None,
    A, Start,     \* buttons
    MaxGamepads,  \* MAX_GAMEPADS
    Emulators,    \* bound: the input devices whose Start button is used
    Parties,      \* bound: the sets of devices that may be there together
    MaxEvents     \* bound: devices plugged, unplugged or changed

Inputs == Pads \cup Touchpads \cup Builtins
Devices == Inputs \cup Usb \cup {Osc}
Threads == {Main} \cup Usb
Numbers == 0 .. MaxGamepads - 1

ASSUME ControllersAssumption ==
    /\ MaxGamepads \in Nat \ {0}
    /\ MaxEvents \in Nat
    /\ Emulators \subseteq Inputs
    /\ Parties \subseteq SUBSET Devices
    /\ Joystick \in [Touchpads -> Pads \cup {None}]
    /\ None \notin Devices \cup Threads
    /\ Main \notin Devices
    /\ Inputs \cap (Usb \cup {Osc}) = {} /\ Osc \notin Usb
    /\ Pads \cap Touchpads = {} /\ Builtins \cap (Pads \cup Touchpads) = {}
    /\ A # Start

VARIABLES
    party,               \* the devices that may be there
    multiController,     \* prefConfig.multiController
    onscreen,            \* the on-screen controls: "off", "gamepad" or "keyboard"
    attached,            \* the devices that are plugged in
    leaving,             \* removed input devices the main thread has not heard of
    held,                \* the buttons a hand holds down on each device
    contexts,            \* inputDeviceContexts, usbDeviceContexts and defaultContext
    currentControllers,  \* the set bits of currentControllers
    initialControllers,  \* the set bits of initialControllers
    stopped,             \* ControllerHandler.stopped
    pc,                  \* where each thread is
    job,                 \* what a thread that sends or removes has in its hands
    service,             \* the USB service: "bound", "running", "stopping", "destroyed"
    arriving,            \* USB devices a posted Runnable will handle in a second
    asking,              \* USB devices the user is asked a permission for
    claimed,             \* UsbDriverService.controllers
    driver,              \* the input thread of each USB controller
    host,                \* what the host was told
    raced,               \* two threads were at the same number or at the mask
    events

prefVars == <<party, multiController, onscreen>>
worldVars == <<attached, leaving, held, events>>
maskVars == <<currentControllers, initialControllers>>
usbVars == <<service, arriving, asking, claimed, driver>>
vars == <<prefVars, worldVars, contexts, maskVars, stopped, pc, job, usbVars, host, raced>>

\* A context that is not in one of the two arrays is not listed
NoContext == [listed |-> FALSE, assigned |-> FALSE, reserved |-> FALSE, number |-> 0,
              inputMap |-> {}, emulating |-> FALSE, lastMap |-> {}]
NewContext == [NoContext EXCEPT !.listed = TRUE]
NoJob == [dev |-> None, sender |-> None, seen |-> {},
          number |-> 0, mask |-> {}, flags |-> {}, mouse |-> "none"]

\* The buttons of a device: only a key event of Android toggles the emulation
ButtonsOf(d) == IF d \in Emulators THEN {A, Start} ELSE {A}

Event == events < MaxEvents /\ events' = events + 1

-----------------------------------------------------------------------------
(* The mask and the host *)

\* getActiveControllerMask
ActiveMask(current, initial) ==
    IF multiController
    THEN current \cup initial \cup (IF onscreen # "off" THEN {0} ELSE {})
    ELSE {0}

\* getAttachedControllerMask: the first numbers, one for each gamepad found.
\* A built-in gamepad is counted like any other, and on-screen controls count
\* as one even if they are keys.
AttachedMask(devices) ==
    {n \in Numbers : n < Cardinality(devices \ Touchpads)}
       \cup (IF onscreen # "off" THEN {0} ELSE {})

\* The host learns the mask and removes the controllers that are not in it
Told(h, mask) ==
    [h EXCEPT !.mask = mask,
              !.pressed = [n \in Numbers |-> IF n \in mask THEN h.pressed[n] ELSE {}]]

\* sendControllerInput
ToldInput(h, n, mask, flags) ==
    LET t == Told(h, mask)
    IN  [t EXCEPT !.pressed[n] = IF n \in mask THEN flags ELSE {}]

\* The packet that ends releaseControllerNumber.  Mutants: only for a device
\* that reserved its number; with the mask as it was before.
ZeroedIfReserved(h, c, initial) ==
    IF c.reserved THEN ToldInput(h, c.number, ActiveMask(currentControllers', initial), {}) ELSE h
ZeroedFirst(h, c, initial) ==
    IF c.assigned THEN ToldInput(h, c.number, ActiveMask(currentControllers, initial), {}) ELSE h
Zeroed(h, c, initial) ==
    IF c.assigned THEN ToldInput(h, c.number, ActiveMask(currentControllers', initial), {}) ELSE h

-----------------------------------------------------------------------------
(* Numbers *)

\* The first number that is free in the mask a thread read, or none.  The mutant
\* tests currentControllers & i instead of currentControllers & (1 << i).
FirstFreeByValue(seen) == {0}
FirstFree(seen) == {i \in Numbers \ seen : \A j \in Numbers \ seen : i <= j}

\* The device assignControllerNumberIfNeeded reserves a number for when d has
\* none: d itself, or the joystick it is a part of
Reserver(d, c) ==
    LET pad == IF d \in Touchpads THEN Joystick[d] ELSE d
    IN  IF /\ multiController
           /\ ~c[d].assigned
           /\ pad \in (Pads \cap attached) \cup Usb
           /\ ~c[pad].assigned
        THEN pad ELSE None

\* assignControllerNumberIfNeeded without a reservation: 0, or the number of
\* the joystick, which gets its own 0 first if it has none
AssignPlain(d, c) ==
    IF d \in Touchpads /\ Joystick[d] \in attached
    THEN LET pad == Joystick[d]
             cp == IF c[pad].listed THEN c[pad] ELSE NewContext
         IN  [c EXCEPT ![pad] = [cp EXCEPT !.assigned = TRUE],
                       ![d] = [@ EXCEPT !.assigned = TRUE, !.number = cp.number]]
    ELSE [c EXCEPT ![d] = [@ EXCEPT !.assigned = TRUE, !.number = 0]]

\* All that devices with the number of d, and its mouse emulation, hold
Fused(d, c) ==
    LET fusedWith == {e \in Inputs \cup Usb :
                        /\ c[e].listed /\ c[e].assigned
                        /\ c[e].number = c[d].number
                        /\ c[e].emulating = c[d].emulating}
    IN  (UNION {c[e].inputMap : e \in fusedWith})
          \cup (IF c[d].number = 0 THEN c[Osc].inputMap ELSE {})

\* The packet sendControllerInputPacket makes of the contexts c for d, with
\* the mouse button that follows A while d emulates a mouse
Fuse(t, d, c, mask) ==
    LET map == Fused(d, c)
        mouse == IF ~c[d].emulating \/ (A \in map) = (A \in c[d].lastMap) THEN "none"
                 ELSE IF A \in map THEN "down" ELSE "up"
    IN  /\ contexts' = IF c[d].emulating THEN [c EXCEPT ![d].lastMap = map] ELSE c
        /\ job' = [job EXCEPT ![t] =
                     [NoJob EXCEPT !.number = c[d].number,
                                   !.mask = mask,
                                   !.flags = IF c[d].emulating THEN {} ELSE map,
                                   !.mouse = mouse]]
        /\ pc' = [pc EXCEPT ![t] = "send"]

\* sendControllerInputPacket for d on thread t, as far as the next step of the
\* others matters: up to the mask it read, or up to the packet
SendPacket(t, d, c) ==
    LET r == Reserver(d, c)
    IN  IF r # None
        THEN /\ contexts' = IF c[r].listed THEN c ELSE [c EXCEPT ![r] = NewContext]
             /\ job' = [job EXCEPT ![t] = [NoJob EXCEPT !.dev = r, !.sender = d,
                                                        !.seen = currentControllers]]
             /\ pc' = [pc EXCEPT ![t] = "reserve"]
             /\ UNCHANGED host
        ELSE LET mask == ActiveMask(currentControllers, initialControllers)
             IN  IF c[d].assigned
                 THEN Fuse(t, d, c, mask) /\ UNCHANGED host
                 ELSE Fuse(t, d, AssignPlain(d, c), mask) /\ host' = Told(host, mask)

\* The number found, the first that is free, is stored into the mask that was
\* read, or into the mask as it is by now; the arrival is reported and the
\* packet made.  Without a free number the device is an unreserved 0.
Reserve(t) ==
    LET dev == job[t].dev
        sender == job[t].sender
        free == FirstFree(job[t].seen)
        n == IF free = {} THEN 0 ELSE CHOOSE i \in free : TRUE
        c == [contexts EXCEPT ![dev] = [@ EXCEPT !.assigned = TRUE, !.number = n,
                                                 !.reserved = free # {}]]
        both == IF sender = dev THEN c
                ELSE [c EXCEPT ![sender] = [@ EXCEPT !.assigned = TRUE, !.number = n]]
    IN  /\ pc[t] = "reserve"
        /\ IF free = {}
           THEN UNCHANGED maskVars
           ELSE /\ \E mask \in {job[t].seen, currentControllers} :
                      currentControllers' = mask \cup {n}
                /\ initialControllers' = initialControllers \ {n}
        /\ LET mask == ActiveMask(currentControllers', initialControllers')
           IN  /\ host' = Told(host, mask)
               /\ Fuse(t, sender, both, mask)
        /\ UNCHANGED <<prefVars, worldVars, stopped, usbVars>>

\* The packet reaches the connection
Send(t) ==
    /\ pc[t] = "send"
    /\ LET j == job[t]
           h == ToldInput(host, j.number, j.mask, j.flags)
       IN  host' = IF j.mouse = "none" THEN h ELSE [h EXCEPT !.mouse = j.mouse]
    /\ pc' = [pc EXCEPT ![t] = "idle"]
    /\ job' = [job EXCEPT ![t] = NoJob]
    /\ UNCHANGED <<prefVars, worldVars, contexts, maskVars, stopped, usbVars>>

-----------------------------------------------------------------------------
(* Input devices, on the main thread *)

\* The devices that are plugged in and out together
Unit(d) == {d} \cup {e \in Touchpads : Joystick[e] = d}
Roots == party \cap (Pads \cup {e \in Touchpads : Joystick[e] = None} \cup Usb)

MainFree == pc[Main] = "idle" /\ leaving = {} /\ service # "stopping"

\* handleButtonDown and handleButtonUp: a key event of an input device changes
\* its context, which exists from its first event on; with Start held long,
\* releasing it toggles the mouse emulation before the button comes up.  After
\* stop there is no context and nothing happens.
KeyEvent(d, buttons) ==
    /\ MainFree
    /\ ~stopped
    /\ d \in attached \cap Inputs
    /\ buttons # held[d]
    /\ held' = [held EXCEPT ![d] = buttons]
    /\ LET c == IF contexts[d].listed THEN contexts[d] ELSE NewContext
           map == (c.inputMap \cup (buttons \ held[d])) \ (held[d] \ buttons)
       IN  \E toggle \in {FALSE, (Start \in c.inputMap \ map)} :
              SendPacket(Main, d,
                 [contexts EXCEPT ![d] =
                    [c EXCEPT !.inputMap = map, !.emulating = (c.emulating # toggle)]])
    /\ UNCHANGED <<prefVars, attached, leaving, events, maskVars, stopped, usbVars>>

KeyDown(d, b) == b \notin held[d] /\ KeyEvent(d, held[d] \cup {b})
KeyUp(d, b) == b \in held[d] /\ KeyEvent(d, held[d] \ {b})

\* reportOscState: the on-screen controls sent their state, or sent it again
ReportOsc(flags) ==
    /\ MainFree
    /\ onscreen = "gamepad"
    /\ held' = [held EXCEPT ![Osc] = flags]
    /\ SendPacket(Main, Osc, [contexts EXCEPT ![Osc].inputMap = flags])
    /\ UNCHANGED <<prefVars, attached, leaving, events, maskVars, stopped, usbVars>>

\* A device is plugged in.  What is not for the USB driver speaks up with its
\* first key event; the broadcast for a USB device is handled a second later.
Plug(d) ==
    /\ Event
    /\ d \in Roots /\ d \notin attached
    /\ d \in Usb => driver[d] = "none" /\ pc[d] = "idle"
    /\ leaving \cap Unit(d) = {}
    /\ attached' = attached \cup Unit(d)
    /\ arriving' = IF d \in Usb /\ service = "running" THEN arriving \cup {d} ELSE arriving
    /\ UNCHANGED <<prefVars, leaving, held, contexts, maskVars, stopped, pc, job,
                   service, asking, claimed, driver, host>>

\* A device is plugged out: the main thread hears of all its input devices in
\* one go, unless it listens no more; the thread of a USB device finds out
Unplug(d) ==
    /\ Event
    /\ d \in Roots \cap attached
    /\ d \in Inputs => MainFree
    /\ attached' = attached \ Unit(d)
    /\ leaving' = IF d \in Inputs /\ ~stopped THEN Unit(d) ELSE leaving
    /\ held' = [e \in Devices |-> IF e \in Unit(d) THEN {} ELSE held[e]]
    /\ UNCHANGED <<prefVars, contexts, maskVars, stopped, pc, job, usbVars, host>>

\* releaseControllerNumber, first half: the mask is read
Release(t, d) ==
    /\ pc' = [pc EXCEPT ![t] = "release"]
    /\ job' = [job EXCEPT ![t] = [NoJob EXCEPT !.dev = d, !.number = contexts[d].number,
                                               !.seen = currentControllers]]

\* onInputDeviceRemoved
InputDeviceRemoved(d) ==
    /\ pc[Main] = "idle"
    /\ d \in leaving
    /\ leaving' = leaving \ {d}
    /\ IF contexts[d].listed THEN Release(Main, d) ELSE UNCHANGED <<pc, job>>
    /\ UNCHANGED <<prefVars, attached, held, events, contexts, maskVars, stopped, usbVars, host>>

\* The rest of releaseControllerNumber, for removed input devices and for USB:
\* without its number in the mask the host removes the controller that is
\* zeroed.  Then the context is destroyed and removed; a USB thread that is
\* sending still refers to it.
Released(t) ==
    LET d == job[t].dev
        c == contexts[d]
    IN  /\ pc[t] = "release"
        /\ IF c.reserved
           THEN \E mask \in {job[t].seen, currentControllers} :
                   currentControllers' = mask \ {c.number}
           ELSE UNCHANGED currentControllers
        /\ host' = Zeroed(host, c, initialControllers)
        /\ contexts' = [contexts EXCEPT ![d] =
                          IF d \in Usb \ {t} /\ pc[d] # "idle"
                          THEN [c EXCEPT !.listed = FALSE, !.emulating = FALSE]
                          ELSE NoContext]
        /\ pc' = [pc EXCEPT ![t] = "idle"]
        /\ job' = [job EXCEPT ![t] = NoJob]
        /\ UNCHANGED <<prefVars, worldVars, initialControllers, stopped, usbVars>>

\* onInputDeviceChanged, migrateContext: the new context takes the number over,
\* but neither the buttons nor the mouse emulation
InputDeviceChanged(d) ==
    /\ Event
    /\ MainFree
    /\ ~stopped
    /\ d \in attached \cap Inputs
    /\ contexts[d].listed
    /\ contexts' = [contexts EXCEPT ![d] =
                      [NewContext EXCEPT !.assigned = contexts[d].assigned,
                                         !.reserved = contexts[d].reserved,
                                         !.number = contexts[d].number]]
    /\ UNCHANGED <<prefVars, attached, leaving, held, maskVars, stopped, pc, job, usbVars, host>>

\* ControllerHandler.stop: listens no more; every context is destroyed (which
\* ends its mouse emulation) and stays in its array
Stop ==
    /\ pc[Main] = "idle"
    /\ ~stopped
    /\ stopped' = TRUE
    /\ leaving' = {}
    /\ contexts' = [d \in Devices |-> IF contexts[d].listed
                                     THEN [contexts[d] EXCEPT !.emulating = FALSE]
                                     ELSE contexts[d]]
    /\ UNCHANGED <<prefVars, attached, held, events, maskVars, pc, job, usbVars, host>>

-----------------------------------------------------------------------------
(* The USB driver *)

\* handleUsbDeviceState: without a permission the user is asked for it.  With
\* it, the device is opened, its input thread started, and the controller is in
\* the list, unless the device is gone or one of these fails.  A new controller
\* object has a new id, and so no context.
Claim(opened) ==
    /\ claimed' = claimed \cup opened
    /\ driver' = [u \in Usb |-> IF u \in opened THEN "starting" ELSE driver[u]]
    /\ contexts' = [d \in Devices |-> IF d \in opened THEN NoContext ELSE contexts[d]]

HandleUsbDeviceState(devices) ==
    \E opened, asked \in SUBSET {u \in devices \cap attached : driver[u] = "none"} :
        /\ opened \cap asked = {}
        /\ asking' = asking \cup asked
        /\ Claim(opened)

\* onServiceConnected: the listener is set and the service started, which
\* enumerates the devices that are attached
ServiceConnected ==
    /\ MainFree
    /\ service = "bound"
    /\ service' = "running"
    /\ HandleUsbDeviceState(Usb)
    /\ UNCHANGED <<prefVars, worldVars, maskVars, stopped, pc, job, arriving, host>>

\* The Runnable posted for an attached device: nobody removes it
HandleArrival(u) ==
    /\ MainFree
    /\ u \in arriving
    /\ arriving' = arriving \ {u}
    /\ HandleUsbDeviceState({u})
    /\ UNCHANGED <<prefVars, worldVars, maskVars, stopped, pc, job, service, host>>

\* ACTION_USB_PERMISSION, while the receiver is registered: granted, the device
\* is handled again
PermissionAnswered(u) ==
    /\ MainFree
    /\ service = "running"
    /\ u \in asking
    /\ asking' = asking \ {u}
    /\ \E opened \in SUBSET ({u} \cap {v \in attached \cap Usb : driver[v] = "none"}) : Claim(opened)
    /\ UNCHANGED <<prefVars, worldVars, maskVars, stopped, pc, job, service, arriving, host>>

\* The input thread after its first second: notifyDeviceAdded, with no effect
\* if nobody listens
UsbAdded(u) ==
    /\ driver[u] = "starting"
    /\ driver' = [driver EXCEPT ![u] = "running"]
    /\ contexts' = IF service # "destroyed" /\ ~stopped
                   THEN [contexts EXCEPT ![u] = NewContext] ELSE contexts
    /\ UNCHANGED <<prefVars, worldVars, maskVars, stopped, pc, job, service, arriving,
                   asking, claimed, host>>

\* reportControllerState: input was read.  ControllerHandler does not ask
\* whether it was stopped.
UsbReport(u, flags) ==
    /\ driver[u] = "running" /\ pc[u] = "idle"
    /\ u \in attached
    /\ held' = [held EXCEPT ![u] = flags]
    /\ IF service # "destroyed" /\ contexts[u].listed
       THEN SendPacket(u, u, [contexts EXCEPT ![u].inputMap = flags])
       ELSE UNCHANGED <<contexts, pc, job, host>>
    /\ UNCHANGED <<prefVars, attached, leaving, events, maskVars, stopped, usbVars>>

\* Mutant: the input thread ends without a word
UsbFailedQuietly(u) ==
    /\ driver[u] = "running" /\ pc[u] = "idle"
    /\ u \notin attached
    /\ driver' = [driver EXCEPT ![u] = "none"]
    /\ claimed' = claimed \ {u}
    /\ UNCHANGED <<prefVars, worldVars, contexts, maskVars, stopped, pc, job, service,
                   arriving, asking, host>>

\* The transfer failed at once: the device is gone, and its own thread stops
\* the controller
UsbFailed(u) ==
    /\ driver[u] = "running" /\ pc[u] = "idle"
    /\ u \notin attached
    /\ driver' = [driver EXCEPT ![u] = "none"]
    /\ claimed' = claimed \ {u}
    /\ IF service # "destroyed" /\ contexts[u].listed
       THEN Release(u, u) ELSE UNCHANGED <<pc, job>>
    /\ UNCHANGED <<prefVars, worldVars, contexts, maskVars, stopped, service, arriving,
                   asking, host>>

\* Game.onDestroy stops ControllerHandler and unbinds; UsbDriverService.stop
\* takes each controller from the list and stops it
Unbind ==
    /\ MainFree
    /\ stopped
    /\ service' = IF service = "running" THEN "stopping" ELSE "destroyed"
    /\ service \in {"bound", "running"}
    /\ UNCHANGED <<prefVars, worldVars, contexts, maskVars, stopped, pc, job,
                   arriving, asking, claimed, driver, host>>

StopController(u) ==
    /\ service = "stopping" /\ pc[Main] = "idle"
    /\ u \in claimed
    /\ claimed' = claimed \ {u}
    /\ driver' = [driver EXCEPT ![u] = "none"]
    /\ IF contexts[u].listed
       THEN Release(Main, u) ELSE UNCHANGED <<pc, job>>
    /\ UNCHANGED <<prefVars, worldVars, contexts, maskVars, stopped, service, arriving,
                   asking, host>>

\* The end of UsbDriverService.onDestroy: no listener any more
ServiceDestroyed ==
    /\ service = "stopping" /\ pc[Main] = "idle"
    /\ claimed = {}
    /\ service' = "destroyed"
    /\ UNCHANGED <<prefVars, worldVars, contexts, maskVars, stopped, pc, job,
                   arriving, asking, claimed, driver, host>>

-----------------------------------------------------------------------------
Init ==
    /\ party \in Parties
    /\ multiController \in BOOLEAN
    /\ onscreen \in IF Osc \in party THEN {"gamepad"} ELSE {"off", "keyboard"}
    /\ \E roots \in SUBSET Roots :
          attached = (Builtins \cap party) \cup UNION {Unit(d) : d \in roots}
    /\ leaving = {}
    /\ held = [d \in Devices |-> {}]
    /\ contexts = [d \in Devices |->
                     IF d = Osc THEN [NoContext EXCEPT !.assigned = TRUE] ELSE NoContext]
    /\ currentControllers = {}
    /\ initialControllers = AttachedMask(attached)
    /\ stopped = FALSE
    /\ pc = [t \in Threads |-> "idle"]
    /\ job = [t \in Threads |-> NoJob]
    /\ service = "bound"
    /\ arriving = {}
    /\ asking = {}
    /\ claimed = {}
    /\ driver = [u \in Usb |-> "none"]
    /\ host = [mask |-> ActiveMask({}, AttachedMask(attached)),
               pressed |-> [n \in Numbers |-> {}],
               mouse |-> "up"]
    /\ raced = FALSE
    /\ events = 0

ThreadStep(t) == Reserve(t) \/ Send(t) \/ Released(t)

Step ==
    \/ \E t \in Threads : ThreadStep(t)
    \/ \E d \in Inputs, b \in {A, Start} :
          b \in ButtonsOf(d) /\ (KeyDown(d, b) \/ KeyUp(d, b))
    \/ \E flags \in SUBSET ButtonsOf(Osc) : ReportOsc(flags)
    \/ \E d \in Devices : Plug(d) \/ Unplug(d)
    \/ \E d \in Inputs : InputDeviceRemoved(d) \/ InputDeviceChanged(d)
    \/ Stop
    \/ ServiceConnected \/ Unbind \/ ServiceDestroyed
    \/ \E u \in Usb :
          \/ HandleArrival(u) \/ PermissionAnswered(u)
          \/ UsbAdded(u) \/ UsbFailed(u) \/ StopController(u)
          \/ \E flags \in SUBSET ButtonsOf(u) : UsbReport(u, flags)

\* Two threads are between a read of the mask and its use, or about to tell the
\* host of the same number
Conflict ==
    \E s, t \in Threads :
        /\ s # t
        /\ pc[s] # "idle" /\ pc[t] # "idle"
        /\ pc[s] \in {"reserve", "release"} \/ job[s].number = job[t].number

Next == Step /\ raced' = (raced \/ Conflict')

Spec == Init /\ [][Next]_vars

\* Every thread goes on; the main thread handles the removals it was told of,
\* a USB thread wakes up and notices that its device is gone
Fairness ==
    /\ \A t \in Threads : WF_vars(ThreadStep(t) /\ raced' = (raced \/ Conflict'))
    /\ \A d \in Inputs : WF_vars(InputDeviceRemoved(d) /\ raced' = (raced \/ Conflict'))
    /\ \A u \in Usb : WF_vars((UsbAdded(u) \/ UsbFailed(u)) /\ raced' = (raced \/ Conflict'))

FairSpec == Spec /\ Fairness

-----------------------------------------------------------------------------
(* Properties *)

Context == [listed : BOOLEAN, assigned : BOOLEAN, reserved : BOOLEAN, number : Numbers,
            inputMap : SUBSET {A, Start}, emulating : BOOLEAN, lastMap : SUBSET {A, Start}]
Job == [dev : Devices \cup {None}, sender : Devices \cup {None}, seen : SUBSET Numbers,
        number : Numbers, mask : SUBSET Numbers, flags : SUBSET {A, Start},
        mouse : {"none", "down", "up"}]

\* The type of the state; and only input devices emulate a mouse, only pads and
\* USB controllers reserve a number (assignControllerNumberIfNeeded).
TypeOK ==
    /\ party \in Parties /\ multiController \in BOOLEAN
    /\ onscreen \in {"off", "gamepad", "keyboard"}
    /\ attached \subseteq Inputs \cup Usb
    /\ leaving \subseteq Inputs \ attached
    /\ held \in [Devices -> SUBSET {A, Start}]
    /\ contexts \in [Devices -> Context]
    /\ currentControllers \subseteq Numbers /\ initialControllers \subseteq Numbers
    /\ stopped \in BOOLEAN
    /\ pc \in [Threads -> {"idle", "reserve", "send", "release"}]
    /\ job \in [Threads -> Job]
    /\ service \in {"bound", "running", "stopping", "destroyed"}
    /\ arriving \subseteq Usb /\ asking \subseteq Usb /\ claimed \subseteq Usb
    /\ driver \in [Usb -> {"none", "starting", "running"}]
    /\ host \in [mask : SUBSET Numbers, pressed : [Numbers -> SUBSET {A, Start}],
                  mouse : {"up", "down"}]
    /\ raced \in BOOLEAN
    /\ events \in 0 .. MaxEvents
    /\ \A d \in Devices :
          /\ contexts[d].emulating => d \in Inputs
          /\ contexts[d].reserved => d \in Pads \cup Usb

Reserving == {d \in Devices : contexts[d].listed /\ contexts[d].reserved}
Idle == leaving = {} /\ \A t \in Threads : pc[t] = "idle"

\* "Found an unused controller value" (ControllerHandler.java:473): two contexts
\* never have the same reserved number.
UniqueNumbers ==
    \A d, e \in Reserving : d # e => contexts[d].number # contexts[e].number

\* As long as two threads did not cross, numbers are unique and the mask has
\* exactly the reserved numbers: none leaks with a device that is removed,
\* changed or stopped, and none is given back while in use.
MaskExact ==
    ~raced => /\ UniqueNumbers
              /\ currentControllers = {contexts[d].number : d \in Reserving}

\* The numbers, with the types.
NumbersSound == TypeOK /\ MaskExact

\* As long as two threads did not cross, and once nobody is sending, the host
\* has the mask ControllerHandler has: no change of it goes without a packet.
HostAgrees ==
    Idle /\ ~raced => host.mask = ActiveMask(currentControllers, initialControllers)

\* No hand on any device, and the application knows
Untouched ==
    /\ Idle /\ ~stopped
    /\ \A d \in Devices : held[d] = {}
    /\ \A u \in Usb : driver[u] = "running" => u \in attached

\* Nothing stays pressed on the host that nobody holds, for devices that were
\* removed, changed, fused or switched to mouse emulation while buttons were
\* down, as long as two threads did not cross.
GamepadReleased ==
    Untouched /\ ~raced => \A n \in Numbers : host.pressed[n] = {}

\* A device that was plugged out is given up, with its number, unless it comes
\* back first or ControllerHandler is stopped.
UnplugReleases ==
    \A d \in Pads \cup Touchpads \cup Usb :
        d \notin attached ~> d \in attached \/ ~contexts[d].listed \/ stopped
=============================================================================
