------------------------- MODULE ControllersProof -------------------------
(***************************************************************************)
(* Proofs about Controllers, for any devices, any number of gamepads and   *)
(* any sets of devices that are there together: types, the numbers and the *)
(* mask, that the host has the mask of the application, and that nothing   *)
(* stays pressed on it that nobody holds.                                  *)
(***************************************************************************)
EXTENDS Controllers, TLAPS

Host == [mask : SUBSET Numbers, pressed : [Numbers -> SUBSET {A, Start}], mouse : {"up", "down"}]

\* What holds of every context, whatever the threads do: the default context
\* has its number from the start.
Sane(c) ==
    /\ c \in [Devices -> Context]
    /\ \A d \in Devices :
          /\ c[d].emulating => d \in Inputs
          /\ c[d].reserved => d \in Pads \cup Usb /\ c[d].assigned
    /\ c[Osc].assigned /\ c[Osc].number = 0

WorldTyped ==
    /\ party \in Parties /\ multiController \in BOOLEAN
    /\ onscreen \in {"off", "gamepad", "keyboard"}
    /\ attached \subseteq Inputs \cup Usb
    /\ leaving \subseteq Inputs \ attached
    /\ held \in [Devices -> SUBSET {A, Start}]
    /\ stopped \in BOOLEAN /\ raced \in BOOLEAN
    /\ events \in 0 .. MaxEvents

MaskTyped == currentControllers \subseteq Numbers /\ initialControllers \subseteq Numbers

\* What a thread has in its hands when it reserves, and when it releases
Reserves(t, j) ==
    /\ j.dev \in Pads \cup Usb /\ j.sender \in Inputs \cup Usb
    /\ IF t = Main THEN j.dev \in Pads /\ j.sender \in Inputs ELSE j.dev = t /\ j.sender = t
Releases(t, j) ==
    /\ j.dev \in Inputs \cup Usb
    /\ t # Main => j.dev = t

JobsTyped ==
    /\ pc \in [Threads -> {"idle", "reserve", "send", "release"}]
    /\ job \in [Threads -> Job]
    /\ \A t \in Threads : /\ pc[t] = "reserve" => Reserves(t, job[t])
                          /\ pc[t] = "release" => Releases(t, job[t])

UsbTyped ==
    /\ service \in {"bound", "running", "stopping", "destroyed"}
    /\ arriving \subseteq Usb /\ asking \subseteq Usb
    /\ driver \in [Usb -> {"none", "starting", "running"}]
    /\ claimed = {u \in Usb : driver[u] # "none"}
    /\ service = "stopping" => stopped

TypeInv == WorldTyped /\ Sane(contexts) /\ MaskTyped /\ JobsTyped /\ UsbTyped /\ host \in Host

LEMMA TypeParts == TypeInv => TypeOK
  BY DEF TypeInv, TypeOK, WorldTyped, Sane, MaskTyped, JobsTyped, UsbTyped, Host

\* Zero is a number, and the kinds of devices are told apart.
LEMMA Kinds ==
    /\ 0 \in Numbers /\ Osc \in Devices /\ Osc \notin Inputs \cup Usb
    /\ Main \notin Usb /\ Main \in Threads /\ Usb \subseteq Threads
    /\ Inputs \cap Usb = {} /\ Pads \subseteq Inputs
    /\ None \notin Devices
  BY ControllersAssumption DEF Numbers, Devices, Inputs, Threads

-----------------------------------------------------------------------------
(* The mask and the host *)

LEMMA ActiveMaskTyped ==
    ASSUME NEW current \in SUBSET Numbers, NEW initial \in SUBSET Numbers
    PROVE  ActiveMask(current, initial) \in SUBSET Numbers
  BY Kinds DEF ActiveMask

\* The host takes the mask it is told, and forgets what is not in it.
LEMMA ToldTyped ==
    ASSUME NEW h \in Host, NEW mask \in SUBSET Numbers
    PROVE  /\ Told(h, mask) \in Host /\ Told(h, mask).mask = mask
           /\ \A n \in Numbers : Told(h, mask).pressed[n] \in {h.pressed[n], {}}
  <1> DEFINE p == [n \in Numbers |-> IF n \in mask THEN h.pressed[n] ELSE {}]
  <1>1. p \in [Numbers -> SUBSET {A, Start}] /\ \A n \in Numbers : p[n] \in {h.pressed[n], {}}
    BY DEF Host
  <1>2. Told(h, mask) = [h EXCEPT !.mask = mask, !.pressed = p]
    BY DEF Told
  <1> HIDE DEF p
  <1>3. Told(h, mask) \in Host /\ Told(h, mask).mask = mask /\ Told(h, mask).pressed = p
    BY <1>1, <1>2 DEF Host
  <1> QED
    BY <1>1, <1>3

\* A packet changes the mask, and what is pressed for its number.
LEMMA ToldInputTyped ==
    ASSUME NEW h \in Host, NEW n \in Numbers, NEW mask \in SUBSET Numbers, NEW flags \in SUBSET {A, Start}
    PROVE  /\ ToldInput(h, n, mask, flags) \in Host /\ ToldInput(h, n, mask, flags).mask = mask
           /\ ToldInput(h, n, mask, flags).pressed[n] \in {flags, {}}
           /\ \A m \in Numbers \ {n} : ToldInput(h, n, mask, flags).pressed[m] \in {h.pressed[m], {}}
  <1> DEFINE t == Told(h, mask)
             f == IF n \in mask THEN flags ELSE {}
  <1>1. t \in Host /\ t.mask = mask /\ \A m \in Numbers : t.pressed[m] \in {h.pressed[m], {}}
    BY ToldTyped
  <1>2. f \in {flags, {}} /\ f \in SUBSET {A, Start}
    OBVIOUS
  <1>3. ToldInput(h, n, mask, flags) = [t EXCEPT !.pressed[n] = f]
    BY DEF ToldInput
  <1> HIDE DEF t, f
  <1>4. /\ [t EXCEPT !.pressed[n] = f] \in Host /\ [t EXCEPT !.pressed[n] = f].mask = t.mask
        /\ [t EXCEPT !.pressed[n] = f].pressed[n] = f
        /\ \A m \in Numbers \ {n} : [t EXCEPT !.pressed[n] = f].pressed[m] = t.pressed[m]
    BY <1>1, <1>2 DEF Host
  <1> QED
    BY <1>1, <1>2, <1>3, <1>4

\* The packet that ends a release zeroes the number.
LEMMA ZeroedTyped ==
    ASSUME host \in Host, MaskTyped, MaskTyped', NEW c \in Context
    PROVE  LET mask == ActiveMask(currentControllers', initialControllers)
           IN  /\ Zeroed(host, c, initialControllers) \in Host
               /\ IF c.assigned
                  THEN /\ Zeroed(host, c, initialControllers).mask = mask
                       /\ Zeroed(host, c, initialControllers).pressed[c.number] = {}
                       /\ \A m \in Numbers \ {c.number} :
                             Zeroed(host, c, initialControllers).pressed[m] \in {host.pressed[m], {}}
                  ELSE Zeroed(host, c, initialControllers) = host
  <1> DEFINE mask == ActiveMask(currentControllers', initialControllers)
  <1>1. mask \in SUBSET Numbers
    BY ActiveMaskTyped DEF MaskTyped
  <1>2. c.number \in Numbers
    BY DEF Context
  <1>3. CASE c.assigned
    <2>1. Zeroed(host, c, initialControllers) = ToldInput(host, c.number, mask, {})
      BY <1>3 DEF Zeroed
    <2> HIDE DEF mask
    <2>2. {} \in SUBSET {A, Start}
      OBVIOUS
    <2>3. /\ ToldInput(host, c.number, mask, {}) \in Host /\ ToldInput(host, c.number, mask, {}).mask = mask
          /\ ToldInput(host, c.number, mask, {}).pressed[c.number] \in {{}, {}}
          /\ \A m \in Numbers \ {c.number} :
                ToldInput(host, c.number, mask, {}).pressed[m] \in {host.pressed[m], {}}
      BY <1>1, <1>2, <2>2, ToldInputTyped
    <2> QED
      BY <1>3, <2>1, <2>3 DEF mask
  <1>4. CASE ~c.assigned
    BY <1>4 DEF Zeroed
  <1> QED
    BY <1>3, <1>4
-----------------------------------------------------------------------------
(* A packet *)

\* The fields of two contexts agree, but for the buttons last seen.
Alike(x, y) ==
    /\ y.listed = x.listed /\ y.assigned = x.assigned /\ y.reserved = x.reserved
    /\ y.number = x.number /\ y.inputMap = x.inputMap /\ y.emulating = x.emulating

\* One of the devices with the number holds something.
Fed(c, n) ==
    \E e \in Devices : /\ c[e].inputMap # {} /\ c[e].assigned /\ c[e].number = n
                       /\ c[e].listed \/ e = Osc

\* The devices whose buttons are fused with those of d.
FusedWith(d, c) ==
    {e \in Inputs \cup Usb : /\ c[e].listed /\ c[e].assigned
                             /\ c[e].number = c[d].number
                             /\ c[e].emulating = c[d].emulating}
Maps(d, c) == {c[e].inputMap : e \in FusedWith(d, c)}
OscMap(d, c) == IF c[d].number = 0 THEN c[Osc].inputMap ELSE {}

\* A button that is fused is one of theirs, or of the on-screen controls.
LEMMA FusedButton ==
    ASSUME NEW c, NEW d, NEW b \in Fused(d, c)
    PROVE  b \in OscMap(d, c) \/ \E e \in FusedWith(d, c) : b \in c[e].inputMap
  <1>1. Fused(d, c) = (UNION Maps(d, c)) \cup OscMap(d, c)
    BY DEF Fused, Maps, FusedWith, OscMap
  <1>2. ASSUME NEW m \in Maps(d, c), b \in m PROVE \E e \in FusedWith(d, c) : b \in c[e].inputMap
    BY <1>2 DEF Maps
  <1>3. b \in UNION Maps(d, c) \/ b \in OscMap(d, c)
    BY <1>1
  <1>4. CASE b \in UNION Maps(d, c)
    <2>1. PICK m \in Maps(d, c) : b \in m
      BY <1>4
    <2> QED
      BY <1>2, <2>1
  <1> QED
    BY <1>3, <1>4

\* What is fused for a device is held by some device with its number.
LEMMA FusedFed ==
    ASSUME NEW c, Sane(c), NEW d \in Devices
    PROVE  Fused(d, c) \in SUBSET {A, Start} /\ (Fused(d, c) # {} => Fed(c, c[d].number))
  <1>1. \A e \in FusedWith(d, c) : e \in Devices /\ c[e].inputMap \in SUBSET {A, Start}
    BY DEF Sane, Context, Devices, FusedWith
  <1>2. OscMap(d, c) \in SUBSET {A, Start}
    BY Kinds DEF Sane, Context, OscMap
  <1>3. ASSUME NEW e \in FusedWith(d, c), c[e].inputMap # {} PROVE Fed(c, c[d].number)
    BY <1>1, <1>3 DEF Fed, FusedWith
  <1>4. OscMap(d, c) # {} => Fed(c, c[d].number)
    BY Kinds DEF Fed, OscMap, Sane
  <1>5. Fused(d, c) \in SUBSET {A, Start}
    BY <1>1, <1>2, FusedButton
  <1>6. ASSUME NEW b \in Fused(d, c) PROVE Fed(c, c[d].number)
    <2>1. CASE b \in OscMap(d, c)
      BY <1>4, <2>1
    <2>2. CASE \E e \in FusedWith(d, c) : b \in c[e].inputMap
      BY <1>3, <2>2
    <2> QED
      BY <1>6, <2>1, <2>2, FusedButton
  <1> QED
    BY <1>5, <1>6

\* What a thread that sends has in its hands.
Sending(n, mask, flags, mouse) ==
    [NoJob EXCEPT !.number = n, !.mask = mask, !.flags = flags, !.mouse = mouse]

LEMMA SendingJob ==
    ASSUME NEW n \in Numbers, NEW mask \in SUBSET Numbers, NEW flags \in SUBSET {A, Start},
           NEW mouse \in {"none", "down", "up"}
    PROVE  LET j == Sending(n, mask, flags, mouse)
           IN  j \in Job /\ j.number = n /\ j.mask = mask /\ j.flags = flags
  <1> DEFINE j == Sending(n, mask, flags, mouse)
  <1>1. NoJob \in Job
    BY Kinds DEF NoJob, Job
  <1>2. j \in Job
    BY <1>1 DEF Sending, Job
  <1>3. j.number = n /\ j.mask = mask /\ j.flags = flags
    BY <1>1 DEF Sending, Job
  <1> QED
    BY <1>2, <1>3

\* The thread has a packet for the device in its hands, made of the contexts c.
Packed(t, d, c, mask) ==
    /\ Sane(contexts') /\ \A e \in Devices : Alike(c[e], contexts'[e])
    /\ pc' = [pc EXCEPT ![t] = "send"]
    /\ \E j \in Job : /\ job' = [job EXCEPT ![t] = j]
                      /\ j.number = c[d].number /\ j.mask = mask
                      /\ j.flags # {} => Fed(c, c[d].number)

LEMMA FusePacked ==
    ASSUME NEW c, Sane(c), NEW t \in Threads, NEW d \in Devices, NEW mask \in SUBSET Numbers,
           Fuse(t, d, c, mask)
    PROVE  Packed(t, d, c, mask)
  <1> DEFINE map == Fused(d, c)
             mouse == IF ~c[d].emulating \/ (A \in map) = (A \in c[d].lastMap) THEN "none"
                      ELSE IF A \in map THEN "down" ELSE "up"
             flags == IF c[d].emulating THEN {} ELSE map
             j == Sending(c[d].number, mask, flags, mouse)
  <1>1. map \in SUBSET {A, Start} /\ (map # {} => Fed(c, c[d].number))
    BY FusedFed
  <1>2. /\ contexts' = IF c[d].emulating THEN [c EXCEPT ![d].lastMap = map] ELSE c
        /\ job' = [job EXCEPT ![t] = j] /\ pc' = [pc EXCEPT ![t] = "send"]
    BY DEF Fuse, Sending
  <1>3. c[d] \in Context /\ c[d].number \in Numbers
    BY DEF Sane, Context
  <1>4. mouse \in {"none", "down", "up"}
    OBVIOUS
  <1>5. flags \in SUBSET {A, Start} /\ (flags # {} => Fed(c, c[d].number))
    BY <1>1
  <1> HIDE DEF map, mouse, flags
  <1>6. j \in Job /\ j.number = c[d].number /\ j.mask = mask /\ j.flags = flags
    BY <1>3, <1>4, <1>5, SendingJob
  <1> HIDE DEF j
  <1>7. Sane(contexts') /\ \A e \in Devices : Alike(c[e], contexts'[e])
    <2>1. CASE c[d].emulating
      <3> DEFINE x == [c[d] EXCEPT !.lastMap = map]
      <3>1. x \in Context /\ Alike(c[d], x)
        BY <1>1, <1>3 DEF Context, Alike
      <3>2. contexts' = [c EXCEPT ![d] = x]
        BY <1>2, <2>1
      <3> HIDE DEF x
      <3>3. contexts' \in [Devices -> Context]
        BY <3>1, <3>2 DEF Sane
      <3>4. \A e \in Devices : Alike(c[e], contexts'[e])
        BY <3>1, <3>2 DEF Sane, Alike
      <3> QED
        BY <3>3, <3>4, Kinds DEF Sane, Alike
    <2>2. CASE ~c[d].emulating
      BY <1>2, <2>2 DEF Alike
    <2> QED
      BY <2>1, <2>2
  <1> QED
    BY <1>2, <1>5, <1>6, <1>7 DEF Packed
-----------------------------------------------------------------------------
(* A packet before it is made: who gets a number *)

\* What a context may become when numbers are given: it may be listed now, and
\* what has a number keeps it.
Kept(x, y) ==
    /\ x.listed => y.listed
    /\ x.listed = y.listed => /\ y.reserved = x.reserved /\ y.inputMap = x.inputMap
                              /\ x.assigned => y.assigned /\ y.number = x.number
    /\ x.listed # y.listed => ~y.reserved /\ y.inputMap = {}

Enlisted(c1, c2) ==
    \A e \in Devices : Kept(c1[e], c2[e]) /\ (e \notin Pads => c2[e].listed = c1[e].listed)

LEMMA EnlistedAlike ==
    ASSUME NEW c1, NEW c2, NEW c3, Enlisted(c1, c2), \A e \in Devices : Alike(c2[e], c3[e])
    PROVE  Enlisted(c1, c3)
  BY DEF Enlisted, Alike, Kept

LEMMA FedAlike ==
    ASSUME NEW c1, NEW c2, NEW n, Fed(c1, n), \A e \in Devices : Alike(c1[e], c2[e])
    PROVE  Fed(c2, n)
  BY DEF Fed, Alike

LEMMA NewContexts ==
    /\ NoContext \in Context /\ NewContext \in Context
    /\ ~NoContext.listed /\ NewContext.listed
    /\ \A x \in {NoContext, NewContext} : /\ ~x.assigned /\ ~x.reserved /\ x.number = 0
                                          /\ x.inputMap = {} /\ ~x.emulating
  <1>1. NoContext \in Context
    BY Kinds DEF NoContext, Context
  <1>2. /\ ~NoContext.listed /\ ~NoContext.assigned /\ ~NoContext.reserved /\ NoContext.number = 0
        /\ NoContext.inputMap = {} /\ ~NoContext.emulating
    BY DEF NoContext
  <1>3. /\ NewContext \in Context /\ NewContext.listed
        /\ NewContext.assigned = NoContext.assigned /\ NewContext.reserved = NoContext.reserved
        /\ NewContext.number = NoContext.number /\ NewContext.inputMap = NoContext.inputMap
        /\ NewContext.emulating = NoContext.emulating
    BY <1>1 DEF NewContext, Context
  <1> QED
    BY <1>1, <1>2, <1>3

\* Without a reservation the device, and the joystick it is a part of, are assigned.
LEMMA PlainAssigned ==
    ASSUME NEW c, Sane(c), NEW d \in Devices, ~c[d].assigned, attached \subseteq Inputs \cup Usb
    PROVE  /\ Sane(AssignPlain(d, c)) /\ Enlisted(c, AssignPlain(d, c))
           /\ AssignPlain(d, c)[d].assigned
  <1>1. d # Osc /\ ~c[d].reserved
    BY DEF Sane
  <1>2. CASE d \in Touchpads /\ Joystick[d] \in attached
    <2> DEFINE pad == Joystick[d]
               cp == IF c[pad].listed THEN c[pad] ELSE NewContext
               x == [cp EXCEPT !.assigned = TRUE]
               y == [c[d] EXCEPT !.assigned = TRUE, !.number = cp.number]
    <2>1. pad \in Pads /\ pad # d /\ pad \in Devices /\ pad # Osc
      BY <1>2, Kinds, ControllersAssumption DEF Devices, Inputs
    <2>2. cp \in Context /\ c[d] \in Context
      BY <2>1, NewContexts DEF Sane
    <2>3. /\ cp.listed
          /\ IF c[pad].listed THEN cp = c[pad]
             ELSE ~cp.reserved /\ cp.inputMap = {} /\ ~cp.emulating
      BY NewContexts
    <2> HIDE DEF cp
    <2>4. x \in Context /\ y \in Context
      BY <2>2 DEF Context
    <2>5. /\ x.listed = cp.listed /\ x.assigned /\ x.reserved = cp.reserved /\ x.number = cp.number
          /\ x.inputMap = cp.inputMap /\ x.emulating = cp.emulating
          /\ y.listed = c[d].listed /\ y.assigned /\ y.reserved = c[d].reserved
          /\ y.inputMap = c[d].inputMap /\ y.emulating = c[d].emulating
      BY <2>2 DEF Context
    <2>6. AssignPlain(d, c) = [c EXCEPT ![pad] = x, ![d] = y]
      BY <1>2, <2>1 DEF AssignPlain, cp, Sane
    <2> HIDE DEF x, y, pad
    <2> DEFINE a == AssignPlain(d, c)
    <2>7. /\ a \in [Devices -> Context] /\ a[pad] = x /\ a[d] = y
          /\ \A e \in Devices \ {pad, d} : a[e] = c[e]
      BY <2>1, <2>4, <2>6 DEF Sane
    <2> HIDE DEF a
    <2>8. Kept(c[pad], x) /\ Kept(c[d], y)
      BY <1>1, <2>3, <2>5 DEF Kept
    <2>9. \A e \in Devices \ {pad, d} : Kept(c[e], a[e])
      BY <2>7 DEF Kept
    <2>10. Enlisted(c, a)
      BY <2>1, <2>5, <2>7, <2>8, <2>9 DEF Enlisted
    <2>11. /\ x.emulating => pad \in Inputs
           /\ x.reserved => pad \in Pads
           /\ y.emulating => d \in Inputs
           /\ ~y.reserved
      BY <1>1, <2>1, <2>3, <2>5, Kinds DEF Sane
    <2>12. Sane(a)
      <3>1. a[Osc] = c[Osc]
        BY <1>1, <2>1, <2>7, Kinds
      <3>2. \A e \in Devices \ {pad, d} : /\ a[e].emulating => e \in Inputs
                                          /\ a[e].reserved => e \in Pads \cup Usb /\ a[e].assigned
        BY <2>7 DEF Sane
      <3>3. \A e \in {pad, d} : /\ a[e].emulating => e \in Inputs
                                /\ a[e].reserved => e \in Pads \cup Usb /\ a[e].assigned
        BY <2>5, <2>7, <2>11
      <3>4. \A e \in Devices : /\ a[e].emulating => e \in Inputs
                               /\ a[e].reserved => e \in Pads \cup Usb /\ a[e].assigned
        BY <3>2, <3>3
      <3>5. a \in [Devices -> Context] /\ a[Osc].assigned /\ a[Osc].number = 0
        BY <2>7, <3>1 DEF Sane
      <3> HIDE DEF a
      <3> QED
        BY <3>4, <3>5 DEF Sane
    <2> QED
      BY <2>5, <2>7, <2>10, <2>12 DEF a
  <1>3. CASE ~(d \in Touchpads /\ Joystick[d] \in attached)
    <2> DEFINE y == [c[d] EXCEPT !.assigned = TRUE, !.number = 0]
               a == AssignPlain(d, c)
    <2>1. c[d] \in Context
      BY DEF Sane
    <2>2. /\ y \in Context
          /\ y.listed = c[d].listed /\ y.assigned /\ y.reserved = c[d].reserved
          /\ y.inputMap = c[d].inputMap /\ y.emulating = c[d].emulating
      BY <2>1, Kinds DEF Context
    <2>3. a = [c EXCEPT ![d] = y]
      BY <1>3 DEF AssignPlain
    <2> HIDE DEF y, a
    <2>4. a \in [Devices -> Context] /\ a[d] = y /\ \A e \in Devices \ {d} : a[e] = c[e]
      BY <2>2, <2>3 DEF Sane
    <2>5. Kept(c[d], y) /\ \A e \in Devices \ {d} : Kept(c[e], a[e])
      BY <1>1, <2>2, <2>4 DEF Kept
    <2>6. Enlisted(c, a)
      BY <2>2, <2>4, <2>5 DEF Enlisted
    <2>7. Sane(a)
      <3>1. a[Osc] = c[Osc]
        BY <1>1, <2>4, Kinds
      <3>2. \A e \in Devices \ {d} : /\ a[e].emulating => e \in Inputs
                                     /\ a[e].reserved => e \in Pads \cup Usb /\ a[e].assigned
        BY <2>4 DEF Sane
      <3>3. (a[d].emulating => d \in Inputs) /\ ~a[d].reserved
        BY <1>1, <2>2, <2>4 DEF Sane
      <3> QED
        BY <2>4, <3>1, <3>2, <3>3 DEF Sane
    <2> QED
      BY <2>2, <2>4, <2>6, <2>7 DEF a
  <1> QED
    BY <1>2, <1>3
\* What a thread has in its hands when it has read the mask for a device.
Picking(r, d, seen) == [NoJob EXCEPT !.dev = r, !.sender = d, !.seen = seen]

LEMMA PickingJob ==
    ASSUME NEW r \in Devices, NEW d \in Devices, NEW seen \in SUBSET Numbers
    PROVE  LET j == Picking(r, d, seen)
           IN  j \in Job /\ j.dev = r /\ j.sender = d /\ j.seen = seen /\ j.number = 0
  <1> DEFINE j == Picking(r, d, seen)
  <1>1. NoJob \in Job /\ NoJob.number = 0
    BY Kinds DEF NoJob, Job
  <1>2. j \in Job
    BY <1>1 DEF Picking, Job
  <1>3. j.dev = r /\ j.sender = d /\ j.seen = seen /\ j.number = 0
    BY <1>1 DEF Picking, Job
  <1> QED
    BY <1>2, <1>3

\* The two ends of sendControllerInputPacket with the contexts c: the mask was
\* read for a device without a number, or the packet is ready.
Picked(t, d, c) ==
    /\ d \in Inputs \cup Usb
    /\ \E r \in Pads \cup Usb :
          /\ IF d \in Inputs THEN r \in Pads ELSE r = d
          /\ contexts'[r].listed /\ ~contexts'[r].assigned
          /\ contexts'[d].listed /\ ~contexts'[d].assigned
          /\ job' = [job EXCEPT ![t] = Picking(r, d, currentControllers)]
    /\ pc' = [pc EXCEPT ![t] = "reserve"]
    /\ UNCHANGED host

Sent(t, d) ==
    /\ contexts'[d].assigned
    /\ pc' = [pc EXCEPT ![t] = "send"]
    /\ LET mask == ActiveMask(currentControllers, initialControllers)
       IN  /\ \E j \in Job : /\ job' = [job EXCEPT ![t] = j]
                             /\ j.number = contexts'[d].number /\ j.mask = mask
                             /\ j.flags # {} => Fed(contexts', j.number)
           /\ host' \in {host, Told(host, mask)}

LEMMA PacketEnds ==
    ASSUME NEW c, Sane(c), WorldTyped, MaskTyped, NEW t \in Threads, NEW d \in Devices,
           c[d].listed \/ d = Osc, SendPacket(t, d, c)
    PROVE  Sane(contexts') /\ Enlisted(c, contexts') /\ (Picked(t, d, c) \/ Sent(t, d))
  <1> DEFINE r == Reserver(d, c)
             mask == ActiveMask(currentControllers, initialControllers)
  <1>1. \A e \in Devices : Kept(c[e], c[e])
    BY DEF Kept
  <1>2. CASE r # None
    <2>1. /\ contexts' = IF c[r].listed THEN c ELSE [c EXCEPT ![r] = NewContext]
          /\ job' = [job EXCEPT ![t] = Picking(r, d, currentControllers)]
          /\ pc' = [pc EXCEPT ![t] = "reserve"]
          /\ UNCHANGED host
      BY <1>2 DEF SendPacket, Picking
    <2>2. /\ r \in Pads \cup Usb /\ r \in Devices /\ ~c[r].assigned /\ ~c[d].assigned
          /\ d \in Inputs \cup Usb /\ IF d \in Inputs THEN r \in Pads ELSE r = d
      BY <1>2, Kinds, ControllersAssumption DEF Reserver, Devices, Inputs
    <2> HIDE DEF r
    <2>3. d # Osc /\ c[d].listed
      BY <2>2, Kinds
    <2>4. r \notin Pads => r = d /\ c[r].listed
      BY <2>2, <2>3, Kinds
    <2>5. /\ Sane(contexts') /\ Enlisted(c, contexts')
          /\ contexts'[r].listed /\ ~contexts'[r].assigned
          /\ contexts'[d].listed /\ ~contexts'[d].assigned
      <3>1. CASE c[r].listed
        BY <1>1, <2>1, <2>2, <2>3, <3>1 DEF Enlisted
      <3>2. CASE ~c[r].listed
        <4>1. /\ contexts' \in [Devices -> Context] /\ contexts'[r] = NewContext
              /\ \A e \in Devices \ {r} : contexts'[e] = c[e]
          BY <2>1, <2>2, <3>2, NewContexts DEF Sane
        <4>2. r \in Pads /\ r # d /\ r # Osc
          BY <2>2, <2>3, <2>4, <3>2, Kinds
        <4>3. Kept(c[r], NewContext)
          BY <3>2, NewContexts DEF Kept
        <4>4. Enlisted(c, contexts')
          BY <1>1, <4>1, <4>2, <4>3 DEF Enlisted
        <4>5. \A e \in Devices : /\ contexts'[e].emulating => e \in Inputs
                                 /\ contexts'[e].reserved => e \in Pads \cup Usb /\ contexts'[e].assigned
          BY <4>1, NewContexts DEF Sane
        <4>6. Sane(contexts')
          BY <4>1, <4>2, <4>5, Kinds DEF Sane
        <4> QED
          BY <2>2, <2>3, <4>1, <4>2, <4>4, <4>6, NewContexts
      <3> QED
        BY <3>1, <3>2
    <2> QED
      BY <2>1, <2>2, <2>5 DEF Picked
  <1>3. ASSUME NEW c2, Sane(c2), Enlisted(c, c2), c2[d].assigned, Fuse(t, d, c2, mask),
               host' \in {host, Told(host, mask)}
        PROVE  Sane(contexts') /\ Enlisted(c, contexts') /\ Sent(t, d)
    <2>1. Packed(t, d, c2, mask)
      BY <1>3, FusePacked, ActiveMaskTyped DEF MaskTyped
    <2>2. Sane(contexts') /\ \A e \in Devices : Alike(c2[e], contexts'[e])
      BY <2>1 DEF Packed
    <2>3. Enlisted(c, contexts')
      BY <1>3, <2>2, EnlistedAlike
    <2>4. \A n : Fed(c2, n) => Fed(contexts', n)
      BY <2>2, FedAlike
    <2>5. contexts'[d].assigned /\ contexts'[d].number = c2[d].number
      BY <1>3, <2>2 DEF Alike
    <2> HIDE DEF mask
    <2>6. Sent(t, d)
      BY <1>3, <2>1, <2>4, <2>5 DEF Packed, Sent, mask
    <2> QED
      BY <2>2, <2>3, <2>6
  <1>4. CASE r = None
    <2>1. IF c[d].assigned
          THEN Fuse(t, d, c, mask) /\ UNCHANGED host
          ELSE Fuse(t, d, AssignPlain(d, c), mask) /\ host' = Told(host, mask)
      BY <1>4 DEF SendPacket
    <2>2. Enlisted(c, c)
      BY <1>1 DEF Enlisted
    <2> HIDE DEF mask
    <2> QED
      BY <1>3, <2>1, <2>2, PlainAssigned DEF WorldTyped
  <1> QED
    BY <1>2, <1>4
-----------------------------------------------------------------------------
(* The steps that begin a packet *)

\* A context exists from its first event on, and keeps its number.
Touched(c, d) ==
    /\ \A e \in Devices \ {d} : c[e] = contexts[e]
    /\ c[d].listed \/ d = Osc
    /\ IF contexts[d].listed \/ d = Osc
       THEN /\ c[d].listed = contexts[d].listed /\ c[d].assigned = contexts[d].assigned
            /\ c[d].reserved = contexts[d].reserved /\ c[d].number = contexts[d].number
       ELSE d \in Inputs /\ ~c[d].assigned /\ ~c[d].reserved

\* Device d speaks on thread t, which was idle, with the contexts c.
Speaks(t, d, c) ==
    /\ t \in Threads /\ d \in Devices /\ pc[t] = "idle" /\ (d \in Usb => t = d) /\ (d \notin Usb => t = Main)
    /\ Sane(c) /\ Touched(c, d) /\ SendPacket(t, d, c)

\* The buttons of a context after those of the device went from old to new.
After(map, old, new) == (map \cup (new \ old)) \ (old \ new)

LEMMA KeySpeaks ==
    ASSUME TypeInv, NEW d \in Inputs, NEW buttons \in SUBSET {A, Start}, KeyEvent(d, buttons)
    PROVE  \E c : /\ Speaks(Main, d, c)
                  /\ c[d].inputMap = After(IF contexts[d].listed THEN contexts[d].inputMap ELSE {},
                                           held[d], buttons)
  <1> DEFINE x == IF contexts[d].listed THEN contexts[d] ELSE NewContext
             map == (x.inputMap \cup (buttons \ held[d])) \ (held[d] \ buttons)
  <1>1. PICK toggle \in {FALSE, (Start \in x.inputMap \ map)} :
           SendPacket(Main, d, [contexts EXCEPT ![d] = [x EXCEPT !.inputMap = map,
                                                                 !.emulating = (x.emulating # toggle)]])
    BY DEF KeyEvent
  <1> DEFINE y == [x EXCEPT !.inputMap = map, !.emulating = (x.emulating # toggle)]
             c == [contexts EXCEPT ![d] = y]
  <1>2. d \in Devices /\ d # Osc /\ held[d] \in SUBSET {A, Start} /\ contexts \in [Devices -> Context]
    BY Kinds DEF Devices, TypeInv, WorldTyped, Sane
  <1>3. /\ x \in Context /\ x.listed
        /\ IF contexts[d].listed THEN x = contexts[d] ELSE ~x.assigned /\ ~x.reserved /\ x.inputMap = {}
    BY <1>2, NewContexts
  <1> HIDE DEF x
  <1>4. map \in SUBSET {A, Start} /\ (x.emulating # toggle) \in BOOLEAN
    BY <1>2, <1>3 DEF Context
  <1>5. map = After(IF contexts[d].listed THEN contexts[d].inputMap ELSE {}, held[d], buttons)
    BY <1>3 DEF After
  <1> HIDE DEF map
  <1>6. /\ y \in Context /\ y.listed /\ y.assigned = x.assigned /\ y.reserved = x.reserved
        /\ y.number = x.number /\ y.inputMap = map
    BY <1>3, <1>4 DEF Context
  <1> HIDE DEF y
  <1>7. c \in [Devices -> Context] /\ c[d] = y /\ \A e \in Devices \ {d} : c[e] = contexts[e]
    BY <1>2, <1>6
  <1> HIDE DEF c
  <1>8. Touched(c, d)
    BY <1>2, <1>3, <1>6, <1>7 DEF Touched
  <1>9. Sane(c)
    <2>1. c[Osc] = contexts[Osc]
      BY <1>2, <1>7, Kinds
    <2>2. ASSUME NEW e \in Devices
          PROVE  (c[e].emulating => e \in Inputs) /\ (c[e].reserved => e \in Pads \cup Usb /\ c[e].assigned)
      <3>1. CASE e # d
        BY <1>7, <3>1 DEF TypeInv, Sane
      <3>2. CASE e = d
        BY <1>2, <1>3, <1>6, <1>7, <3>2 DEF TypeInv, Sane
      <3> QED
        BY <3>1, <3>2
    <2> QED
      BY <1>7, <2>1, <2>2 DEF TypeInv, Sane
  <1>10. pc[Main] = "idle"
    BY DEF KeyEvent, MainFree
  <1>11. SendPacket(Main, d, c)
    BY <1>1 DEF c, y
  <1>12. Speaks(Main, d, c)
    BY <1>2, <1>8, <1>9, <1>10, <1>11, Kinds DEF Speaks
  <1>13. c[d].inputMap = After(IF contexts[d].listed THEN contexts[d].inputMap ELSE {}, held[d], buttons)
    BY <1>5, <1>6, <1>7
  <1> QED
    BY <1>12, <1>13

\* The on-screen controls and a USB controller send all they hold.
Reported(d, flags) == [contexts EXCEPT ![d].inputMap = flags]

LEMMA ReportedSound ==
    ASSUME TypeInv, NEW d \in Devices, contexts[d].listed \/ d = Osc, NEW flags \in SUBSET {A, Start}
    PROVE  LET c == Reported(d, flags)
           IN  Sane(c) /\ Touched(c, d) /\ c[d].inputMap = flags
  <1> DEFINE c == Reported(d, flags)
             y == [contexts[d] EXCEPT !.inputMap = flags]
  <1>1. contexts \in [Devices -> Context] /\ contexts[d] \in Context
    BY DEF TypeInv, Sane
  <1>2. y \in Context /\ y.inputMap = flags
    BY <1>1 DEF Context
  <1>3. /\ y.listed = contexts[d].listed /\ y.assigned = contexts[d].assigned
        /\ y.reserved = contexts[d].reserved /\ y.number = contexts[d].number
        /\ y.emulating = contexts[d].emulating
    BY <1>1 DEF Context
  <1>4. c = [contexts EXCEPT ![d] = y]
    BY DEF Reported
  <1> HIDE DEF y, c
  <1>5. c \in [Devices -> Context] /\ c[d] = y /\ \A e \in Devices \ {d} : c[e] = contexts[e]
    BY <1>1, <1>2, <1>4
  <1>6. Touched(c, d)
    BY <1>3, <1>5 DEF Touched
  <1>7. Sane(c)
    <2>1. c[Osc].assigned = contexts[Osc].assigned /\ c[Osc].number = contexts[Osc].number
      BY <1>3, <1>5, Kinds
    <2>2. \A e \in Devices : /\ c[e].emulating = contexts[e].emulating
                             /\ c[e].reserved = contexts[e].reserved /\ c[e].assigned = contexts[e].assigned
      BY <1>3, <1>5
    <2> QED
      BY <1>5, <2>1, <2>2 DEF TypeInv, Sane
  <1> QED
    BY <1>2, <1>5, <1>6, <1>7 DEF c

LEMMA OscSpeaks ==
    ASSUME TypeInv, NEW flags \in SUBSET {A, Start}, ReportOsc(flags)
    PROVE  Speaks(Main, Osc, Reported(Osc, flags)) /\ Reported(Osc, flags)[Osc].inputMap = flags
  <1>1. SendPacket(Main, Osc, Reported(Osc, flags)) /\ pc[Main] = "idle"
    BY DEF ReportOsc, Reported, MainFree
  <1> QED
    BY <1>1, Kinds, ReportedSound DEF Speaks

LEMMA UsbSpeaks ==
    ASSUME TypeInv, NEW u \in Usb, NEW flags \in SUBSET {A, Start}, UsbReport(u, flags),
           service # "destroyed", contexts[u].listed
    PROVE  Speaks(u, u, Reported(u, flags)) /\ Reported(u, flags)[u].inputMap = flags
  <1>1. SendPacket(u, u, Reported(u, flags)) /\ pc[u] = "idle"
    BY DEF UsbReport, Reported
  <1>2. u \in Devices /\ u \in Threads
    BY DEF Devices, Threads
  <1> QED
    BY <1>1, <1>2, ReportedSound DEF Speaks

\* What follows when a device speaks.
LEMMA SpeakingSound ==
    ASSUME TypeInv, NEW t, NEW d, NEW c, Speaks(t, d, c)
    PROVE  /\ Sane(contexts') /\ host' \in Host /\ JobsTyped'
           /\ Enlisted(c, contexts') /\ (Picked(t, d, c) \/ Sent(t, d))
  <1>1. t \in Threads /\ d \in Devices /\ Sane(c) /\ SendPacket(t, d, c) /\ (c[d].listed \/ d = Osc)
    BY DEF Speaks, Touched
  <1>2. Sane(contexts') /\ Enlisted(c, contexts') /\ (Picked(t, d, c) \/ Sent(t, d))
    BY <1>1, PacketEnds DEF TypeInv
  <1>3. host' \in Host
    <2> DEFINE mask == ActiveMask(currentControllers, initialControllers)
    <2>1. host' \in {host, Told(host, mask)}
      BY <1>2 DEF Picked, Sent
    <2>2. mask \in SUBSET Numbers /\ host \in Host
      BY ActiveMaskTyped DEF TypeInv, MaskTyped
    <2> HIDE DEF mask
    <2> QED
      BY <2>1, <2>2, ToldTyped
  <1>4. JobsTyped'
    <2>1. /\ pc \in [Threads -> {"idle", "reserve", "send", "release"}] /\ job \in [Threads -> Job]
          /\ \A s \in Threads : /\ pc[s] = "reserve" => Reserves(s, job[s])
                                /\ pc[s] = "release" => Releases(s, job[s])
      BY DEF TypeInv, JobsTyped
    <2>2. CASE Sent(t, d)
      BY <1>1, <2>1, <2>2 DEF Sent, JobsTyped
    <2>3. CASE Picked(t, d, c)
      <3>1. PICK r \in Pads \cup Usb : /\ IF d \in Inputs THEN r \in Pads ELSE r = d
                                       /\ job' = [job EXCEPT ![t] = Picking(r, d, currentControllers)]
        BY <2>3 DEF Picked
      <3> DEFINE j == Picking(r, d, currentControllers)
      <3>2. r \in Devices /\ d \in Inputs \cup Usb /\ currentControllers \in SUBSET Numbers
        BY <2>3 DEF Picked, Devices, Inputs, TypeInv, MaskTyped
      <3>3. j \in Job /\ j.dev = r /\ j.sender = d
        BY <1>1, <3>2, PickingJob
      <3> HIDE DEF j
      <3>4. Reserves(t, j)
        <4>1. (d \in Usb => t = d) /\ (d \notin Usb => t = Main)
          BY DEF Speaks
        <4> QED
          BY <3>1, <3>2, <3>3, <4>1, Kinds DEF Reserves
      <3>5. job' = [job EXCEPT ![t] = j] /\ pc' = [pc EXCEPT ![t] = "reserve"]
        BY <2>3, <3>1 DEF Picked, j
      <3> QED
        BY <1>1, <2>1, <3>3, <3>4, <3>5 DEF JobsTyped
    <2> QED
      BY <1>2, <2>2, <2>3
  <1> QED
    BY <1>2, <1>3, <1>4
-----------------------------------------------------------------------------
(* The second half of a packet, and of a release *)

\* The contexts c when the device of thread t got the number n, reserved or not,
\* and with it the device that speaks.
Numbered(t, n, taken, c) ==
    LET dev == job[t].dev
        sender == job[t].sender
    IN  /\ Sane(c)
        /\ \A e \in Devices \ {dev, sender} : c[e] = contexts[e]
        /\ \A e \in {dev, sender} : /\ c[e].assigned /\ c[e].number = n
                                    /\ c[e].listed = contexts[e].listed
                                    /\ c[e].inputMap = contexts[e].inputMap
        /\ c[dev].reserved = taken
        /\ sender # dev => c[sender].reserved = contexts[sender].reserved

\* The masks after that.
NumberTaken(t, n, taken) ==
    IF taken
    THEN /\ n \notin job[t].seen
         /\ currentControllers' \in {job[t].seen \cup {n}, currentControllers \cup {n}}
         /\ initialControllers' = initialControllers \ {n}
    ELSE UNCHANGED maskVars

LEMMA ReserveNumbers ==
    ASSUME TypeInv, NEW t \in Threads, Reserve(t)
    PROVE  /\ MaskTyped'
           /\ \E n \in Numbers, taken \in BOOLEAN : \E c :
                 /\ Numbered(t, n, taken, c) /\ NumberTaken(t, n, taken)
                 /\ LET mask == ActiveMask(currentControllers', initialControllers')
                    IN  host' = Told(host, mask) /\ Packed(t, job[t].sender, c, mask)
  <1> DEFINE dev == job[t].dev
             sender == job[t].sender
             free == FirstFree(job[t].seen)
             n == IF free = {} THEN 0 ELSE CHOOSE i \in free : TRUE
             taken == free # {}
             x == [contexts[dev] EXCEPT !.assigned = TRUE, !.number = n, !.reserved = taken]
             y == [contexts[sender] EXCEPT !.assigned = TRUE, !.number = n]
             c1 == [contexts EXCEPT ![dev] = x]
             c == IF sender = dev THEN c1 ELSE [c1 EXCEPT ![sender] = y]
             mask == ActiveMask(currentControllers', initialControllers')
  <1>1. /\ dev \in Pads \cup Usb /\ sender \in Inputs \cup Usb
        /\ dev \in Devices /\ sender \in Devices /\ dev # Osc /\ sender # Osc
    BY Kinds DEF TypeInv, JobsTyped, Reserves, Reserve, Devices, Inputs
  <1>2. job[t].seen \in SUBSET Numbers /\ currentControllers \in SUBSET Numbers /\ initialControllers \in SUBSET Numbers
    BY DEF TypeInv, JobsTyped, Job, MaskTyped
  <1>3. free \subseteq Numbers \ job[t].seen
    BY DEF FirstFree
  <1>4. n \in Numbers /\ (taken => n \notin job[t].seen)
    BY <1>3, Kinds
  <1>5. taken \in BOOLEAN
    OBVIOUS
  <1>6. NumberTaken(t, n, taken)
    BY <1>4 DEF Reserve, NumberTaken
  <1>7. MaskTyped'
    BY <1>2, <1>4, <1>6 DEF NumberTaken, MaskTyped, maskVars
  <1>8. host' = Told(host, mask) /\ Fuse(t, sender, c, mask)
    BY <1>1 DEF Reserve, TypeInv, Sane
  <1>9. contexts \in [Devices -> Context] /\ contexts[dev] \in Context /\ contexts[sender] \in Context
    BY <1>1 DEF TypeInv, Sane
  <1> HIDE DEF n, taken, free, mask
  <1>10. /\ x \in Context /\ x.assigned /\ x.number = n /\ x.reserved = taken
         /\ x.listed = contexts[dev].listed /\ x.inputMap = contexts[dev].inputMap
         /\ x.emulating = contexts[dev].emulating
    BY <1>4, <1>5, <1>9 DEF Context
  <1>11. /\ y \in Context /\ y.assigned /\ y.number = n /\ y.reserved = contexts[sender].reserved
         /\ y.listed = contexts[sender].listed /\ y.inputMap = contexts[sender].inputMap
         /\ y.emulating = contexts[sender].emulating
    BY <1>4, <1>9 DEF Context
  <1> HIDE DEF x, y
  <1>12. /\ c \in [Devices -> Context] /\ c[dev] = x /\ (sender # dev => c[sender] = y)
         /\ \A e \in Devices \ {dev, sender} : c[e] = contexts[e]
    BY <1>1, <1>9, <1>10, <1>11
  <1> HIDE DEF c
  <1>13. Sane(c)
    <2>1. c[Osc] = contexts[Osc]
      BY <1>1, <1>12, Kinds
    <2>2. ASSUME NEW e \in Devices
          PROVE  (c[e].emulating => e \in Inputs) /\ (c[e].reserved => e \in Pads \cup Usb /\ c[e].assigned)
      <3>1. CASE e \notin {dev, sender}
        BY <1>12, <3>1 DEF TypeInv, Sane
      <3>2. CASE e = dev
        BY <1>1, <1>10, <1>12, <3>2 DEF TypeInv, Sane
      <3>3. CASE e = sender /\ e # dev
        BY <1>11, <1>12, <3>3 DEF TypeInv, Sane
      <3> QED
        BY <3>1, <3>2, <3>3
    <2> QED
      BY <1>12, <2>1, <2>2 DEF TypeInv, Sane
  <1>14. Numbered(t, n, taken, c)
    BY <1>10, <1>11, <1>12, <1>13 DEF Numbered
  <1>15. Packed(t, sender, c, mask)
    <2>1. mask \in SUBSET Numbers
      BY <1>7, ActiveMaskTyped DEF MaskTyped, mask
    <2> HIDE DEF mask
    <2> QED
      BY <1>1, <1>8, <1>13, <2>1, FusePacked
  <1>16. /\ Numbered(t, n, taken, c) /\ NumberTaken(t, n, taken)
         /\ LET m == ActiveMask(currentControllers', initialControllers')
            IN  host' = Told(host, m) /\ Packed(t, job[t].sender, c, m)
    BY <1>6, <1>8, <1>14, <1>15 DEF mask
  <1> QED
    BY <1>4, <1>5, <1>7, <1>16

\* The types after each of the three steps that a thread takes.
LEMMA ReserveTyped ==
    ASSUME TypeInv, NEW t \in Threads, Reserve(t)
    PROVE  Sane(contexts') /\ host' \in Host /\ JobsTyped' /\ MaskTyped'
  <1> DEFINE mask == ActiveMask(currentControllers', initialControllers')
  <1>1. MaskTyped'
    BY ReserveNumbers
  <1>2. PICK c : host' = Told(host, mask) /\ Packed(t, job[t].sender, c, mask)
    BY ReserveNumbers
  <1>3. mask \in SUBSET Numbers
    BY <1>1, ActiveMaskTyped DEF MaskTyped
  <1> HIDE DEF mask
  <1>4. host' \in Host
    BY <1>2, <1>3, ToldTyped DEF TypeInv
  <1>5. Sane(contexts') /\ pc' = [pc EXCEPT ![t] = "send"] /\ \E j \in Job : job' = [job EXCEPT ![t] = j]
    BY <1>2 DEF Packed
  <1>6. JobsTyped'
    BY <1>5 DEF TypeInv, JobsTyped
  <1> QED
    BY <1>1, <1>4, <1>5, <1>6

LEMMA NoJobTyped == NoJob \in Job
  BY Kinds DEF NoJob, Job

LEMMA SendTyped ==
    ASSUME TypeInv, NEW t \in Threads, Send(t)
    PROVE  /\ host' \in Host /\ JobsTyped' /\ host'.mask = job[t].mask
           /\ host'.pressed[job[t].number] \in {job[t].flags, {}}
           /\ \A m \in Numbers \ {job[t].number} : host'.pressed[m] \in {host.pressed[m], {}}
  <1> DEFINE j == job[t]
             h == ToldInput(host, j.number, j.mask, j.flags)
  <1>1. j \in Job
    BY DEF TypeInv, JobsTyped
  <1>2. /\ h \in Host /\ h.mask = j.mask /\ h.pressed[j.number] \in {j.flags, {}}
        /\ \A m \in Numbers \ {j.number} : h.pressed[m] \in {host.pressed[m], {}}
    <2>1. PICK n \in Numbers, mask \in SUBSET Numbers, flags \in SUBSET {A, Start} :
             n = j.number /\ mask = j.mask /\ flags = j.flags
      BY <1>1 DEF Job
    <2>2. host \in Host
      BY DEF TypeInv
    <2> DEFINE g == ToldInput(host, n, mask, flags)
    <2>3. g \in Host
      BY <2>2, ToldInputTyped
    <2>4. g.mask = mask
      BY <2>2, ToldInputTyped
    <2>5. g.pressed[n] \in {flags, {}}
      BY <2>2, ToldInputTyped
    <2>6. \A m \in Numbers \ {n} : g.pressed[m] \in {host.pressed[m], {}}
      BY <2>2, ToldInputTyped
    <2>7. h = g
      BY <2>1
    <2> HIDE DEF g, h
    <2> QED
      BY <2>1, <2>3, <2>4, <2>5, <2>6, <2>7
  <1>3. host' = IF j.mouse = "none" THEN h ELSE [h EXCEPT !.mouse = j.mouse]
    BY DEF Send
  <1>4. j.mouse \in {"none", "up", "down"}
    BY <1>1 DEF Job
  <1>5. JobsTyped'
    BY NoJobTyped DEF Send, TypeInv, JobsTyped
  <1> HIDE DEF h, j
  <1>6. host' \in Host /\ host'.mask = h.mask /\ host'.pressed = h.pressed
    BY <1>2, <1>3, <1>4 DEF Host
  <1> QED
    BY <1>2, <1>5, <1>6 DEF j

\* A release forgets the context, or no longer lists it.
LEMMA ReleasedTyped ==
    ASSUME TypeInv, NEW t \in Threads, Released(t)
    PROVE  LET d == job[t].dev
           IN  /\ Sane(contexts') /\ host' \in Host /\ JobsTyped' /\ MaskTyped'
               /\ ~contexts'[d].listed
               /\ \A e \in Devices \ {d} : contexts'[e] = contexts[e]
  <1> DEFINE d == job[t].dev
             x == IF d \in Usb \ {t} /\ pc[d] # "idle"
                  THEN [contexts[d] EXCEPT !.listed = FALSE, !.emulating = FALSE] ELSE NoContext
  <1>1. d \in Inputs \cup Usb /\ d \in Devices /\ d # Osc
    BY Kinds DEF TypeInv, JobsTyped, Releases, Released, Devices
  <1>2. contexts \in [Devices -> Context] /\ contexts[d] \in Context
    BY <1>1 DEF TypeInv, Sane
  <1>3. /\ x \in Context /\ ~x.listed /\ ~x.emulating
        /\ x.reserved => contexts[d].reserved /\ x.assigned = contexts[d].assigned
    BY <1>2, NewContexts DEF Context
  <1>4. contexts' = [contexts EXCEPT ![d] = x]
    BY DEF Released
  <1> HIDE DEF x
  <1>5. /\ contexts' \in [Devices -> Context] /\ contexts'[d] = x
        /\ \A e \in Devices \ {d} : contexts'[e] = contexts[e]
    BY <1>1, <1>2, <1>3, <1>4
  <1>6. Sane(contexts')
    <2>1. contexts'[Osc] = contexts[Osc]
      BY <1>1, <1>5, Kinds
    <2>2. ASSUME NEW e \in Devices
          PROVE  /\ contexts'[e].emulating => e \in Inputs
                 /\ contexts'[e].reserved => e \in Pads \cup Usb /\ contexts'[e].assigned
      <3>1. CASE e # d
        BY <1>5, <3>1 DEF TypeInv, Sane
      <3>2. CASE e = d
        BY <1>3, <1>5, <3>2 DEF TypeInv, Sane
      <3> QED
        BY <3>1, <3>2
    <2> QED
      BY <1>5, <2>1, <2>2 DEF TypeInv, Sane
  <1>7. MaskTyped'
    BY DEF Released, TypeInv, MaskTyped, JobsTyped, Job
  <1>8. host' \in Host
    BY <1>2, <1>7, ZeroedTyped DEF Released, TypeInv
  <1>9. JobsTyped'
    BY NoJobTyped DEF Released, TypeInv, JobsTyped
  <1> QED
    BY <1>3, <1>5, <1>6, <1>7, <1>8, <1>9
-----------------------------------------------------------------------------
(* Types *)

\* The devices that are opened have no context.
Opened(opened) ==
    /\ opened \subseteq Usb /\ \A u \in opened : driver[u] = "none" /\ u \in attached
    /\ Claim(opened)

LEMMA OpenedSound ==
    ASSUME TypeInv, NEW opened, Opened(opened)
    PROVE  /\ Sane(contexts')
           /\ \A e \in opened : contexts'[e] = NoContext
           /\ \A e \in Devices \ opened : contexts'[e] = contexts[e]
           /\ driver' \in [Usb -> {"none", "starting", "running"}]
           /\ \A u \in opened : driver'[u] = "starting"
           /\ \A u \in Usb \ opened : driver'[u] = driver[u]
           /\ claimed' = {u \in Usb : driver'[u] # "none"}
  <1>1. opened \subseteq Usb /\ claimed' = claimed \cup opened
    BY DEF Opened, Claim
  <1>2. driver' = [u \in Usb |-> IF u \in opened THEN "starting" ELSE driver[u]]
    BY DEF Opened, Claim
  <1>3. contexts' = [d \in Devices |-> IF d \in opened THEN NoContext ELSE contexts[d]]
    BY DEF Opened, Claim
  <1>4. /\ driver \in [Usb -> {"none", "starting", "running"}]
        /\ claimed = {u \in Usb : driver[u] # "none"}
    BY DEF TypeInv, UsbTyped
  <1>5. /\ driver' \in [Usb -> {"none", "starting", "running"}]
        /\ \A u \in opened : driver'[u] = "starting"
        /\ \A u \in Usb \ opened : driver'[u] = driver[u]
    BY <1>1, <1>2, <1>4
  <1>6. claimed' = {u \in Usb : driver'[u] # "none"}
    BY <1>1, <1>4, <1>5
  <1>7. /\ \A e \in opened : contexts'[e] = NoContext
        /\ \A e \in Devices \ opened : contexts'[e] = contexts[e]
    BY <1>1, <1>3 DEF Devices
  <1>8. contexts' \in [Devices -> Context]
    BY <1>3, NewContexts DEF TypeInv, Sane
  <1>9. Osc \notin opened /\ contexts'[Osc] = contexts[Osc]
    BY <1>1, <1>7, Kinds
  <1>10. ASSUME NEW e \in Devices
         PROVE  /\ contexts'[e].emulating => e \in Inputs
                /\ contexts'[e].reserved => e \in Pads \cup Usb /\ contexts'[e].assigned
    <2>1. CASE e \in opened
      BY <1>7, <2>1, NewContexts
    <2>2. CASE e \notin opened
      BY <1>7, <2>2 DEF TypeInv, Sane
    <2> QED
      BY <2>1, <2>2
  <1>11. Sane(contexts')
    BY <1>8, <1>9, <1>10 DEF TypeInv, Sane
  <1> QED
    BY <1>5, <1>6, <1>7, <1>11

LEMMA HandledOpens ==
    ASSUME NEW devices \in SUBSET Usb, HandleUsbDeviceState(devices), TypeInv
    PROVE  (\E opened : Opened(opened)) /\ asking' \subseteq Usb
  <1>1. PICK opened, asked \in SUBSET {u \in devices \cap attached : driver[u] = "none"} :
           asking' = asking \cup asked /\ Claim(opened)
    BY DEF HandleUsbDeviceState
  <1> QED
    BY <1>1 DEF Opened, TypeInv, UsbTyped

\* The answer to a permission may open the device.
LEMMA PermissionOpens ==
    ASSUME NEW u \in Usb, PermissionAnswered(u)
    PROVE  \E opened : Opened(opened)
  <1>1. PICK opened \in SUBSET ({u} \cap {v \in attached \cap Usb : driver[v] = "none"}) : Claim(opened)
    BY DEF PermissionAnswered
  <1> QED
    BY <1>1 DEF Opened

\* The steps that open devices
Opens == ServiceConnected \/ \E u \in Usb : HandleArrival(u) \/ PermissionAnswered(u)

LEMMA OpensSound ==
    ASSUME TypeInv, Opens
    PROVE  /\ \E opened : Opened(opened)
           /\ asking' \subseteq Usb /\ arriving' \subseteq Usb
           /\ service' \in {service, "running"} /\ service # "stopping" /\ MainFree
           /\ service' # "destroyed" \/ service = "destroyed"
           /\ UNCHANGED <<prefVars, worldVars, maskVars, stopped, pc, job, host>>
  <1>1. CASE ServiceConnected
    <2>1. HandleUsbDeviceState(Usb)
      BY <1>1 DEF ServiceConnected
    <2> QED
      BY <1>1, <2>1, HandledOpens DEF ServiceConnected, MainFree, TypeInv, UsbTyped
  <1>2. ASSUME NEW u \in Usb, HandleArrival(u)
        PROVE  (\E opened : Opened(opened)) /\ asking' \subseteq Usb
    <2>1. HandleUsbDeviceState({u})
      BY <1>2 DEF HandleArrival
    <2> QED
      BY <1>2, <2>1, HandledOpens
  <1>3. CASE \E u \in Usb : HandleArrival(u)
    BY <1>2, <1>3 DEF HandleArrival, MainFree, TypeInv, UsbTyped
  <1>4. CASE \E u \in Usb : PermissionAnswered(u)
    BY <1>4, PermissionOpens DEF PermissionAnswered, MainFree, TypeInv, UsbTyped
  <1> QED
    BY <1>1, <1>3, <1>4 DEF Opens

\* The steps that change neither contexts nor packets
Aside ==
    \/ \E d \in Devices : Plug(d) \/ Unplug(d)
    \/ Unbind \/ ServiceDestroyed
    \/ \E d \in Inputs : InputDeviceRemoved(d) /\ ~contexts[d].listed
    \/ \E u \in Usb : (UsbFailed(u) \/ StopController(u)) /\ ~(service # "destroyed" /\ contexts[u].listed)
    \/ \E u \in Usb : \E flags \in SUBSET ButtonsOf(u) :
          UsbReport(u, flags) /\ ~(service # "destroyed" /\ contexts[u].listed)

\* The steps that begin a release on thread t of device d
ReleaseStep(t, d) ==
    \/ d \in Inputs /\ t = Main /\ InputDeviceRemoved(d) /\ contexts[d].listed
    \/ d \in Usb /\ t = d /\ UsbFailed(d) /\ contexts[d].listed /\ service # "destroyed"
    \/ d \in Usb /\ t = Main /\ StopController(d) /\ contexts[d].listed

\* The steps of a device that speaks
SpeakStep(t, d, c) ==
    \/ \E buttons \in SUBSET {A, Start} :
          /\ d \in Inputs /\ KeyEvent(d, buttons)
          /\ c[d].inputMap = After(IF contexts[d].listed THEN contexts[d].inputMap ELSE {},
                                   held[d], buttons)
    \/ \E flags \in SUBSET {A, Start} :
          \/ d = Osc /\ ReportOsc(flags) /\ c[Osc].inputMap = flags
          \/ d \in Usb /\ UsbReport(d, flags) /\ c[d].inputMap = flags /\ contexts[d].listed

\* The steps, in the groups the proofs treat alike.
Group ==
    \/ \E t \in Threads : ThreadStep(t)
    \/ \E t, d, c : Speaks(t, d, c) /\ SpeakStep(t, d, c)
    \/ \E t \in Threads, d \in Inputs \cup Usb : ReleaseStep(t, d)
    \/ Opens \/ \E u \in Usb : UsbAdded(u)
    \/ \E d \in Inputs : InputDeviceChanged(d)
    \/ Stop
    \/ Aside

LEMMA StepGroups == TypeInv /\ Step => Group
  <1> SUFFICES ASSUME TypeInv, Step PROVE Group
    OBVIOUS
  <1>1. \A d : ButtonsOf(d) \subseteq {A, Start}
    BY DEF ButtonsOf
  <1>2. ASSUME NEW d \in Inputs, NEW buttons \in SUBSET {A, Start}, KeyEvent(d, buttons) PROVE Group
    BY <1>2, KeySpeaks DEF Group, SpeakStep
  <1>3. ASSUME NEW d \in Inputs, NEW b \in {A, Start}, KeyDown(d, b) \/ KeyUp(d, b) PROVE Group
    <2>1. held[d] \in SUBSET {A, Start}
      BY DEF TypeInv, WorldTyped, Devices
    <2> QED
      BY <1>2, <1>3, <2>1 DEF KeyDown, KeyUp
  <1>4. ASSUME NEW flags \in SUBSET ButtonsOf(Osc), ReportOsc(flags) PROVE Group
    <2>1. flags \in SUBSET {A, Start}
      BY <1>1
    <2> QED
      BY <1>4, <2>1, OscSpeaks DEF Group, SpeakStep
  <1>5. ASSUME NEW u \in Usb, NEW flags \in SUBSET ButtonsOf(u), UsbReport(u, flags) PROVE Group
    <2>1. flags \in SUBSET {A, Start}
      BY <1>1
    <2>2. CASE service # "destroyed" /\ contexts[u].listed
      BY <1>5, <2>1, <2>2, UsbSpeaks DEF Group, SpeakStep
    <2>3. CASE ~(service # "destroyed" /\ contexts[u].listed)
      BY <1>5, <2>3 DEF Group, Aside
    <2> QED
      BY <2>2, <2>3
  <1>6. ASSUME NEW d \in Inputs, InputDeviceRemoved(d) PROVE Group
    <2>1. CASE contexts[d].listed
      BY <1>6, <2>1, Kinds DEF Group, ReleaseStep
    <2>2. CASE ~contexts[d].listed
      BY <1>6, <2>2 DEF Group, Aside
    <2> QED
      BY <2>1, <2>2
  <1>7. ASSUME NEW u \in Usb, UsbFailed(u) \/ StopController(u) PROVE Group
    <2>1. CASE service # "destroyed" /\ contexts[u].listed
      BY <1>7, <2>1, Kinds DEF Group, ReleaseStep
    <2>2. CASE ~(service # "destroyed" /\ contexts[u].listed)
      BY <1>7, <2>2 DEF Group, Aside
    <2> QED
      BY <2>1, <2>2
  <1>8. CASE \/ \E t \in Threads : ThreadStep(t)
             \/ \E d \in Devices : Plug(d) \/ Unplug(d)
             \/ Stop \/ Unbind \/ ServiceDestroyed
             \/ \E d \in Inputs : InputDeviceChanged(d)
    BY <1>8 DEF Group, Aside
  <1>9. ASSUME NEW u \in Usb, HandleArrival(u) \/ PermissionAnswered(u) \/ UsbAdded(u) PROVE Group
    BY <1>9 DEF Group, Opens
  <1>10. CASE ServiceConnected
    BY <1>10 DEF Group, Opens
  <1> QED
    BY <1>3, <1>4, <1>5, <1>6, <1>7, <1>8, <1>9, <1>10 DEF Step
\* What the contexts, masks and packets are made of
PacketsTyped == Sane(contexts) /\ MaskTyped /\ JobsTyped /\ host \in Host

LEMMA PacketsCalm ==
    ASSUME PacketsTyped, UNCHANGED <<contexts, maskVars, pc, job, host>>
    PROVE  PacketsTyped'
  BY DEF PacketsTyped, Sane, MaskTyped, JobsTyped, Reserves, Releases, maskVars

LEMMA AsideFrame ==
    Aside => UNCHANGED <<prefVars, contexts, maskVars, stopped, pc, job, host>>
  <1> USE DEF prefVars, worldVars, maskVars, usbVars
  <1>1. ASSUME NEW d \in Devices, Plug(d) \/ Unplug(d)
        PROVE  UNCHANGED <<prefVars, contexts, maskVars, stopped, pc, job, host>>
    BY <1>1 DEF Plug, Unplug
  <1>2. CASE Unbind \/ ServiceDestroyed
    BY <1>2 DEF Unbind, ServiceDestroyed
  <1>3. ASSUME NEW d \in Inputs, InputDeviceRemoved(d), ~contexts[d].listed
        PROVE  UNCHANGED <<prefVars, contexts, maskVars, stopped, pc, job, host>>
    BY <1>3 DEF InputDeviceRemoved
  <1>4. ASSUME NEW u \in Usb, UsbFailed(u), ~(service # "destroyed" /\ contexts[u].listed)
        PROVE  UNCHANGED <<prefVars, contexts, maskVars, stopped, pc, job, host>>
    BY <1>4 DEF UsbFailed
  <1>5. ASSUME NEW u \in Usb, StopController(u), ~(service # "destroyed" /\ contexts[u].listed)
        PROVE  UNCHANGED <<prefVars, contexts, maskVars, stopped, pc, job, host>>
    BY <1>5 DEF StopController
  <1>6. ASSUME NEW u \in Usb, NEW flags, UsbReport(u, flags), ~(service # "destroyed" /\ contexts[u].listed)
        PROVE  UNCHANGED <<prefVars, contexts, maskVars, stopped, pc, job, host>>
    BY <1>6 DEF UsbReport
  <1> QED
    BY <1>1, <1>2, <1>3, <1>4, <1>5, <1>6 DEF Aside

\* Beginning a release puts the device into the hands of the thread.
LEMMA ReleaseBegins ==
    ASSUME TypeInv, NEW t \in Threads, NEW d \in Inputs \cup Usb, ReleaseStep(t, d)
    PROVE  /\ contexts[d].listed /\ pc[t] = "idle"
           /\ pc' = [pc EXCEPT ![t] = "release"]
           /\ \E j \in Job : /\ job' = [job EXCEPT ![t] = j]
                             /\ j.dev = d /\ j.number = contexts[d].number /\ j.seen = currentControllers
           /\ (t # Main => t = d)
           /\ UNCHANGED <<prefVars, contexts, maskVars, stopped, host>>
  <1> DEFINE j == [NoJob EXCEPT !.dev = d, !.number = contexts[d].number, !.seen = currentControllers]
  <1>1. Release(t, d) /\ pc[t] = "idle" /\ contexts[d].listed /\ (t # Main => t = d)
    BY DEF ReleaseStep, InputDeviceRemoved, UsbFailed, StopController
  <1>2. UNCHANGED <<prefVars, contexts, maskVars, stopped, host>>
    BY DEF ReleaseStep, InputDeviceRemoved, UsbFailed, StopController, prefVars, maskVars
  <1>3. contexts[d].number \in Numbers /\ currentControllers \in SUBSET Numbers /\ d \in Devices
    BY DEF TypeInv, Sane, Context, MaskTyped, Devices
  <1>4. j \in Job
    BY <1>3, NoJobTyped DEF Job
  <1>5. j.dev = d /\ j.number = contexts[d].number /\ j.seen = currentControllers
    BY NoJobTyped DEF Job
  <1>6. job' = [job EXCEPT ![t] = j] /\ pc' = [pc EXCEPT ![t] = "release"]
    BY <1>1 DEF Release
  <1> HIDE DEF j
  <1> QED
    BY <1>1, <1>2, <1>4, <1>5, <1>6

\* A device that changes keeps its number and gets a new context.
LEMMA ChangedSound ==
    ASSUME TypeInv, NEW d \in Inputs, InputDeviceChanged(d)
    PROVE  /\ Sane(contexts') /\ \A e \in Devices \ {d} : contexts'[e] = contexts[e]
           /\ contexts'[d].listed /\ contexts[d].listed
           /\ contexts'[d].assigned = contexts[d].assigned
           /\ contexts'[d].reserved = contexts[d].reserved
           /\ contexts'[d].number = contexts[d].number
           /\ contexts'[d].inputMap = {}
  <1> DEFINE x == [NewContext EXCEPT !.assigned = contexts[d].assigned, !.reserved = contexts[d].reserved,
                                     !.number = contexts[d].number]
  <1>1. d \in Devices /\ d # Osc /\ contexts \in [Devices -> Context] /\ contexts[d] \in Context
    BY Kinds DEF Devices, TypeInv, Sane
  <1>2. /\ x \in Context /\ x.listed /\ x.inputMap = {} /\ ~x.emulating
        /\ x.assigned = contexts[d].assigned /\ x.reserved = contexts[d].reserved
        /\ x.number = contexts[d].number
    BY <1>1, NewContexts DEF Context
  <1>3. contexts' = [contexts EXCEPT ![d] = x] /\ contexts[d].listed
    BY DEF InputDeviceChanged
  <1> HIDE DEF x
  <1>4. /\ contexts' \in [Devices -> Context] /\ contexts'[d] = x
        /\ \A e \in Devices \ {d} : contexts'[e] = contexts[e]
    BY <1>1, <1>2, <1>3
  <1>5. Sane(contexts')
    <2>1. contexts'[Osc] = contexts[Osc]
      BY <1>1, <1>4, Kinds
    <2>2. ASSUME NEW e \in Devices
          PROVE  /\ contexts'[e].emulating => e \in Inputs
                 /\ contexts'[e].reserved => e \in Pads \cup Usb /\ contexts'[e].assigned
      <3>1. CASE e # d
        BY <1>4, <3>1 DEF TypeInv, Sane
      <3>2. CASE e = d
        BY <1>2, <1>4, <3>2 DEF TypeInv, Sane
      <3> QED
        BY <3>1, <3>2
    <2> QED
      BY <1>4, <2>1, <2>2 DEF TypeInv, Sane
  <1> QED
    BY <1>2, <1>3, <1>4, <1>5

\* Stopping ends the mouse emulation and changes nothing else of a context.
LEMMA StopSound ==
    ASSUME TypeInv, Stop
    PROVE  /\ Sane(contexts')
           /\ \A e \in Devices : /\ contexts'[e].listed = contexts[e].listed
                                 /\ contexts'[e].assigned = contexts[e].assigned
                                 /\ contexts'[e].reserved = contexts[e].reserved
                                 /\ contexts'[e].number = contexts[e].number
  <1> DEFINE x(e) == [contexts[e] EXCEPT !.emulating = FALSE]
  <1>1. contexts' = [d \in Devices |-> IF contexts[d].listed THEN x(d) ELSE contexts[d]]
    BY DEF Stop
  <1>2. ASSUME NEW e \in Devices
        PROVE  /\ x(e) \in Context /\ x(e).listed = contexts[e].listed
               /\ x(e).assigned = contexts[e].assigned /\ x(e).reserved = contexts[e].reserved
               /\ x(e).number = contexts[e].number /\ ~x(e).emulating
    <2>1. contexts[e] \in Context
      BY DEF TypeInv, Sane
    <2> QED
      BY <2>1 DEF Context
  <1> HIDE DEF x
  <1>3. \A e \in Devices : contexts'[e] \in {x(e), contexts[e]} /\ contexts[e] \in Context
    BY <1>1 DEF TypeInv, Sane
  <1>4. contexts' \in [Devices -> Context]
    BY <1>1, <1>2, <1>3
  <1>5. \A e \in Devices : /\ contexts'[e].listed = contexts[e].listed
                           /\ contexts'[e].assigned = contexts[e].assigned
                           /\ contexts'[e].reserved = contexts[e].reserved
                           /\ contexts'[e].number = contexts[e].number
                           /\ contexts'[e].emulating => contexts[e].emulating
    BY <1>2, <1>3
  <1>6. Sane(contexts')
    BY <1>4, <1>5, Kinds DEF TypeInv, Sane
  <1> QED
    BY <1>5, <1>6

LEMMA AddedSound ==
    ASSUME TypeInv, NEW u \in Usb, UsbAdded(u)
    PROVE  /\ Sane(contexts') /\ \A e \in Devices \ {u} : contexts'[e] = contexts[e]
           /\ contexts'[u] \in {contexts[u], NewContext}
           /\ contexts'[u] = contexts[u] \/ service # "destroyed"
  <1>1. u \in Devices /\ u # Osc
    BY Kinds DEF Devices
  <1>2. contexts' \in {contexts, [contexts EXCEPT ![u] = NewContext]}
    BY DEF UsbAdded
  <1>3. /\ contexts' \in [Devices -> Context] /\ contexts'[u] \in {contexts[u], NewContext}
        /\ \A e \in Devices \ {u} : contexts'[e] = contexts[e]
    BY <1>1, <1>2, NewContexts DEF TypeInv, Sane
  <1>4. ASSUME NEW e \in Devices
        PROVE  /\ contexts'[e].emulating => e \in Inputs
               /\ contexts'[e].reserved => e \in Pads \cup Usb /\ contexts'[e].assigned
    BY <1>3, NewContexts DEF TypeInv, Sane
  <1>5. Sane(contexts')
    BY <1>1, <1>3, <1>4, Kinds DEF TypeInv, Sane
  <1>6. contexts'[u] = contexts[u] \/ service # "destroyed"
    BY DEF UsbAdded
  <1> QED
    BY <1>3, <1>5, <1>6

\* The contexts, the masks and the packets keep their types.
LEMMA PacketsKeep ==
    ASSUME TypeInv, Group
    PROVE  PacketsTyped'
  <1> USE DEF prefVars, worldVars, maskVars, usbVars
  <1>1. PacketsTyped
    BY DEF TypeInv, PacketsTyped
  <1>2. ASSUME Sane(contexts'), MaskTyped', JobsTyped', host' \in Host PROVE PacketsTyped'
    BY <1>2 DEF PacketsTyped, Sane
  <1>3. UNCHANGED maskVars => MaskTyped'
    BY <1>1 DEF PacketsTyped, MaskTyped
  <1>4. ASSUME UNCHANGED <<pc, job>> PROVE JobsTyped'
    BY <1>1, <1>4 DEF PacketsTyped, JobsTyped, Reserves, Releases
  <1>5. UNCHANGED host => host' \in Host
    BY <1>1 DEF PacketsTyped
  <1>6. ASSUME NEW t \in Threads, ThreadStep(t) PROVE PacketsTyped'
    <2>1. CASE Reserve(t)
      BY <1>2, <2>1, ReserveTyped
    <2>2. CASE Send(t)
      <3>1. UNCHANGED maskVars /\ UNCHANGED contexts
        BY <2>2 DEF Send
      <3>2. Sane(contexts')
        BY <1>1, <3>1 DEF PacketsTyped
      <3> QED
        BY <1>2, <1>3, <2>2, <3>1, <3>2, SendTyped
    <2>3. CASE Released(t)
      BY <1>2, <2>3, ReleasedTyped
    <2> QED
      BY <1>6, <2>1, <2>2, <2>3 DEF ThreadStep
  <1>7. ASSUME NEW t, NEW d, NEW c, Speaks(t, d, c), SpeakStep(t, d, c) PROVE PacketsTyped'
    <2>1. UNCHANGED maskVars
      BY <1>7 DEF SpeakStep, KeyEvent, ReportOsc, UsbReport
    <2> QED
      BY <1>2, <1>3, <1>7, <2>1, SpeakingSound
  <1>8. ASSUME NEW t \in Threads, NEW d \in Inputs \cup Usb, ReleaseStep(t, d) PROVE PacketsTyped'
    <2>1. PICK j \in Job : job' = [job EXCEPT ![t] = j] /\ j.dev = d
      BY <1>8, ReleaseBegins
    <2>2. /\ pc' = [pc EXCEPT ![t] = "release"] /\ (t # Main => t = d)
          /\ UNCHANGED <<contexts, maskVars, host>>
      BY <1>8, ReleaseBegins
    <2>3. JobsTyped'
      BY <1>1, <2>1, <2>2 DEF PacketsTyped, JobsTyped, Reserves, Releases
    <2>4. Sane(contexts')
      BY <1>1, <2>2 DEF PacketsTyped
    <2> QED
      BY <1>2, <1>3, <1>5, <2>2, <2>3, <2>4
  <1>9. CASE Opens
    <2>1. Sane(contexts')
      BY <1>9, OpensSound, OpenedSound
    <2> QED
      BY <1>2, <1>3, <1>4, <1>5, <1>9, <2>1, OpensSound
  <1>10. ASSUME NEW u \in Usb, UsbAdded(u) PROVE PacketsTyped'
    <2>1. UNCHANGED <<maskVars, pc, job, host>>
      BY <1>10 DEF UsbAdded
    <2> QED
      BY <1>2, <1>3, <1>4, <1>5, <1>10, <2>1, AddedSound
  <1>11. ASSUME NEW d \in Inputs, InputDeviceChanged(d) PROVE PacketsTyped'
    <2>1. UNCHANGED <<maskVars, pc, job, host>>
      BY <1>11 DEF InputDeviceChanged
    <2> QED
      BY <1>2, <1>3, <1>4, <1>5, <1>11, <2>1, ChangedSound
  <1>12. CASE Stop
    <2>1. UNCHANGED <<maskVars, pc, job, host>>
      BY <1>12 DEF Stop
    <2> QED
      BY <1>2, <1>3, <1>4, <1>5, <1>12, <2>1, StopSound
  <1>13. CASE Aside
    BY <1>1, <1>13, AsideFrame, PacketsCalm
  <1> QED
    BY <1>6, <1>7, <1>8, <1>9, <1>10, <1>11, <1>12, <1>13 DEF Group
\* The devices, and what the hands hold, keep their types.
LEMMA WorldKeeps ==
    ASSUME TypeInv, Group, raced' \in BOOLEAN
    PROVE  WorldTyped'
  <1> USE DEF prefVars, worldVars
  <1>1. /\ party \in Parties /\ multiController \in BOOLEAN
        /\ onscreen \in {"off", "gamepad", "keyboard"}
        /\ attached \subseteq Inputs \cup Usb /\ leaving \subseteq Inputs \ attached
        /\ held \in [Devices -> SUBSET {A, Start}]
        /\ stopped \in BOOLEAN /\ events \in 0 .. MaxEvents
    BY DEF TypeInv, WorldTyped
  <1>2. events + 1 \in 0 .. MaxEvents \/ ~(events < MaxEvents)
    BY <1>1, ControllersAssumption
  <1>3. ASSUME UNCHANGED <<prefVars, worldVars, stopped>> PROVE WorldTyped'
    BY <1>1, <1>3 DEF WorldTyped
  <1>4. ASSUME UNCHANGED <<prefVars, attached, leaving, events, stopped>>,
               NEW d \in Devices, NEW buttons \in SUBSET {A, Start}, held' = [held EXCEPT ![d] = buttons]
        PROVE  WorldTyped'
    BY <1>1, <1>4 DEF WorldTyped
  <1>5. ASSUME NEW t \in Threads, ThreadStep(t) PROVE WorldTyped'
    BY <1>3, <1>5 DEF ThreadStep, Reserve, Send, Released
  <1>6. ASSUME NEW t, NEW d, NEW c, Speaks(t, d, c), SpeakStep(t, d, c) PROVE WorldTyped'
    <2>1. d \in Devices
      BY <1>6 DEF Speaks
    <2> QED
      BY <1>4, <1>6, <2>1 DEF SpeakStep, KeyEvent, ReportOsc, UsbReport
  <1>7. ASSUME NEW d \in Inputs, InputDeviceRemoved(d) PROVE WorldTyped'
    BY <1>1, <1>7 DEF WorldTyped, InputDeviceRemoved
  <1>8. ASSUME NEW u \in Usb, UsbFailed(u) \/ StopController(u) \/ UsbAdded(u) PROVE WorldTyped'
    BY <1>3, <1>8 DEF UsbFailed, StopController, UsbAdded
  <1>9. ASSUME NEW t \in Threads, NEW d \in Inputs \cup Usb, ReleaseStep(t, d) PROVE WorldTyped'
    BY <1>7, <1>8, <1>9 DEF ReleaseStep
  <1>10. CASE Opens
    BY <1>3, <1>10, OpensSound
  <1>11. ASSUME NEW d \in Inputs, InputDeviceChanged(d) PROVE WorldTyped'
    BY <1>1, <1>2, <1>11 DEF WorldTyped, InputDeviceChanged, Event
  <1>12. CASE Stop
    BY <1>1, <1>12 DEF WorldTyped, Stop
  <1>13. CASE Unbind \/ ServiceDestroyed
    BY <1>3, <1>13 DEF Unbind, ServiceDestroyed
  <1>14. ASSUME NEW u \in Usb, NEW flags \in SUBSET ButtonsOf(u), UsbReport(u, flags) PROVE WorldTyped'
    <2>1. flags \in SUBSET {A, Start} /\ u \in Devices
      BY DEF ButtonsOf, Devices
    <2> QED
      BY <1>4, <1>14, <2>1 DEF UsbReport
  <1>15. ASSUME NEW d \in Devices, d \in Roots
         PROVE  Unit(d) \subseteq Inputs \cup Usb /\ (d \in Inputs => Unit(d) \subseteq Inputs)
    BY <1>15 DEF Roots, Unit, Inputs
  <1>16. ASSUME NEW d \in Devices, Plug(d) PROVE WorldTyped'
    <2>1. leaving' \subseteq Inputs \ attached'
      BY <1>1, <1>16 DEF Plug
    <2>2. attached' \subseteq Inputs \cup Usb
      BY <1>1, <1>15, <1>16 DEF Plug
    <2> QED
      BY <1>1, <1>2, <1>16, <2>1, <2>2 DEF WorldTyped, Plug, Event
  <1>17. ASSUME NEW d \in Devices, Unplug(d) PROVE WorldTyped'
    <2>1. leaving' \subseteq Inputs \ attached'
      BY <1>1, <1>15, <1>17 DEF Unplug
    <2>2. held' \in [Devices -> SUBSET {A, Start}]
      BY <1>1, <1>17 DEF Unplug
    <2> QED
      BY <1>1, <1>2, <1>17, <2>1, <2>2 DEF WorldTyped, Unplug, Event
  <1>18. CASE Aside
    BY <1>7, <1>8, <1>13, <1>14, <1>16, <1>17, <1>18 DEF Aside
  <1> QED
    BY <1>5, <1>6, <1>8, <1>9, <1>10, <1>11, <1>12, <1>18 DEF Group

\* The USB driver keeps its types: the list has the controllers whose threads run.
LEMMA UsbKeeps ==
    ASSUME TypeInv, Group
    PROVE  UsbTyped'
  <1> USE DEF usbVars
  <1>1. UsbTyped
    BY DEF TypeInv
  <1>2. ASSUME UNCHANGED <<usbVars, stopped>> PROVE UsbTyped'
    BY <1>1, <1>2 DEF UsbTyped
  <1>3. ASSUME NEW u \in Usb, NEW to \in {"none", "running"}, driver[u] # "none",
               UNCHANGED <<service, arriving, asking, stopped>>,
               driver' = [driver EXCEPT ![u] = to],
               claimed' = IF to = "none" THEN claimed \ {u} ELSE claimed
        PROVE  UsbTyped'
    <2>1. driver' \in [Usb -> {"none", "starting", "running"}]
      BY <1>1, <1>3 DEF UsbTyped
    <2>2. claimed' = {v \in Usb : driver'[v] # "none"}
      BY <1>1, <1>3 DEF UsbTyped
    <2> QED
      BY <1>1, <1>3, <2>1, <2>2 DEF UsbTyped
  <1>4. ASSUME NEW t \in Threads, ThreadStep(t) PROVE UsbTyped'
    BY <1>2, <1>4 DEF ThreadStep, Reserve, Send, Released
  <1>5. ASSUME NEW t, NEW d, NEW c, SpeakStep(t, d, c) PROVE UsbTyped'
    BY <1>2, <1>5 DEF SpeakStep, KeyEvent, ReportOsc, UsbReport
  <1>6. ASSUME NEW u \in Usb, UsbFailed(u) \/ StopController(u) \/ UsbAdded(u) PROVE UsbTyped'
    <2>1. CASE UsbFailed(u)
      BY <1>3, <2>1 DEF UsbFailed
    <2>2. CASE StopController(u)
      BY <1>1, <1>3, <2>2 DEF StopController, UsbTyped
    <2>3. CASE UsbAdded(u)
      BY <1>3, <2>3 DEF UsbAdded
    <2> QED
      BY <1>6, <2>1, <2>2, <2>3
  <1>7. ASSUME NEW d \in Inputs, InputDeviceRemoved(d) \/ InputDeviceChanged(d) PROVE UsbTyped'
    BY <1>2, <1>7 DEF InputDeviceRemoved, InputDeviceChanged
  <1>8. ASSUME NEW t \in Threads, NEW d \in Inputs \cup Usb, ReleaseStep(t, d) PROVE UsbTyped'
    BY <1>6, <1>7, <1>8 DEF ReleaseStep
  <1>9. CASE Opens
    <2>1. PICK opened : Opened(opened)
      BY <1>9, OpensSound
    <2>2. /\ driver' \in [Usb -> {"none", "starting", "running"}]
          /\ claimed' = {u \in Usb : driver'[u] # "none"}
      BY <2>1, OpenedSound
    <2>3. /\ asking' \subseteq Usb /\ arriving' \subseteq Usb
          /\ service' \in {service, "running"} /\ UNCHANGED stopped
      BY <1>9, OpensSound
    <2> QED
      BY <1>1, <2>2, <2>3 DEF UsbTyped
  <1>10. CASE Stop
    BY <1>1, <1>10 DEF Stop, UsbTyped
  <1>11. CASE Unbind \/ ServiceDestroyed
    BY <1>1, <1>11 DEF Unbind, ServiceDestroyed, UsbTyped
  <1>12. ASSUME NEW u \in Usb, NEW flags, UsbReport(u, flags) PROVE UsbTyped'
    BY <1>2, <1>12 DEF UsbReport
  <1>13. ASSUME NEW d \in Devices, Plug(d) PROVE UsbTyped'
    BY <1>1, <1>13 DEF Plug, UsbTyped
  <1>14. ASSUME NEW d \in Devices, Unplug(d) PROVE UsbTyped'
    BY <1>2, <1>14 DEF Unplug
  <1>15. CASE Aside
    BY <1>6, <1>7, <1>11, <1>12, <1>13, <1>14, <1>15 DEF Aside
  <1> QED
    BY <1>4, <1>5, <1>6, <1>7, <1>8, <1>9, <1>10, <1>15 DEF Group

\* Initially nothing is listed, and on-screen controls have the first number.
LEMMA TypeInit == Init => TypeInv
  <1> SUFFICES ASSUME Init PROVE TypeInv
    OBVIOUS
  <1>1. PICK roots \in SUBSET Roots :
           attached = (Builtins \cap party) \cup UNION {Unit(d) : d \in roots}
    BY DEF Init
  <1>2. attached \subseteq Inputs \cup Usb
    <2>1. ASSUME NEW d \in roots PROVE Unit(d) \subseteq Inputs \cup Usb
      BY DEF Roots, Unit, Inputs
    <2>2. ASSUME NEW x \in UNION {Unit(d) : d \in roots} PROVE x \in Inputs \cup Usb
      BY <2>1
    <2> QED
      BY <1>1, <2>2 DEF Inputs
  <1>3. WorldTyped
    <2>1. onscreen \in {"off", "gamepad", "keyboard"}
      BY DEF Init
    <2>2. held \in [Devices -> SUBSET {A, Start}]
      BY DEF Init
    <2>3. events \in 0 .. MaxEvents
      BY ControllersAssumption DEF Init
    <2> QED
      BY <1>2, <2>1, <2>2, <2>3 DEF Init, WorldTyped
  <1>4. Sane(contexts)
    <2> DEFINE x == [NoContext EXCEPT !.assigned = TRUE]
    <2>1. x \in Context /\ x.assigned /\ x.number = 0 /\ ~x.reserved /\ ~x.emulating
      BY NewContexts DEF Context
    <2>2. contexts = [d \in Devices |-> IF d = Osc THEN x ELSE NoContext]
      BY DEF Init
    <2> HIDE DEF x
    <2> QED
      BY <2>1, <2>2, NewContexts, Kinds DEF Sane
  <1>5. AttachedMask(attached) \in SUBSET Numbers
    BY Kinds DEF AttachedMask
  <1>6. MaskTyped
    BY <1>5 DEF Init, MaskTyped
  <1>7. JobsTyped
    BY NoJobTyped DEF Init, JobsTyped
  <1>8. UsbTyped
    BY DEF Init, UsbTyped
  <1>9. host \in Host
    <2>1. ActiveMask({}, AttachedMask(attached)) \in SUBSET Numbers
      BY <1>5, ActiveMaskTyped
    <2> QED
      BY <2>1 DEF Init, Host
  <1> QED
    BY <1>3, <1>4, <1>6, <1>7, <1>8, <1>9 DEF TypeInv

LEMMA TypeNext == TypeInv /\ [Next]_vars => TypeInv'
  <1> SUFFICES ASSUME TypeInv, [Next]_vars PROVE TypeInv'
    OBVIOUS
  <1>1. CASE Next
    <2>1. Group
      BY <1>1, StepGroups DEF Next
    <2>2. raced' \in BOOLEAN
      BY <1>1 DEF Next, Conflict
    <2> QED
      BY <2>1, <2>2, WorldKeeps, UsbKeeps, PacketsKeep DEF TypeInv, PacketsTyped
  <1>2. CASE UNCHANGED vars
    <2> USE DEF vars, prefVars, worldVars, maskVars, usbVars
    <2>1. PacketsTyped /\ WorldTyped /\ UsbTyped
      BY DEF TypeInv, PacketsTyped
    <2>2. PacketsTyped'
      BY <1>2, <2>1, PacketsCalm
    <2>3. WorldTyped'
      BY <1>2, <2>1 DEF WorldTyped
    <2>4. UsbTyped'
      BY <1>2, <2>1 DEF UsbTyped
    <2> QED
      BY <2>2, <2>3, <2>4 DEF TypeInv, PacketsTyped
  <1> QED
    BY <1>1, <1>2
-----------------------------------------------------------------------------
(* The numbers *)

\* The numbers are unique, and the mask has those that are reserved.
Exact == UniqueNumbers /\ currentControllers = {contexts[d].number : d \in Reserving}

\* A thread that is about to store the mask has the mask that is there.  What
\* it reserves for, and what speaks, is listed and has no number yet; what it
\* releases is still listed.
ReserveHeld(t) ==
    /\ job[t].seen = currentControllers
    /\ contexts[job[t].dev].listed /\ ~contexts[job[t].dev].assigned
    /\ contexts[job[t].sender].listed /\ ~contexts[job[t].sender].assigned
    /\ t \in Usb => driver[t] = "running"
ReleaseHeld(t) ==
    /\ job[t].seen = currentControllers
    /\ contexts[job[t].dev].listed
    /\ t \in Usb => t \notin attached /\ driver[t] = "none"
    /\ t \notin Usb /\ job[t].dev \in Usb => service = "stopping" /\ driver[job[t].dev] = "none"

ReleasedBy(t, d) == pc[t] = "release" /\ job[t].dev = d

\* A USB controller with a context runs, or is being released.
UsbListed ==
    /\ \A u \in Usb : contexts[u].listed =>
          /\ driver[u] = "running" \/ ReleasedBy(Main, u) \/ ReleasedBy(u, u)
          /\ service = "destroyed" => ReleasedBy(u, u)
    /\ service = "bound" => arriving = {} /\ \A u \in Usb : driver[u] = "none"

NumberBody ==
    /\ ~Conflict /\ Exact /\ UsbListed
    /\ \A t \in Threads : /\ pc[t] = "reserve" => ReserveHeld(t)
                          /\ pc[t] = "release" => ReleaseHeld(t)

NumberInv == ~raced => NumberBody

\* A thread that is about to store the mask is alone.
LEMMA Alone ==
    ASSUME ~Conflict, NEW s \in Threads, NEW t \in Threads, s # t, pc[s] \in {"reserve", "release"}
    PROVE  pc[t] = "idle"
  BY DEF Conflict

LEMMA AloneNext ==
    ASSUME ~Conflict', NEW s \in Threads, NEW t \in Threads, s # t,
           pc'[s] \in {"reserve", "release"}
    PROVE  pc'[t] = "idle"
  BY DEF Conflict

\* Numbers that nobody gets or loses stay exact.
SameNumber(e) ==
    /\ (contexts'[e].listed /\ contexts'[e].reserved) <=> (contexts[e].listed /\ contexts[e].reserved)
    /\ contexts[e].listed /\ contexts[e].reserved => contexts'[e].number = contexts[e].number

LEMMA ExactCalm ==
    ASSUME Exact, \A e \in Devices : SameNumber(e), UNCHANGED currentControllers
    PROVE  Exact'
  <1>1. Reserving' = Reserving /\ \A e \in Reserving : contexts'[e].number = contexts[e].number
    BY DEF Reserving, SameNumber
  <1>2. {contexts'[d].number : d \in Reserving} = {contexts[d].number : d \in Reserving}
    BY <1>1
  <1>3. UniqueNumbers'
    BY <1>1 DEF Exact, UniqueNumbers
  <1> QED
    BY <1>1, <1>2, <1>3 DEF Exact

\* One device gets a number that nobody has, and it goes into the mask.
LEMMA ExactTaken ==
    ASSUME Exact, NEW d \in Devices, NEW n, n \notin currentControllers,
           currentControllers' = currentControllers \cup {n},
           ~contexts[d].reserved, contexts'[d].listed, contexts'[d].reserved, contexts'[d].number = n,
           \A e \in Devices \ {d} : SameNumber(e)
    PROVE  Exact'
  <1>1. Reserving' = Reserving \cup {d} /\ d \notin Reserving
    BY DEF Reserving, SameNumber
  <1>2. \A e \in Reserving : contexts'[e].number = contexts[e].number /\ contexts[e].number # n
    BY <1>1 DEF Reserving, SameNumber, Exact
  <1>3. UniqueNumbers'
    BY <1>1, <1>2 DEF Exact, UniqueNumbers
  <1>4. currentControllers' = {contexts'[e].number : e \in Reserving \cup {d}}
    BY <1>2 DEF Exact
  <1> QED
    BY <1>1, <1>3, <1>4 DEF Exact

\* One device loses its number, and it leaves the mask.
LEMMA ExactGiven ==
    ASSUME Exact, NEW d \in Devices, contexts[d].listed, contexts[d].reserved,
           currentControllers' = currentControllers \ {contexts[d].number},
           ~contexts'[d].listed, \A e \in Devices \ {d} : SameNumber(e)
    PROVE  Exact'
  <1>1. Reserving' = Reserving \ {d} /\ d \in Reserving
    BY DEF Reserving, SameNumber
  <1>2. \A e \in Reserving \ {d} : /\ contexts'[e].number = contexts[e].number
                                   /\ contexts[e].number # contexts[d].number
    BY <1>1 DEF Reserving, SameNumber, Exact, UniqueNumbers
  <1>3. UniqueNumbers'
    BY <1>1, <1>2 DEF Exact, UniqueNumbers
  <1>4. currentControllers' = {contexts'[e].number : e \in Reserving \ {d}}
    BY <1>1, <1>2 DEF Exact
  <1> QED
    BY <1>1, <1>3, <1>4 DEF Exact

\* Reserving keeps the numbers exact.
LEMMA ReserveExact ==
    ASSUME TypeInv, NumberBody, NEW t \in Threads, Reserve(t)
    PROVE  Exact' /\ \A e \in Devices : contexts'[e].listed = contexts[e].listed
  <1> DEFINE dev == job[t].dev
             sender == job[t].sender
  <1>1. PICK n \in Numbers, taken \in BOOLEAN :
           \E c : /\ Numbered(t, n, taken, c) /\ NumberTaken(t, n, taken)
                  /\ LET mask == ActiveMask(currentControllers', initialControllers')
                     IN  Packed(t, job[t].sender, c, mask)
    BY ReserveNumbers
  <1>2. PICK c : /\ Numbered(t, n, taken, c) /\ NumberTaken(t, n, taken)
                 /\ \A e \in Devices : Alike(c[e], contexts'[e])
    BY <1>1 DEF Packed
  <1>3. pc[t] = "reserve" /\ ReserveHeld(t)
    BY DEF Reserve, NumberBody
  <1>4. dev \in Devices /\ sender \in Devices /\ ~contexts[dev].reserved /\ ~contexts[sender].reserved
    BY <1>3 DEF TypeInv, JobsTyped, Reserves, Devices, Inputs, ReserveHeld, Sane
  <1>5. contexts[dev].listed /\ job[t].seen = currentControllers /\ Exact
    BY <1>3 DEF ReserveHeld, NumberBody
  <1> HIDE DEF dev, sender
  <1>6. /\ \A e \in Devices \ {dev, sender} : Alike(contexts[e], contexts'[e])
        /\ \A e \in {dev, sender} : contexts'[e].listed = contexts[e].listed /\ contexts'[e].number = n
        /\ contexts'[dev].reserved = taken
        /\ sender # dev => ~contexts'[sender].reserved
    BY <1>2, <1>4 DEF Numbered, Alike, dev, sender
  <1>7. \A e \in Devices \ {dev} : SameNumber(e)
    BY <1>4, <1>6 DEF SameNumber, Alike
  <1>8. CASE taken
    <2>1. n \notin currentControllers /\ currentControllers' = currentControllers \cup {n}
      BY <1>2, <1>5, <1>8 DEF NumberTaken
    <2>2. contexts'[dev].listed /\ contexts'[dev].reserved /\ contexts'[dev].number = n
      BY <1>5, <1>6, <1>8
    <2>3. Exact'
      BY <1>4, <1>5, <1>7, <2>1, <2>2, ExactTaken
    <2> QED
      BY <1>6, <2>3 DEF Alike
  <1>9. CASE ~taken
    <2>1. UNCHANGED currentControllers
      BY <1>2, <1>9 DEF NumberTaken, maskVars
    <2>2. SameNumber(dev)
      BY <1>4, <1>6, <1>9 DEF SameNumber
    <2>3. Exact'
      BY <1>5, <1>7, <2>1, <2>2, ExactCalm
    <2> QED
      BY <1>6, <2>3 DEF Alike
  <1> QED
    BY <1>8, <1>9
\* Nobody else stores the mask while a thread is on its way.
LEMMA OthersQuiet ==
    ASSUME NumberBody, TypeInv, NEW t \in Threads, pc[t] \in {"reserve", "release"}
    PROVE  /\ \A s \in Threads \ {t} : pc[s] = "idle"
           /\ \A s \in Threads, u \in Usb : ReleasedBy(s, u) => s = t /\ pc[t] = "release" /\ job[t].dev = u
  BY Alone DEF NumberBody, ReleasedBy

LEMMA ReserveNumber ==
    ASSUME TypeInv, NumberBody, ~Conflict', NEW t \in Threads, Reserve(t)
    PROVE  NumberBody'
  <1>1. Exact' /\ \A e \in Devices : contexts'[e].listed = contexts[e].listed
    BY ReserveExact
  <1>2. pc[t] = "reserve" /\ UNCHANGED usbVars
    BY DEF Reserve
  <1>3. /\ \A s \in Threads \ {t} : pc[s] = "idle"
        /\ \A s \in Threads, u \in Usb : ~ReleasedBy(s, u)
    BY <1>2, OthersQuiet
  <1>4. pc' = [pc EXCEPT ![t] = "send"]
    BY ReserveNumbers DEF Packed
  <1>5. \A s \in Threads : pc'[s] \in {"idle", "send"}
    BY <1>3, <1>4 DEF TypeInv, JobsTyped
  <1>6. Usb \subseteq Devices /\ Main \in Threads /\ Usb \subseteq Threads
    BY Kinds DEF Devices
  <1>7. UsbListed'
    BY <1>1, <1>2, <1>3, <1>6 DEF NumberBody, UsbListed, usbVars
  <1> QED
    BY <1>1, <1>5, <1>7 DEF NumberBody

LEMMA SendNumber ==
    ASSUME TypeInv, NumberBody, ~Conflict', NEW t \in Threads, Send(t)
    PROVE  NumberBody'
  <1> USE DEF usbVars, worldVars, maskVars
  <1>1. /\ pc[t] = "send" /\ pc' = [pc EXCEPT ![t] = "idle"] /\ job' = [job EXCEPT ![t] = NoJob]
        /\ UNCHANGED <<contexts, currentControllers, usbVars, worldVars>>
    BY DEF Send
  <1>2. \A s \in Threads : /\ s # t => pc'[s] = pc[s] /\ job'[s] = job[s]
                           /\ s = t => pc[s] = "send" /\ pc'[s] = "idle"
    BY <1>1 DEF TypeInv, JobsTyped
  <1>3. \A s \in Threads, u \in Usb : ReleasedBy(s, u)' <=> ReleasedBy(s, u)
    BY <1>2 DEF ReleasedBy
  <1>4. Main \in Threads /\ Usb \subseteq Threads
    BY Kinds
  <1>5. UsbListed'
    BY <1>1, <1>3, <1>4 DEF NumberBody, UsbListed
  <1>6. Exact'
    BY <1>1 DEF NumberBody, Exact, UniqueNumbers, Reserving
  <1>7. ASSUME NEW s \in Threads
        PROVE  /\ pc'[s] = "reserve" => ReserveHeld(s)'
               /\ pc'[s] = "release" => ReleaseHeld(s)'
    BY <1>1, <1>2 DEF NumberBody, ReserveHeld, ReleaseHeld
  <1> QED
    BY <1>5, <1>6, <1>7 DEF NumberBody

LEMMA ReleasedNumber ==
    ASSUME TypeInv, NumberBody, ~Conflict', NEW t \in Threads, Released(t)
    PROVE  NumberBody'
  <1> DEFINE d == job[t].dev
  <1>1. /\ pc[t] = "release" /\ pc' = [pc EXCEPT ![t] = "idle"] /\ UNCHANGED usbVars
        /\ IF contexts[d].reserved
           THEN currentControllers' \in {job[t].seen \ {contexts[d].number},
                                         currentControllers \ {contexts[d].number}}
           ELSE UNCHANGED currentControllers
    BY DEF Released
  <1>2. ~contexts'[d].listed /\ \A e \in Devices \ {d} : contexts'[e] = contexts[e]
    BY ReleasedTyped
  <1>3. /\ \A s \in Threads \ {t} : pc[s] = "idle"
        /\ \A s \in Threads, u \in Usb : ReleasedBy(s, u) => s = t /\ u = d
    BY <1>1, OthersQuiet
  <1>4. /\ d \in Devices /\ contexts[d].listed /\ job[t].seen = currentControllers /\ Exact
    BY <1>1 DEF NumberBody, ReleaseHeld, TypeInv, JobsTyped, Releases, Devices
  <1> HIDE DEF d
  <1>5. \A e \in Devices \ {d} : SameNumber(e)
    BY <1>2 DEF SameNumber
  <1>6. Exact'
    <2>1. CASE contexts[d].reserved
      BY <1>1, <1>2, <1>4, <1>5, <2>1, ExactGiven
    <2>2. CASE ~contexts[d].reserved
      <3>1. SameNumber(d)
        BY <1>2, <2>2 DEF SameNumber
      <3> QED
        BY <1>1, <1>4, <1>5, <2>2, <3>1, ExactCalm
    <2> QED
      BY <2>1, <2>2
  <1>7. \A s \in Threads : pc'[s] = "idle"
    BY <1>1, <1>3 DEF TypeInv, JobsTyped
  <1>8. Usb \subseteq Devices /\ Main \in Threads /\ Usb \subseteq Threads
    BY Kinds DEF Devices
  <1>9. \A u \in Usb : contexts'[u].listed => u # d /\ contexts[u].listed
    BY <1>2, <1>8
  <1>10. UsbListed'
    BY <1>1, <1>3, <1>8, <1>9 DEF NumberBody, UsbListed, usbVars
  <1> QED
    BY <1>6, <1>7, <1>10 DEF NumberBody

\* What the contexts keep when a device speaks.
LEMMA SpeakContexts ==
    ASSUME TypeInv, NEW t, NEW d, NEW c, Speaks(t, d, c), SpeakStep(t, d, c)
    PROVE  /\ \A e \in Devices : SameNumber(e) /\ (contexts[e].listed => contexts'[e].listed)
           /\ \A u \in Usb : contexts'[u].listed = contexts[u].listed
  <1>1. d \in Devices /\ Touched(c, d) /\ Enlisted(c, contexts') /\ Sane(c) /\ (d \notin Usb \/ contexts[d].listed)
    BY SpeakingSound, Kinds DEF Speaks, SpeakStep
  <1>2. ASSUME NEW e \in Devices
        PROVE  SameNumber(e) /\ (contexts[e].listed => contexts'[e].listed)
    <2>1. /\ contexts[e].reserved => contexts[e].assigned
          /\ c[e].reserved => c[e].assigned
      BY <1>1 DEF TypeInv, Sane
    <2>2. Kept(c[e], contexts'[e])
      BY <1>1 DEF Enlisted
    <2>3. CASE e # d
      BY <1>1, <2>1, <2>2, <2>3 DEF Touched, Kept, SameNumber
    <2>4. CASE e = d
      BY <1>1, <2>1, <2>2, <2>4 DEF Touched, Kept, SameNumber
    <2> QED
      BY <2>3, <2>4
  <1>3. ASSUME NEW u \in Usb PROVE contexts'[u].listed = contexts[u].listed
    <2>1. u \in Devices /\ u \notin Pads
      BY Kinds DEF Devices
    <2>2. contexts'[u].listed = c[u].listed
      BY <1>1, <2>1 DEF Enlisted
    <2> QED
      BY <1>1, <2>1, <2>2 DEF Touched
  <1> QED
    BY <1>2, <1>3

LEMMA SpeakNumber ==
    ASSUME TypeInv, NumberBody, ~Conflict', NEW t, NEW d, NEW c, Speaks(t, d, c), SpeakStep(t, d, c)
    PROVE  NumberBody'
  <1> USE DEF usbVars, worldVars, maskVars
  <1>1. /\ t \in Threads /\ d \in Devices /\ pc[t] = "idle"
        /\ (d \in Usb => t = d) /\ (d \notin Usb => t = Main)
    BY DEF Speaks
  <1>2. UNCHANGED <<currentControllers, usbVars>>
    BY DEF SpeakStep, KeyEvent, ReportOsc, UsbReport
  <1>3. Picked(t, d, c) \/ Sent(t, d)
    BY SpeakingSound
  <1>4. /\ pc'[t] \in {"reserve", "send"}
        /\ \A s \in Threads \ {t} : pc'[s] = pc[s]
    BY <1>1, <1>3 DEF Picked, Sent, TypeInv, JobsTyped
  <1>5. \A s \in Threads \ {t} : pc[s] \notin {"reserve", "release"}
    BY <1>1, <1>4, AloneNext
  <1>6. \A s \in Threads, u \in Usb : ~ReleasedBy(s, u)
    BY <1>1, <1>5 DEF ReleasedBy
  <1>7. Main \in Threads /\ Usb \subseteq Threads
    BY Kinds
  <1>8. UsbListed'
    BY <1>2, <1>6, <1>7, SpeakContexts DEF NumberBody, UsbListed
  <1>9. Exact'
    BY <1>2, SpeakContexts, ExactCalm DEF NumberBody
  <1>10. pc'[t] = "reserve" => ReserveHeld(t)'
    <2> SUFFICES ASSUME pc'[t] = "reserve" PROVE ReserveHeld(t)'
      OBVIOUS
    <2>1. Picked(t, d, c)
      BY <1>1, <1>3 DEF Sent, TypeInv, JobsTyped
    <2>2. PICK r \in Pads \cup Usb :
             /\ contexts'[r].listed /\ ~contexts'[r].assigned
             /\ contexts'[d].listed /\ ~contexts'[d].assigned
             /\ job' = [job EXCEPT ![t] = Picking(r, d, currentControllers)]
      BY <2>1 DEF Picked
    <2> DEFINE j == Picking(r, d, currentControllers)
    <2>3. j.dev = r /\ j.sender = d /\ j.seen = currentControllers
      <3>1. r \in Devices /\ currentControllers \in SUBSET Numbers
        BY DEF Devices, Inputs, TypeInv, MaskTyped
      <3> QED
        BY <1>1, <3>1, PickingJob
    <2> HIDE DEF j
    <2>4. job'[t] = j
      BY <1>1, <2>2 DEF TypeInv, JobsTyped, j
    <2>5. t \in Usb => driver'[t] = "running"
      BY <1>1, <1>2, Kinds DEF SpeakStep, UsbReport
    <2> QED
      BY <1>2, <2>2, <2>3, <2>4, <2>5 DEF ReserveHeld
  <1>11. \A s \in Threads : pc'[s] \in {"reserve", "release"} => s = t /\ pc'[t] = "reserve"
    BY <1>4, <1>5
  <1> QED
    BY <1>8, <1>9, <1>10, <1>11 DEF NumberBody
LEMMA ReleaseNumber ==
    ASSUME TypeInv, NumberBody, ~Conflict', NEW t \in Threads, NEW d \in Inputs \cup Usb, ReleaseStep(t, d)
    PROVE  NumberBody'
  <1> USE DEF usbVars, worldVars, maskVars
  <1>1. PICK j \in Job : /\ job' = [job EXCEPT ![t] = j]
                         /\ j.dev = d /\ j.seen = currentControllers
    BY ReleaseBegins
  <1>2. /\ contexts[d].listed /\ pc[t] = "idle" /\ pc' = [pc EXCEPT ![t] = "release"]
        /\ t # Main => t = d
        /\ UNCHANGED <<contexts, currentControllers>>
    BY ReleaseBegins
  <1>3. /\ pc'[t] = "release" /\ job'[t] = j
        /\ \A s \in Threads \ {t} : pc'[s] = pc[s]
    BY <1>1, <1>2 DEF TypeInv, JobsTyped
  <1>4. \A s \in Threads \ {t} : pc'[s] = "idle" /\ pc[s] = "idle"
    BY <1>3, AloneNext
  <1>5. \A s \in Threads, u \in Usb : ~ReleasedBy(s, u)
    BY <1>2, <1>4 DEF ReleasedBy
  <1>6. Main \in Threads /\ Usb \subseteq Threads /\ Main \notin Usb
    BY Kinds
  <1>7. /\ UNCHANGED <<service, arriving>>
        /\ \A u \in Usb \ {d} : driver'[u] = driver[u]
        /\ d \in Usb => driver'[d] = "none" /\ service # "destroyed" /\ service # "bound"
    <2>1. driver \in [Usb -> {"none", "starting", "running"}]
      BY DEF TypeInv, UsbTyped
    <2>2. CASE d \in Inputs /\ InputDeviceRemoved(d)
      BY <2>2, Kinds DEF InputDeviceRemoved
    <2>3. CASE d \in Usb /\ UsbFailed(d) /\ service # "destroyed"
      BY <2>1, <2>3 DEF UsbFailed, NumberBody, UsbListed
    <2>4. CASE d \in Usb /\ StopController(d)
      BY <2>1, <2>4 DEF StopController
    <2> QED
      BY <2>2, <2>3, <2>4 DEF ReleaseStep
  <1>8. UsbListed'
    <2>1. ASSUME NEW u \in Usb, contexts[u].listed, u # d
          PROVE  driver[u] = "running" /\ service # "destroyed"
      BY <1>5, <1>6, <2>1 DEF NumberBody, UsbListed
    <2>2. d \in Usb => ReleasedBy(Main, d)' \/ ReleasedBy(d, d)'
      BY <1>1, <1>2, <1>3 DEF ReleasedBy
    <2>3. service = "bound" => d \notin Usb /\ arriving = {} /\ \A u \in Usb : driver[u] = "none"
      BY <1>7 DEF NumberBody, UsbListed
    <2> QED
      BY <1>2, <1>7, <2>1, <2>2, <2>3 DEF UsbListed
  <1>9. Exact'
    BY <1>2 DEF NumberBody, Exact, UniqueNumbers, Reserving
  <1>10. ReleaseHeld(t)'
    <2>1. t \in Usb => t \notin attached' /\ driver'[t] = "none"
      <3>1. CASE t \in Usb
        <4>1. t = d /\ UsbFailed(d)
          BY <1>2, <1>6, <3>1 DEF ReleaseStep
        <4> QED
          BY <1>7, <3>1, <4>1 DEF UsbFailed
      <3> QED
        BY <3>1
    <2>2. t \notin Usb /\ d \in Usb => service' = "stopping" /\ driver'[d] = "none"
      <3>1. CASE t \notin Usb /\ d \in Usb
        <4>1. StopController(d)
          BY <3>1, Kinds DEF ReleaseStep
        <4> QED
          BY <1>7, <3>1, <4>1 DEF StopController
      <3> QED
        BY <3>1
    <2> QED
      BY <1>1, <1>2, <1>3, <2>1, <2>2 DEF ReleaseHeld
  <1> QED
    BY <1>3, <1>4, <1>8, <1>9, <1>10 DEF NumberBody

\* The devices that are opened have no context.
LEMMA OpenedUnlisted ==
    ASSUME NumberBody, Opens, TypeInv, NEW opened, Opened(opened), NEW u \in opened
    PROVE  ~contexts[u].listed
  <1>1. u \in Usb /\ driver[u] = "none" /\ u \in attached /\ u \in Threads
    BY Kinds DEF Opened
  <1>2. ~ReleasedBy(Main, u)
    BY OpensSound DEF ReleasedBy, MainFree
  <1>3. ~ReleasedBy(u, u)
    BY <1>1 DEF ReleasedBy, NumberBody, ReleaseHeld
  <1> QED
    BY <1>1, <1>2, <1>3 DEF NumberBody, UsbListed

LEMMA OpensNumber ==
    ASSUME TypeInv, NumberBody, ~Conflict', Opens
    PROVE  NumberBody'
  <1> USE DEF usbVars, worldVars, maskVars
  <1>1. PICK opened : Opened(opened)
    BY OpensSound
  <1>2. /\ UNCHANGED <<currentControllers, pc, job, attached>> /\ pc[Main] = "idle"
        /\ service # "stopping"
        /\ service' \in {service, "running"}
    BY OpensSound DEF MainFree
  <1>3. /\ \A e \in opened : contexts'[e] = NoContext
        /\ \A e \in Devices \ opened : contexts'[e] = contexts[e]
        /\ \A u \in opened : driver'[u] = "starting"
        /\ \A u \in Usb \ opened : driver'[u] = driver[u]
    BY <1>1, OpenedSound
  <1>4. opened \subseteq Usb /\ \A u \in opened : driver[u] = "none" /\ u \in attached
    BY <1>1 DEF Opened
  <1>5. Main \in Threads /\ Usb \subseteq Threads /\ Main \notin Usb
    BY Kinds
  <1>6. \A u \in opened : ~contexts[u].listed
    BY <1>1, OpenedUnlisted
  <1>7. \A e \in Devices : contexts[e].listed => e \notin opened /\ contexts'[e] = contexts[e]
    BY <1>3, <1>6
  <1>8. \A e \in Devices : SameNumber(e)
    BY <1>3, <1>7, NewContexts DEF SameNumber
  <1>9. Exact'
    BY <1>2, <1>8, ExactCalm DEF NumberBody
  <1>10. \A u \in Usb : contexts'[u].listed => u \notin opened /\ contexts[u].listed
    BY <1>3, NewContexts DEF Devices
  <1>12. UsbListed'
    <2>1. service' # "bound"
      <3>1. CASE ServiceConnected
        BY <3>1 DEF ServiceConnected
      <3>2. ASSUME NEW u \in Usb, HandleArrival(u) PROVE service' # "bound"
        BY <3>2 DEF HandleArrival, NumberBody, UsbListed
      <3>3. ASSUME NEW u \in Usb, PermissionAnswered(u) PROVE service' # "bound"
        BY <3>3 DEF PermissionAnswered
      <3> QED
        BY <3>1, <3>2, <3>3 DEF Opens
    <2>2. \A s \in Threads, u \in Usb : ReleasedBy(s, u)' <=> ReleasedBy(s, u)
      BY <1>2 DEF ReleasedBy
    <2> QED
      BY <1>2, <1>3, <1>5, <1>10, <2>1, <2>2 DEF NumberBody, UsbListed
  <1>13. ASSUME NEW t \in Threads, pc[t] = "reserve" PROVE ReserveHeld(t)'
    <2>1. ReserveHeld(t) /\ job[t].dev \in Devices /\ job[t].sender \in Devices
      BY <1>13 DEF NumberBody, TypeInv, JobsTyped, Reserves, Devices, Inputs
    <2>2. t \in Usb => t \notin opened
      BY <1>4, <2>1 DEF ReserveHeld
    <2> QED
      BY <1>2, <1>3, <1>7, <2>1, <2>2 DEF ReserveHeld
  <1>14. ASSUME NEW t \in Threads, pc[t] = "release" PROVE ReleaseHeld(t)'
    <2>1. ReleaseHeld(t) /\ job[t].dev \in Devices /\ t \in Usb
      BY <1>2, <1>14, Kinds DEF NumberBody, TypeInv, JobsTyped, Releases, Devices, Threads
    <2>2. t \notin opened
      BY <1>4, <2>1 DEF ReleaseHeld
    <2> QED
      BY <1>2, <1>3, <1>7, <2>1, <2>2 DEF ReleaseHeld
  <1> QED
    BY <1>2, <1>9, <1>12, <1>13, <1>14 DEF NumberBody

\* A controller gets its context when its thread starts, and not before.
LEMMA AddedUnlisted ==
    ASSUME TypeInv, NumberBody, NEW u \in Usb, UsbAdded(u)
    PROVE  ~contexts[u].listed /\ \A s \in Threads : pc[s] = "release" => job[s].dev # u
  <1>1. driver[u] = "starting" /\ Main \in Threads /\ Usb \subseteq Threads /\ Main \notin Usb
    BY Kinds DEF UsbAdded
  <1>2. \A s \in Threads : pc[s] = "release" => job[s].dev # u
    BY <1>1 DEF NumberBody, ReleaseHeld, TypeInv, JobsTyped, Releases, Threads
  <1> QED
    BY <1>1, <1>2 DEF NumberBody, UsbListed, ReleasedBy

LEMMA AddedNumber ==
    ASSUME TypeInv, NumberBody, ~Conflict', NEW u \in Usb, UsbAdded(u)
    PROVE  NumberBody'
  <1> USE DEF usbVars, worldVars, maskVars
  <1>1. /\ driver[u] = "starting" /\ driver' = [driver EXCEPT ![u] = "running"]
        /\ UNCHANGED <<currentControllers, pc, job, service, arriving, attached>>
    BY DEF UsbAdded
  <1>2. /\ \A e \in Devices \ {u} : contexts'[e] = contexts[e]
        /\ contexts'[u] \in {contexts[u], NewContext}
        /\ contexts'[u] = contexts[u] \/ service # "destroyed"
    BY AddedSound
  <1>3. Main \in Threads /\ Usb \subseteq Threads /\ Main \notin Usb
    BY Kinds
  <1>4. \A s \in Threads : pc[s] = "release" => job[s].dev # u
    BY AddedUnlisted
  <1>5. ~contexts[u].listed
    BY AddedUnlisted
  <1>6. \A e \in Devices : SameNumber(e)
    BY <1>2, <1>5, NewContexts DEF SameNumber
  <1>7. Exact'
    BY <1>1, <1>6, ExactCalm DEF NumberBody
  <1>8. driver'[u] = "running" /\ \A v \in Usb \ {u} : driver'[v] = driver[v]
    BY <1>1 DEF TypeInv, UsbTyped
  <1>9. UsbListed'
    <2>1. \A s \in Threads, v \in Usb : ReleasedBy(s, v)' <=> ReleasedBy(s, v)
      BY <1>1 DEF ReleasedBy
    <2>2. service # "bound"
      BY <1>1 DEF NumberBody, UsbListed
    <2>3. Usb \subseteq Devices
      BY DEF Devices
    <2> QED
      BY <1>1, <1>2, <1>3, <1>5, <1>8, <2>1, <2>2, <2>3 DEF NumberBody, UsbListed
  <1>10. ASSUME NEW t \in Threads, pc[t] = "reserve" PROVE ReserveHeld(t)'
    <2>1. ReserveHeld(t) /\ job[t].dev \in Devices /\ job[t].sender \in Devices
      BY <1>10 DEF NumberBody, TypeInv, JobsTyped, Reserves, Devices, Inputs
    <2>2. job[t].dev # u /\ job[t].sender # u /\ (t \in Usb => t # u)
      BY <1>1, <1>5, <2>1 DEF ReserveHeld
    <2> QED
      BY <1>1, <1>2, <1>8, <2>1, <2>2 DEF ReserveHeld
  <1>11. ASSUME NEW t \in Threads, pc[t] = "release" PROVE ReleaseHeld(t)'
    <2>1. ReleaseHeld(t) /\ job[t].dev \in Devices /\ job[t].dev # u
      BY <1>4, <1>11 DEF NumberBody, TypeInv, JobsTyped, Releases, Devices
    <2>2. t \in Usb => t # u
      BY <1>1, <2>1 DEF ReleaseHeld
    <2> QED
      BY <1>1, <1>2, <1>8, <2>1, <2>2 DEF ReleaseHeld
  <1> QED
    BY <1>1, <1>7, <1>9, <1>10, <1>11 DEF NumberBody

\* A step that leaves the numbers, the threads and the USB driver alone.
LEMMA NumberCalm ==
    ASSUME TypeInv, NumberBody, ~Conflict', UNCHANGED <<currentControllers, pc, job, attached, usbVars>>,
           \A e \in Devices : /\ contexts'[e].listed = contexts[e].listed
                              /\ contexts'[e].assigned = contexts[e].assigned
                              /\ contexts'[e].reserved = contexts[e].reserved
                              /\ contexts'[e].number = contexts[e].number
    PROVE  NumberBody'
  <1> USE DEF usbVars
  <1>1. \A e \in Devices : SameNumber(e)
    BY DEF SameNumber
  <1>2. Exact'
    BY <1>1, ExactCalm DEF NumberBody
  <1>3. Usb \subseteq Devices
    BY DEF Devices
  <1>4. UsbListed'
    BY <1>3 DEF NumberBody, UsbListed, ReleasedBy
  <1>5. ASSUME NEW t \in Threads, pc[t] = "reserve" PROVE ReserveHeld(t)'
    <2>1. ReserveHeld(t) /\ job[t].dev \in Devices /\ job[t].sender \in Devices
      BY <1>5 DEF NumberBody, TypeInv, JobsTyped, Reserves, Devices, Inputs
    <2> QED
      BY <2>1 DEF ReserveHeld
  <1>6. ASSUME NEW t \in Threads, pc[t] = "release" PROVE ReleaseHeld(t)'
    <2>1. ReleaseHeld(t) /\ job[t].dev \in Devices
      BY <1>6 DEF NumberBody, TypeInv, JobsTyped, Releases, Devices
    <2> QED
      BY <2>1 DEF ReleaseHeld
  <1> QED
    BY <1>2, <1>4, <1>5, <1>6 DEF NumberBody
\* A step of the devices and the USB driver that no thread on its way notices.
LEMMA NumberAside ==
    ASSUME TypeInv, NumberBody, ~Conflict', UNCHANGED <<contexts, currentControllers, pc, job>>,
           \A u \in Usb : /\ contexts[u].listed \/ pc[u] = "reserve" => driver'[u] = driver[u]
                          /\ driver[u] = "none" => driver'[u] = "none"
                          /\ pc[u] # "idle" /\ u \notin attached => u \notin attached',
           service' = "destroyed" => \/ service = "destroyed"
                                     \/ pc[Main] = "idle" /\ \A u \in Usb : driver[u] = "none",
           service' = "bound" => service = "bound" /\ UNCHANGED <<arriving, driver>>,
           pc[Main] # "idle" => service' = service
    PROVE  NumberBody'
  <1>1. Exact'
    BY DEF NumberBody, Exact, UniqueNumbers, Reserving
  <1>2. Main \in Threads /\ Usb \subseteq Threads /\ Main \notin Usb
    BY Kinds
  <1>3. UsbListed'
    <2>1. \A s \in Threads, u \in Usb : ReleasedBy(s, u)' <=> ReleasedBy(s, u)
      BY DEF ReleasedBy
    <2>2. ASSUME NEW u \in Usb, contexts[u].listed
          PROVE  /\ driver'[u] = "running" \/ ReleasedBy(Main, u) \/ ReleasedBy(u, u)
                 /\ service' = "destroyed" => ReleasedBy(u, u)
      <3>1. /\ driver[u] = "running" \/ ReleasedBy(Main, u) \/ ReleasedBy(u, u)
            /\ service = "destroyed" => ReleasedBy(u, u)
        BY <2>2 DEF NumberBody, UsbListed
      <3>2. pc[Main] = "idle" => ~ReleasedBy(Main, u)
        BY DEF ReleasedBy
      <3> QED
        BY <2>2, <3>1, <3>2
    <2>3. service' = "bound" => arriving' = {} /\ \A u \in Usb : driver'[u] = "none"
      BY DEF NumberBody, UsbListed
    <2> QED
      BY <1>2, <2>1, <2>2, <2>3 DEF UsbListed
  <1>4. ASSUME NEW t \in Threads, pc[t] = "reserve" PROVE ReserveHeld(t)'
    BY <1>4 DEF NumberBody, ReserveHeld
  <1>5. ASSUME NEW t \in Threads, pc[t] = "release" PROVE ReleaseHeld(t)'
    <2>1. ReleaseHeld(t)
      BY <1>5 DEF NumberBody
    <2>2. t \notin Usb => t = Main
      BY DEF Threads
    <2> QED
      BY <1>5, <2>1, <2>2 DEF ReleaseHeld
  <1> QED
    BY <1>1, <1>3, <1>4, <1>5 DEF NumberBody

\* Devices that come and go, and controllers without a context, change no number.
LEMMA AsideNumber ==
    ASSUME TypeInv, NumberBody, ~Conflict', Aside
    PROVE  NumberBody'
  <1> USE DEF usbVars, worldVars, maskVars
  <1>1. UNCHANGED <<contexts, currentControllers, pc, job>>
    BY AsideFrame
  <1>2. ASSUME NEW d \in Devices, Plug(d) PROVE NumberBody'
    <2>1. /\ UNCHANGED <<service, driver>> /\ attached' = attached \cup Unit(d)
          /\ d \in Usb => pc[d] = "idle"
          /\ service # "running" => UNCHANGED arriving
      BY <1>2 DEF Plug
    <2>2. \A u \in Usb : u \in Unit(d) => u = d
      BY Kinds DEF Unit, Inputs
    <2> QED
      BY <1>1, <2>1, <2>2, NumberAside
  <1>3. ASSUME NEW d \in Devices, Unplug(d) PROVE NumberBody'
    <2>1. attached' \subseteq attached /\ UNCHANGED usbVars
      BY <1>3 DEF Unplug
    <2> QED
      BY <1>1, <2>1, NumberAside
  <1>4. CASE Unbind
    <2>1. /\ pc[Main] = "idle" /\ UNCHANGED <<arriving, driver, attached>> /\ service' # "bound"
          /\ service' = "destroyed" => service = "bound"
      BY <1>4 DEF Unbind, MainFree
    <2>2. service = "bound" => \A u \in Usb : driver[u] = "none"
      BY DEF NumberBody, UsbListed
    <2> QED
      BY <1>1, <2>1, <2>2, NumberAside
  <1>5. CASE ServiceDestroyed
    <2>1. pc[Main] = "idle" /\ UNCHANGED <<arriving, driver, attached>> /\ service' = "destroyed" /\ claimed = {}
      BY <1>5 DEF ServiceDestroyed
    <2>2. \A u \in Usb : driver[u] = "none"
      BY <2>1 DEF TypeInv, UsbTyped
    <2> QED
      BY <1>1, <2>1, <2>2, NumberAside
  <1>6. ASSUME NEW d \in Inputs, InputDeviceRemoved(d) PROVE NumberBody'
    <2>1. UNCHANGED <<usbVars, attached>>
      BY <1>6 DEF InputDeviceRemoved
    <2> QED
      BY <1>1, <2>1, NumberAside
  <1>7. ASSUME NEW u \in Usb, UsbFailed(u) \/ StopController(u), ~(service # "destroyed" /\ contexts[u].listed)
        PROVE  NumberBody'
    <2>1. /\ driver' = [driver EXCEPT ![u] = "none"] /\ UNCHANGED <<service, arriving, attached>>
          /\ pc[u] = "idle" \/ service = "stopping"
          /\ service = "bound" => driver[u] = "running"
      BY <1>7 DEF UsbFailed, StopController
    <2>2. u \in Threads /\ u # Main
      BY Kinds
    <2>3. ~contexts[u].listed
      BY <1>7, <2>1, <2>2 DEF NumberBody, UsbListed, ReleasedBy
    <2>4. pc[u] # "reserve"
      <3>1. pc[u] = "reserve" => job[u].dev = u
        BY <2>2 DEF TypeInv, JobsTyped, Reserves
      <3> QED
        BY <2>2, <2>3, <3>1 DEF NumberBody, ReserveHeld
    <2>5. service # "bound"
      BY <2>1 DEF NumberBody, UsbListed
    <2>6. driver'[u] = "none" /\ \A v \in Usb \ {u} : driver'[v] = driver[v]
      BY <2>1 DEF TypeInv, UsbTyped
    <2>7. \A v \in Usb : /\ contexts[v].listed \/ pc[v] = "reserve" => driver'[v] = driver[v]
                         /\ driver[v] = "none" => driver'[v] = "none"
      BY <2>3, <2>4, <2>6
    <2>8. service' = service /\ attached' = attached /\ service' # "bound"
      BY <2>1, <2>5
    <2> QED
      BY <1>1, <2>7, <2>8, NumberAside
  <1>8. ASSUME NEW u \in Usb, NEW flags, UsbReport(u, flags) PROVE NumberBody'
    <2>1. UNCHANGED <<usbVars, attached>>
      BY <1>8 DEF UsbReport
    <2> QED
      BY <1>1, <2>1, NumberAside
  <1> QED
    BY <1>2, <1>3, <1>4, <1>5, <1>6, <1>7, <1>8 DEF Aside

\* Initially nothing has a number, and nobody is on the way.
LEMMA NumberInit == Init => NumberInv
  <1> SUFFICES ASSUME Init PROVE NumberBody
    BY DEF NumberInv
  <1>1. \A t \in Threads : pc[t] = "idle"
    BY DEF Init
  <1>2. ~Conflict
    BY <1>1 DEF Conflict
  <1>3. ASSUME NEW d \in Devices PROVE ~contexts[d].listed
    <2>1. contexts[d] \in {NoContext, [NoContext EXCEPT !.assigned = TRUE]}
      BY DEF Init
    <2> QED
      BY <2>1, NewContexts DEF Context
  <1>4. Exact
    BY <1>3 DEF Exact, UniqueNumbers, Reserving, Init
  <1>5. UsbListed
    BY <1>3 DEF UsbListed, Init, Devices
  <1> QED
    BY <1>1, <1>2, <1>4, <1>5 DEF NumberBody

LEMMA NumberNext == TypeInv /\ NumberInv /\ [Next]_vars => NumberInv'
  <1> SUFFICES ASSUME TypeInv, NumberInv, [Next]_vars, ~raced' PROVE NumberBody'
    BY DEF NumberInv
  <1>1. CASE Next
    <2>1. ~raced /\ ~Conflict'
      BY <1>1 DEF Next
    <2>2. NumberBody
      BY <2>1 DEF NumberInv
    <2>3. Group
      BY <1>1, StepGroups DEF Next
    <2>4. ASSUME NEW t \in Threads, ThreadStep(t) PROVE NumberBody'
      BY <2>1, <2>2, <2>4, ReserveNumber, SendNumber, ReleasedNumber DEF ThreadStep
    <2>5. ASSUME NEW d \in Inputs, InputDeviceChanged(d) PROVE NumberBody'
      <3>1. UNCHANGED <<currentControllers, pc, job, attached, usbVars>>
        BY <2>5 DEF InputDeviceChanged, maskVars
      <3>2. \A e \in Devices : /\ contexts'[e].listed = contexts[e].listed
                               /\ contexts'[e].assigned = contexts[e].assigned
                               /\ contexts'[e].reserved = contexts[e].reserved
                               /\ contexts'[e].number = contexts[e].number
        BY <2>5, ChangedSound DEF TypeInv, Sane, Context
      <3> QED
        BY <2>1, <2>2, <3>1, <3>2, NumberCalm
    <2>6. CASE Stop
      <3>1. UNCHANGED <<currentControllers, pc, job, attached, usbVars>>
        BY <2>6 DEF Stop, maskVars
      <3> QED
        BY <2>1, <2>2, <2>6, <3>1, StopSound, NumberCalm
    <2> QED
      BY <2>1, <2>2, <2>3, <2>4, <2>5, <2>6, SpeakNumber, ReleaseNumber, OpensNumber, AddedNumber,
         AsideNumber DEF Group
  <1>2. CASE UNCHANGED vars
    <2>1. UNCHANGED <<contexts, raced, maskVars, pc, job, attached, usbVars>>
      BY <1>2 DEF vars, worldVars
    <2>2. NumberBody
      BY <2>1 DEF NumberInv
    <2>3. ~Conflict'
      BY <2>1, <2>2 DEF NumberBody, Conflict
    <2> QED
      BY <2>1, <2>2, <2>3, NumberCalm DEF maskVars
  <1> QED
    BY <1>1, <1>2

\* The types; and as long as two threads did not cross, no two contexts have the
\* same reserved number and the mask has exactly those numbers: none leaks with a
\* device that is removed, changed or stopped, and none is given back while in use.
THEOREM NumbersCorrect == Spec => []NumbersSound
  <1>1. Init => TypeInv /\ NumberInv
    BY TypeInit, NumberInit
  <1>2. TypeInv /\ NumberInv /\ [Next]_vars => (TypeInv /\ NumberInv)'
    BY TypeNext, NumberNext
  <1>3. TypeInv /\ NumberInv => NumbersSound
    BY TypeParts DEF NumberInv, NumberBody, Exact, NumbersSound, MaskExact
  <1> QED
    BY <1>1, <1>2, <1>3, PTL DEF Spec
-----------------------------------------------------------------------------
(* The mask of the host *)

\* The host has the mask, and so has every packet on its way.
MaskBody ==
    /\ host.mask = ActiveMask(currentControllers, initialControllers)
    /\ \A t \in Threads : pc[t] = "send" => job[t].mask = host.mask

MaskInv == ~raced => MaskBody

\* A step that changes neither the mask nor the host, and makes no packet.
LEMMA MaskCalm ==
    ASSUME MaskBody, UNCHANGED <<prefVars, maskVars, host>>,
           \A s \in Threads : pc'[s] = "send" => pc[s] = "send" /\ job'[s] = job[s]
    PROVE  MaskBody'
  BY DEF MaskBody, ActiveMask, prefVars, maskVars

\* The three steps of a thread on its way.
LEMMA ThreadMask ==
    ASSUME TypeInv, NumberBody, MaskBody, NEW t \in Threads, ThreadStep(t)
    PROVE  MaskBody'
  <1> DEFINE mask == ActiveMask(currentControllers', initialControllers')
  <1>1. UNCHANGED prefVars
    BY DEF ThreadStep, Reserve, Send, Released
  <1>2. mask = ActiveMask(currentControllers, initialControllers)'
    BY <1>1 DEF ActiveMask, prefVars
  <1>3. mask \in SUBSET Numbers
    <2>1. PacketsTyped'
      BY PacketsKeep DEF Group
    <2> QED
      BY <2>1, ActiveMaskTyped DEF PacketsTyped, MaskTyped
  <1> HIDE DEF mask
  <1>4. CASE Reserve(t)
    <2>1. PICK c : host' = Told(host, mask) /\ Packed(t, job[t].sender, c, mask)
      BY <1>4, ReserveNumbers DEF mask
    <2>2. host'.mask = mask
      BY <1>3, <2>1, ToldTyped DEF TypeInv
    <2>3. \A s \in Threads \ {t} : pc[s] = "idle"
      BY <1>4, OthersQuiet DEF Reserve
    <2>4. PICK j \in Job : job' = [job EXCEPT ![t] = j] /\ j.mask = mask
      BY <2>1 DEF Packed
    <2>5. pc' = [pc EXCEPT ![t] = "send"]
      BY <2>1 DEF Packed
    <2>6. ASSUME NEW s \in Threads, pc'[s] = "send" PROVE job'[s].mask = mask
      BY <2>3, <2>4, <2>5, <2>6 DEF TypeInv, JobsTyped
    <2> QED
      BY <1>2, <2>2, <2>6 DEF MaskBody
  <1>5. CASE Send(t)
    <2>1. /\ pc[t] = "send" /\ pc' = [pc EXCEPT ![t] = "idle"] /\ job' = [job EXCEPT ![t] = NoJob]
          /\ UNCHANGED maskVars
      BY <1>5 DEF Send
    <2>2. host'.mask = host.mask
      BY <1>5, <2>1, SendTyped DEF MaskBody
    <2>3. host.mask = mask
      BY <2>1 DEF MaskBody, maskVars, mask
    <2>4. ASSUME NEW s \in Threads, pc'[s] = "send" PROVE pc[s] = "send" /\ job'[s] = job[s]
      BY <2>1, <2>4 DEF TypeInv, JobsTyped
    <2> QED
      BY <1>2, <2>2, <2>3, <2>4 DEF MaskBody
  <1>6. CASE Released(t)
    <2> DEFINE c == contexts[job[t].dev]
    <2>1. /\ pc[t] = "release" /\ pc' = [pc EXCEPT ![t] = "idle"]
          /\ host' = Zeroed(host, c, initialControllers) /\ UNCHANGED initialControllers
          /\ c.reserved \/ UNCHANGED currentControllers
      BY <1>6 DEF Released
    <2>2. \A s \in Threads : pc'[s] = "idle"
      BY <2>1, OthersQuiet DEF TypeInv, JobsTyped
    <2>3. job[t].dev \in Devices
      BY <2>1 DEF TypeInv, JobsTyped, Releases, Devices
    <2>4. c \in Context /\ (c.reserved => c.assigned)
      BY <2>3 DEF TypeInv, Sane
    <2>5. host'.mask = mask
      <3>1. CASE c.assigned
        <4>1. MaskTyped /\ MaskTyped' /\ host \in Host
          BY <1>6, ReleasedTyped DEF TypeInv
        <4>2. host'.mask = ActiveMask(currentControllers', initialControllers)
          BY <2>1, <2>4, <3>1, <4>1, ZeroedTyped
        <4> QED
          BY <2>1, <4>2 DEF mask
      <3>2. CASE ~c.assigned
        BY <2>1, <2>4, <3>2 DEF Zeroed, MaskBody, mask
      <3> QED
        BY <3>1, <3>2
    <2> QED
      BY <1>2, <2>2, <2>5 DEF MaskBody
  <1> QED
    BY <1>4, <1>5, <1>6 DEF ThreadStep

LEMMA SpeakMask ==
    ASSUME TypeInv, MaskBody, NEW t, NEW d, NEW c, Speaks(t, d, c), SpeakStep(t, d, c)
    PROVE  MaskBody'
  <1> DEFINE mask == ActiveMask(currentControllers, initialControllers)
  <1>1. UNCHANGED <<prefVars, maskVars>>
    BY DEF SpeakStep, KeyEvent, ReportOsc, UsbReport
  <1>2. mask = mask'
    BY <1>1 DEF ActiveMask, prefVars, maskVars
  <1>3. mask \in SUBSET Numbers /\ host \in Host /\ host.mask = mask
    BY ActiveMaskTyped DEF TypeInv, MaskTyped, MaskBody
  <1>4. t \in Threads
    BY DEF Speaks
  <1>5. CASE Picked(t, d, c)
    <2>1. /\ UNCHANGED host /\ pc' = [pc EXCEPT ![t] = "reserve"]
          /\ \E j : job' = [job EXCEPT ![t] = j]
      BY <1>5 DEF Picked
    <2>2. ASSUME NEW s \in Threads, pc'[s] = "send" PROVE pc[s] = "send" /\ job'[s] = job[s]
      BY <1>4, <2>1, <2>2 DEF TypeInv, JobsTyped
    <2> QED
      BY <1>1, <2>1, <2>2, MaskCalm
  <1>6. CASE Sent(t, d)
    <2>1. pc' = [pc EXCEPT ![t] = "send"] /\ host' \in {host, Told(host, mask)}
      BY <1>6 DEF Sent
    <2>2. PICK j \in Job : job' = [job EXCEPT ![t] = j] /\ j.mask = mask
      BY <1>6 DEF Sent
    <2> HIDE DEF mask
    <2>3. host'.mask = mask
      BY <1>3, <2>1, ToldTyped
    <2>4. ASSUME NEW s \in Threads, pc'[s] = "send" PROVE job'[s].mask = mask
      <3>1. CASE s = t
        BY <1>4, <2>2, <3>1 DEF TypeInv, JobsTyped
      <3>2. CASE s # t
        BY <1>3, <2>1, <2>2, <2>4, <3>2 DEF TypeInv, JobsTyped, MaskBody
      <3> QED
        BY <3>1, <3>2
    <2> QED
      BY <1>2, <2>3, <2>4 DEF MaskBody, mask
  <1> QED
    BY <1>5, <1>6, SpeakingSound

LEMMA MaskInit == Init => MaskInv
  <1> SUFFICES ASSUME Init PROVE MaskBody
    BY DEF MaskInv
  <1>1. \A t \in Threads : pc[t] = "idle"
    BY DEF Init
  <1>2. host.mask = ActiveMask({}, AttachedMask(attached))
    BY DEF Init
  <1> QED
    BY <1>1, <1>2 DEF Init, MaskBody

LEMMA MaskNext == TypeInv /\ NumberInv /\ MaskInv /\ [Next]_vars => MaskInv'
  <1> SUFFICES ASSUME TypeInv, NumberInv, MaskInv, [Next]_vars, ~raced' PROVE MaskBody'
    BY DEF MaskInv
  <1>1. CASE Next
    <2>1. NumberBody /\ MaskBody
      BY <1>1 DEF Next, NumberInv, MaskInv
    <2>2. Group
      BY <1>1, StepGroups DEF Next
    <2>3. ASSUME NEW t \in Threads, ThreadStep(t) PROVE MaskBody'
      BY <2>1, <2>3, ThreadMask
    <2>4. ASSUME NEW t, NEW d, NEW c, Speaks(t, d, c), SpeakStep(t, d, c) PROVE MaskBody'
      BY <2>1, <2>4, SpeakMask
    <2>5. ASSUME NEW t \in Threads, NEW d \in Inputs \cup Usb, ReleaseStep(t, d) PROVE MaskBody'
      <3>1. /\ UNCHANGED <<prefVars, maskVars, host>> /\ pc' = [pc EXCEPT ![t] = "release"]
            /\ \E j : job' = [job EXCEPT ![t] = j]
        BY <2>5, ReleaseBegins
      <3>2. ASSUME NEW s \in Threads, pc'[s] = "send" PROVE pc[s] = "send" /\ job'[s] = job[s]
        BY <3>1, <3>2 DEF TypeInv, JobsTyped
      <3> QED
        BY <2>1, <3>1, <3>2, MaskCalm
    <2>6. ASSUME UNCHANGED <<prefVars, maskVars, pc, job, host>> PROVE MaskBody'
      BY <2>1, <2>6, MaskCalm
    <2>7. CASE Opens \/ Aside
      BY <2>6, <2>7, OpensSound, AsideFrame
    <2>8. ASSUME NEW u \in Usb, UsbAdded(u) PROVE MaskBody'
      BY <2>6, <2>8 DEF UsbAdded
    <2>9. ASSUME NEW d \in Inputs, InputDeviceChanged(d) PROVE MaskBody'
      BY <2>6, <2>9 DEF InputDeviceChanged
    <2>10. CASE Stop
      BY <2>6, <2>10 DEF Stop
    <2> QED
      BY <2>2, <2>3, <2>4, <2>5, <2>7, <2>8, <2>9, <2>10 DEF Group
  <1>2. CASE UNCHANGED vars
    <2>1. UNCHANGED <<prefVars, maskVars, pc, job, host, raced>>
      BY <1>2 DEF vars
    <2> QED
      BY <2>1, MaskCalm DEF MaskInv
  <1> QED
    BY <1>1, <1>2

\* As long as two threads did not cross, and once nobody is sending, the host has
\* the mask ControllerHandler has: no change of it goes without a packet.
THEOREM HostToldTruly == Spec => []HostAgrees
  <1>1. Init => TypeInv /\ NumberInv /\ MaskInv
    BY TypeInit, NumberInit, MaskInit
  <1>2. TypeInv /\ NumberInv /\ MaskInv /\ [Next]_vars => (TypeInv /\ NumberInv /\ MaskInv)'
    BY TypeNext, NumberNext, MaskNext
  <1>3. MaskInv => HostAgrees
    BY DEF MaskInv, MaskBody, HostAgrees
  <1> QED
    BY <1>1, <1>2, <1>3, PTL DEF Spec
-----------------------------------------------------------------------------
(* What is pressed on the host *)

\* A device that is being given up: the application is about to hear of its
\* removal, or a thread is about to release its number.
Going(e) ==
    \/ e \in leaving
    \/ e \in Usb /\ e \notin attached /\ driver[e] = "running"
    \/ \E t \in Threads : ReleasedBy(t, e)

\* The device accounts for what is pressed on the host for number n.
Answers(e, n) ==
    /\ contexts[e].assigned /\ contexts[e].number = n
    /\ e = Osc \/ contexts[e].listed
    /\ held[e] # {} \/ Going(e)
Accounted(n) == \E e \in Devices : Answers(e, n)

\* A context has no button that is not held, unless the device is given up.
Holds(e) ==
    contexts[e].listed \/ e = Osc => contexts[e].inputMap \subseteq held[e] \/ Going(e)

\* Somebody accounts for the buttons of a packet, and for what is pressed on the
\* host, unless a packet for the number is on its way.
PacketsHeld == \A t \in Threads : pc[t] = "send" /\ job[t].flags # {} => Accounted(job[t].number)
PressedHeld ==
    \A n \in Numbers : host.pressed[n] # {} =>
        Accounted(n) \/ \E t \in Threads : pc[t] = "send" /\ job[t].number = n

PressBody == (\A e \in Devices : Holds(e)) /\ PacketsHeld /\ PressedHeld

PressInv == ~raced /\ ~stopped => PressBody

\* Devices that hold something account for it.
LEMMA FedAccounted ==
    ASSUME \A e \in Devices : Holds(e)', NEW n, Fed(contexts', n)
    PROVE  Accounted(n)'
  BY DEF Fed, Holds, Answers, Accounted

\* A step that makes no packet and takes no device from the account.
LEMMA PressFrame ==
    ASSUME PressBody, UNCHANGED host, \A e \in Devices : Holds(e)',
           \A e \in Devices : \A n : Answers(e, n) => Answers(e, n)',
           \A s \in Threads : /\ pc'[s] = "send" <=> pc[s] = "send"
                              /\ pc[s] = "send" => job'[s] = job[s]
    PROVE  PressBody'
  <1>1. \A n : Accounted(n) => Accounted(n)'
    BY DEF Accounted
  <1>2. PacketsHeld'
    BY <1>1 DEF PressBody, PacketsHeld
  <1>3. PressedHeld'
    BY <1>1 DEF PressBody, PressedHeld
  <1> QED
    BY <1>2, <1>3 DEF PressBody

\* A step that leaves contexts, threads and the host alone.
LEMMA PressAside ==
    ASSUME PressBody, UNCHANGED <<contexts, pc, job, host>>,
           \A e \in Devices : contexts[e].listed \/ e = Osc =>
              /\ Going(e) => Going(e)'
              /\ held'[e] = held[e] \/ Going(e)'
    PROVE  PressBody'
  <1>1. \A e \in Devices : Holds(e)'
    BY DEF PressBody, Holds
  <1>2. \A e \in Devices : \A n : Answers(e, n) => Answers(e, n)'
    BY DEF Answers
  <1> QED
    BY <1>1, <1>2, PressFrame

\* A device that speaks accounts for its packet; no other packet for its number
\* is on its way.
LEMMA SpeakPress ==
    ASSUME TypeInv, PressBody, ~Conflict', NEW t, NEW d, NEW c, Speaks(t, d, c), SpeakStep(t, d, c)
    PROVE  PressBody'
  <1> USE DEF usbVars
  <1>1. /\ t \in Threads /\ d \in Devices /\ pc[t] = "idle" /\ Touched(c, d)
    BY DEF Speaks
  <1>2. /\ UNCHANGED <<attached, leaving, usbVars>>
        /\ \E buttons : held' = [held EXCEPT ![d] = buttons]
    BY DEF SpeakStep, KeyEvent, ReportOsc, UsbReport
  <1>3. Enlisted(c, contexts') /\ (Picked(t, d, c) \/ Sent(t, d))
    BY SpeakingSound
  <1>4. /\ pc'[t] \in {"reserve", "send"}
        /\ \A s \in Threads \ {t} : pc'[s] = pc[s] /\ job'[s] = job[s]
    BY <1>1, <1>3 DEF Picked, Sent, TypeInv, JobsTyped
  <1>5. \A s \in Threads : \A e : ReleasedBy(s, e)' <=> ReleasedBy(s, e)
    BY <1>1, <1>4 DEF ReleasedBy
  <1>6. \A e \in Devices : Going(e)' <=> Going(e)
    BY <1>2, <1>5 DEF Going
  <1>7. \A e \in Devices \ {d} : held'[e] = held[e] /\ c[e] = contexts[e]
    BY <1>1, <1>2 DEF Touched, TypeInv, WorldTyped
  <1>8. \A e \in Devices : Kept(c[e], contexts'[e]) /\ (e \notin Pads => contexts'[e].listed = c[e].listed)
    BY <1>3 DEF Enlisted
  <1>9. Osc \notin Pads
    BY Kinds
  <1>10. contexts'[d].listed = c[d].listed /\ contexts'[d].inputMap = c[d].inputMap
    BY <1>1, <1>8, <1>9 DEF Touched, Kept
  <1>11. Holds(d)'
    <2>1. ASSUME NEW buttons \in SUBSET {A, Start}, d \in Inputs, KeyEvent(d, buttons),
                 c[d].inputMap = After(IF contexts[d].listed THEN contexts[d].inputMap ELSE {},
                                       held[d], buttons)
          PROVE  Holds(d)'
      <3> DEFINE map == IF contexts[d].listed THEN contexts[d].inputMap ELSE {}
      <3>1. held'[d] = buttons
        BY <1>1, <2>1 DEF KeyEvent, TypeInv, WorldTyped
      <3>2. map \subseteq held[d] \/ Going(d)
        BY <1>1 DEF PressBody, Holds
      <3> HIDE DEF map
      <3>3. map \subseteq held[d] => After(map, held[d], buttons) \subseteq buttons
        BY DEF After
      <3>4. contexts'[d].inputMap = After(map, held[d], buttons)
        BY <1>10, <2>1 DEF map
      <3> QED
        BY <1>1, <1>6, <3>1, <3>2, <3>3, <3>4 DEF Holds
    <2>2. ASSUME NEW flags \in SUBSET {A, Start},
                 \/ d = Osc /\ ReportOsc(flags) /\ c[Osc].inputMap = flags
                 \/ d \in Usb /\ UsbReport(d, flags) /\ c[d].inputMap = flags
          PROVE  Holds(d)'
      <3>1. held'[d] = flags
        BY <1>1, <2>2 DEF ReportOsc, UsbReport, TypeInv, WorldTyped
      <3> QED
        BY <1>10, <2>2, <3>1 DEF Holds
    <2> QED
      BY <2>1, <2>2 DEF SpeakStep
  <1>12. ASSUME NEW e \in Devices PROVE Holds(e)'
    <2>1. CASE e # d
      BY <1>6, <1>7, <1>8, <1>9, <2>1 DEF PressBody, Holds, Kept
    <2> QED
      BY <1>11, <2>1
  <1>13. ASSUME NEW e \in Devices \ {d}, NEW n, Answers(e, n) PROVE Answers(e, n)'
    BY <1>6, <1>7, <1>8, <1>9, <1>13 DEF Answers, Kept
  <1>14. ASSUME NEW n, Answers(d, n) PROVE Sent(t, d) /\ contexts'[d].number = n
    <2>1. /\ c[d].assigned /\ c[d].number = n
          /\ c[d].listed = contexts'[d].listed
      BY <1>1, <1>10, <1>14 DEF Answers, Touched
    <2>2. contexts'[d].assigned /\ contexts'[d].number = n
      BY <1>1, <1>8, <2>1 DEF Kept
    <2> QED
      BY <1>3, <2>2 DEF Picked
  <1>15. ASSUME Sent(t, d)
         PROVE  /\ pc'[t] = "send" /\ job'[t].number = contexts'[d].number
                /\ job'[t].flags # {} => Fed(contexts', job'[t].number)
    <2>1. PICK j \in Job : /\ job' = [job EXCEPT ![t] = j]
                           /\ j.number = contexts'[d].number
                           /\ j.flags # {} => Fed(contexts', j.number)
      BY <1>15 DEF Sent
    <2>2. job'[t] = j
      BY <1>1, <2>1 DEF TypeInv, JobsTyped
    <2> QED
      BY <1>1, <1>15, <2>1, <2>2 DEF Sent, TypeInv, JobsTyped
  <1>16. ASSUME NEW s \in Threads, pc'[s] = "send", job'[s].flags # {}, NEW n, n = job'[s].number
         PROVE  Accounted(n)'
    <2>1. CASE s = t
      <3>1. Sent(t, d)
        BY <1>1, <1>3, <1>16, <2>1 DEF Picked, TypeInv, JobsTyped
      <3>2. Fed(contexts', n)
        BY <1>15, <1>16, <2>1, <3>1
      <3> QED
        BY <1>12, <3>2, FedAccounted
    <2>2. CASE s # t
      <3>1. PICK e \in Devices : Answers(e, n)
        BY <1>4, <1>16, <2>2 DEF PressBody, PacketsHeld, Accounted
      <3>2. e # d
        <4>1. SUFFICES ASSUME e = d PROVE FALSE
          OBVIOUS
        <4>2. pc'[t] = "send" /\ job'[t].number = n
          BY <1>14, <1>15, <3>1, <4>1
        <4> QED
          BY <1>1, <1>16, <2>2, <4>2 DEF Conflict
      <3> QED
        BY <1>13, <3>1, <3>2 DEF Accounted
    <2> QED
      BY <2>1, <2>2
  <1>17. ASSUME NEW n \in Numbers, host'.pressed[n] # {}
         PROVE  Accounted(n)' \/ \E s \in Threads : pc'[s] = "send" /\ job'[s].number = n
    <2> DEFINE mask == ActiveMask(currentControllers, initialControllers)
    <2>1. mask \in SUBSET Numbers /\ host \in Host
      BY ActiveMaskTyped DEF TypeInv, MaskTyped
    <2>2. host' \in {host, Told(host, mask)}
      BY <1>3 DEF Picked, Sent
    <2> HIDE DEF mask
    <2>3. host.pressed[n] # {}
      BY <1>17, <2>1, <2>2, ToldTyped
    <2>4. CASE \E s \in Threads : pc[s] = "send" /\ job[s].number = n
      BY <1>1, <1>4, <2>4
    <2>5. ASSUME NEW e \in Devices, Answers(e, n)
          PROVE  Accounted(n)' \/ \E s \in Threads : pc'[s] = "send" /\ job'[s].number = n
      <3>1. CASE e # d
        BY <1>13, <2>5, <3>1 DEF Accounted
      <3>2. CASE e = d
        BY <1>1, <1>14, <1>15, <2>5, <3>2
      <3> QED
        BY <3>1, <3>2
    <2> QED
      BY <2>3, <2>4, <2>5 DEF PressBody, PressedHeld, Accounted
  <1>18. PacketsHeld'
    BY <1>16 DEF PacketsHeld
  <1>19. PressedHeld'
    BY <1>17 DEF PressedHeld
  <1> QED
    BY <1>12, <1>18, <1>19 DEF PressBody
\* A device that gets its number had none, and accounted for nothing.
LEMMA ReservePress ==
    ASSUME TypeInv, NumberBody, PressBody, NEW t \in Threads, Reserve(t)
    PROVE  PressBody'
  <1> USE DEF worldVars, usbVars
  <1> DEFINE dev == job[t].dev
             sender == job[t].sender
             mask == ActiveMask(currentControllers', initialControllers')
  <1>1. PICK n \in Numbers, taken \in BOOLEAN :
           \E c : /\ Numbered(t, n, taken, c)
                  /\ host' = Told(host, mask) /\ Packed(t, sender, c, mask)
    BY ReserveNumbers
  <1>2. PICK c : Numbered(t, n, taken, c) /\ host' = Told(host, mask) /\ Packed(t, sender, c, mask)
    BY <1>1
  <1>3. pc[t] = "reserve" /\ UNCHANGED <<attached, leaving, held, usbVars>>
    BY DEF Reserve
  <1>4. /\ ~contexts[dev].assigned /\ ~contexts[sender].assigned
        /\ dev \in Devices /\ sender \in Devices
    BY <1>3 DEF NumberBody, ReserveHeld, TypeInv, JobsTyped, Reserves, Devices, Inputs
  <1>5. mask \in SUBSET Numbers
    BY ReserveNumbers, ActiveMaskTyped DEF MaskTyped
  <1>6. \A m \in Numbers : host'.pressed[m] \in {host.pressed[m], {}}
    BY <1>2, <1>5, ToldTyped DEF TypeInv
  <1>7. \A s \in Threads \ {t} : pc[s] = "idle"
    BY <1>3, OthersQuiet
  <1>8. PICK j \in Job : job' = [job EXCEPT ![t] = j] /\ (j.flags # {} => Fed(c, c[sender].number))
                         /\ j.number = c[sender].number
    BY <1>2 DEF Packed
  <1>9. pc' = [pc EXCEPT ![t] = "send"] /\ \A e \in Devices : Alike(c[e], contexts'[e])
    BY <1>2 DEF Packed
  <1>10. /\ pc'[t] = "send" /\ job'[t] = j
         /\ \A s \in Threads \ {t} : pc'[s] = "idle"
    BY <1>7, <1>8, <1>9 DEF TypeInv, JobsTyped
  <1>11. \A s \in Threads : \A e : ~ReleasedBy(s, e) /\ ~ReleasedBy(s, e)'
    BY <1>3, <1>7, <1>10 DEF ReleasedBy
  <1>12. \A e \in Devices : Going(e)' <=> Going(e)
    BY <1>3, <1>11 DEF Going
  <1>13. \A e \in Devices : /\ c[e].listed = contexts[e].listed /\ c[e].inputMap = contexts[e].inputMap
                            /\ e \notin {dev, sender} => c[e] = contexts[e]
    BY <1>2 DEF Numbered
  <1> HIDE DEF dev, sender, mask
  <1>14. \A e \in Devices : Holds(e)'
    BY <1>3, <1>9, <1>12, <1>13 DEF PressBody, Holds, Alike
  <1>15. ASSUME NEW e \in Devices, NEW m, Answers(e, m) PROVE Answers(e, m)'
    <2>1. e \notin {dev, sender}
      BY <1>4, <1>15 DEF Answers
    <2>2. c[e] = contexts[e] /\ Alike(c[e], contexts'[e])
      BY <1>9, <1>13, <2>1
    <2> QED
      BY <1>3, <1>12, <1>15, <2>2 DEF Answers, Alike
  <1>16. ASSUME NEW s \in Threads, pc'[s] = "send", job'[s].flags # {}, NEW m, m = job'[s].number
         PROVE  Accounted(m)'
    <2>1. Fed(c, m)
      BY <1>8, <1>10, <1>16
    <2>2. Fed(contexts', m)
      BY <1>9, <2>1, FedAlike
    <2> QED
      BY <1>14, <2>2, FedAccounted
  <1>17. PacketsHeld'
    BY <1>16 DEF PacketsHeld
  <1>18. ASSUME NEW m \in Numbers, host'.pressed[m] # {} PROVE Accounted(m)'
    <2>1. Accounted(m)
      BY <1>3, <1>6, <1>7, <1>18 DEF PressBody, PressedHeld
    <2> QED
      BY <1>15, <2>1 DEF Accounted
  <1>19. PressedHeld'
    BY <1>18 DEF PressedHeld
  <1> QED
    BY <1>14, <1>17, <1>19 DEF PressBody

LEMMA SendPress ==
    ASSUME TypeInv, PressBody, NEW t \in Threads, Send(t)
    PROVE  PressBody'
  <1> USE DEF worldVars, usbVars
  <1>1. /\ pc[t] = "send" /\ pc' = [pc EXCEPT ![t] = "idle"] /\ job' = [job EXCEPT ![t] = NoJob]
        /\ UNCHANGED <<contexts, attached, leaving, held, driver>>
    BY DEF Send
  <1>2. \A s \in Threads : /\ s # t => pc'[s] = pc[s] /\ job'[s] = job[s]
                           /\ s = t => pc'[s] = "idle"
    BY <1>1 DEF TypeInv, JobsTyped
  <1>3. \A s \in Threads : \A e : ReleasedBy(s, e)' <=> ReleasedBy(s, e)
    BY <1>1, <1>2 DEF ReleasedBy
  <1>4. \A e \in Devices : Going(e)' <=> Going(e)
    BY <1>1, <1>3 DEF Going
  <1>5. \A e \in Devices : Holds(e)'
    BY <1>1, <1>4 DEF PressBody, Holds
  <1>6. \A n : Accounted(n)' <=> Accounted(n)
    BY <1>1, <1>4 DEF Accounted, Answers
  <1>7. ASSUME NEW s \in Threads, pc'[s] = "send", job'[s].flags # {}, NEW n, n = job'[s].number
        PROVE  Accounted(n)'
    <2>1. s # t /\ pc[s] = "send" /\ job[s].flags # {} /\ n = job[s].number
      BY <1>2, <1>7
    <2> QED
      BY <1>6, <2>1 DEF PressBody, PacketsHeld
  <1>8. PacketsHeld'
    BY <1>7 DEF PacketsHeld
  <1>9. ASSUME NEW n \in Numbers, host'.pressed[n] # {}
        PROVE  Accounted(n)' \/ \E s \in Threads : pc'[s] = "send" /\ job'[s].number = n
    <2>1. CASE n = job[t].number
      <3>1. job[t].flags # {}
        BY <1>9, <2>1, SendTyped
      <3> QED
        BY <1>1, <1>6, <2>1, <3>1 DEF PressBody, PacketsHeld
    <2>2. CASE n # job[t].number
      <3>1. host.pressed[n] # {}
        BY <1>9, <2>2, SendTyped
      <3> QED
        BY <1>2, <1>6, <2>2, <3>1 DEF PressBody, PressedHeld
    <2> QED
      BY <2>1, <2>2
  <1>10. PressedHeld'
    BY <1>9 DEF PressedHeld
  <1> QED
    BY <1>5, <1>8, <1>10 DEF PressBody

\* A device that is released takes what is pressed for its number with it.
LEMMA ReleasedPress ==
    ASSUME TypeInv, NumberBody, PressBody, NEW t \in Threads, Released(t)
    PROVE  PressBody'
  <1> USE DEF worldVars, usbVars
  <1> DEFINE d == job[t].dev
             c == contexts[d]
  <1>1. /\ pc[t] = "release" /\ pc' = [pc EXCEPT ![t] = "idle"] /\ job' = [job EXCEPT ![t] = NoJob]
        /\ UNCHANGED <<attached, leaving, held, driver>>
        /\ host' = Zeroed(host, c, initialControllers)
    BY DEF Released
  <1>2. ~contexts'[d].listed /\ \A e \in Devices \ {d} : contexts'[e] = contexts[e]
    BY ReleasedTyped
  <1>3. /\ \A s \in Threads \ {t} : pc[s] = "idle"
        /\ \A s \in Threads : pc'[s] = "idle"
    BY <1>1, OthersQuiet DEF TypeInv, JobsTyped
  <1>4. d \in Devices /\ d # Osc /\ c \in Context /\ c.number \in Numbers
    BY <1>1, Kinds DEF TypeInv, JobsTyped, Releases, Devices, Sane, Context
  <1>5. \A m \in Numbers : host'.pressed[m] \in {host.pressed[m], {}}
                           /\ (c.assigned /\ m = c.number => host'.pressed[m] = {})
    <2>1. MaskTyped /\ MaskTyped' /\ host \in Host
      BY ReleasedTyped DEF TypeInv
    <2>2. CASE c.assigned
      BY <1>1, <1>4, <2>1, <2>2, ZeroedTyped
    <2>3. CASE ~c.assigned
      BY <1>1, <2>3 DEF Zeroed
    <2> QED
      BY <2>2, <2>3
  <1>6. \A e \in Devices \ {d} : Going(e)' <=> Going(e)
    BY <1>1, <1>3 DEF Going, ReleasedBy
  <1>7. \A e \in Devices : Holds(e)'
    BY <1>1, <1>2, <1>4, <1>6 DEF PressBody, Holds
  <1>8. ASSUME NEW e \in Devices, NEW n \in Numbers, Answers(e, n), host'.pressed[n] # {} PROVE Answers(e, n)'
    <2>1. e # d
      BY <1>5, <1>8 DEF Answers
    <2> QED
      BY <1>1, <1>2, <1>6, <1>8, <2>1 DEF Answers
  <1>9. PacketsHeld'
    BY <1>3 DEF PacketsHeld
  <1>10. ASSUME NEW n \in Numbers, host'.pressed[n] # {} PROVE Accounted(n)'
    <2>1. Accounted(n)
      BY <1>1, <1>3, <1>5, <1>10 DEF PressBody, PressedHeld
    <2> QED
      BY <1>8, <1>10, <2>1 DEF Accounted
  <1>11. PressedHeld'
    BY <1>10 DEF PressedHeld
  <1> QED
    BY <1>7, <1>9, <1>11 DEF PressBody

\* A device whose release begins is still accounted for.
LEMMA ReleasePress ==
    ASSUME TypeInv, PressBody, ~stopped, NEW t \in Threads, NEW d \in Inputs \cup Usb, ReleaseStep(t, d)
    PROVE  PressBody'
  <1> USE DEF worldVars, usbVars
  <1>1. PICK j \in Job : job' = [job EXCEPT ![t] = j] /\ j.dev = d
    BY ReleaseBegins
  <1>2. pc[t] = "idle" /\ pc' = [pc EXCEPT ![t] = "release"] /\ UNCHANGED <<contexts, host>>
    BY ReleaseBegins
  <1>3. /\ pc'[t] = "release" /\ job'[t] = j
        /\ \A s \in Threads \ {t} : pc'[s] = pc[s] /\ job'[s] = job[s]
    BY <1>1, <1>2 DEF TypeInv, JobsTyped
  <1>4. /\ UNCHANGED <<held, attached>>
        /\ leaving \subseteq leaving' \cup {d}
        /\ \A u \in Usb \ {d} : driver'[u] = driver[u]
    <2>1. ~StopController(d)
      BY DEF StopController, TypeInv, UsbTyped
    <2> QED
      BY <2>1 DEF ReleaseStep, InputDeviceRemoved, UsbFailed, TypeInv, UsbTyped
  <1>5. ASSUME NEW e \in Devices, Going(e) PROVE Going(e)'
    <2>1. CASE e = d
      BY <1>1, <1>3, <2>1 DEF Going, ReleasedBy
    <2>2. CASE e # d
      <3>1. \A s \in Threads : ReleasedBy(s, e) => ReleasedBy(s, e)'
        BY <1>2, <1>3 DEF ReleasedBy
      <3> QED
        BY <1>4, <1>5, <2>2, <3>1 DEF Going
    <2> QED
      BY <2>1, <2>2
  <1>6. \A e \in Devices : Holds(e)'
    BY <1>2, <1>4, <1>5 DEF PressBody, Holds
  <1>7. \A e \in Devices : \A n : Answers(e, n) => Answers(e, n)'
    BY <1>2, <1>4, <1>5 DEF Answers
  <1> QED
    BY <1>2, <1>3, <1>6, <1>7, PressFrame

\* Contexts that are new have no buttons, and no number.
LEMMA FreshPress ==
    ASSUME TypeInv, PressBody, NEW fresh, UNCHANGED <<attached, leaving, held, pc, job, host>>,
           \A e \in fresh : ~contexts[e].listed /\ e # Osc /\ contexts'[e] \in {contexts[e], NoContext, NewContext},
           \A e \in Devices \ fresh : contexts'[e] = contexts[e],
           \A u \in Usb \ fresh : driver'[u] = driver[u]
    PROVE  PressBody'
  <1>1. \A e \in Devices \ fresh : Going(e)' <=> Going(e)
    BY DEF Going, ReleasedBy
  <1>2. ASSUME NEW e \in Devices PROVE Holds(e)'
    <2>1. CASE e \in fresh
      <3>1. contexts'[e].listed => contexts'[e].inputMap = {}
        BY <2>1, NewContexts
      <3> QED
        BY <2>1, <3>1 DEF Holds
    <2>2. CASE e \notin fresh
      BY <1>1, <2>2 DEF PressBody, Holds
    <2> QED
      BY <2>1, <2>2
  <1>3. \A e \in Devices : \A n : Answers(e, n) => Answers(e, n)'
    BY <1>1 DEF Answers
  <1> QED
    BY <1>2, <1>3, PressFrame
\* Devices that come and go: what is plugged out is being given up.
LEMMA AsidePress ==
    ASSUME TypeInv, NumberBody, PressBody, ~stopped, Aside
    PROVE  PressBody'
  <1> USE DEF worldVars, usbVars
  <1>1. UNCHANGED <<contexts, pc, job, host>>
    BY AsideFrame
  <1>2. \A s \in Threads : \A e : ReleasedBy(s, e)' <=> ReleasedBy(s, e)
    BY <1>1 DEF ReleasedBy
  <1>3. ASSUME NEW d \in Devices, Plug(d) PROVE PressBody'
    <2>1. /\ UNCHANGED <<leaving, held, driver>> /\ attached' = attached \cup Unit(d)
          /\ d \in Usb => driver[d] = "none"
      BY <1>3 DEF Plug
    <2>2. \A u \in Usb : u \in Unit(d) => u = d
      BY Kinds DEF Unit, Inputs
    <2>3. \A e \in Devices : Going(e) => Going(e)'
      BY <1>2, <2>1, <2>2 DEF Going
    <2> QED
      BY <1>1, <2>1, <2>3, PressAside
  <1>4. ASSUME NEW d \in Devices, Unplug(d) PROVE PressBody'
    <2>1. /\ attached' = attached \ Unit(d) /\ UNCHANGED driver
          /\ held' = [e \in Devices |-> IF e \in Unit(d) THEN {} ELSE held[e]]
          /\ IF d \in Inputs THEN leaving = {} /\ leaving' = Unit(d) ELSE UNCHANGED leaving
          /\ d \in Pads \cup Touchpads \cup Usb
      BY <1>4 DEF Unplug, MainFree, Roots
    <2>2. \A e \in Devices : Going(e) => Going(e)'
      BY <1>2, <2>1 DEF Going
    <2>3. ASSUME NEW e \in Unit(d), contexts[e].listed \/ e = Osc PROVE Going(e)'
      <3>1. CASE d \in Inputs
        BY <2>1, <3>1 DEF Going
      <3>2. CASE d \in Usb
        <4>1. e = d
          BY <3>2, Kinds, ControllersAssumption DEF Unit, Inputs
        <4>2. driver[d] = "running" \/ ReleasedBy(Main, d) \/ ReleasedBy(d, d)
          BY <2>3, <3>2, <4>1, Kinds DEF NumberBody, UsbListed, Devices
        <4>3. Main \in Threads /\ d \in Threads
          BY <3>2, Kinds
        <4> QED
          BY <1>2, <2>1, <3>2, <4>1, <4>2, <4>3 DEF Going, Unit
      <3> QED
        BY <2>1, <3>1, <3>2 DEF Inputs
    <2>4. ASSUME NEW e \in Devices, contexts[e].listed \/ e = Osc PROVE held'[e] = held[e] \/ Going(e)'
      BY <2>1, <2>3, <2>4
    <2> QED
      BY <1>1, <2>2, <2>4, PressAside
  <1>5. CASE Unbind \/ ServiceDestroyed
    <2>1. UNCHANGED <<leaving, held, driver, attached>>
      BY <1>5 DEF Unbind, ServiceDestroyed
    <2> QED
      BY <1>1, <1>2, <2>1, PressAside DEF Going
  <1>6. ASSUME NEW d \in Inputs, InputDeviceRemoved(d), ~contexts[d].listed PROVE PressBody'
    <2>1. leaving' = leaving \ {d} /\ UNCHANGED <<held, driver, attached>>
      BY <1>6 DEF InputDeviceRemoved
    <2>2. ASSUME NEW e \in Devices, contexts[e].listed \/ e = Osc PROVE Going(e) => Going(e)'
      <3>1. e # d
        BY <1>6, <2>2, Kinds
      <3> QED
        BY <1>2, <2>1, <3>1 DEF Going
    <2> QED
      BY <1>1, <2>1, <2>2, PressAside
  <1>7. ASSUME NEW u \in Usb, pc[u] = "idle", service # "destroyed" => ~contexts[u].listed
        PROVE  ~contexts[u].listed
    BY <1>7, Kinds DEF NumberBody, UsbListed, ReleasedBy
  <1>8. ASSUME NEW u \in Usb, UsbFailed(u), ~(service # "destroyed" /\ contexts[u].listed) PROVE PressBody'
    <2>1. pc[u] = "idle" /\ driver' = [driver EXCEPT ![u] = "none"] /\ UNCHANGED <<leaving, held, attached>>
      BY <1>8 DEF UsbFailed
    <2>2. ~contexts[u].listed
      BY <1>7, <1>8, <2>1
    <2>3. ASSUME NEW e \in Devices, contexts[e].listed \/ e = Osc PROVE Going(e) => Going(e)'
      <3>1. e # u
        BY <2>2, <2>3, Kinds
      <3> QED
        BY <1>2, <2>1, <3>1 DEF Going, TypeInv, UsbTyped
    <2> QED
      BY <1>1, <2>1, <2>3, PressAside
  <1>9. ASSUME NEW u \in Usb, NEW flags, UsbReport(u, flags), ~(service # "destroyed" /\ contexts[u].listed)
        PROVE  PressBody'
    <2>1. pc[u] = "idle" /\ held' = [held EXCEPT ![u] = flags] /\ UNCHANGED <<leaving, driver, attached>>
      BY <1>9 DEF UsbReport
    <2>2. ~contexts[u].listed
      BY <1>7, <1>9, <2>1
    <2>3. ASSUME NEW e \in Devices, contexts[e].listed \/ e = Osc PROVE held'[e] = held[e]
      <3>1. e # u
        BY <2>2, <2>3, Kinds
      <3> QED
        BY <2>1, <3>1 DEF TypeInv, WorldTyped
    <2>4. \A e \in Devices : Going(e) => Going(e)'
      BY <1>2, <2>1 DEF Going
    <2> QED
      BY <1>1, <2>3, <2>4, PressAside
  <1>10. \A u \in Usb : ~StopController(u)
    BY DEF StopController, TypeInv, UsbTyped
  <1> QED
    BY <1>3, <1>4, <1>5, <1>6, <1>8, <1>9, <1>10 DEF Aside

LEMMA PressInit == Init => PressInv
  <1> SUFFICES ASSUME Init PROVE PressBody
    BY DEF PressInv
  <1>1. \A t \in Threads : pc[t] = "idle"
    BY DEF Init
  <1>2. ASSUME NEW e \in Devices PROVE Holds(e)
    <2>1. contexts[e] \in {NoContext, [NoContext EXCEPT !.assigned = TRUE]}
      BY DEF Init
    <2>2. contexts[e].inputMap = {}
      BY <2>1, NewContexts DEF Context
    <2> QED
      BY <2>2 DEF Holds
  <1>3. \A n \in Numbers : host.pressed[n] = {}
    BY DEF Init
  <1> QED
    BY <1>1, <1>2, <1>3 DEF PressBody, PacketsHeld, PressedHeld

LEMMA PressNext == TypeInv /\ NumberInv /\ PressInv /\ [Next]_vars => PressInv'
  <1> SUFFICES ASSUME TypeInv, NumberInv, PressInv, [Next]_vars, ~raced', ~stopped' PROVE PressBody'
    BY DEF PressInv
  <1>1. CASE Next
    <2>1. ~raced /\ ~Conflict'
      BY <1>1 DEF Next
    <2>2. Group
      BY <1>1, StepGroups DEF Next
    <2>3. ~stopped /\ ~Stop
      <3>1. ASSUME stopped PROVE FALSE
        <4>1. UNCHANGED stopped
          <5>1. CASE \E t \in Threads : ThreadStep(t)
            BY <5>1 DEF ThreadStep, Reserve, Send, Released
          <5>2. ASSUME NEW t, NEW d, NEW c, SpeakStep(t, d, c) PROVE UNCHANGED stopped
            BY <5>2 DEF SpeakStep, KeyEvent, ReportOsc, UsbReport
          <5>3. CASE \E t \in Threads, d \in Inputs \cup Usb : ReleaseStep(t, d)
            BY <5>3, ReleaseBegins
          <5>4. CASE Opens \/ Aside
            BY <5>4, OpensSound, AsideFrame
          <5>5. CASE \/ \E u \in Usb : UsbAdded(u)
                     \/ \E d \in Inputs : InputDeviceChanged(d)
                     \/ Stop
            BY <3>1, <5>5 DEF UsbAdded, InputDeviceChanged, Stop
          <5> QED
            BY <2>2, <5>1, <5>2, <5>3, <5>4, <5>5 DEF Group
        <4> QED
          BY <3>1, <4>1
      <3> QED
        BY <3>1 DEF Stop
    <2>4. NumberBody /\ PressBody
      BY <2>1, <2>3 DEF NumberInv, PressInv
    <2>5. ASSUME NEW t \in Threads, ThreadStep(t) PROVE PressBody'
      BY <2>4, <2>5, ReservePress, SendPress, ReleasedPress DEF ThreadStep
    <2>6. CASE Opens
      <3>1. PICK opened : Opened(opened)
        BY <2>6, OpensSound
      <3>2. UNCHANGED <<attached, leaving, held, pc, job, host>>
        BY <2>6, OpensSound DEF worldVars
      <3>3. \A e \in opened : ~contexts[e].listed /\ e # Osc
        BY <2>4, <2>6, <3>1, OpenedUnlisted, Kinds DEF Opened
      <3> QED
        BY <2>4, <3>1, <3>2, <3>3, OpenedSound, FreshPress
    <2>7. ASSUME NEW u \in Usb, UsbAdded(u) PROVE PressBody'
      <3>1. UNCHANGED <<attached, leaving, held, pc, job, host>>
        BY <2>7 DEF UsbAdded, worldVars
      <3>2. ~contexts[u].listed /\ u # Osc
        BY <2>4, <2>7, AddedUnlisted, Kinds
      <3>3. \A v \in Usb \ {u} : driver'[v] = driver[v]
        BY <2>7 DEF UsbAdded, TypeInv, UsbTyped
      <3>4. /\ \A e \in {u} : ~contexts[e].listed /\ e # Osc /\ contexts'[e] \in {contexts[e], NoContext, NewContext}
            /\ \A e \in Devices \ {u} : contexts'[e] = contexts[e]
        BY <2>7, <3>2, AddedSound
      <3> QED
        BY <2>4, <3>1, <3>3, <3>4, FreshPress
    <2>8. ASSUME NEW d \in Inputs, InputDeviceChanged(d) PROVE PressBody'
      <3>1. UNCHANGED <<attached, leaving, held, driver, pc, job, host>>
        BY <2>8 DEF InputDeviceChanged, usbVars
      <3>2. \A e \in Devices : Going(e)' <=> Going(e)
        BY <3>1 DEF Going, ReleasedBy
      <3>3. \A e \in Devices : Holds(e)'
        BY <2>4, <2>8, <3>1, <3>2, ChangedSound DEF PressBody, Holds
      <3>4. \A e \in Devices : \A n : Answers(e, n) => Answers(e, n)'
        BY <2>8, <3>1, <3>2, ChangedSound DEF Answers
      <3> QED
        BY <2>4, <3>1, <3>3, <3>4, PressFrame
    <2> QED
      BY <2>1, <2>2, <2>3, <2>4, <2>5, <2>6, <2>7, <2>8, SpeakPress, ReleasePress, AsidePress DEF Group
  <1>2. CASE UNCHANGED vars
    <2>1. UNCHANGED <<raced, stopped, contexts, pc, job, host, attached, leaving, held, driver>>
      BY <1>2 DEF vars, worldVars, usbVars
    <2>2. \A e \in Devices : Going(e)' <=> Going(e)
      BY <2>1 DEF Going, ReleasedBy
    <2> QED
      BY <2>1, <2>2, PressAside DEF PressInv
  <1> QED
    BY <1>1, <1>2

\* Nothing stays pressed on the host that nobody holds, for devices that were
\* removed, changed, fused or switched to mouse emulation while buttons were down,
\* as long as two threads did not cross.
THEOREM NothingStuck == Spec => []GamepadReleased
  <1>1. Init => TypeInv /\ NumberInv /\ PressInv
    BY TypeInit, NumberInit, PressInit
  <1>2. TypeInv /\ NumberInv /\ PressInv /\ [Next]_vars => (TypeInv /\ NumberInv /\ PressInv)'
    BY TypeNext, NumberNext, PressNext
  <1>3. PressInv => GamepadReleased
    <2> SUFFICES ASSUME PressInv, Untouched, ~raced, NEW n \in Numbers PROVE host.pressed[n] = {}
      BY DEF GamepadReleased
    <2>1. PressBody /\ leaving = {} /\ \A t \in Threads : pc[t] = "idle"
      BY DEF PressInv, Untouched, Idle
    <2>2. \A e \in Devices : held[e] = {} /\ ~Going(e)
      BY <2>1 DEF Going, ReleasedBy, Untouched
    <2> QED
      BY <2>1, <2>2 DEF PressBody, PressedHeld, Accounted, Answers
  <1> QED
    BY <1>1, <1>2, <1>3, PTL DEF Spec
=============================================================================
