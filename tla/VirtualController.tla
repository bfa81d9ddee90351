------------------------- MODULE VirtualController -------------------------
(***************************************************************************)
(* The on-screen controls for keyboard and mouse, and their profiles.      *)
(*   binding/input/virtual_controller/                                     *)
(*                                                                         *)
(* A layout is a set of elements.  A button, the switch of the monitor and *)
(* the switch of the blank area are DigitalButtons: a finger presses the   *)
(* one it touches and those it slides onto.  The radial menu emits the     *)
(* sector under the finger, when it is chosen or for 35 ms when the finger *)
(* is lifted.  The stick emits the keys of its directions, the aim zone    *)
(* its keys while it is touched.  Several elements may emit the same key,  *)
(* and the host must see one press and one release: VirtualController      *)
(* counts.                                                                 *)
(*                                                                         *)
(* Everything runs on the main thread, each callback is one action.  The   *)
(* hard part is what happens to the keys that are down when a gesture does *)
(* not end where it began: another finger changes the mode, the profile is *)
(* switched, the screen turns, a dialog changes the keys.                  *)
(*                                                                         *)
(* Left out: drawing, geometry (where an element lies is one of two        *)
(* places; which elements are under a finger is any set of at most one),   *)
(* sensitivities, the names of profiles, the order of the keys of a        *)
(* binding, the layout of the gamepad and the default layout.              *)
(***************************************************************************)
EXTENDS Naturals, Sequences, FiniteSets, SequencesExt, Functions

CONSTANTS
    Ids,          \* the elements, by elementId
    KindOf,       \* their classes
    Codes,        \* the keys and mouse buttons
    Savable,      \* bound: what a binding dialog may save, for each class
    Profiles,     \* the ids of profiles
    Worlds,       \* bound: the elements, profiles and fingers that may occur
                  \* together, and whether elements are moved
    MaxPulses,    \* bound: the pulses of radial menus under way
    None, Gone    \* no element; an element that was removed

Kinds == {"button", "display", "blank", "radial", "aim", "stick"}

\* What setInputDown of DisplaySwitchButton presses before the function key.
Shortcut == <<"ctrl", "alt", "shift">>

\* The configuration of an element.  items are its bindings: one for a button,
\* a switch or an aim zone, two function keys, the sectors, the four
\* directions (left, right, up, down).  hold is holdSelectedInput, shooting is
\* activeMode.
Confs == [items : Seq(Seq(Codes)), hold : BOOLEAN, shooting : BOOLEAN, place : {0, 1}]

\* The bindings that an element of class k has at least.
Bindings(k) == CASE k \in {"display", "radial"} -> 2 [] k = "stick" -> 4 [] OTHER -> 1

ASSUME VirtualControllerAssumption ==
    /\ KindOf \in [Ids -> Kinds]
    /\ Range(Shortcut) \subseteq Codes
    /\ \A k \in Kinds : Savable[k] \subseteq Confs /\ Savable[k] # {}
    /\ \A k \in Kinds : \A c \in Savable[k] : Len(c.items) >= Bindings(k)
    /\ Worlds \subseteq [ids : SUBSET Ids, profiles : SUBSET Profiles, fingers : Nat, moves : BOOLEAN]
    /\ \A w \in Worlds : w.profiles # {} /\ IsFiniteSet(w.ids)
    /\ MaxPulses \in Nat
    /\ {None, Gone} \cap Ids = {} /\ None # Gone
    \* EID_BLANK_AREA_MODE
    /\ \A i, j \in Ids : KindOf[i] = "blank" /\ KindOf[j] = "blank" => i = j

VARIABLES
    world,      \* the one of Worlds
    mode,       \* currentMode
    screen,     \* "shown", "pip" (hidden), "stopped"
    elements,   \* the elements of the layout
    conf,       \* their configurations
    st,         \* their fields
    touches,    \* the fingers on each
    dialogs,    \* the binding dialogs: an element, and whether it is still in the layout
    keys,       \* refs: mappedKeyboardRefCounts and mappedMouseRefCounts; host: what the host holds
    pulses,     \* pulses posted and not released, oldest first
    profiles,   \* ControlProfileManager.profiles
    current,    \* currentProfileId
    stored,     \* the preferences of each profile
    applied,    \* BlankAreaInputSettings are those of the shooting mode
    missed      \* history: elements whose gesture ended in a configuration mode

elementVars == <<elements, conf, st>>
inputVars == <<touches, keys, pulses, missed>>
profileVars == <<profiles, current, stored, applied>>
vars == <<world, mode, screen, elementVars, inputVars, dialogs, profileVars>>

Fresh == [pressed |-> FALSE, down |-> FALSE, mover |-> None, sel |-> 0, held |-> <<>>,
          tilt |-> {}, next |-> 2, active |-> 0]
Default(e) == CHOOSE c \in Savable[KindOf[e]] : TRUE
IsDigital(e) == KindOf[e] \in {"button", "display", "blank"}
Layout == [e \in elements |-> conf[e]]
Blanks(ids) == {e \in ids : KindOf[e] = "blank"}

----------------------------------------------------------------------------
\* Each place of a binding that is emitted, with its key: the binding number
\* `part' of e.
Places(e, part, codes) ==
    {[of |-> e, part |-> part, place |-> i, key |-> codes[i]] : i \in DOMAIN codes}

\* What an element in state s holds, as emitBindings, sendShortcutKey and
\* sendIfChanged would release it now.
HoldingOf(e, c, s) ==
    CASE KindOf[e] = "radial" -> Places(e, 0, s.held)
      [] KindOf[e] = "stick" -> UNION {Places(e, d, c.items[d]) : d \in s.tilt}
      [] KindOf[e] = "display" ->
            IF s.down THEN Places(e, 0, Shortcut) \cup Places(e, s.active, c.items[s.active]) ELSE {}
      [] OTHER -> IF s.down THEN Places(e, 1, c.items[1]) ELSE {}

Holding(e) == HoldingOf(e, conf[e], st[e])
HeldBy(S) == UNION {Holding(e) : e \in S}
Times(c, holds) == Cardinality({h \in holds : h.key = c})

\* updateMappedInputRefCount for the key of each of `holds'
Down(k, holds) ==
    [refs |-> [c \in Codes |-> k.refs[c] + Times(c, holds)],
     host |-> k.host \cup {c \in Codes : k.refs[c] = 0 /\ Times(c, holds) > 0}]
Up(k, holds) ==
    LET left(c) == IF Times(c, holds) > k.refs[c] THEN 0 ELSE k.refs[c] - Times(c, holds)
    IN  [refs |-> [c \in Codes |-> left(c)],
         host |-> k.host \ {c \in Codes : k.refs[c] > 0 /\ left(c) = 0}]

NoKeys == [refs |-> [c \in Codes |-> 0], host |-> {}]

----------------------------------------------------------------------------
\* setInputDown and beginModeSwitch, endModeSwitch
Clicked(e, s) ==
    IF s.down THEN s
    ELSE [s EXCEPT !.down = TRUE, !.active = IF KindOf[e] = "display" THEN s.next ELSE 0]
Unclicked(s) ==
    IF ~s.down THEN s
    ELSE [s EXCEPT !.down = FALSE, !.active = 0, !.next = IF s.active = 1 THEN 2 ELSE IF s.active = 2 THEN 1 ELSE @]

\* releaseInput of each class.  A stick stays pressed, and only an expanded
\* menu forgets its sector.
Released(e) ==
    CASE KindOf[e] = "stick" -> [st[e] EXCEPT !.tilt = {}]
      [] KindOf[e] = "radial" -> [st[e] EXCEPT !.pressed = FALSE, !.held = <<>>, !.sel = IF st[e].pressed THEN 0 ELSE @]
      [] KindOf[e] = "aim" -> [st[e] EXCEPT !.pressed = FALSE, !.down = FALSE]
      [] OTHER -> [Unclicked(st[e]) EXCEPT !.pressed = FALSE]

\* The listeners of the buttons P that were clicked and R that were released;
\* s are the fields after the views changed them.  The switch of the blank
\* area changes the mode, applies it, and saves the profile.
Listeners(P, R, s) ==
    LET clicked == {e \in P : ~s[e].down}
        new == [e \in Ids |-> IF e \in P THEN Clicked(e, s[e]) ELSE IF e \in R THEN Unclicked(s[e]) ELSE s[e]]
        flipped == Blanks(clicked)
    IN  /\ st' = new
        /\ keys' = Down(Up(keys, HeldBy(R)), UNION {HoldingOf(e, conf[e], new[e]) : e \in clicked})
        /\ conf' = [e \in Ids |-> IF e \in flipped THEN [conf[e] EXCEPT !.shooting = ~@] ELSE conf[e]]
        /\ IF flipped = {} THEN UNCHANGED <<applied, stored>>
           ELSE /\ applied' = \E e \in flipped : conf'[e].shooting
                /\ stored' = [stored EXCEPT ![current] = [e \in elements |-> conf'[e]]]

\* (mutant: the finger that slides off is not noticed)
SlidMissed(o, e, pressed, under) ==
    IF st[o].mover \in {None, e} /\ o \in under THEN pressed ELSE st[o].pressed
\* checkMovement: button o after e, pressed or not, moved with the buttons
\* `under' under its finger.
Slid(o, e, pressed, under) ==
    IF st[o].mover \in {None, e} /\ o \in under THEN pressed
    ELSE IF st[o].mover = e THEN FALSE
    ELSE st[o].pressed

\* checkMovementForAllButtons and the listeners, where e itself becomes s
MoveOver(e, s, own, under) ==
    LET others == {o \in elements \ {e} : IsDigital(o)}
        on == {o \in others : Slid(o, e, s.pressed, under) /\ ~st[o].pressed}
        off == {o \in others : ~Slid(o, e, s.pressed, under) /\ st[o].pressed}
    IN  Listeners(on, off \cup own,
            [o \in Ids |-> IF o = e THEN s
                           ELSE IF o \in on THEN [st[o] EXCEPT !.pressed = TRUE, !.mover = e]
                           ELSE IF o \in off THEN [st[o] EXCEPT !.pressed = FALSE, !.mover = None]
                           ELSE st[o]])

DigitalEvent(e, action) ==
    /\ IsDigital(e)
    /\ UNCHANGED pulses
    /\ \/ /\ action = "down"
          /\ Listeners({e}, {}, [st EXCEPT ![e].mover = None, ![e].pressed = TRUE])
       \/ /\ action = "move"
          /\ \E under \in {{}} \cup {{o} : o \in elements \ {e}} : MoveOver(e, st[e], {}, under)
       \/ /\ action \in {"up", "cancel"}
          /\ \E under \in {{}} \cup {{o} : o \in elements \ {e}} :
                MoveOver(e, [st[e] EXCEPT !.pressed = FALSE], {e}, under)
       \/ action = "pointerUp" /\ UNCHANGED <<elementVars, keys, applied, stored>>

\* updateSelection: the fields of e, in state s, and the keys
Selected(e, s, index) ==
    IF index = s.sel THEN s
    ELSE [s EXCEPT !.sel = index,
                   !.held = IF ~conf[e].hold THEN @ ELSE IF index = 0 THEN <<>> ELSE conf[e].items[index]]
SelectKeys(e, s, index) ==
    IF index = s.sel \/ ~conf[e].hold THEN keys
    ELSE Down(Up(keys, Places(e, 0, s.held)), Places(e, 0, Selected(e, s, index).held))

\* getCandidateIndex; sector 0 is the dead zone.  The hysteresis may keep the
\* sector chosen before, even one that the menu no longer has (lifting the
\* finger there throws, and is left out).
Sectors(e) == 0 .. Len(conf[e].items)

\* POINTER_UP folds the menu as UP does.
RadialEvent(e, action) ==
    /\ KindOf[e] = "radial"
    /\ UNCHANGED <<conf, applied, stored>>
    /\ \/ /\ action \in {"down", "move"}
          /\ LET s == IF action = "down" /\ ~st[e].pressed
                      THEN [st[e] EXCEPT !.pressed = TRUE, !.sel = 0] ELSE st[e]
             IN  \E index \in Sectors(e) \cup {s.sel} :
                    /\ st' = [st EXCEPT ![e] = Selected(e, s, index)]
                    /\ keys' = SelectKeys(e, s, index)
          /\ UNCHANGED pulses
       \/ /\ action \in {"up", "pointerUp"}
          /\ \E index \in Sectors(e) :
                LET s == Selected(e, st[e], index)
                    released == Up(SelectKeys(e, st[e], index), Places(e, 0, s.held))
                    pulse == ~conf[e].hold /\ index # 0
                IN  /\ pulse => Len(pulses) < MaxPulses
                    /\ st' = [st EXCEPT ![e] = [s EXCEPT !.held = <<>>, !.pressed = FALSE,
                                                         !.sel = IF s.pressed THEN 0 ELSE @]]
                    /\ keys' = IF pulse THEN Down(released, Places(e, 0, conf[e].items[index])) ELSE released
                    /\ pulses' = IF pulse THEN Append(pulses, conf[e].items[index]) ELSE pulses
       \/ /\ action = "cancel"
          /\ st' = [st EXCEPT ![e] = Released(e)]
          /\ keys' = Up(keys, Holding(e))
          /\ UNCHANGED pulses

AimEvent(e, action) ==
    /\ KindOf[e] = "aim"
    /\ UNCHANGED <<conf, applied, stored, pulses>>
    /\ \/ /\ action = "down"
          /\ st' = [st EXCEPT ![e].pressed = TRUE, ![e].down = TRUE]
          /\ keys' = IF st[e].down THEN keys ELSE Down(keys, Places(e, 1, conf[e].items[1]))
       \/ /\ action \in {"up", "pointerUp", "cancel"}
          /\ st' = [st EXCEPT ![e] = Released(e)]
          /\ keys' = Up(keys, Holding(e))
       \/ action = "move" /\ UNCHANGED <<st, keys>>

\* updateKeyStates.  Opposite directions exclude each other; a stick in its
\* dead zone reports nothing and keeps its directions.
Tilts == {d \in SUBSET (1 .. 4) : ~({1, 2} \subseteq d) /\ ~({3, 4} \subseteq d)}
StickEvent(e, action) ==
    /\ KindOf[e] = "stick"
    /\ UNCHANGED <<conf, applied, stored, pulses>>
    /\ LET pressed == IF action = "down" THEN TRUE ELSE action \notin {"up", "cancel"} /\ st[e].pressed
       IN  \E tilt \in IF pressed THEN Tilts ELSE {{}} :
              LET s == [st[e] EXCEPT !.pressed = pressed, !.tilt = tilt]
              IN  /\ st' = [st EXCEPT ![e] = s]
                  /\ keys' = Down(Up(keys, HoldingOf(e, conf[e], [s EXCEPT !.tilt = st[e].tilt \ tilt])),
                                  HoldingOf(e, conf[e], [s EXCEPT !.tilt = tilt \ st[e].tilt]))

ElementEvent(e, action) ==
    DigitalEvent(e, action) \/ RadialEvent(e, action) \/ AimEvent(e, action) \/ StickEvent(e, action)
----------------------------------------------------------------------------
\* VirtualControllerElement.onTouchEvent.  In a configuration mode the element
\* is not told, whatever it holds.
OnTouchEvent(e, action) ==
    \/ /\ mode = "Active"
       /\ ElementEvent(e, action)
       /\ UNCHANGED dialogs
    \/ /\ mode = "Bind"
       /\ dialogs' = IF action = "up" THEN dialogs \cup {<<e, TRUE>>} ELSE dialogs
       /\ UNCHANGED <<conf, st, keys, pulses, applied, stored>>
    \/ /\ mode \in {"Move", "Resize"}
       /\ \E place \in IF action = "move" /\ world.moves THEN {0, 1} ELSE {conf[e].place} :
             conf' = [conf EXCEPT ![e].place = place]
       /\ UNCHANGED <<st, keys, pulses, applied, stored, dialogs>>

\* The gesture on e is over: what e or a button it slid onto still holds in a
\* configuration mode stays.
GestureEnds(e) ==
    missed' = IF mode = "Active" THEN missed
              ELSE missed \cup {e} \cup {o \in elements : st[o].mover = e}

touchFrame == UNCHANGED <<world, mode, screen, elements, profiles, current>>

FingersDown == FoldFunction(+, 0, touches)

\* A finger on an element that nobody touches; on one that is touched it is a
\* secondary touch and ignored.
Touch(e) ==
    /\ e \in elements /\ screen = "shown" /\ dialogs = {}
    /\ FingersDown < world.fingers
    /\ touches' = [touches EXCEPT ![e] = @ + 1]
    /\ IF touches[e] = 0
       THEN OnTouchEvent(e, "down") /\ missed' = IF mode = "Active" THEN missed \ {e} ELSE missed
       ELSE UNCHANGED <<conf, st, keys, pulses, dialogs, applied, stored, missed>>
    /\ touchFrame

Slide(e) ==
    /\ touches[e] > 0
    /\ OnTouchEvent(e, "move")
    /\ UNCHANGED <<touches, missed>>
    /\ touchFrame

\* The last finger is lifted, the first of several (it has index 0), or another.
Lift(e) ==
    /\ touches[e] > 0
    /\ touches' = [touches EXCEPT ![e] = @ - 1]
    /\ \/ touches[e] = 1 /\ OnTouchEvent(e, "up") /\ GestureEnds(e)
       \/ touches[e] > 1 /\ OnTouchEvent(e, "pointerUp") /\ UNCHANGED missed
       \/ touches[e] > 1 /\ UNCHANGED <<conf, st, keys, pulses, dialogs, applied, stored, missed>>
    /\ touchFrame

\* Android cancels the gesture.
Cancel(e) ==
    /\ touches[e] > 0
    /\ touches' = [touches EXCEPT ![e] = 0]
    /\ OnTouchEvent(e, "cancel") /\ GestureEnds(e)
    /\ touchFrame

\* The Runnable of pulseBindings, 35 ms later.
PulseEnds ==
    /\ pulses # <<>>
    /\ keys' = Up(keys, Places(None, 1, Head(pulses)))
    /\ pulses' = Tail(pulses)
    /\ UNCHANGED <<world, mode, screen, elementVars, touches, missed, dialogs, profileVars>>
----------------------------------------------------------------------------
NextMode == [Active |-> "Move", Move |-> "Resize", Resize |-> "Bind", Bind |-> "Active"]

\* (mutant: the layout is not saved)
ConfigureUnsaved ==
    /\ screen = "shown" /\ dialogs = {}
    /\ mode' = NextMode[mode]
    /\ UNCHANGED <<world, screen, elementVars, inputVars, dialogs, profileVars>>

\* The gear
Configure ==
    /\ screen = "shown" /\ dialogs = {}
    /\ mode' = NextMode[mode]
    /\ stored' = IF mode = "Bind" THEN [stored EXCEPT ![current] = Layout] ELSE stored
    /\ UNCHANGED <<world, screen, elementVars, inputVars, dialogs, profiles, current, applied>>

\* (mutant: the element does not release first)
SaveBindingHeld(e, inLayout) ==
    /\ <<e, inLayout>> \in dialogs
    /\ dialogs' = dialogs \ {<<e, inLayout>>}
    /\ IF inLayout
       THEN \E c \in Savable[KindOf[e]] : conf' = [conf EXCEPT ![e] = [c EXCEPT !.shooting = conf[e].shooting, !.place = conf[e].place]]
       ELSE UNCHANGED conf
    /\ stored' = [stored EXCEPT ![current] = [x \in elements |-> conf'[x]]]
    /\ UNCHANGED <<world, mode, screen, elements, st, inputVars, profiles, current, applied>>

\* Save in the dialog of an element.  The element of a dialog that outlived
\* its layout (<<e, FALSE>>) is changed for nobody.
SaveBinding(e, inLayout) ==
    /\ <<e, inLayout>> \in dialogs
    /\ dialogs' = dialogs \ {<<e, inLayout>>}
    /\ \/ /\ inLayout
          /\ keys' = Up(keys, Holding(e))
          /\ st' = [st EXCEPT ![e] = CASE KindOf[e] = "blank" -> Unclicked(st[e])
                                       [] KindOf[e] = "display" -> [Released(e) EXCEPT !.next = 2]
                                       [] OTHER -> Released(e)]
          /\ \E c \in Savable[KindOf[e]] :
                conf' = [conf EXCEPT ![e] = [c EXCEPT !.shooting = conf[e].shooting, !.place = conf[e].place]]
          /\ applied' = IF KindOf[e] = "blank" THEN conf[e].shooting ELSE applied
          /\ missed' = missed \ {e}
       \/ ~inLayout /\ UNCHANGED <<keys, st, conf, applied, missed>>
    /\ stored' = [stored EXCEPT ![current] = [x \in elements |-> conf'[x]]]
    /\ UNCHANGED <<world, mode, screen, elements, touches, pulses, profiles, current>>

DismissDialog(d) ==
    /\ d \in dialogs
    /\ dialogs' = dialogs \ {d}
    /\ UNCHANGED <<world, mode, screen, elementVars, inputVars, profileVars>>

\* Delete in the dialog: removeMappedButton and the like return when the
\* element is not in the layout.
RemoveElement(e, inLayout) ==
    /\ <<e, inLayout>> \in dialogs
    /\ dialogs' = dialogs \ {<<e, inLayout>>}
    /\ \/ /\ inLayout
          /\ elements' = elements \ {e}
          /\ keys' = Up(keys, Holding(e))
          /\ st' = [o \in Ids |-> IF o = e THEN Fresh
                                  ELSE IF st[o].mover = e THEN [st[o] EXCEPT !.mover = Gone] ELSE st[o]]
          /\ conf' = [conf EXCEPT ![e] = Default(e)]
          /\ touches' = [touches EXCEPT ![e] = 0]
          /\ missed' = (missed \ {e}) \cup IF touches[e] = 0 THEN {} ELSE {o \in elements' : st[o].mover = e}
          /\ stored' = [stored EXCEPT ![current] = [x \in elements' |-> conf[x]]]
       \/ ~inLayout /\ UNCHANGED <<elements, keys, st, conf, touches, missed, stored>>
    /\ UNCHANGED <<world, mode, screen, pulses, profiles, current, applied>>

\* "+" in the bind mode; the new element has its default bindings and its
\* dialog opens.
Add(e) ==
    /\ mode = "Bind" /\ screen = "shown" /\ dialogs = {}
    /\ e \in world.ids \ elements
    /\ KindOf[e] \in {"display", "blank", "stick", "aim"} =>
          \A o \in elements : KindOf[o] # KindOf[e]
    /\ elements' = elements \cup {e}
    /\ applied' = IF KindOf[e] = "blank" THEN conf[e].shooting ELSE applied
    /\ stored' = [stored EXCEPT ![current] = [x \in elements' |-> conf[x]]]
    /\ dialogs' = {<<e, TRUE>>}
    /\ UNCHANGED <<world, mode, screen, conf, st, inputVars, profiles, current>>
----------------------------------------------------------------------------
\* refreshLayout with the preferences of `layout': every element releases what
\* it holds and is removed, then the layout is built anew.
Refresh(layout) ==
    /\ keys' = Up(keys, HeldBy(elements))
    /\ elements' = DOMAIN layout
    /\ conf' = [e \in Ids |-> IF e \in DOMAIN layout THEN layout[e] ELSE Default(e)]
    /\ st' = [e \in Ids |-> Fresh]
    /\ touches' = [e \in Ids |-> 0]
    /\ missed' = {}
    /\ dialogs' = {<<d[1], FALSE>> : d \in dialogs}
    /\ applied' = IF Blanks(DOMAIN layout) = {} THEN applied
                  ELSE \E e \in Blanks(DOMAIN layout) : layout[e].shooting
    /\ UNCHANGED pulses

\* (mutant: the current profile is changed before the layout is saved)
SwitchProfileFirst(p) ==
    /\ screen = "shown" /\ dialogs = {}
    /\ p \in Range(profiles) \ {current}
    /\ stored' = [stored EXCEPT ![p] = Layout]
    /\ current' = p
    /\ mode' = "Active"
    /\ Refresh(Layout)
    /\ UNCHANGED <<world, screen, profiles>>

\* The profile dialog: switch, create a copy, delete.
SwitchProfile(p) ==
    /\ screen = "shown" /\ dialogs = {}
    /\ p \in Range(profiles) \ {current}
    /\ stored' = [stored EXCEPT ![current] = Layout]
    /\ current' = p
    /\ mode' = "Active"
    /\ Refresh(stored[p])
    /\ UNCHANGED <<world, screen, profiles>>

CreateProfile(p) ==
    /\ screen = "shown" /\ dialogs = {}
    /\ p \in world.profiles \ Range(profiles)
    /\ stored' = [stored EXCEPT ![current] = Layout, ![p] = Layout]
    /\ profiles' = Append(profiles, p)
    /\ current' = p
    /\ mode' = "Active"
    /\ Refresh(Layout)
    /\ UNCHANGED <<world, screen>>

DeleteProfile ==
    /\ screen = "shown" /\ dialogs = {}
    /\ Len(profiles) > 1
    /\ \E i \in DOMAIN profiles : profiles[i] = current /\ profiles' = RemoveAt(profiles, i)
    /\ current' = Head(profiles')
    /\ stored' = [stored EXCEPT ![current] = <<>>]
    /\ mode' = "Active"
    /\ Refresh(stored[Head(profiles')])
    /\ UNCHANGED <<world, screen>>

\* Game.onConfigurationChanged: the layout is refreshed, in whatever mode, and
\* hidden in picture-in-picture mode.
ConfigurationChanged ==
    /\ screen # "stopped"
    /\ screen' \in {"shown", "pip"}
    /\ Refresh(stored[current])
    /\ UNCHANGED <<world, mode, stored, profiles, current>>

\* Game.onStop: hide() releases every element.
Stop ==
    /\ screen # "stopped"
    /\ screen' = "stopped"
    /\ keys' = Up(keys, HeldBy(elements))
    /\ st' = [e \in Ids |-> IF e \in elements THEN Released(e) ELSE st[e]]
    /\ missed' = {}
    /\ dialogs' = {}
    /\ UNCHANGED <<world, mode, elements, conf, touches, pulses, profileVars>>

\* The next stream builds a new VirtualController from the preferences.
Relaunch ==
    /\ screen = "stopped"
    /\ screen' = "shown" /\ mode' = "Active"
    /\ elements' = DOMAIN stored[current]
    /\ conf' = [e \in Ids |-> IF e \in elements' THEN stored[current][e] ELSE Default(e)]
    /\ st' = [e \in Ids |-> Fresh]
    /\ touches' = [e \in Ids |-> 0] /\ missed' = {} /\ dialogs' = {}
    /\ keys' = NoKeys /\ pulses' = <<>>
    /\ applied' = IF Blanks(elements') = {} THEN applied ELSE \E e \in Blanks(elements') : conf'[e].shooting
    /\ UNCHANGED <<world, profiles, current, stored>>
----------------------------------------------------------------------------
\* A stream begins with one profile that has all elements of the world.
Init ==
    /\ world \in Worlds
    /\ mode = "Active" /\ screen = "shown"
    /\ elements = world.ids
    /\ conf = [e \in Ids |-> Default(e)]
    /\ st = [e \in Ids |-> Fresh]
    /\ touches = [e \in Ids |-> 0]
    /\ dialogs = {} /\ pulses = <<>> /\ missed = {}
    /\ keys = NoKeys
    /\ \E p \in world.profiles : current = p
    /\ profiles = <<current>>
    /\ stored = [p \in Profiles |-> IF p = current THEN Layout ELSE <<>>]
    /\ applied = (\E e \in Blanks(world.ids) : conf[e].shooting)

Next ==
    \/ \E e \in Ids : Touch(e) \/ Slide(e) \/ Lift(e) \/ Cancel(e) \/ Add(e)
    \/ \E e \in Ids, inLayout \in BOOLEAN : SaveBinding(e, inLayout) \/ RemoveElement(e, inLayout)
    \/ \E d \in dialogs : DismissDialog(d)
    \/ \E p \in Profiles : SwitchProfile(p) \/ CreateProfile(p)
    \/ PulseEnds \/ Configure \/ DeleteProfile \/ ConfigurationChanged \/ Stop \/ Relaunch

Spec == Init /\ [][Next]_vars
----------------------------------------------------------------------------
\* The variables have their types, the current profile is one of the profiles.
TypeOK ==
    /\ world \in Worlds
    /\ mode \in {"Active", "Move", "Resize", "Bind"} /\ screen \in {"shown", "pip", "stopped"}
    /\ elements \subseteq world.ids
    /\ DOMAIN conf = Ids /\ \A e \in Ids : conf[e] \in Confs
    /\ \A e \in Ids : /\ st[e].pressed \in BOOLEAN /\ st[e].down \in BOOLEAN
                      /\ st[e].mover \in Ids \cup {None, Gone}
                      /\ st[e].sel \in Nat
                      /\ st[e].tilt \in Tilts
                      /\ st[e].next \in {1, 2} /\ st[e].active \in 0 .. 2
    /\ touches \in [Ids -> Nat]
    /\ dialogs \subseteq Ids \X BOOLEAN
    /\ keys.refs \in [Codes -> Nat] /\ keys.host \subseteq Codes
    /\ Len(pulses) <= MaxPulses
    /\ current \in Range(profiles) /\ IsInjective(profiles)
    /\ applied \in BOOLEAN
    /\ missed \subseteq elements

PulsesOf(codes) == UNION {Places(None, n, codes[n]) : n \in DOMAIN codes}

\* A key is counted once for each element that holds it and each pulse under
\* way, so the host has it down exactly as long as somebody holds it, however
\* buttons, menus, sticks and pulses share it and dialogs and profiles change
\* it meanwhile.  (updateMappedInputRefCount, emitBindings, releaseInput)
KeysAccounted ==
    \A c \in Codes :
        /\ keys.refs[c] = Times(c, HeldBy(elements)) + Times(c, PulsesOf(pulses))
        /\ c \in keys.host <=> keys.refs[c] > 0

\* The keys, with the types.
KeysSound == TypeOK /\ KeysAccounted

\* An element that holds a key is touched, or slid onto by a finger that is
\* still on the screen, unless that gesture ended in a configuration mode.
\* (checkMovement, onTouchEvent)
HoldsTouched ==
    \A e \in elements :
        \/ Holding(e) = {}
        \/ touches[e] > 0
        \/ st[e].mover \in Ids /\ touches[st[e].mover] > 0
        \/ e \in missed

\* In the active mode the preferences are the layout on the screen: whenever
\* the app dies or the screen turns, nothing is lost; and the blank area obeys
\* the mode its switch shows.  (saveProfile, loadFromPreferences)
SavedInActive ==
    /\ mode = "Active" => stored[current] = Layout
    /\ \A e \in Blanks(elements) : applied = conf[e].shooting

\* A profile that is left is stored as it was on the screen, and no step
\* changes the preferences of another profile than the current one.
\* (switchProfile, createProfile, deleteCurrent)
ProfilesKept ==
    [][/\ \A p \in Range(profiles) \ {current} : p \in Range(profiles') /\ stored'[p] = stored[p]
       /\ current' # current /\ current \in Range(profiles') => stored'[current] = Layout]_vars
=============================================================================
