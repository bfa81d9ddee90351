----------------------- MODULE VirtualControllerProof -----------------------
(***************************************************************************)
(* Proofs about VirtualController, for any elements, keys, bindings,       *)
(* profiles and fingers: every key is counted for those who hold it,       *)
(* nothing is held that nobody touches, the layout on the screen is saved, *)
(* and no profile overwrites another.                                      *)
(*                                                                         *)
(* A key is counted once for each place that holds it.  The holds are a    *)
(* set of places, each element and each pulse with its own, so the counts  *)
(* are cardinalities: what lets go of a set of places or takes one changes *)
(* them by its cardinality.                                                *)
(***************************************************************************)
EXTENDS VirtualController, FiniteSetTheorems, TLAPS

-----------------------------------------------------------------------------
(* Types *)

\* The fields of an element
Fields == [pressed : BOOLEAN, down : BOOLEAN, mover : Ids \cup {None, Gone}, sel : Nat,
           held : Seq(Codes), tilt : Tilts, next : {1, 2}, active : 0 .. 2]

\* What may be in the preferences of a profile: a layout of some elements
Layouts == UNION {[S -> Confs] : S \in SUBSET world.ids}

WorldTyped ==
    /\ world \in Worlds
    /\ mode \in {"Active", "Move", "Resize", "Bind"} /\ screen \in {"shown", "pip", "stopped"}
    /\ elements \subseteq world.ids

FieldsTyped == conf \in [Ids -> Confs] /\ st \in [Ids -> Fields]

\* A finger is on an element of the layout, and so is what an open dialog edits.
FingersTyped ==
    /\ touches \in [Ids -> Nat] /\ \A e \in Ids : touches[e] > 0 => e \in elements
    /\ dialogs \subseteq Ids \X BOOLEAN /\ \A e \in Ids : <<e, TRUE>> \in dialogs => e \in elements

ListTyped ==
    /\ profiles \in Seq(Profiles) /\ IsInjective(profiles) /\ current \in Range(profiles)

StoredTyped == stored \in [Profiles -> Layouts] /\ applied \in BOOLEAN

TypeInv == WorldTyped /\ FieldsTyped /\ FingersTyped /\ ListTyped /\ StoredTyped

LEMMA WorldIds ==
    ASSUME WorldTyped
    PROVE  elements \subseteq Ids /\ world.ids \subseteq Ids /\ world.profiles \subseteq Profiles
  <1>1. world \in [ids : SUBSET Ids, profiles : SUBSET Profiles, fingers : Nat, moves : BOOLEAN]
    BY VirtualControllerAssumption DEF WorldTyped
  <1> QED
    BY <1>1 DEF WorldTyped

\* An element that has a class has a configuration of it by default.
LEMMA DefaultTyped ==
    ASSUME NEW e \in Ids
    PROVE  Default(e) \in Confs
  <1>1. KindOf[e] \in Kinds
    BY VirtualControllerAssumption
  <1>2. Savable[KindOf[e]] \subseteq Confs /\ Savable[KindOf[e]] # {}
    BY <1>1, VirtualControllerAssumption
  <1> QED
    BY <1>2 DEF Default

LEMMA FreshTyped == Fresh \in Fields
  <1>1. {} \in Tilts
    BY DEF Tilts
  <1>2. <<>> \in Seq(Codes)
    OBVIOUS
  <1> QED
    BY <1>1, <1>2 DEF Fresh, Fields

LEMMA ClickedTyped ==
    ASSUME NEW e, NEW s \in Fields
    PROVE  Clicked(e, s) \in Fields /\ Unclicked(s) \in Fields
  <1>1. 0 \in 0 .. 2 /\ 1 \in 0 .. 2 /\ 2 \in 0 .. 2
    OBVIOUS
  <1>2. s.next \in {1, 2} /\ s.next \in 0 .. 2
    BY <1>1 DEF Fields
  <1>3. Clicked(e, s) \in Fields
    <2>1. ASSUME NEW a \in 0 .. 2 PROVE [s EXCEPT !.down = TRUE, !.active = a] \in Fields
      BY DEF Fields
    <2> QED
      BY <1>1, <1>2, <2>1 DEF Clicked
  <1>4. Unclicked(s) \in Fields
    <2>1. ASSUME NEW n \in {1, 2} PROVE [s EXCEPT !.down = FALSE, !.active = 0, !.next = n] \in Fields
      BY <1>1 DEF Fields
    <2>2. Unclicked(s) = IF ~s.down THEN s
                         ELSE [s EXCEPT !.down = FALSE, !.active = 0,
                                        !.next = IF s.active = 1 THEN 2 ELSE IF s.active = 2 THEN 1 ELSE s.next]
      BY DEF Unclicked, Fields
    <2> QED
      BY <1>2, <2>1, <2>2
  <1> QED
    BY <1>3, <1>4

LEMMA ReleasedTyped ==
    ASSUME FieldsTyped, NEW e \in Ids
    PROVE  Released(e) \in Fields
  <1>1. st[e] \in Fields
    BY DEF FieldsTyped
  <1>2. {} \in Tilts /\ <<>> \in Seq(Codes)
    BY DEF Tilts
  <1>3. CASE KindOf[e] = "stick"
    BY <1>1, <1>2, <1>3 DEF Released, Fields
  <1>4. CASE KindOf[e] = "radial"
    BY <1>1, <1>2, <1>4 DEF Released, Fields
  <1>5. CASE KindOf[e] = "aim"
    BY <1>1, <1>5 DEF Released, Fields
  <1>6. CASE KindOf[e] \notin {"stick", "radial", "aim"}
    <2>1. Released(e) = [Unclicked(st[e]) EXCEPT !.pressed = FALSE]
      BY <1>6 DEF Released
    <2>2. Unclicked(st[e]) \in Fields
      BY <1>1, ClickedTyped
    <2> QED
      BY <2>1, <2>2 DEF Fields
  <1> QED
    BY <1>3, <1>4, <1>5, <1>6

\* The current profile is a profile.
LEMMA CurrentProfile ==
    ASSUME ListTyped
    PROVE  current \in Profiles /\ Range(profiles) \subseteq Profiles
  BY DEF ListTyped, Range

\* A layout of some elements of the world is one that may be stored.
LEMMA LayoutTyped ==
    ASSUME NEW S \in SUBSET world.ids, NEW f \in [S -> Confs]
    PROVE  f \in Layouts
  BY DEF Layouts

LEMMA LayoutParts ==
    ASSUME NEW f \in Layouts
    PROVE  DOMAIN f \subseteq world.ids /\ f \in [DOMAIN f -> Confs]
  BY DEF Layouts

-----------------------------------------------------------------------------
(* What an event does to the layout *)

Flipped(P, s) == Blanks({e \in P : ~s[e].down})

\* The fields and configurations after the buttons in P were clicked and those in R released.
NewFields(P, R, s) ==
    [e \in Ids |-> IF e \in P THEN Clicked(e, s[e]) ELSE IF e \in R THEN Unclicked(s[e]) ELSE s[e]]
NewConf(P, s) ==
    [e \in Ids |-> IF e \in Flipped(P, s) THEN [conf[e] EXCEPT !.shooting = ~conf[e].shooting] ELSE conf[e]]

\* The listeners change them, and when a switch was clicked save the layout.
LEMMA ListenersEffect ==
    ASSUME TypeInv, NEW P \in SUBSET elements, NEW R, NEW s \in [Ids -> Fields], Listeners(P, R, s)
    PROVE  /\ st' = NewFields(P, R, s)
           /\ conf' = NewConf(P, s)
           /\ Flipped(P, s) = {} => UNCHANGED <<conf, applied, stored>>
           /\ Flipped(P, s) # {} =>
                /\ applied' = \E e \in Flipped(P, s) : conf'[e].shooting
                /\ stored' = [stored EXCEPT ![current] = [e \in elements |-> conf'[e]]]
  <1>1. conf = [e \in Ids |-> conf[e]]
    BY DEF TypeInv, FieldsTyped
  <1>2. conf' = NewConf(P, s)
    BY DEF Listeners, Flipped, NewConf
  <1>3. Flipped(P, s) = {} => conf' = conf
    BY <1>1, <1>2 DEF NewConf
  <1>4. st' = NewFields(P, R, s)
    BY DEF Listeners, NewFields
  <1> QED
    BY <1>2, <1>3, <1>4 DEF Listeners, Flipped

LEMMA ListenersTyped ==
    ASSUME TypeInv, NEW P \in SUBSET elements, NEW R, NEW s \in [Ids -> Fields], Listeners(P, R, s)
    PROVE  FieldsTyped' /\ stored' \in [Profiles -> Layouts] /\ applied' \in BOOLEAN
  <1>1. st' \in [Ids -> Fields]
    <2>1. \A e \in Ids : s[e] \in Fields /\ Clicked(e, s[e]) \in Fields /\ Unclicked(s[e]) \in Fields
      BY ClickedTyped
    <2>2. st' = NewFields(P, R, s)
      BY ListenersEffect
    <2> QED
      BY <2>1, <2>2 DEF NewFields
  <1>2. conf' \in [Ids -> Confs]
    <2>1. \A c \in Confs : [c EXCEPT !.shooting = ~c.shooting] \in Confs
      BY DEF Confs
    <2>2. \A e \in Ids : conf[e] \in Confs
      BY DEF TypeInv, FieldsTyped
    <2>3. conf' = NewConf(P, s)
      BY ListenersEffect
    <2> QED
      BY <2>1, <2>2, <2>3 DEF NewConf
  <1>3. elements \in SUBSET world.ids /\ elements \subseteq Ids
    BY WorldIds DEF TypeInv, WorldTyped
  <1>4. [e \in elements |-> conf'[e]] \in Layouts
    BY <1>2, <1>3, LayoutTyped
  <1>5. stored' \in [Profiles -> Layouts]
    BY <1>4, ListenersEffect DEF TypeInv, StoredTyped
  <1>6. applied' \in BOOLEAN
    <2>1. CASE Flipped(P, s) = {}
      BY <2>1, ListenersEffect DEF TypeInv, StoredTyped
    <2>2. CASE Flipped(P, s) # {}
      <3>1. applied' = \E e \in Flipped(P, s) : conf'[e].shooting
        BY <2>2, ListenersEffect
      <3> QED
        BY <3>1
    <2> QED
      BY <2>1, <2>2
  <1> QED
    BY <1>1, <1>2, <1>5, <1>6 DEF FieldsTyped

\* The fields the views set before the listeners are called.
Viewed(e, s, on, off) ==
    [o \in Ids |-> IF o = e THEN s
                   ELSE IF o \in on THEN [st[o] EXCEPT !.pressed = TRUE, !.mover = e]
                   ELSE IF o \in off THEN [st[o] EXCEPT !.pressed = FALSE, !.mover = None]
                   ELSE st[o]]

Others(e) == {o \in elements \ {e} : IsDigital(o)}
SlidOn(e, s, under) == {o \in Others(e) : Slid(o, e, s.pressed, under) /\ ~st[o].pressed}
SlidOff(e, s, under) == {o \in Others(e) : ~Slid(o, e, s.pressed, under) /\ st[o].pressed}

LEMMA MoveOverEffect ==
    ASSUME NEW e, NEW s, NEW own, NEW under, MoveOver(e, s, own, under)
    PROVE  Listeners(SlidOn(e, s, under), SlidOff(e, s, under) \cup own,
                     Viewed(e, s, SlidOn(e, s, under), SlidOff(e, s, under)))
  BY DEF MoveOver, SlidOn, SlidOff, Others, Viewed

LEMMA ViewedTyped ==
    ASSUME FieldsTyped, NEW e \in Ids, NEW s \in Fields, NEW on, NEW off
    PROVE  Viewed(e, s, on, off) \in [Ids -> Fields]
  <1>1. ASSUME NEW o \in Ids
        PROVE  /\ st[o] \in Fields
               /\ [st[o] EXCEPT !.pressed = TRUE, !.mover = e] \in Fields
               /\ [st[o] EXCEPT !.pressed = FALSE, !.mover = None] \in Fields
    BY DEF FieldsTyped, Fields
  <1> QED
    BY <1>1 DEF Viewed
LEMMA TouchedTyped ==
    ASSUME FieldsTyped, NEW e \in Ids
    PROVE  [st EXCEPT ![e].mover = None, ![e].pressed = TRUE] \in [Ids -> Fields]
  <1>1. \A o \in Ids : st[o] \in Fields
    BY DEF FieldsTyped
  <1>2. \A s \in Fields : [[s EXCEPT !.mover = None] EXCEPT !.pressed = TRUE] \in Fields
    BY DEF Fields
  <1>3. st \in [Ids -> Fields]
    BY DEF FieldsTyped
  <1> QED
    BY <1>1, <1>2, <1>3

\* A new sector is one of the menu's.
LEMMA SelectedTyped ==
    ASSUME FieldsTyped, NEW e \in Ids, NEW s \in Fields, NEW index \in 0 .. Len(conf[e].items)
    PROVE  Selected(e, s, index) \in Fields
  <1>1. conf[e].items \in Seq(Seq(Codes))
    BY DEF FieldsTyped, Confs
  <1> DEFINE held == IF ~conf[e].hold THEN s.held ELSE IF index = 0 THEN <<>> ELSE conf[e].items[index]
  <1>2. held \in Seq(Codes)
    <2>1. s.held \in Seq(Codes) /\ <<>> \in Seq(Codes)
      BY DEF Fields
    <2>2. index # 0 => conf[e].items[index] \in Seq(Codes)
      BY <1>1
    <2> QED
      BY <2>1, <2>2
  <1>3. index \in Nat
    BY <1>1
  <1>4. Selected(e, s, index) = IF index = s.sel THEN s ELSE [s EXCEPT !.sel = index, !.held = held]
    BY DEF Selected, Fields
  <1>5. \A h \in Seq(Codes) : [s EXCEPT !.sel = index, !.held = h] \in Fields
    BY <1>3 DEF Fields
  <1> QED
    BY <1>2, <1>4, <1>5

EventTyped == FieldsTyped' /\ stored' \in [Profiles -> Layouts] /\ applied' \in BOOLEAN

\* An event that changes the fields of its element only.
LEMMA OwnTyped ==
    ASSUME TypeInv, NEW e \in Ids, NEW s \in Fields, st' = [st EXCEPT ![e] = s],
           UNCHANGED <<conf, stored, applied>>
    PROVE  EventTyped
  <1>1. st' \in [Ids -> Fields]
    BY DEF TypeInv, FieldsTyped
  <1> QED
    BY <1>1 DEF EventTyped, TypeInv, FieldsTyped, StoredTyped

LEMMA DigitalTyped ==
    ASSUME TypeInv, NEW e \in elements, NEW action, DigitalEvent(e, action)
    PROVE  EventTyped
  <1> e \in Ids /\ FieldsTyped /\ st[e] \in Fields
    BY WorldIds DEF TypeInv, FieldsTyped
  <1>1. ASSUME NEW P \in SUBSET elements, NEW R, NEW s \in [Ids -> Fields], Listeners(P, R, s)
        PROVE  EventTyped
    BY <1>1, ListenersTyped DEF EventTyped
  <1>2. ASSUME NEW s \in Fields, NEW own, NEW under, MoveOver(e, s, own, under)
        PROVE  EventTyped
    <2>1. SlidOn(e, s, under) \in SUBSET elements
      BY DEF SlidOn, Others
    <2>2. Viewed(e, s, SlidOn(e, s, under), SlidOff(e, s, under)) \in [Ids -> Fields]
      BY ViewedTyped
    <2> QED
      BY <1>1, <1>2, <2>1, <2>2, MoveOverEffect
  <1>3. CASE Listeners({e}, {}, [st EXCEPT ![e].mover = None, ![e].pressed = TRUE])
    BY <1>1, <1>3, TouchedTyped
  <1>4. ASSUME NEW under, MoveOver(e, st[e], {}, under) PROVE EventTyped
    BY <1>2, <1>4
  <1>5. ASSUME NEW under, MoveOver(e, [st[e] EXCEPT !.pressed = FALSE], {e}, under) PROVE EventTyped
    <2>1. [st[e] EXCEPT !.pressed = FALSE] \in Fields
      BY DEF Fields
    <2> QED
      BY <1>2, <1>5, <2>1
  <1>6. CASE UNCHANGED <<elementVars, keys, applied, stored>>
    BY <1>6 DEF EventTyped, TypeInv, FieldsTyped, StoredTyped, elementVars
  <1> QED
    BY <1>3, <1>4, <1>5, <1>6 DEF DigitalEvent

LEMMA RadialTyped ==
    ASSUME TypeInv, NEW e \in elements, NEW action, RadialEvent(e, action)
    PROVE  EventTyped
  <1> e \in Ids /\ FieldsTyped /\ st[e] \in Fields
    BY WorldIds DEF TypeInv, FieldsTyped
  <1>0. UNCHANGED <<conf, stored, applied>>
    BY DEF RadialEvent
  <1>1. ASSUME NEW s \in Fields, NEW index \in Sectors(e) \cup {s.sel}, st' = [st EXCEPT ![e] = Selected(e, s, index)]
        PROVE  EventTyped
    <2>1. CASE index = s.sel
      <3>1. Selected(e, s, index) = s
        BY <2>1 DEF Selected
      <3> QED
        BY <1>0, <1>1, <3>1, OwnTyped
    <2>2. CASE index \in Sectors(e)
      BY <1>0, <1>1, <2>2, SelectedTyped, OwnTyped DEF Sectors
    <2> QED
      BY <2>1, <2>2
  <1>2. ASSUME NEW index \in 0 .. Len(conf[e].items),
               LET s == Selected(e, st[e], index)
               IN  st' = [st EXCEPT ![e] = [s EXCEPT !.held = <<>>, !.pressed = FALSE,
                                                     !.sel = IF s.pressed THEN 0 ELSE @]]
        PROVE  EventTyped
    <2> DEFINE s == Selected(e, st[e], index)
               v == [s EXCEPT !.held = <<>>, !.pressed = FALSE, !.sel = IF s.pressed THEN 0 ELSE @]
    <2>1. s \in Fields
      BY SelectedTyped
    <2>2. ASSUME NEW r \in Fields
          PROVE  [r EXCEPT !.held = <<>>, !.pressed = FALSE, !.sel = IF r.pressed THEN 0 ELSE @] \in Fields
      <3>1. ASSUME NEW h \in Seq(Codes), NEW n \in Nat
            PROVE  [r EXCEPT !.held = h, !.pressed = FALSE, !.sel = n] \in Fields
        BY DEF Fields
      <3>2. <<>> \in Seq(Codes) /\ r.sel \in Nat /\ 0 \in Nat
        BY DEF Fields
      <3> QED
        BY <3>1, <3>2
    <2>3. v \in Fields /\ st' = [st EXCEPT ![e] = v]
      BY <1>2, <2>1, <2>2
    <2> HIDE DEF v
    <2> QED
      BY <1>0, <2>3, OwnTyped
  <1>3. CASE st' = [st EXCEPT ![e] = Released(e)]
    BY <1>0, <1>3, ReleasedTyped, OwnTyped
  <1> DEFINE opened == IF action = "down" /\ ~st[e].pressed
                       THEN [st[e] EXCEPT !.pressed = TRUE, !.sel = 0] ELSE st[e]
  <1>4. ASSUME NEW index \in Sectors(e) \cup {opened.sel}, st' = [st EXCEPT ![e] = Selected(e, opened, index)]
        PROVE  EventTyped
    <2>1. opened \in Fields
      BY DEF Fields
    <2> HIDE DEF opened
    <2> QED
      BY <1>1, <1>4, <2>1
  <1>5. \/ \E index \in Sectors(e) \cup {opened.sel} : st' = [st EXCEPT ![e] = Selected(e, opened, index)]
        \/ \E index \in 0 .. Len(conf[e].items) :
               LET s == Selected(e, st[e], index)
               IN  st' = [st EXCEPT ![e] = [s EXCEPT !.held = <<>>, !.pressed = FALSE,
                                                     !.sel = IF s.pressed THEN 0 ELSE @]]
        \/ st' = [st EXCEPT ![e] = Released(e)]
    BY DEF RadialEvent, Sectors
  <1> HIDE DEF opened
  <1> QED
    BY <1>2, <1>3, <1>4, <1>5

LEMMA AimTyped ==
    ASSUME TypeInv, NEW e \in elements, NEW action, AimEvent(e, action)
    PROVE  EventTyped
  <1> e \in Ids /\ FieldsTyped /\ st[e] \in Fields /\ st \in [Ids -> Fields]
    BY WorldIds DEF TypeInv, FieldsTyped
  <1>0. UNCHANGED <<conf, stored, applied>>
    BY DEF AimEvent
  <1>1. CASE st' = [st EXCEPT ![e].pressed = TRUE, ![e].down = TRUE]
    <2> DEFINE s == [st[e] EXCEPT !.pressed = TRUE, !.down = TRUE]
    <2>1. s \in Fields
      BY DEF Fields
    <2>2. st' = [st EXCEPT ![e] = s]
      BY <1>1
    <2> HIDE DEF s
    <2> QED
      BY <1>0, <2>1, <2>2, OwnTyped
  <1>2. CASE st' = [st EXCEPT ![e] = Released(e)]
    BY <1>0, <1>2, ReleasedTyped, OwnTyped
  <1>3. CASE UNCHANGED st
    BY <1>0, <1>3 DEF EventTyped, TypeInv, FieldsTyped, StoredTyped
  <1> QED
    BY <1>1, <1>2, <1>3 DEF AimEvent

LEMMA StickTyped ==
    ASSUME TypeInv, NEW e \in elements, NEW action, StickEvent(e, action)
    PROVE  EventTyped
  <1> e \in Ids /\ FieldsTyped /\ st[e] \in Fields
    BY WorldIds DEF TypeInv, FieldsTyped
  <1>0. UNCHANGED <<conf, stored, applied>>
    BY DEF StickEvent
  <1>1. {} \in Tilts
    BY DEF Tilts
  <1>2. \E p \in BOOLEAN, tilt \in Tilts : st' = [st EXCEPT ![e] = [st[e] EXCEPT !.pressed = p, !.tilt = tilt]]
    <2> DEFINE p == IF action = "down" THEN TRUE ELSE action \notin {"up", "cancel"} /\ st[e].pressed
    <2>1. p \in BOOLEAN
      BY DEF Fields
    <2>2. PICK tilt \in (IF p THEN Tilts ELSE {{}}) :
             st' = [st EXCEPT ![e] = [st[e] EXCEPT !.pressed = p, !.tilt = tilt]]
      BY DEF StickEvent
    <2>3. tilt \in Tilts
      BY <1>1, <2>2
    <2> QED
      BY <2>1, <2>2, <2>3
  <1>3. PICK p \in BOOLEAN, tilt \in Tilts : st' = [st EXCEPT ![e] = [st[e] EXCEPT !.pressed = p, !.tilt = tilt]]
    BY <1>2
  <1>4. [st[e] EXCEPT !.pressed = p, !.tilt = tilt] \in Fields
    BY DEF Fields
  <1> QED
    BY <1>0, <1>3, <1>4, OwnTyped

LEMMA ElementTyped ==
    ASSUME TypeInv, NEW e \in elements, NEW action, ElementEvent(e, action)
    PROVE  EventTyped
  BY DigitalTyped, RadialTyped, AimTyped, StickTyped DEF ElementEvent
-----------------------------------------------------------------------------
(* The list of profiles *)

LEMMA AppendList ==
    ASSUME NEW T, NEW s \in Seq(T), IsInjective(s), NEW p \in T, p \notin Range(s)
    PROVE  /\ Append(s, p) \in Seq(T) /\ IsInjective(Append(s, p))
           /\ Range(Append(s, p)) = Range(s) \cup {p}
  <1> DEFINE r == Append(s, p)
             n == Len(s)
  <1>1. n \in Nat /\ DOMAIN s = 1 .. n
    OBVIOUS
  <1>2. r \in Seq(T) /\ DOMAIN r = 1 .. n + 1 /\ r[n + 1] = p /\ \A i \in 1 .. n : r[i] = s[i]
    OBVIOUS
  <1>3. \A i \in 1 .. n : s[i] # p
    BY <1>1 DEF Range
  <1> HIDE DEF r, n
  <1>4. \A i \in 1 .. n + 1 : i = n + 1 \/ i \in 1 .. n
    BY <1>1
  <1>5. IsInjective(r)
    <2> SUFFICES ASSUME NEW i \in 1 .. n + 1, NEW j \in 1 .. n + 1, r[i] = r[j] PROVE i = j
      BY <1>2 DEF IsInjective
    <2>1. CASE i \in 1 .. n /\ j \in 1 .. n
      BY <1>1, <1>2, <2>1 DEF IsInjective
    <2>2. CASE i = n + 1 \/ j = n + 1
      BY <1>2, <1>3, <1>4, <2>2
    <2> QED
      BY <1>4, <2>1, <2>2
  <1>6. Range(r) = Range(s) \cup {p}
    <2>1. \A i \in 1 .. n + 1 : r[i] \in Range(s) \cup {p}
      BY <1>1, <1>2, <1>4 DEF Range
    <2>2. \A x \in Range(s) : \E i \in 1 .. n + 1 : r[i] = x
      <3>1. \A i \in 1 .. n : i \in 1 .. n + 1
        BY <1>1
      <3> QED
        BY <1>1, <1>2, <3>1 DEF Range
    <2>3. n + 1 \in 1 .. n + 1
      BY <1>1
    <2>4. Range(r) = {r[i] : i \in 1 .. n + 1}
      BY <1>2 DEF Range
    <2>5. p \in Range(r)
      BY <1>2, <2>3, <2>4
    <2> QED
      BY <2>1, <2>2, <2>4, <2>5
  <1> QED
    BY <1>2, <1>5, <1>6 DEF r

\* What is left after one place is taken off.
LEMMA RemoveAtPlaces ==
    ASSUME NEW T, NEW s \in Seq(T), NEW i \in 1 .. Len(s)
    PROVE  /\ RemoveAt(s, i) \in Seq(T) /\ Len(RemoveAt(s, i)) = Len(s) - 1
           /\ \A j \in 1 .. Len(s) - 1 : RemoveAt(s, i)[j] = IF j < i THEN s[j] ELSE s[j + 1]
  <1> DEFINE a == SubSeq(s, 1, i - 1)
             b == SubSeq(s, i + 1, Len(s))
  <1>1. Len(s) \in Nat /\ i \in Nat /\ 1 <= i /\ i <= Len(s)
    OBVIOUS
  <1>2. a \in Seq(T) /\ Len(a) = i - 1 /\ \A j \in 1 .. i - 1 : a[j] = s[j]
    <2>1. \A j \in 1 .. i - 1 : j \in 1 .. Len(s)
      BY <1>1
    <2> QED
      BY <1>1, <2>1
  <1>3. b \in Seq(T) /\ Len(b) = Len(s) - i /\ \A j \in 1 .. Len(s) - i : b[j] = s[i + j]
    <2>1. \A j \in i + 1 .. Len(s) : j \in 1 .. Len(s)
      BY <1>1
    <2> QED
      BY <1>1, <2>1
  <1>4. RemoveAt(s, i) = a \o b
    BY DEF RemoveAt
  <1> HIDE DEF a, b
  <1>5. a \o b \in Seq(T) /\ Len(a \o b) = Len(s) - 1
    <2>1. ASSUME NEW u \in Seq(T), NEW v \in Seq(T)
          PROVE  u \o v \in Seq(T) /\ Len(u \o v) = Len(u) + Len(v)
      OBVIOUS
    <2>2. Len(a) + Len(b) = Len(s) - 1
      BY <1>1, <1>2, <1>3
    <2> QED
      BY <1>2, <1>3, <2>1, <2>2
  <1>6. ASSUME NEW j \in 1 .. Len(s) - 1
        PROVE  (a \o b)[j] = IF j < i THEN s[j] ELSE s[j + 1]
    <2>1. CASE j < i
      BY <1>1, <1>2, <1>3, <2>1
    <2>2. CASE ~(j < i)
      <3>1. j - (i - 1) \in 1 .. Len(s) - i /\ i + (j - (i - 1)) = j + 1
        BY <1>1, <2>2
      <3>2. (a \o b)[j] = b[j - (i - 1)]
        BY <1>1, <1>2, <1>3, <2>2
      <3> QED
        BY <1>3, <2>2, <3>1, <3>2
    <2> QED
      BY <2>1, <2>2
  <1> QED
    BY <1>4, <1>5, <1>6

\* Removing the place of a profile removes that profile and keeps the others;
\* the first one that is left is one of them.
LEMMA RemoveList ==
    ASSUME NEW T, NEW s \in Seq(T), IsInjective(s), NEW p \in 1 .. Len(s)
    PROVE  /\ RemoveAt(s, p) \in Seq(T) /\ IsInjective(RemoveAt(s, p))
           /\ Range(RemoveAt(s, p)) = Range(s) \ {s[p]}
           /\ Len(s) > 1 => Head(RemoveAt(s, p)) \in Range(s) \ {s[p]}
  <1> DEFINE r == RemoveAt(s, p)
             n == Len(s)
  <1>1. n \in Nat /\ DOMAIN s = 1 .. n /\ p \in 1 .. n
    OBVIOUS
  <1>2. /\ r \in Seq(T) /\ Len(r) = n - 1
        /\ \A j \in 1 .. n - 1 : r[j] = IF j < p THEN s[j] ELSE s[j + 1]
    BY <1>1, RemoveAtPlaces
  <1>3. DOMAIN r = 1 .. n - 1
    BY <1>2
  <1>4. \A i, j \in 1 .. n : s[i] = s[j] => i = j
    BY <1>1 DEF IsInjective
  <1>5. n > 1 => Head(r) = r[1] /\ 1 \in 1 .. n - 1
    BY <1>1, <1>2
  <1> HIDE DEF r, n
  <1>6. \A k \in 1 .. n - 1 : (k < p => k \in 1 .. n /\ k # p) /\ (~(k < p) => k + 1 \in 1 .. n /\ k + 1 # p)
    BY <1>1
  <1>7. IsInjective(r)
    <2> SUFFICES ASSUME NEW i \in 1 .. n - 1, NEW j \in 1 .. n - 1, r[i] = r[j]
                 PROVE  i = j
      BY <1>3 DEF IsInjective
    <2> DEFINE at(k) == IF k < p THEN k ELSE k + 1
    <2>1. at(i) \in 1 .. n /\ at(j) \in 1 .. n
      BY <1>6
    <2>2. r[i] = s[at(i)] /\ r[j] = s[at(j)]
      BY <1>2
    <2>3. at(i) = at(j)
      BY <1>4, <2>1, <2>2
    <2> QED
      BY <1>1, <2>3
  <1>8. \A j \in 1 .. n - 1 : r[j] \in Range(s) \ {s[p]}
    <2> SUFFICES ASSUME NEW j \in 1 .. n - 1 PROVE r[j] \in Range(s) \ {s[p]}
      OBVIOUS
    <2> DEFINE at == IF j < p THEN j ELSE j + 1
    <2>1. at \in 1 .. n /\ at # p /\ r[j] = s[at]
      BY <1>2, <1>6
    <2> HIDE DEF at
    <2>2. s[at] # s[p]
      BY <1>1, <1>4, <2>1
    <2> QED
      BY <1>1, <2>1, <2>2 DEF Range
  <1>9. \A x \in Range(s) \ {s[p]} : \E j \in 1 .. n - 1 : r[j] = x
    <2> SUFFICES ASSUME NEW x \in Range(s) \ {s[p]} PROVE \E j \in 1 .. n - 1 : r[j] = x
      OBVIOUS
    <2>1. PICK i \in 1 .. n : s[i] = x
      BY <1>1 DEF Range
    <2>2. i # p
      BY <2>1
    <2>3. CASE i < p
      BY <1>1, <1>2, <2>1, <2>3
    <2>4. CASE i > p
      <3>1. i - 1 \in 1 .. n - 1 /\ ~(i - 1 < p) /\ (i - 1) + 1 = i
        BY <1>1, <2>4
      <3> QED
        BY <1>2, <2>1, <3>1
    <2> QED
      BY <1>1, <2>2, <2>3, <2>4
  <1>10. Range(r) = Range(s) \ {s[p]}
    BY <1>3, <1>8, <1>9 DEF Range
  <1> QED
    BY <1>2, <1>5, <1>7, <1>8, <1>10 DEF r, n
-----------------------------------------------------------------------------
(* The types hold *)

DialogsTyped == dialogs \subseteq Ids \X BOOLEAN /\ \A e \in Ids : <<e, TRUE>> \in dialogs => e \in elements

LEMMA OnTouchTyped ==
    ASSUME TypeInv, NEW e \in elements, NEW action, OnTouchEvent(e, action), UNCHANGED elements
    PROVE  EventTyped /\ DialogsTyped'
  <1> e \in Ids
    BY WorldIds DEF TypeInv
  <1>1. CASE mode = "Active" /\ ElementEvent(e, action) /\ UNCHANGED dialogs
    BY <1>1, ElementTyped DEF TypeInv, FingersTyped, DialogsTyped
  <1>2. CASE /\ dialogs' = IF action = "up" THEN dialogs \cup {<<e, TRUE>>} ELSE dialogs
             /\ UNCHANGED <<conf, st, keys, pulses, applied, stored>>
    <2>1. EventTyped
      BY <1>2 DEF EventTyped, TypeInv, FieldsTyped, StoredTyped
    <2>2. DialogsTyped'
      <3>1. dialogs' \subseteq dialogs \cup {<<e, TRUE>>}
        BY <1>2
      <3>2. \A x : <<x, TRUE>> = <<e, TRUE>> => x = e
        OBVIOUS
      <3>3. dialogs' \subseteq Ids \X BOOLEAN
        <4>1. dialogs \subseteq Ids \X BOOLEAN
          BY DEF TypeInv, FingersTyped
        <4>2. <<e, TRUE>> \in Ids \X BOOLEAN
          OBVIOUS
        <4> QED
          BY <3>1, <4>1, <4>2
      <3>4. ASSUME NEW x \in Ids, <<x, TRUE>> \in dialogs' PROVE x \in elements
        <4>1. <<x, TRUE>> \in dialogs \/ <<x, TRUE>> = <<e, TRUE>>
          BY <3>1, <3>4
        <4>2. <<x, TRUE>> \in dialogs => x \in elements
          BY DEF TypeInv, FingersTyped
        <4> QED
          BY <3>2, <4>1, <4>2
      <3> QED
        BY <3>3, <3>4 DEF DialogsTyped
    <2> QED
      BY <2>1, <2>2
  <1>3. ASSUME NEW place \in (IF action = "move" /\ world.moves THEN {0, 1} ELSE {conf[e].place}),
               conf' = [conf EXCEPT ![e].place = place],
               UNCHANGED <<st, keys, pulses, applied, stored, dialogs>>
        PROVE  EventTyped /\ DialogsTyped'
    <2>1. conf[e] \in Confs
      BY DEF TypeInv, FieldsTyped
    <2>2. place \in {0, 1}
      BY <2>1 DEF Confs
    <2>3. [conf[e] EXCEPT !.place = place] \in Confs
      BY <2>1, <2>2 DEF Confs
    <2>4. conf' \in [Ids -> Confs]
      BY <1>3, <2>3 DEF TypeInv, FieldsTyped
    <2> QED
      BY <1>3, <2>4 DEF EventTyped, TypeInv, FieldsTyped, StoredTyped, FingersTyped, DialogsTyped
  <1> QED
    BY <1>1, <1>2, <1>3 DEF OnTouchEvent

\* What the four touch events leave: the world, the mode and the profiles.
LEMMA TouchedNext ==
    ASSUME TypeInv, touchFrame, EventTyped, DialogsTyped',
           touches' \in [Ids -> Nat], \A e \in Ids : touches'[e] > 0 => e \in elements
    PROVE  TypeInv'
  <1>1. WorldTyped' /\ ListTyped'
    BY DEF TypeInv, WorldTyped, ListTyped, touchFrame
  <1>2. FieldsTyped'
    BY DEF EventTyped
  <1>3. FingersTyped'
    BY DEF DialogsTyped, FingersTyped, touchFrame
  <1>4. StoredTyped'
    BY DEF EventTyped, StoredTyped, Layouts, touchFrame
  <1> QED
    BY <1>1, <1>2, <1>3, <1>4 DEF TypeInv

LEMMA TouchType ==
    ASSUME TypeInv, NEW e \in Ids, Touch(e) \/ Slide(e) \/ Lift(e) \/ Cancel(e)
    PROVE  TypeInv'
  <1>1. touchFrame /\ UNCHANGED elements
    BY DEF Touch, Slide, Lift, Cancel, touchFrame
  <1>2. e \in elements
    BY DEF TypeInv, FingersTyped, Touch, Slide, Lift, Cancel
  <1>3. EventTyped /\ DialogsTyped'
    <2>1. CASE \E action \in {"down", "move", "up", "pointerUp", "cancel"} : OnTouchEvent(e, action)
      BY <1>1, <1>2, <2>1, OnTouchTyped
    <2>2. CASE UNCHANGED <<conf, st, dialogs, applied, stored>>
      BY <1>1, <2>2 DEF EventTyped, TypeInv, FieldsTyped, StoredTyped, FingersTyped, DialogsTyped
    <2> QED
      BY <2>1, <2>2 DEF Touch, Slide, Lift, Cancel
  <1>4. touches' \in [Ids -> Nat] /\ \A o \in Ids : touches'[o] > 0 => o \in elements
    <2>1. touches \in [Ids -> Nat] /\ \A o \in Ids : touches[o] > 0 => o \in elements
      BY DEF TypeInv, FingersTyped
    <2>2. CASE touches' = [touches EXCEPT ![e] = @ + 1]
      BY <1>2, <2>1, <2>2
    <2>3. CASE touches[e] > 0 /\ touches' = [touches EXCEPT ![e] = @ - 1]
      BY <1>2, <2>1, <2>3
    <2>4. CASE touches' = [touches EXCEPT ![e] = 0]
      BY <1>2, <2>1, <2>4
    <2>5. CASE UNCHANGED touches
      BY <2>1, <2>5
    <2> QED
      BY <2>2, <2>3, <2>4, <2>5 DEF Touch, Slide, Lift, Cancel
  <1> QED
    BY <1>1, <1>3, <1>4, TouchedNext

\* A layout that is built anew has configurations, no finger and no dialog.
LEMMA RefreshTyped ==
    ASSUME TypeInv, NEW layout \in Layouts, Refresh(layout), UNCHANGED world
    PROVE  /\ elements' = DOMAIN layout /\ elements' \subseteq world.ids
           /\ FieldsTyped' /\ FingersTyped' /\ applied' \in BOOLEAN
           /\ \A e \in elements' : conf'[e] = layout[e]
  <1>1. DOMAIN layout \subseteq world.ids /\ layout \in [DOMAIN layout -> Confs] /\ world.ids \subseteq Ids
    BY LayoutParts, WorldIds DEF TypeInv
  <1>2. elements' = DOMAIN layout
    BY DEF Refresh
  <1>3. conf' = [e \in Ids |-> IF e \in DOMAIN layout THEN layout[e] ELSE Default(e)]
    BY DEF Refresh
  <1>4. conf' \in [Ids -> Confs] /\ \A e \in DOMAIN layout : conf'[e] = layout[e]
    BY <1>1, <1>3, DefaultTyped
  <1>5. st' \in [Ids -> Fields]
    BY FreshTyped DEF Refresh
  <1>6. touches' = [e \in Ids |-> 0]
    BY DEF Refresh
  <1>7. dialogs' \subseteq Ids \X BOOLEAN /\ \A e \in Ids : <<e, TRUE>> \notin dialogs'
    <2>1. dialogs' = {<<d[1], FALSE>> : d \in dialogs}
      BY DEF Refresh
    <2>2. \A d \in dialogs : <<d[1], FALSE>> \in Ids \X BOOLEAN
      BY DEF TypeInv, FingersTyped
    <2>3. \A e, x : <<x, FALSE>> # <<e, TRUE>>
      OBVIOUS
    <2> QED
      BY <2>1, <2>2, <2>3
  <1>8. FingersTyped'
    <2>1. touches' \in [Ids -> Nat] /\ \A e \in Ids : ~(touches'[e] > 0)
      BY <1>6
    <2> QED
      BY <1>7, <2>1 DEF FingersTyped
  <1>9. applied' \in BOOLEAN
    <2>1. CASE Blanks(DOMAIN layout) = {}
      BY <2>1 DEF Refresh, TypeInv, StoredTyped
    <2>2. CASE Blanks(DOMAIN layout) # {}
      <3>1. applied' = \E e \in Blanks(DOMAIN layout) : layout[e].shooting
        BY <2>2 DEF Refresh
      <3> QED
        BY <3>1
    <2> QED
      BY <2>1, <2>2
  <1> QED
    BY <1>1, <1>2, <1>4, <1>5, <1>8, <1>9 DEF FieldsTyped

LEMMA LayoutNow == TypeInv => Layout \in Layouts /\ DOMAIN Layout = elements
  <1> SUFFICES ASSUME TypeInv PROVE Layout \in Layouts /\ DOMAIN Layout = elements
    OBVIOUS
  <1>1. elements \in SUBSET world.ids /\ elements \subseteq Ids
    BY WorldIds DEF TypeInv, WorldTyped
  <1>2. Layout \in [elements -> Confs]
    BY <1>1 DEF Layout, TypeInv, FieldsTyped
  <1> QED
    BY <1>1, <1>2, LayoutTyped DEF Layout

\* Whatever rebuilds the layout keeps the types, if it keeps those of the
\* profiles.
LEMMA RefreshType ==
    ASSUME TypeInv, NEW layout \in Layouts, Refresh(layout), UNCHANGED world,
           mode' \in {"Active", "Move", "Resize", "Bind"}, screen' \in {"shown", "pip", "stopped"},
           ListTyped', stored' \in [Profiles -> Layouts]
    PROVE  TypeInv'
  <1>1. WorldTyped' /\ FieldsTyped' /\ FingersTyped' /\ applied' \in BOOLEAN
    BY RefreshTyped DEF WorldTyped, TypeInv
  <1>2. StoredTyped'
    BY <1>1 DEF StoredTyped, Layouts
  <1> QED
    BY <1>1, <1>2 DEF TypeInv
LEMMA SaveType ==
    ASSUME TypeInv, NEW e \in Ids, NEW inLayout \in BOOLEAN, SaveBinding(e, inLayout)
    PROVE  TypeInv'
  <1>0. world' = world /\ elements' = elements /\ elements \subseteq Ids /\ elements \subseteq world.ids
    BY WorldIds DEF SaveBinding, TypeInv, WorldTyped
  <1>1. WorldTyped' /\ ListTyped'
    BY DEF SaveBinding, TypeInv, WorldTyped, ListTyped
  <1>2. FingersTyped'
    BY DEF SaveBinding, TypeInv, FingersTyped
  <1>3. FieldsTyped' /\ applied' \in BOOLEAN
    <2>1. CASE inLayout
      <3>1. conf[e] \in Confs /\ st[e] \in Fields
        BY DEF TypeInv, FieldsTyped
      <3>2. Unclicked(st[e]) \in Fields /\ Released(e) \in Fields
        BY <3>1, ClickedTyped, ReleasedTyped DEF TypeInv
      <3>3. \A s \in Fields : [s EXCEPT !.next = 2] \in Fields
        BY DEF Fields
      <3>4. st' \in [Ids -> Fields]
        <4> DEFINE s == CASE KindOf[e] = "blank" -> Unclicked(st[e])
                          [] KindOf[e] = "display" -> [Released(e) EXCEPT !.next = 2]
                          [] OTHER -> Released(e)
        <4>1. st' = [st EXCEPT ![e] = s]
          BY <2>1 DEF SaveBinding
        <4>2. s \in Fields
          BY <3>2, <3>3
        <4> HIDE DEF s
        <4> QED
          BY <4>1, <4>2 DEF TypeInv, FieldsTyped
      <3>5. conf' \in [Ids -> Confs]
        <4>1. PICK c \in Savable[KindOf[e]] :
                 conf' = [conf EXCEPT ![e] = [c EXCEPT !.shooting = conf[e].shooting, !.place = conf[e].place]]
          BY <2>1 DEF SaveBinding
        <4>2. KindOf[e] \in Kinds /\ Savable[KindOf[e]] \subseteq Confs
          BY VirtualControllerAssumption
        <4>3. \A k \in Confs : [k EXCEPT !.shooting = conf[e].shooting, !.place = conf[e].place] \in Confs
          BY <3>1 DEF Confs
        <4> QED
          BY <4>1, <4>2, <4>3 DEF TypeInv, FieldsTyped
      <3>6. applied' \in BOOLEAN
        <4>1. conf[e].shooting \in BOOLEAN /\ applied \in BOOLEAN
          BY <3>1 DEF Confs, TypeInv, StoredTyped
        <4> QED
          BY <2>1, <4>1 DEF SaveBinding
      <3> QED
        BY <3>4, <3>5, <3>6 DEF FieldsTyped
    <2>2. CASE ~inLayout
      BY <2>2 DEF SaveBinding, TypeInv, FieldsTyped, StoredTyped
    <2> QED
      BY <2>1, <2>2
  <1>4. stored' \in [Profiles -> Layouts]
    <2>1. [x \in elements |-> conf'[x]] \in Layouts
      <3>1. [x \in elements |-> conf'[x]] \in [elements -> Confs]
        BY <1>0, <1>3 DEF FieldsTyped
      <3> QED
        BY <1>0, <3>1, LayoutTyped
    <2>2. stored' = [stored EXCEPT ![current] = [x \in elements |-> conf'[x]]]
      BY DEF SaveBinding
    <2> HIDE DEF SaveBinding
    <2> QED
      BY <2>1, <2>2 DEF TypeInv, StoredTyped
  <1> QED
    BY <1>0, <1>1, <1>2, <1>3, <1>4 DEF TypeInv, StoredTyped, Layouts

LEMMA RemoveType ==
    ASSUME TypeInv, NEW e \in Ids, NEW inLayout \in BOOLEAN, RemoveElement(e, inLayout)
    PROVE  TypeInv'
  <1>0. world' = world /\ elements \subseteq Ids /\ elements \subseteq world.ids
    BY WorldIds DEF RemoveElement, TypeInv, WorldTyped
  <1>1. ListTyped' /\ elements' \subseteq elements
    BY DEF RemoveElement, TypeInv, ListTyped
  <1>2. WorldTyped'
    BY <1>0, <1>1 DEF RemoveElement, TypeInv, WorldTyped
  <1>3. FieldsTyped'
    <2>1. CASE inLayout
      <3> DEFINE left(o) == IF o = e THEN Fresh
                            ELSE IF st[o].mover = e THEN [st[o] EXCEPT !.mover = Gone] ELSE st[o]
      <3>1. st' = [o \in Ids |-> left(o)]
        BY <2>1 DEF RemoveElement
      <3>2. ASSUME NEW s \in Fields PROVE [s EXCEPT !.mover = Gone] \in Fields
        BY DEF Fields
      <3>3. \A o \in Ids : left(o) \in Fields
        BY <3>2, FreshTyped DEF TypeInv, FieldsTyped
      <3> HIDE DEF left
      <3>4. st' \in [Ids -> Fields]
        BY <3>1, <3>3
      <3>5. conf' \in [Ids -> Confs]
        BY <2>1, DefaultTyped DEF RemoveElement, TypeInv, FieldsTyped
      <3> QED
        BY <3>4, <3>5 DEF FieldsTyped
    <2>2. CASE ~inLayout
      BY <2>2 DEF RemoveElement, TypeInv, FieldsTyped
    <2> QED
      BY <2>1, <2>2
  <1>4. FingersTyped'
    <2>1. dialogs' \subseteq Ids \X BOOLEAN /\ \A x \in Ids : <<x, TRUE>> \in dialogs' => x \in elements'
      <3>1. dialogs' = dialogs \ {<<e, inLayout>>}
        BY DEF RemoveElement
      <3>2. elements' = IF inLayout THEN elements \ {e} ELSE elements
        BY DEF RemoveElement
      <3>3. dialogs \subseteq Ids \X BOOLEAN /\ \A x \in Ids : <<x, TRUE>> \in dialogs => x \in elements
        BY DEF TypeInv, FingersTyped
      <3>4. CASE inLayout
        <4>1. inLayout = TRUE
          BY <3>4
        <4>2. \A x \in Ids : <<x, TRUE>> \in dialogs' => x # e
          BY <3>1, <4>1
        <4> QED
          BY <3>1, <3>2, <3>3, <4>2
      <3>5. CASE ~inLayout
        BY <3>1, <3>2, <3>3, <3>5
      <3> QED
        BY <3>4, <3>5
    <2>2. touches' \in [Ids -> Nat] /\ \A x \in Ids : touches'[x] > 0 => x \in elements'
      BY DEF RemoveElement, TypeInv, FingersTyped
    <2> QED
      BY <2>1, <2>2 DEF FingersTyped
  <1>5. stored' \in [Profiles -> Layouts] /\ applied' \in BOOLEAN
    <2>1. elements' \in SUBSET world.ids /\ elements' \subseteq Ids
      BY <1>0, <1>1
    <2>2. [x \in elements' |-> conf[x]] \in [elements' -> Confs]
      BY <2>1 DEF TypeInv, FieldsTyped
    <2>3. [x \in elements' |-> conf[x]] \in Layouts
      BY <2>1, <2>2, LayoutTyped
    <2> QED
      BY <2>3 DEF RemoveElement, TypeInv, StoredTyped
  <1> QED
    BY <1>0, <1>1, <1>2, <1>3, <1>4, <1>5 DEF TypeInv, StoredTyped, Layouts

LEMMA AddType ==
    ASSUME TypeInv, NEW e \in Ids, Add(e)
    PROVE  TypeInv'
  <1>0. world' = world /\ elements' = elements \cup {e} /\ elements' \subseteq Ids /\ elements' \subseteq world.ids
    BY WorldIds DEF Add, TypeInv, WorldTyped
  <1>1. ListTyped' /\ WorldTyped' /\ FieldsTyped'
    BY <1>0 DEF Add, TypeInv, ListTyped, WorldTyped, FieldsTyped
  <1>2. FingersTyped'
    <2>1. dialogs' = {<<e, TRUE>>}
      BY DEF Add
    <2>2. <<e, TRUE>> \in Ids \X BOOLEAN
      OBVIOUS
    <2>3. dialogs' \subseteq Ids \X BOOLEAN
      BY <2>1, <2>2
    <2>4. ASSUME NEW x \in Ids, <<x, TRUE>> \in dialogs' PROVE x \in elements'
      <3>1. <<x, TRUE>> = <<e, TRUE>>
        BY <2>1, <2>4
      <3>2. x = e
        BY <3>1
      <3> QED
        BY <1>0, <3>2
    <2>5. touches' \in [Ids -> Nat] /\ \A x \in Ids : touches'[x] > 0 => x \in elements'
      BY <1>0 DEF Add, inputVars, TypeInv, FingersTyped
    <2> QED
      BY <2>3, <2>4, <2>5 DEF FingersTyped
  <1>3. applied' \in BOOLEAN
    <2>1. conf[e] \in Confs
      BY DEF TypeInv, FieldsTyped
    <2>2. conf[e].shooting \in BOOLEAN /\ applied \in BOOLEAN
      BY <2>1 DEF Confs, TypeInv, StoredTyped
    <2> QED
      BY <2>2 DEF Add
  <1>4. stored' \in [Profiles -> Layouts]
    <2>1. [x \in elements' |-> conf[x]] \in [elements' -> Confs]
      BY <1>0 DEF TypeInv, FieldsTyped
    <2>2. [x \in elements' |-> conf[x]] \in Layouts
      BY <1>0, <2>1, LayoutTyped
    <2> QED
      BY <2>2 DEF Add, TypeInv, StoredTyped
  <1> QED
    BY <1>0, <1>1, <1>2, <1>3, <1>4 DEF TypeInv, StoredTyped, Layouts
LEMMA SwitchType ==
    ASSUME TypeInv, NEW p \in Profiles, SwitchProfile(p) \/ CreateProfile(p)
    PROVE  TypeInv'
  <1>1. Layout \in Layouts /\ stored \in [Profiles -> Layouts] /\ current \in Profiles
    BY LayoutNow, CurrentProfile DEF TypeInv, StoredTyped
  <1>2. CASE SwitchProfile(p)
    <2>1. p \in Range(profiles) /\ stored[p] \in Layouts /\ Refresh(stored[p])
      BY <1>1, <1>2 DEF SwitchProfile
    <2>2. ListTyped'
      BY <1>2, <2>1 DEF SwitchProfile, TypeInv, ListTyped
    <2>3. stored' \in [Profiles -> Layouts]
      BY <1>1, <1>2 DEF SwitchProfile
    <2>4. UNCHANGED <<world, screen>> /\ mode' = "Active" /\ screen \in {"shown", "pip", "stopped"}
      BY <1>2 DEF SwitchProfile, TypeInv, WorldTyped
    <2> QED
      BY <2>1, <2>2, <2>3, <2>4, RefreshType
  <1>3. CASE CreateProfile(p)
    <2>1. p \notin Range(profiles) /\ Refresh(Layout)
      BY <1>3 DEF CreateProfile
    <2>2. ListTyped'
      <3>1. profiles' = Append(profiles, p) /\ current' = p
        BY <1>3 DEF CreateProfile
      <3>2. profiles \in Seq(Profiles) /\ IsInjective(profiles)
        BY DEF TypeInv, ListTyped
      <3>3. /\ Append(profiles, p) \in Seq(Profiles) /\ IsInjective(Append(profiles, p))
            /\ Range(Append(profiles, p)) = Range(profiles) \cup {p}
        BY <2>1, <3>2, AppendList
      <3> QED
        BY <3>1, <3>3 DEF ListTyped
    <2>3. stored' \in [Profiles -> Layouts]
      BY <1>1, <1>3 DEF CreateProfile
    <2>4. UNCHANGED <<world, screen>> /\ mode' = "Active" /\ screen \in {"shown", "pip", "stopped"}
      BY <1>3 DEF CreateProfile, TypeInv, WorldTyped
    <2> QED
      BY <1>1, <2>1, <2>2, <2>3, <2>4, RefreshType
  <1> QED
    BY <1>2, <1>3

\* The profile that is current after one was deleted is another one of the list.
LEMMA DeletedList ==
    ASSUME ListTyped, DeleteProfile
    PROVE  /\ ListTyped' /\ Range(profiles') = Range(profiles) \ {current}
           /\ current' = Head(profiles') /\ current' \in Range(profiles')
  <1>1. profiles \in Seq(Profiles) /\ IsInjective(profiles) /\ Len(profiles) > 1
    BY DEF ListTyped, DeleteProfile
  <1>2. PICK i \in DOMAIN profiles : profiles[i] = current /\ profiles' = RemoveAt(profiles, i)
    BY DEF DeleteProfile
  <1>3. i \in 1 .. Len(profiles)
    BY <1>1, <1>2
  <1>4. /\ profiles' \in Seq(Profiles) /\ IsInjective(profiles')
        /\ Range(profiles') = Range(profiles) \ {current}
        /\ Head(profiles') \in Range(profiles) \ {current}
    BY <1>1, <1>2, <1>3, RemoveList
  <1>5. current' = Head(profiles')
    BY DEF DeleteProfile
  <1> QED
    BY <1>4, <1>5 DEF ListTyped

LEMMA DeleteType ==
    ASSUME TypeInv, DeleteProfile
    PROVE  TypeInv'
  <1>1. stored \in [Profiles -> Layouts] /\ current \in Profiles
    BY CurrentProfile DEF TypeInv, StoredTyped
  <1>2. ListTyped' /\ current' \in Profiles /\ current' = Head(profiles')
    BY DeletedList, CurrentProfile DEF TypeInv
  <1>3. stored[Head(profiles')] \in Layouts /\ Refresh(stored[Head(profiles')])
    BY <1>1, <1>2 DEF DeleteProfile
  <1>4. <<>> \in Layouts
    <2>1. {} \in SUBSET world.ids /\ <<>> \in [{} -> Confs]
      OBVIOUS
    <2> QED
      BY <2>1, LayoutTyped
  <1>5. stored' \in [Profiles -> Layouts]
    BY <1>1, <1>4 DEF DeleteProfile
  <1>6. UNCHANGED <<world, screen>> /\ mode' = "Active" /\ screen \in {"shown", "pip", "stopped"}
    BY DEF DeleteProfile, TypeInv, WorldTyped
  <1> QED
    BY <1>2, <1>3, <1>5, <1>6, RefreshType

LEMMA RelaunchLayout ==
    ASSUME TypeInv, Relaunch
    PROVE  /\ elements' = DOMAIN stored[current] /\ elements' \subseteq world.ids
           /\ FieldsTyped' /\ FingersTyped' /\ applied' \in BOOLEAN
           /\ \A e \in elements' : conf'[e] = stored[current][e]
  <1>1. stored[current] \in Layouts
    BY CurrentProfile DEF TypeInv, StoredTyped
  <1>2. DOMAIN stored[current] \subseteq world.ids /\ stored[current] \in [DOMAIN stored[current] -> Confs]
        /\ world.ids \subseteq Ids
    BY <1>1, LayoutParts, WorldIds DEF TypeInv
  <1>3. elements' = DOMAIN stored[current]
    BY DEF Relaunch
  <1>4. conf' = [e \in Ids |-> IF e \in elements' THEN stored[current][e] ELSE Default(e)]
    BY DEF Relaunch
  <1>5. conf' \in [Ids -> Confs] /\ \A e \in elements' : conf'[e] = stored[current][e]
    BY <1>2, <1>3, <1>4, DefaultTyped
  <1>6. st' \in [Ids -> Fields]
    BY FreshTyped DEF Relaunch
  <1>7. FingersTyped'
    <2>1. touches' \in [Ids -> Nat] /\ \A e \in Ids : ~(touches'[e] > 0)
      BY DEF Relaunch
    <2>2. dialogs' = {}
      BY DEF Relaunch
    <2> QED
      BY <2>1, <2>2 DEF FingersTyped
  <1>8. applied' \in BOOLEAN
    <2>1. CASE Blanks(elements') = {}
      BY <2>1 DEF Relaunch, TypeInv, StoredTyped
    <2>2. CASE Blanks(elements') # {}
      <3>1. applied' = \E e \in Blanks(elements') : conf'[e].shooting
        BY <2>2 DEF Relaunch
      <3> QED
        BY <3>1
    <2> QED
      BY <2>1, <2>2
  <1> QED
    BY <1>2, <1>3, <1>5, <1>6, <1>7, <1>8 DEF FieldsTyped

LEMMA RestType ==
    ASSUME TypeInv, \/ \E d \in dialogs : DismissDialog(d)
                    \/ PulseEnds \/ Configure \/ ConfigurationChanged \/ Stop \/ Relaunch
    PROVE  TypeInv'
  <1>1. Layout \in Layouts /\ stored \in [Profiles -> Layouts] /\ current \in Profiles
    BY LayoutNow, CurrentProfile DEF TypeInv, StoredTyped
  <1>2. ASSUME NEW d \in dialogs, DismissDialog(d) PROVE TypeInv'
    <2>1. FingersTyped'
      BY <1>2 DEF DismissDialog, elementVars, inputVars, TypeInv, FingersTyped
    <2> QED
      BY <1>2, <2>1 DEF DismissDialog, elementVars, profileVars, TypeInv, WorldTyped, FieldsTyped, ListTyped, StoredTyped, Layouts
  <1>3. CASE PulseEnds
    BY <1>3 DEF PulseEnds, elementVars, profileVars, TypeInv, WorldTyped, FieldsTyped, FingersTyped, ListTyped, StoredTyped,
                Layouts
  <1>4. CASE Configure
    <2>1. mode' \in {"Active", "Move", "Resize", "Bind"}
      BY <1>4 DEF Configure, NextMode, TypeInv, WorldTyped
    <2>2. stored' \in [Profiles -> Layouts]
      BY <1>1, <1>4 DEF Configure
    <2> QED
      BY <1>4, <2>1, <2>2 DEF Configure, elementVars, inputVars, TypeInv, WorldTyped, FieldsTyped, FingersTyped, ListTyped,
                              StoredTyped, Layouts
  <1>5. CASE ConfigurationChanged
    <2>1. stored[current] \in Layouts /\ Refresh(stored[current])
      BY <1>1, <1>5 DEF ConfigurationChanged
    <2>2. ListTyped' /\ stored' \in [Profiles -> Layouts]
      BY <1>1, <1>5 DEF ConfigurationChanged, TypeInv, ListTyped
    <2>3. world' = world /\ mode' \in {"Active", "Move", "Resize", "Bind"} /\ screen' \in {"shown", "pip", "stopped"}
      BY <1>5 DEF ConfigurationChanged, TypeInv, WorldTyped
    <2> QED
      BY <2>1, <2>2, <2>3, RefreshType
  <1>6. CASE Stop
    <2>1. FieldsTyped'
      <3>1. st' = [e \in Ids |-> IF e \in elements THEN Released(e) ELSE st[e]]
        BY <1>6 DEF Stop
      <3>2. \A e \in Ids : st[e] \in Fields /\ Released(e) \in Fields
        BY ReleasedTyped DEF TypeInv, FieldsTyped
      <3> QED
        BY <1>6, <3>1, <3>2 DEF Stop, TypeInv, FieldsTyped
    <2>2. FingersTyped'
      BY <1>6 DEF Stop, TypeInv, FingersTyped
    <2> QED
      BY <1>6, <2>1, <2>2 DEF Stop, profileVars, TypeInv, WorldTyped, ListTyped, StoredTyped, Layouts
  <1>7. CASE Relaunch
    <2>1. WorldTyped'
      BY <1>7, RelaunchLayout DEF Relaunch, TypeInv, WorldTyped
    <2>2. ListTyped' /\ stored' = stored /\ world' = world
      BY <1>7 DEF Relaunch, TypeInv, ListTyped
    <2>3. StoredTyped'
      BY <1>1, <1>7, <2>2, RelaunchLayout DEF StoredTyped, Layouts
    <2> QED
      BY <1>7, <2>1, <2>2, <2>3, RelaunchLayout DEF TypeInv
  <1> QED
    BY <1>2, <1>3, <1>4, <1>5, <1>6, <1>7

LEMMA TypeNext == TypeInv /\ [Next]_vars => TypeInv'
  <1> SUFFICES ASSUME TypeInv, [Next]_vars PROVE TypeInv'
    OBVIOUS
  <1>1. CASE UNCHANGED vars
    BY <1>1 DEF vars, elementVars, inputVars, profileVars, TypeInv, WorldTyped, FieldsTyped, FingersTyped, ListTyped,
                StoredTyped, Layouts
  <1>2. ASSUME NEW e \in Ids, Touch(e) \/ Slide(e) \/ Lift(e) \/ Cancel(e) PROVE TypeInv'
    BY <1>2, TouchType
  <1>3. ASSUME NEW e \in Ids, Add(e) PROVE TypeInv'
    BY <1>3, AddType
  <1>4. ASSUME NEW e \in Ids, NEW inLayout \in BOOLEAN, SaveBinding(e, inLayout) PROVE TypeInv'
    BY <1>4, SaveType
  <1>5. ASSUME NEW e \in Ids, NEW inLayout \in BOOLEAN, RemoveElement(e, inLayout) PROVE TypeInv'
    BY <1>5, RemoveType
  <1>6. ASSUME NEW p \in Profiles, SwitchProfile(p) \/ CreateProfile(p) PROVE TypeInv'
    BY <1>6, SwitchType
  <1>7. CASE DeleteProfile
    BY <1>7, DeleteType
  <1>8. CASE \/ \E d \in dialogs : DismissDialog(d)
             \/ PulseEnds \/ Configure \/ ConfigurationChanged \/ Stop \/ Relaunch
    BY <1>8, RestType
  <1> QED
    BY <1>1, <1>2, <1>3, <1>4, <1>5, <1>6, <1>7, <1>8 DEF Next

LEMMA TypeInit == Init => TypeInv
  <1> SUFFICES ASSUME Init PROVE TypeInv
    OBVIOUS
  <1>1. WorldTyped
    BY DEF Init, WorldTyped
  <1>2. elements = world.ids /\ world.ids \subseteq Ids /\ world.profiles \subseteq Profiles
    BY <1>1, WorldIds DEF Init
  <1>3. FieldsTyped
    BY DefaultTyped, FreshTyped DEF Init, FieldsTyped
  <1>4. FingersTyped
    BY DEF Init, FingersTyped
  <1>5. current \in Profiles /\ profiles = <<current>>
    BY <1>2 DEF Init
  <1>6. ListTyped
    <2>1. profiles \in Seq(Profiles) /\ DOMAIN profiles = {1} /\ profiles[1] = current
      BY <1>5
    <2> QED
      BY <2>1 DEF ListTyped, IsInjective, Range
  <1>7. stored \in [Profiles -> Layouts]
    <2>1. Layout \in Layouts
      <3>1. Layout \in [elements -> Confs]
        BY <1>2, <1>3 DEF Layout, FieldsTyped
      <3> QED
        BY <1>2, <3>1, LayoutTyped
    <2>2. <<>> \in Layouts
      <3>1. {} \in SUBSET world.ids /\ <<>> \in [{} -> Confs]
        OBVIOUS
      <3> QED
        BY <3>1, LayoutTyped
    <2>3. stored = [p \in Profiles |-> IF p = current THEN Layout ELSE <<>>]
      BY DEF Init
    <2> QED
      BY <2>1, <2>2, <2>3
  <1>8. applied \in BOOLEAN
    <2>1. applied = \E e \in Blanks(world.ids) : conf[e].shooting
      BY DEF Init
    <2> QED
      BY <2>1
  <1> QED
    BY <1>1, <1>3, <1>4, <1>6, <1>7, <1>8 DEF TypeInv, StoredTyped
-----------------------------------------------------------------------------
(* The preferences are what is on the screen *)

\* There is one switch of the blank area.
LEMMA OneBlank ==
    ASSUME NEW S \in SUBSET Ids, NEW e \in Blanks(S), NEW o \in Blanks(S)
    PROVE  e = o
  BY VirtualControllerAssumption DEF Blanks

LEMMA SavedAside ==
    ASSUME SavedInActive, UNCHANGED <<elements, conf, stored, current, applied>>, mode' = "Active" => mode = "Active"
    PROVE  SavedInActive'
  BY DEF SavedInActive, Layout, Blanks

\* The layout was written as it is after the step, and the switch is obeyed.
LEMMA SavedNow ==
    ASSUME TypeInv, stored' = [stored EXCEPT ![current] = [e \in elements' |-> conf'[e]]], current' = current,
           \A e \in Blanks(elements') : applied' = conf'[e].shooting
    PROVE  SavedInActive'
  <1>1. current \in Profiles /\ stored \in [Profiles -> Layouts]
    BY CurrentProfile DEF TypeInv, StoredTyped
  <1>2. stored'[current] = [e \in elements' |-> conf'[e]]
    BY <1>1
  <1> QED
    BY <1>2 DEF SavedInActive, Layout, Blanks

LEMMA ListenersSaved ==
    ASSUME TypeInv, SavedInActive, UNCHANGED <<mode, elements, current>>,
           NEW P \in SUBSET elements, NEW R, NEW s \in [Ids -> Fields], Listeners(P, R, s)
    PROVE  SavedInActive'
  <1>1. CASE Flipped(P, s) = {}
    BY <1>1, ListenersEffect, SavedAside
  <1>2. CASE Flipped(P, s) # {}
    <2>1. /\ applied' = \E e \in Flipped(P, s) : conf'[e].shooting
          /\ stored' = [stored EXCEPT ![current] = [e \in elements |-> conf'[e]]]
      BY <1>2, ListenersEffect
    <2>2. elements \in SUBSET Ids /\ Flipped(P, s) \subseteq Blanks(elements)
      BY WorldIds DEF TypeInv, Flipped, Blanks
    <2>3. ASSUME NEW e \in Blanks(elements) PROVE applied' = conf'[e].shooting
      <3>1. Flipped(P, s) = {e}
        BY <1>2, <2>2, OneBlank
      <3>2. conf'[e].shooting \in BOOLEAN
        <4>1. conf' \in [Ids -> Confs] /\ e \in Ids
          BY <2>2, ListenersTyped DEF FieldsTyped, Blanks
        <4> QED
          BY <4>1 DEF Confs
      <3> QED
        BY <2>1, <3>1, <3>2
    <2> QED
      BY <2>1, <2>3, SavedNow
  <1> QED
    BY <1>1, <1>2

LEMMA DigitalSaved ==
    ASSUME TypeInv, SavedInActive, UNCHANGED <<mode, elements, current>>,
           NEW e \in elements, NEW action, DigitalEvent(e, action)
    PROVE  SavedInActive'
  <1> e \in Ids /\ FieldsTyped /\ st[e] \in Fields
    BY WorldIds DEF TypeInv, FieldsTyped
  <1>1. ASSUME NEW s \in Fields, NEW own, NEW under, MoveOver(e, s, own, under)
        PROVE  SavedInActive'
    <2>1. SlidOn(e, s, under) \in SUBSET elements
      BY DEF SlidOn, Others
    <2>2. Viewed(e, s, SlidOn(e, s, under), SlidOff(e, s, under)) \in [Ids -> Fields]
      BY ViewedTyped
    <2> QED
      BY <1>1, <2>1, <2>2, MoveOverEffect, ListenersSaved
  <1>2. CASE Listeners({e}, {}, [st EXCEPT ![e].mover = None, ![e].pressed = TRUE])
    BY <1>2, TouchedTyped, ListenersSaved
  <1>3. ASSUME NEW under, MoveOver(e, st[e], {}, under) PROVE SavedInActive'
    BY <1>1, <1>3
  <1>4. ASSUME NEW under, MoveOver(e, [st[e] EXCEPT !.pressed = FALSE], {e}, under) PROVE SavedInActive'
    <2>1. [st[e] EXCEPT !.pressed = FALSE] \in Fields
      BY DEF Fields
    <2> QED
      BY <1>1, <1>4, <2>1
  <1>5. CASE UNCHANGED <<elementVars, keys, applied, stored>>
    BY <1>5, SavedAside DEF elementVars
  <1> QED
    BY <1>2, <1>3, <1>4, <1>5 DEF DigitalEvent

LEMMA TouchSaved ==
    ASSUME TypeInv, SavedInActive, NEW e \in Ids, Touch(e) \/ Slide(e) \/ Lift(e) \/ Cancel(e)
    PROVE  SavedInActive'
  <1>1. UNCHANGED <<mode, elements, current>>
    BY DEF Touch, Slide, Lift, Cancel, touchFrame
  <1>2. e \in elements
    BY DEF TypeInv, FingersTyped, Touch, Slide, Lift, Cancel
  <1>3. CASE UNCHANGED <<conf, st, dialogs, applied, stored>>
    BY <1>1, <1>3, SavedAside
  <1>4. ASSUME NEW action, OnTouchEvent(e, action) PROVE SavedInActive'
    <2>1. CASE ElementEvent(e, action)
      <3>1. CASE DigitalEvent(e, action)
        BY <1>1, <1>2, <3>1, DigitalSaved
      <3>2. CASE RadialEvent(e, action) \/ AimEvent(e, action) \/ StickEvent(e, action)
        <4>1. UNCHANGED <<conf, applied, stored>>
          BY <3>2 DEF RadialEvent, AimEvent, StickEvent
        <4> QED
          BY <1>1, <4>1, SavedAside
      <3> QED
        BY <2>1, <3>1, <3>2 DEF ElementEvent
    <2>2. CASE mode = "Bind" /\ UNCHANGED <<conf, applied, stored>>
      BY <1>1, <2>2, SavedAside
    <2>3. ASSUME mode \in {"Move", "Resize"}, NEW place, conf' = [conf EXCEPT ![e].place = place],
                 UNCHANGED <<applied, stored>>
          PROVE  SavedInActive'
      <3>1. \A o \in Ids : conf'[o].shooting = conf[o].shooting
        <4>1. conf \in [Ids -> Confs] /\ conf[e] \in Confs
          BY DEF TypeInv, FieldsTyped
        <4>2. [conf[e] EXCEPT !.place = place].shooting = conf[e].shooting
          BY <4>1 DEF Confs
        <4> QED
          BY <2>3, <4>1, <4>2
      <3>2. elements \subseteq Ids
        BY WorldIds DEF TypeInv
      <3> QED
        BY <1>1, <2>3, <3>1, <3>2 DEF SavedInActive, Blanks
    <2> QED
      BY <1>4, <2>1, <2>2, <2>3 DEF OnTouchEvent
  <1> QED
    BY <1>3, <1>4 DEF Touch, Slide, Lift, Cancel

\* A layout that is built from the preferences is the layout they have, and its
\* switch is obeyed.
LEMMA LoadedSaved ==
    ASSUME TypeInv, NEW layout \in Layouts, elements' = DOMAIN layout, \A e \in elements' : conf'[e] = layout[e],
           applied' = IF Blanks(DOMAIN layout) = {} THEN applied ELSE \E e \in Blanks(DOMAIN layout) : layout[e].shooting,
           stored'[current'] = layout
    PROVE  SavedInActive'
  <1>1. DOMAIN layout \subseteq Ids /\ layout \in [DOMAIN layout -> Confs]
    BY LayoutParts, WorldIds DEF TypeInv
  <1>2. Layout' = layout
    <2>1. Layout' = [e \in elements' |-> conf'[e]]
      BY DEF Layout
    <2> QED
      BY <1>1, <2>1
  <1>3. ASSUME NEW e \in Blanks(elements') PROVE applied' = conf'[e].shooting
    <2>1. e \in Blanks(DOMAIN layout) /\ e \in DOMAIN layout
      BY <1>3 DEF Blanks
    <2>2. Blanks(DOMAIN layout) = {e}
      BY <1>1, <2>1, OneBlank
    <2>3. applied' = \E o \in {e} : layout[o].shooting
      BY <2>2
    <2>4. layout[e].shooting \in BOOLEAN /\ conf'[e] = layout[e]
      BY <1>1, <2>1 DEF Confs
    <2> QED
      BY <2>3, <2>4
  <1> QED
    BY <1>2, <1>3 DEF SavedInActive, Blanks

LEMMA RefreshSaved ==
    ASSUME TypeInv, NEW layout \in Layouts, Refresh(layout), UNCHANGED world, stored'[current'] = layout
    PROVE  SavedInActive'
  <1>1. applied' = IF Blanks(DOMAIN layout) = {} THEN applied ELSE \E e \in Blanks(DOMAIN layout) : layout[e].shooting
    BY DEF Refresh
  <1> QED
    BY <1>1, RefreshTyped, LoadedSaved
LEMMA EditSaved ==
    ASSUME TypeInv, SavedInActive, NEW e \in Ids,
           \/ Add(e)
           \/ \E inLayout \in BOOLEAN : SaveBinding(e, inLayout) \/ RemoveElement(e, inLayout)
    PROVE  SavedInActive'
  <1>1. TypeInv' /\ elements \subseteq Ids /\ elements' \subseteq Ids
    <2>1. TypeInv'
      BY AddType, SaveType, RemoveType
    <2>2. world' \in Worlds /\ elements' \subseteq world'.ids
      BY <2>1 DEF TypeInv, WorldTyped
    <2>3. \A w \in Worlds : w.ids \subseteq Ids
      BY VirtualControllerAssumption
    <2> QED
      BY <2>1, <2>2, <2>3, WorldIds DEF TypeInv
  <1>2. \A o \in Ids : conf[o].shooting \in BOOLEAN /\ conf'[o].shooting \in BOOLEAN
    <2>1. conf \in [Ids -> Confs] /\ conf' \in [Ids -> Confs]
      BY <1>1 DEF TypeInv, FieldsTyped
    <2> QED
      BY <2>1 DEF Confs
  <1>3. ASSUME Add(e) PROVE SavedInActive'
    <2>1. /\ elements' = elements \cup {e} /\ conf' = conf /\ current' = current
          /\ applied' = IF KindOf[e] = "blank" THEN conf[e].shooting ELSE applied
          /\ stored' = [stored EXCEPT ![current] = [x \in elements' |-> conf[x]]]
      BY <1>3 DEF Add
    <2>2. ASSUME NEW o \in Blanks(elements') PROVE applied' = conf'[o].shooting
      <3>1. CASE KindOf[e] = "blank"
        <4>1. e \in Blanks(elements')
          BY <2>1, <3>1 DEF Blanks
        <4>2. o = e
          BY <1>1, <2>2, <4>1, OneBlank
        <4> QED
          BY <2>1, <3>1, <4>2
      <3>2. CASE KindOf[e] # "blank"
        <4>1. o \in Blanks(elements)
          BY <2>1, <2>2, <3>2 DEF Blanks
        <4> QED
          BY <2>1, <3>2, <4>1 DEF SavedInActive
      <3> QED
        BY <3>1, <3>2
    <2> QED
      BY <2>1, <2>2, SavedNow
  <1>4. ASSUME NEW inLayout \in BOOLEAN, SaveBinding(e, inLayout) PROVE SavedInActive'
    <2>1. /\ elements' = elements /\ current' = current
          /\ stored' = [stored EXCEPT ![current] = [x \in elements |-> conf'[x]]]
      BY <1>4 DEF SaveBinding
    <2>2. CASE inLayout
      <3>1. e \in elements
        <4>1. inLayout = TRUE /\ <<e, inLayout>> \in dialogs
          BY <1>4, <2>2 DEF SaveBinding
        <4> QED
          BY <4>1 DEF TypeInv, FingersTyped
      <3>2. PICK c \in Savable[KindOf[e]] :
               conf' = [conf EXCEPT ![e] = [c EXCEPT !.shooting = conf[e].shooting, !.place = conf[e].place]]
        BY <1>4, <2>2 DEF SaveBinding
      <3>3. c \in Confs
        BY <3>2, VirtualControllerAssumption
      <3>4. \A o \in Ids : conf'[o].shooting = conf[o].shooting
        <4>1. [c EXCEPT !.shooting = conf[e].shooting, !.place = conf[e].place].shooting = conf[e].shooting
          BY <3>3 DEF Confs
        <4> QED
          BY <3>2, <4>1 DEF TypeInv, FieldsTyped
      <3>5. applied' = IF KindOf[e] = "blank" THEN conf[e].shooting ELSE applied
        BY <1>4, <2>2 DEF SaveBinding
      <3>6. ASSUME NEW o \in Blanks(elements') PROVE applied' = conf'[o].shooting
        <4>1. o \in Blanks(elements) /\ o \in Ids
          BY <1>1, <2>1, <3>6 DEF Blanks
        <4>2. KindOf[e] = "blank" => o = e
          BY <1>1, <3>1, <4>1, OneBlank DEF Blanks
        <4>3. applied = conf[o].shooting
          BY <4>1 DEF SavedInActive
        <4> QED
          BY <3>4, <3>5, <4>1, <4>2, <4>3
      <3> QED
        BY <2>1, <3>6, SavedNow
    <2>3. CASE ~inLayout
      <3>1. UNCHANGED <<conf, applied>>
        BY <1>4, <2>3 DEF SaveBinding
      <3>2. \A o \in Blanks(elements') : applied' = conf'[o].shooting
        BY <2>1, <3>1 DEF SavedInActive
      <3> QED
        BY <2>1, <3>2, SavedNow
    <2> QED
      BY <2>2, <2>3
  <1>5. ASSUME NEW inLayout \in BOOLEAN, RemoveElement(e, inLayout) PROVE SavedInActive'
    <2>1. applied' = applied /\ current' = current /\ mode' = mode
      BY <1>5 DEF RemoveElement
    <2>2. CASE inLayout
      <3>1. /\ elements' = elements \ {e} /\ conf' = [conf EXCEPT ![e] = Default(e)]
            /\ stored' = [stored EXCEPT ![current] = [x \in elements' |-> conf[x]]]
        BY <1>5, <2>2 DEF RemoveElement
      <3>2. \A x \in elements' : conf'[x] = conf[x]
        BY <1>1, <3>1 DEF TypeInv, FieldsTyped
      <3>3. [x \in elements' |-> conf[x]] = [x \in elements' |-> conf'[x]]
        BY <3>2
      <3>4. \A o \in Blanks(elements') : o \in Blanks(elements) /\ o \in elements'
        BY <3>1 DEF Blanks
      <3>5. \A o \in Blanks(elements') : applied' = conf'[o].shooting
        BY <2>1, <3>2, <3>4 DEF SavedInActive
      <3>6. stored' = [stored EXCEPT ![current] = [x \in elements' |-> conf'[x]]]
        BY <3>1, <3>3
      <3> QED
        BY <2>1, <3>5, <3>6, SavedNow
    <2>3. CASE ~inLayout
      <3>1. UNCHANGED <<elements, conf, stored>>
        BY <1>5, <2>3 DEF RemoveElement
      <3> QED
        BY <2>1, <3>1, SavedAside
    <2> QED
      BY <2>2, <2>3
  <1> QED
    BY <1>3, <1>4, <1>5

LEMMA ProfileSaved ==
    ASSUME TypeInv, SavedInActive, \/ \E p \in Profiles : SwitchProfile(p) \/ CreateProfile(p)
                                   \/ DeleteProfile
    PROVE  SavedInActive'
  <1>1. Layout \in Layouts /\ stored \in [Profiles -> Layouts] /\ current \in Profiles
    BY LayoutNow, CurrentProfile DEF TypeInv, StoredTyped
  <1>2. ASSUME NEW p \in Profiles, SwitchProfile(p) PROVE SavedInActive'
    <2>1. p # current /\ stored' = [stored EXCEPT ![current] = Layout] /\ current' = p
      BY <1>2 DEF SwitchProfile
    <2>2. stored'[current'] = stored[p]
      BY <1>1, <2>1
    <2>3. Refresh(stored[p]) /\ UNCHANGED world
      BY <1>2 DEF SwitchProfile
    <2> QED
      BY <1>1, <2>2, <2>3, RefreshSaved
  <1>3. ASSUME NEW p \in Profiles, CreateProfile(p) PROVE SavedInActive'
    <2>1. stored'[current'] = Layout
      BY <1>1, <1>3 DEF CreateProfile
    <2>2. Refresh(Layout) /\ UNCHANGED world
      BY <1>3 DEF CreateProfile
    <2> QED
      BY <1>1, <2>1, <2>2, RefreshSaved
  <1>4. CASE DeleteProfile
    <2>1. current' = Head(profiles') /\ current' # current /\ current' \in Profiles
      BY <1>4, DeletedList, CurrentProfile DEF TypeInv
    <2>2. stored' = [stored EXCEPT ![current] = <<>>] /\ Refresh(stored[Head(profiles')]) /\ UNCHANGED world
      BY <1>4 DEF DeleteProfile
    <2>3. stored'[current'] = stored[Head(profiles')] /\ stored[Head(profiles')] \in Layouts
      BY <1>1, <2>1, <2>2
    <2> QED
      BY <2>2, <2>3, RefreshSaved
  <1> QED
    BY <1>2, <1>3, <1>4

LEMMA RestSaved ==
    ASSUME TypeInv, SavedInActive, \/ \E d \in dialogs : DismissDialog(d)
                                   \/ PulseEnds \/ Configure \/ ConfigurationChanged \/ Stop \/ Relaunch
    PROVE  SavedInActive'
  <1>1. Layout \in Layouts /\ stored \in [Profiles -> Layouts] /\ current \in Profiles
    BY LayoutNow, CurrentProfile DEF TypeInv, StoredTyped
  <1>2. CASE (\E d \in dialogs : DismissDialog(d)) \/ PulseEnds \/ Stop
    <2>1. UNCHANGED <<mode, elements, conf, stored, current, applied>>
      BY <1>2 DEF DismissDialog, PulseEnds, Stop, elementVars, profileVars
    <2> QED
      BY <2>1, SavedAside
  <1>3. CASE Configure
    <2>1. UNCHANGED <<elements, conf, current, applied>> /\ mode' = NextMode[mode]
      BY <1>3 DEF Configure, elementVars
    <2>2. CASE mode = "Bind"
      <3>1. stored' = [stored EXCEPT ![current] = [e \in elements' |-> conf'[e]]]
        BY <1>3, <2>1, <2>2 DEF Configure, Layout
      <3>2. \A o \in Blanks(elements') : applied' = conf'[o].shooting
        BY <2>1 DEF SavedInActive
      <3> QED
        BY <2>1, <3>1, <3>2, SavedNow
    <2>3. CASE mode # "Bind"
      <3>1. mode' # "Active"
        BY <2>1, <2>3 DEF NextMode, TypeInv, WorldTyped
      <3>2. stored' = stored
        BY <1>3, <2>3 DEF Configure
      <3> QED
        BY <2>1, <3>1, <3>2, SavedAside
    <2> QED
      BY <2>2, <2>3
  <1>4. CASE ConfigurationChanged
    <2>1. Refresh(stored[current]) /\ UNCHANGED world /\ stored'[current'] = stored[current]
      BY <1>4 DEF ConfigurationChanged
    <2> QED
      BY <1>1, <2>1, RefreshSaved
  <1>5. CASE Relaunch
    <2>1. stored'[current'] = stored[current]
      BY <1>5 DEF Relaunch
    <2>2. elements' = DOMAIN stored[current] /\ \A e \in elements' : conf'[e] = stored[current][e]
      BY <1>5, RelaunchLayout
    <2>3. Blanks(elements') = Blanks(DOMAIN stored[current])
      BY <2>2
    <2>4. (\E e \in Blanks(elements') : conf'[e].shooting)
             <=> (\E e \in Blanks(DOMAIN stored[current]) : stored[current][e].shooting)
      BY <2>2 DEF Blanks
    <2>5. applied' = IF Blanks(elements') = {} THEN applied ELSE \E e \in Blanks(elements') : conf'[e].shooting
      BY <1>5 DEF Relaunch
    <2>6. applied' = IF Blanks(DOMAIN stored[current]) = {} THEN applied
                     ELSE \E e \in Blanks(DOMAIN stored[current]) : stored[current][e].shooting
      BY <2>3, <2>4, <2>5
    <2> QED
      BY <1>1, <2>1, <2>2, <2>6, LoadedSaved
  <1> QED
    BY <1>2, <1>3, <1>4, <1>5

LEMMA SavedNext == TypeInv /\ SavedInActive /\ [Next]_vars => SavedInActive'
  <1> SUFFICES ASSUME TypeInv, SavedInActive, [Next]_vars PROVE SavedInActive'
    OBVIOUS
  <1>1. CASE UNCHANGED vars
    BY <1>1, SavedAside DEF vars, elementVars, profileVars
  <1>2. ASSUME NEW e \in Ids, Touch(e) \/ Slide(e) \/ Lift(e) \/ Cancel(e) PROVE SavedInActive'
    BY <1>2, TouchSaved
  <1>3. ASSUME NEW e \in Ids, \/ Add(e)
                              \/ \E inLayout \in BOOLEAN : SaveBinding(e, inLayout) \/ RemoveElement(e, inLayout)
        PROVE  SavedInActive'
    BY <1>3, EditSaved
  <1>4. CASE (\E p \in Profiles : SwitchProfile(p) \/ CreateProfile(p)) \/ DeleteProfile
    BY <1>4, ProfileSaved
  <1>5. CASE \/ \E d \in dialogs : DismissDialog(d)
             \/ PulseEnds \/ Configure \/ ConfigurationChanged \/ Stop \/ Relaunch
    BY <1>5, RestSaved
  <1> QED
    BY <1>1, <1>2, <1>3, <1>4, <1>5 DEF Next

LEMMA SavedInit == Init => SavedInActive
  <1> SUFFICES ASSUME Init PROVE SavedInActive
    OBVIOUS
  <1>1. TypeInv /\ elements = world.ids /\ elements \subseteq Ids
    BY TypeInit, WorldIds DEF Init, TypeInv
  <1>2. stored[current] = Layout
    <2>1. stored = [p \in Profiles |-> IF p = current THEN Layout ELSE <<>>]
      BY DEF Init
    <2> QED
      BY <1>1, <2>1, CurrentProfile DEF TypeInv
  <1>3. ASSUME NEW e \in Blanks(elements) PROVE applied = conf[e].shooting
    <2>1. Blanks(elements) = {e}
      BY <1>1, <1>3, OneBlank
    <2>2. applied = \E o \in {e} : conf[o].shooting
      BY <1>1, <2>1 DEF Init
    <2>3. conf[e] \in Confs
      BY <1>1 DEF Blanks, TypeInv, FieldsTyped
    <2> QED
      BY <2>2, <2>3 DEF Confs
  <1> QED
    BY <1>2, <1>3 DEF SavedInActive

\* Whenever the on-screen controls can be played, the preferences have the layout
\* that is on the screen, however it was edited, rebuilt or switched, and the
\* blank area obeys the mode that its switch shows.
THEOREM LayoutSaved == Spec => []SavedInActive
  BY TypeInit, TypeNext, SavedInit, SavedNext, PTL DEF Spec

-----------------------------------------------------------------------------
(* No profile overwrites another *)

\* The preferences of other profiles than the current one.
OthersKept == \A p \in Profiles \ {current} : stored'[p] = stored[p]

LEMMA WrittenKept ==
    ASSUME TypeInv, NEW l, stored' = stored \/ stored' = [stored EXCEPT ![current] = l]
    PROVE  OthersKept
  BY DEF OthersKept, TypeInv, StoredTyped

LEMMA SameKept == UNCHANGED stored => OthersKept
  BY DEF OthersKept

LEMMA ListenersKept ==
    ASSUME TypeInv, NEW P, NEW R, NEW s, Listeners(P, R, s)
    PROVE  OthersKept
  BY WrittenKept DEF Listeners

LEMMA TouchKept ==
    ASSUME TypeInv, NEW e \in Ids, Touch(e) \/ Slide(e) \/ Lift(e) \/ Cancel(e)
    PROVE  OthersKept /\ UNCHANGED <<profiles, current>>
  <1>1. UNCHANGED <<profiles, current>>
    BY DEF Touch, Slide, Lift, Cancel, touchFrame
  <1>2. ASSUME UNCHANGED stored PROVE OthersKept
    BY <1>2, SameKept
  <1>3. ASSUME NEW action, OnTouchEvent(e, action) PROVE OthersKept
    <2>1. CASE DigitalEvent(e, action)
      <3>1. ASSUME NEW s, NEW own, NEW under, MoveOver(e, s, own, under) PROVE OthersKept
        BY <3>1, ListenersKept DEF MoveOver
      <3>2. CASE Listeners({e}, {}, [st EXCEPT ![e].mover = None, ![e].pressed = TRUE])
        BY <3>2, ListenersKept
      <3>3. CASE UNCHANGED stored
        BY <3>3, SameKept
      <3> QED
        BY <2>1, <3>1, <3>2, <3>3 DEF DigitalEvent
    <2>2. CASE RadialEvent(e, action) \/ AimEvent(e, action) \/ StickEvent(e, action) \/ UNCHANGED stored
      BY <2>2, SameKept DEF RadialEvent, AimEvent, StickEvent
    <2> QED
      BY <1>3, <2>1, <2>2 DEF OnTouchEvent, ElementEvent
  <1> QED
    BY <1>1, <1>2, <1>3 DEF Touch, Slide, Lift, Cancel

Kept ==
    /\ \A p \in Range(profiles) \ {current} : p \in Range(profiles') /\ stored'[p] = stored[p]
    /\ current' # current /\ current \in Range(profiles') => stored'[current] = Layout

LEMMA SameList ==
    ASSUME TypeInv, OthersKept, UNCHANGED <<profiles, current>>
    PROVE  Kept
  BY CurrentProfile DEF OthersKept, Kept, TypeInv

LEMMA KeptNext == TypeInv /\ [Next]_vars => Kept
  <1> SUFFICES ASSUME TypeInv, [Next]_vars PROVE Kept
    OBVIOUS
  <1>0. Range(profiles) \subseteq Profiles /\ current \in Profiles /\ stored \in [Profiles -> Layouts]
    BY CurrentProfile DEF TypeInv, StoredTyped
  <1>1. CASE UNCHANGED vars
    BY <1>1, SameKept, SameList DEF vars, profileVars
  <1>2. ASSUME NEW e \in Ids, Touch(e) \/ Slide(e) \/ Lift(e) \/ Cancel(e) PROVE Kept
    BY <1>2, TouchKept, SameList
  <1>3. ASSUME NEW e \in Ids, Add(e) PROVE Kept
    BY <1>3, WrittenKept, SameList DEF Add
  <1>4. ASSUME NEW e \in Ids, NEW inLayout \in BOOLEAN, SaveBinding(e, inLayout) \/ RemoveElement(e, inLayout)
        PROVE  Kept
    BY <1>4, WrittenKept, SameList DEF SaveBinding, RemoveElement
  <1>5. ASSUME NEW p \in Profiles, SwitchProfile(p) PROVE Kept
    <2>1. stored' = [stored EXCEPT ![current] = Layout] /\ profiles' = profiles
      BY <1>5 DEF SwitchProfile
    <2> QED
      BY <1>0, <2>1 DEF Kept
  <1>6. ASSUME NEW p \in Profiles, CreateProfile(p) PROVE Kept
    <2>1. p \notin Range(profiles) /\ profiles' = Append(profiles, p)
      BY <1>6 DEF CreateProfile
    <2>2. Range(profiles') = Range(profiles) \cup {p}
      BY <2>1, AppendList DEF TypeInv, ListTyped
    <2>3. stored' = [stored EXCEPT ![current] = Layout, ![p] = Layout]
      BY <1>6 DEF CreateProfile
    <2>4. current # p
      BY <2>1 DEF TypeInv, ListTyped
    <2> QED
      BY <1>0, <2>1, <2>2, <2>3, <2>4 DEF Kept
  <1>7. CASE DeleteProfile
    <2>1. Range(profiles') = Range(profiles) \ {current}
      BY <1>7, DeletedList DEF TypeInv
    <2>2. stored' = [stored EXCEPT ![current] = <<>>]
      BY <1>7 DEF DeleteProfile
    <2> QED
      BY <1>0, <2>1, <2>2 DEF Kept
  <1>8. CASE \/ \E d \in dialogs : DismissDialog(d)
             \/ PulseEnds \/ Configure \/ ConfigurationChanged \/ Stop \/ Relaunch
    <2>1. UNCHANGED <<profiles, current>>
      BY <1>8 DEF DismissDialog, PulseEnds, Configure, ConfigurationChanged, Stop, Relaunch, profileVars
    <2>2. stored' = stored \/ stored' = [stored EXCEPT ![current] = Layout]
      BY <1>8 DEF DismissDialog, PulseEnds, Configure, ConfigurationChanged, Stop, Relaunch, profileVars
    <2>3. OthersKept
      BY <2>2, WrittenKept
    <2> QED
      BY <2>1, <2>3, SameList
  <1> QED
    BY <1>1, <1>2, <1>3, <1>4, <1>5, <1>6, <1>7, <1>8 DEF Next

\* A profile that is left is stored as it was on the screen, and no step, whether
\* it creates, switches, deletes or edits, changes the preferences of another
\* profile than the current one.
THEOREM ProfilesApart == Spec => ProfilesKept
  <1>1. TypeInv /\ [Next]_vars =>
           /\ \A p \in Range(profiles) \ {current} : p \in Range(profiles') /\ stored'[p] = stored[p]
           /\ current' # current /\ current \in Range(profiles') => stored'[current] = Layout
    BY KeptNext DEF Kept
  <1> QED
    BY <1>1, TypeInit, TypeNext, PTL DEF Spec, ProfilesKept
-----------------------------------------------------------------------------
(* Nothing is held that nobody touches *)

\* Element e with the fields s holds nothing.
Quiet(e, s) ==
    CASE KindOf[e] = "radial" -> s.held = <<>>
      [] KindOf[e] = "stick" -> s.tilt = {}
      [] OTHER -> ~s.down

\* A finger is on e, or on the button from which it slid onto e.
Fingered(e) == touches[e] > 0 \/ (st[e].mover \in Ids /\ touches[st[e].mover] > 0)

\* A button that emits its keys is shown as pressed, so that the finger that
\* slides off it, or is lifted, finds it; a display switch emits one of its two
\* keys; and only buttons press others.
Shown(e, s) ==
    /\ IsDigital(e) /\ s.down => s.pressed
    /\ KindOf[e] = "display" /\ s.down => s.active # 0
    /\ s.mover \in Ids => IsDigital(e) /\ IsDigital(s.mover)

HoldInv ==
    /\ \A e \in elements : Quiet(e, st[e]) \/ Fingered(e) \/ e \in missed
    /\ \A e \in Ids \ elements : Quiet(e, st[e])
    /\ \A e \in Ids : Shown(e, st[e])

\* What is quiet holds no key.
LEMMA QuietHolds ==
    ASSUME NEW e, NEW c, NEW s, Quiet(e, s)
    PROVE  HoldingOf(e, c, s) = {}
  <1>1. Places(e, 0, <<>>) = {}
    BY DEF Places
  <1>2. CASE KindOf[e] = "stick"
    BY <1>2 DEF Quiet, HoldingOf
  <1>3. CASE KindOf[e] = "radial"
    BY <1>1, <1>3 DEF Quiet, HoldingOf
  <1>4. CASE KindOf[e] \notin {"stick", "radial"}
    <2>1. ~s.down
      BY <1>4 DEF Quiet
    <2> QED
      BY <1>4, <2>1 DEF HoldingOf
  <1> QED
    BY <1>2, <1>3, <1>4

LEMMA ClickedFields ==
    ASSUME NEW e, NEW s \in Fields
    PROVE  /\ Clicked(e, s).pressed = s.pressed /\ Clicked(e, s).mover = s.mover
           /\ ~Unclicked(s).down /\ Unclicked(s).pressed = s.pressed /\ Unclicked(s).mover = s.mover
  BY DEF Clicked, Unclicked, Fields

\* A click chooses one of the two keys of a display switch.
LEMMA ClickedActive ==
    ASSUME NEW e, NEW s \in Fields, KindOf[e] = "display" /\ s.down => s.active # 0
    PROVE  KindOf[e] = "display" => Clicked(e, s).active # 0
  BY DEF Clicked, Fields

\* releaseInput leaves nothing held.
LEMMA ReleasedQuiet ==
    ASSUME TypeInv, NEW e \in Ids
    PROVE  Quiet(e, Released(e)) /\ Released(e).mover = st[e].mover /\ (IsDigital(e) => ~Released(e).down)
  <1>1. st[e] \in Fields
    BY DEF TypeInv, FieldsTyped
  <1>2. CASE KindOf[e] = "stick"
    BY <1>1, <1>2 DEF Released, Quiet, Fields, IsDigital
  <1>3. CASE KindOf[e] = "radial"
    BY <1>1, <1>3 DEF Released, Quiet, Fields, IsDigital
  <1>4. CASE KindOf[e] = "aim"
    BY <1>1, <1>4 DEF Released, Quiet, Fields, IsDigital
  <1>5. CASE KindOf[e] \notin {"stick", "radial", "aim"}
    <2>1. Released(e) = [Unclicked(st[e]) EXCEPT !.pressed = FALSE]
      BY <1>5 DEF Released
    <2>2. Unclicked(st[e]) \in Fields /\ ~Unclicked(st[e]).down /\ Unclicked(st[e]).mover = st[e].mover
      BY <1>1, ClickedTyped, ClickedFields
    <2>3. ~Released(e).down /\ Released(e).mover = st[e].mover
      BY <2>1, <2>2 DEF Fields
    <2> QED
      BY <1>5, <2>3 DEF Quiet
  <1> QED
    BY <1>2, <1>3, <1>4, <1>5

\* What an event on e leaves of the other elements: as they were, or pressed or
\* released by its finger; and when the finger is gone, nothing is left to it.
Eventful(e) ==
    /\ \A o \in Ids : Shown(o, st'[o])
    /\ \A o \in Ids \ {e} : st'[o] = st[o] \/ (o \in elements /\ (Quiet(o, st'[o]) \/ st'[o].mover = e))
Ended(e) ==
    /\ Quiet(e, st'[e])
    /\ \A o \in Ids \ {e} : Quiet(o, st'[o]) \/ (st'[o] = st[o] /\ st[o].mover # e)

\* An event that changes e alone, which is not a button.
LEMMA OwnHolds ==
    ASSUME TypeInv, HoldInv, NEW e \in Ids, ~IsDigital(e), NEW s, s.mover = st[e].mover,
           st' = [st EXCEPT ![e] = s]
    PROVE  Eventful(e) /\ (Quiet(e, s) => Ended(e))
  <1>1. st'[e] = s /\ \A o \in Ids \ {e} : st'[o] = st[o]
    BY DEF TypeInv, FieldsTyped
  <1>2. \A o \in Ids : Shown(o, st[o])
    BY DEF HoldInv
  <1>3. Shown(e, s)
    BY <1>2 DEF Shown, IsDigital
  <1>4. \A o \in Ids : st[o].mover # e
    BY <1>2 DEF Shown
  <1> QED
    BY <1>1, <1>2, <1>3, <1>4 DEF Eventful, Ended

LEMMA SelectedMover ==
    ASSUME NEW e, NEW s \in Fields, NEW index
    PROVE  Selected(e, s, index).mover = s.mover
  BY DEF Selected, Fields

LEMMA RadialHolds ==
    ASSUME TypeInv, HoldInv, NEW e \in elements, NEW action, RadialEvent(e, action)
    PROVE  Eventful(e) /\ (action \in {"up", "cancel"} => Ended(e))
  <1> e \in Ids /\ FieldsTyped /\ st[e] \in Fields /\ ~IsDigital(e) /\ KindOf[e] = "radial"
    BY WorldIds DEF TypeInv, FieldsTyped, RadialEvent, IsDigital
  <1> DEFINE opened == IF action = "down" /\ ~st[e].pressed
                       THEN [st[e] EXCEPT !.pressed = TRUE, !.sel = 0] ELSE st[e]
  <1>1. ASSUME action \in {"down", "move"}, NEW index \in Sectors(e) \cup {opened.sel},
               st' = [st EXCEPT ![e] = Selected(e, opened, index)]
        PROVE  Eventful(e)
    <2>1. opened \in Fields /\ opened.mover = st[e].mover
      BY DEF Fields
    <2>2. st' = [st EXCEPT ![e] = Selected(e, opened, index)]
      BY <1>1
    <2> HIDE DEF opened
    <2>3. Selected(e, opened, index).mover = st[e].mover
      BY <2>1, SelectedMover
    <2> QED
      BY <2>2, <2>3, OwnHolds
  <1>2. ASSUME NEW index \in 0 .. Len(conf[e].items),
               LET s == Selected(e, st[e], index)
               IN  st' = [st EXCEPT ![e] = [s EXCEPT !.held = <<>>, !.pressed = FALSE,
                                                     !.sel = IF s.pressed THEN 0 ELSE @]]
        PROVE  Eventful(e) /\ Ended(e)
    <2> DEFINE s == Selected(e, st[e], index)
               v == [s EXCEPT !.held = <<>>, !.pressed = FALSE, !.sel = IF s.pressed THEN 0 ELSE @]
    <2>1. s \in Fields /\ s.mover = st[e].mover
      BY SelectedTyped, SelectedMover
    <2>2. ASSUME NEW r \in Fields
          PROVE  LET w == [r EXCEPT !.held = <<>>, !.pressed = FALSE, !.sel = IF r.pressed THEN 0 ELSE @]
                 IN  w.mover = r.mover /\ w.held = <<>>
      BY DEF Fields
    <2>3. v.mover = st[e].mover /\ v.held = <<>> /\ st' = [st EXCEPT ![e] = v]
      BY <1>2, <2>1, <2>2
    <2> HIDE DEF v
    <2>4. Quiet(e, v)
      BY <2>3 DEF Quiet
    <2> QED
      BY <2>3, <2>4, OwnHolds
  <1>3. CASE st' = [st EXCEPT ![e] = Released(e)]
    BY <1>3, ReleasedQuiet, OwnHolds
  <1>4. \/ /\ action \in {"down", "move"}
           /\ \E index \in Sectors(e) \cup {opened.sel} : st' = [st EXCEPT ![e] = Selected(e, opened, index)]
        \/ \E index \in 0 .. Len(conf[e].items) :
               LET s == Selected(e, st[e], index)
               IN  st' = [st EXCEPT ![e] = [s EXCEPT !.held = <<>>, !.pressed = FALSE,
                                                     !.sel = IF s.pressed THEN 0 ELSE @]]
        \/ st' = [st EXCEPT ![e] = Released(e)]
    BY DEF RadialEvent, Sectors
  <1> HIDE DEF opened
  <1>5. action \in {"down", "move"} => action \notin {"up", "cancel"}
    OBVIOUS
  <1>6. CASE /\ action \in {"down", "move"}
             /\ \E index \in Sectors(e) \cup {opened.sel} : st' = [st EXCEPT ![e] = Selected(e, opened, index)]
    <2>1. PICK index \in Sectors(e) \cup {opened.sel} : st' = [st EXCEPT ![e] = Selected(e, opened, index)]
      BY <1>6
    <2>2. Eventful(e)
      BY <1>1, <1>6, <2>1
    <2> QED
      BY <1>5, <1>6, <2>2
  <1>7. CASE \E index \in 0 .. Len(conf[e].items) :
               LET s == Selected(e, st[e], index)
               IN  st' = [st EXCEPT ![e] = [s EXCEPT !.held = <<>>, !.pressed = FALSE,
                                                     !.sel = IF s.pressed THEN 0 ELSE @]]
    BY <1>2, <1>7
  <1> QED
    BY <1>3, <1>4, <1>6, <1>7

LEMMA AimHolds ==
    ASSUME TypeInv, HoldInv, NEW e \in elements, NEW action, AimEvent(e, action)
    PROVE  Eventful(e) /\ (action \in {"up", "cancel"} => Ended(e))
  <1> e \in Ids /\ st[e] \in Fields /\ st \in [Ids -> Fields] /\ ~IsDigital(e)
    BY WorldIds DEF TypeInv, FieldsTyped, AimEvent, IsDigital
  <1>1. CASE action = "down" /\ st' = [st EXCEPT ![e].pressed = TRUE, ![e].down = TRUE]
    <2> DEFINE s == [st[e] EXCEPT !.pressed = TRUE, !.down = TRUE]
    <2>1. s.mover = st[e].mover
      BY DEF Fields
    <2>2. st' = [st EXCEPT ![e] = s]
      BY <1>1
    <2> HIDE DEF s
    <2> QED
      BY <1>1, <2>1, <2>2, OwnHolds
  <1>2. CASE st' = [st EXCEPT ![e] = Released(e)]
    BY <1>2, ReleasedQuiet, OwnHolds
  <1>3. CASE action = "move" /\ UNCHANGED st
    BY <1>3 DEF Eventful, HoldInv
  <1> QED
    BY <1>1, <1>2, <1>3 DEF AimEvent

LEMMA StickHolds ==
    ASSUME TypeInv, HoldInv, NEW e \in elements, NEW action, StickEvent(e, action)
    PROVE  Eventful(e) /\ (action \in {"up", "cancel"} => Ended(e))
  <1> e \in Ids /\ st[e] \in Fields /\ ~IsDigital(e) /\ KindOf[e] = "stick"
    BY WorldIds DEF TypeInv, FieldsTyped, StickEvent, IsDigital
  <1> DEFINE p == IF action = "down" THEN TRUE ELSE action \notin {"up", "cancel"} /\ st[e].pressed
  <1>1. PICK tilt \in (IF p THEN Tilts ELSE {{}}) :
           st' = [st EXCEPT ![e] = [st[e] EXCEPT !.pressed = p, !.tilt = tilt]]
    BY DEF StickEvent
  <1>2. action \in {"up", "cancel"} => ~p
    OBVIOUS
  <1> HIDE DEF p
  <1> DEFINE s == [st[e] EXCEPT !.pressed = p, !.tilt = tilt]
  <1>3. s.mover = st[e].mover /\ s.tilt = tilt
    BY DEF Fields
  <1>4. action \in {"up", "cancel"} => tilt = {}
    BY <1>1, <1>2
  <1>5. st' = [st EXCEPT ![e] = s]
    BY <1>1
  <1> HIDE DEF s
  <1>6. tilt = {} => Quiet(e, s)
    BY <1>3 DEF Quiet
  <1> QED
    BY <1>3, <1>4, <1>5, <1>6, OwnHolds

\* What the finger of e, whose fields become s, does to the other elements.
OthersMoved(e, s, under) ==
    \A o \in Ids \ {e} :
        \/ /\ o \in SlidOn(e, s, under)
           /\ st'[o] = Clicked(o, [st[o] EXCEPT !.pressed = TRUE, !.mover = e])
        \/ /\ o \in SlidOff(e, s, under)
           /\ st'[o] = Unclicked([st[o] EXCEPT !.pressed = FALSE, !.mover = None])
        \/ o \notin SlidOn(e, s, under) \cup SlidOff(e, s, under) /\ st'[o] = st[o]

LEMMA MoveOverFields ==
    ASSUME TypeInv, NEW e \in elements, NEW s \in Fields, NEW own \in {{}, {e}}, NEW under,
           MoveOver(e, s, own, under)
    PROVE  /\ st'[e] = IF own = {e} THEN Unclicked(s) ELSE s
           /\ OthersMoved(e, s, under)
  <1> DEFINE on == SlidOn(e, s, under)
             off == SlidOff(e, s, under)
             v == Viewed(e, s, on, off)
  <1>1. on \in SUBSET elements /\ e \notin on /\ e \notin off /\ on \cap off = {}
    BY DEF SlidOn, SlidOff, Others
  <1>2. v \in [Ids -> Fields] /\ e \in Ids
    BY ViewedTyped, WorldIds DEF TypeInv
  <1>3. /\ v[e] = s
        /\ \A o \in Ids \ {e} : v[o] = IF o \in on THEN [st[o] EXCEPT !.pressed = TRUE, !.mover = e]
                                       ELSE IF o \in off THEN [st[o] EXCEPT !.pressed = FALSE, !.mover = None]
                                       ELSE st[o]
    BY <1>2 DEF Viewed
  <1>4. Listeners(on, off \cup own, v)
    BY MoveOverEffect
  <1> HIDE DEF on, off, v
  <1>5. st' = NewFields(on, off \cup own, v)
    BY <1>1, <1>2, <1>4, ListenersEffect
  <1>6. \A o \in Ids : st'[o] = IF o \in on THEN Clicked(o, v[o])
                                ELSE IF o \in off \cup own THEN Unclicked(v[o]) ELSE v[o]
    BY <1>5 DEF NewFields
  <1>7. st'[e] = IF own = {e} THEN Unclicked(s) ELSE s
    BY <1>1, <1>2, <1>3, <1>6
  <1>8. ASSUME NEW o \in Ids \ {e}
        PROVE  \/ o \in on /\ st'[o] = Clicked(o, [st[o] EXCEPT !.pressed = TRUE, !.mover = e])
               \/ o \in off /\ st'[o] = Unclicked([st[o] EXCEPT !.pressed = FALSE, !.mover = None])
               \/ o \notin on \cup off /\ st'[o] = st[o]
    BY <1>1, <1>3, <1>6
  <1> QED
    BY <1>7, <1>8 DEF on, off, OthersMoved

\* A finger moved over the buttons: those it is on are pressed by e.
LEMMA MoveOverHolds ==
    ASSUME TypeInv, HoldInv, NEW e \in elements, IsDigital(e), NEW s \in Fields, NEW own \in {{}, {e}},
           NEW under, MoveOver(e, s, own, under), Shown(e, s)
    PROVE  Eventful(e)
  <1> e \in Ids /\ st \in [Ids -> Fields]
    BY WorldIds DEF TypeInv, FieldsTyped
  <1>0. OthersMoved(e, s, under)
    BY MoveOverFields
  <1>1. Shown(e, st'[e])
    <2>1. st'[e] = s \/ st'[e] = Unclicked(s)
      BY MoveOverFields
    <2> QED
      BY <2>1, ClickedFields DEF Shown
  <1>2. ASSUME NEW o \in Ids \ {e}
        PROVE  /\ Shown(o, st'[o])
               /\ st'[o] = st[o] \/ (o \in elements /\ (Quiet(o, st'[o]) \/ st'[o].mover = e))
    <2>0. st[o] \in Fields /\ None \notin Ids
      BY VirtualControllerAssumption
    <2>1. CASE /\ o \in SlidOn(e, s, under)
               /\ st'[o] = Clicked(o, [st[o] EXCEPT !.pressed = TRUE, !.mover = e])
      <3> DEFINE r == [st[o] EXCEPT !.pressed = TRUE, !.mover = e]
      <3>1. /\ r \in Fields /\ r.pressed = TRUE /\ r.mover = e
            /\ KindOf[o] = "display" /\ r.down => r.active # 0
        BY <2>0 DEF Fields, HoldInv, Shown
      <3>2. o \in elements /\ IsDigital(o)
        BY <2>1 DEF SlidOn, Others
      <3>3. st'[o] = Clicked(o, r)
        BY <2>1
      <3> HIDE DEF r
      <3>4. st'[o].pressed = TRUE /\ st'[o].mover = e /\ (KindOf[o] = "display" => st'[o].active # 0)
        BY <3>1, <3>3, ClickedFields, ClickedActive
      <3> QED
        BY <3>2, <3>4 DEF Shown
    <2>2. CASE /\ o \in SlidOff(e, s, under)
               /\ st'[o] = Unclicked([st[o] EXCEPT !.pressed = FALSE, !.mover = None])
      <3> DEFINE r == [st[o] EXCEPT !.pressed = FALSE, !.mover = None]
      <3>1. r \in Fields /\ r.mover = None
        BY <2>0 DEF Fields
      <3>2. o \in elements /\ IsDigital(o)
        BY <2>2 DEF SlidOff, Others
      <3>3. st'[o] = Unclicked(r)
        BY <2>2
      <3> HIDE DEF r
      <3>4. ~st'[o].down /\ st'[o].mover = None
        BY <3>1, <3>3, ClickedFields
      <3>5. Quiet(o, st'[o])
        BY <3>2, <3>4 DEF Quiet, IsDigital
      <3> QED
        BY <2>0, <3>2, <3>4, <3>5 DEF Shown
    <2>3. CASE st'[o] = st[o]
      BY <2>3 DEF HoldInv
    <2> QED
      BY <1>0, <2>1, <2>2, <2>3 DEF OthersMoved
  <1> QED
    BY <1>1, <1>2 DEF Eventful

\* When the finger of e is lifted, the buttons it pressed are released.
LEMMA LiftedHolds ==
    ASSUME TypeInv, HoldInv, NEW e \in elements, IsDigital(e), NEW s \in Fields, ~s.pressed,
           NEW under, MoveOver(e, s, {e}, under)
    PROVE  Ended(e)
  <1> e \in Ids /\ st \in [Ids -> Fields]
    BY WorldIds DEF TypeInv, FieldsTyped
  <1>1. Quiet(e, st'[e])
    <2>1. st'[e] = Unclicked(s)
      BY MoveOverFields
    <2> QED
      BY <2>1, ClickedFields DEF Quiet, IsDigital
  <1>2. ASSUME NEW o \in Ids \ {e}
        PROVE  Quiet(o, st'[o]) \/ (st'[o] = st[o] /\ st[o].mover # e)
    <2>0. st[o] \in Fields /\ s.pressed = FALSE
      BY DEF Fields
    <2>1. o \notin SlidOn(e, s, under)
      BY <2>0 DEF SlidOn, Slid
    <2>2. CASE /\ o \in SlidOff(e, s, under)
               /\ st'[o] = Unclicked([st[o] EXCEPT !.pressed = FALSE, !.mover = None])
      <3>1. [st[o] EXCEPT !.pressed = FALSE, !.mover = None] \in Fields
        BY <2>0 DEF Fields
      <3>2. ~st'[o].down /\ IsDigital(o)
        BY <2>2, <3>1, ClickedFields DEF SlidOff, Others
      <3> QED
        BY <3>2 DEF Quiet, IsDigital
    <2>3. CASE o \notin SlidOff(e, s, under) /\ st'[o] = st[o]
      <3>1. Shown(o, st[o])
        BY DEF HoldInv
      <3>2. CASE o \notin elements
        BY <2>3, <3>2 DEF HoldInv
      <3>3. CASE o \in elements /\ st[o].mover = e
        <4>1. IsDigital(o)
          BY <3>1, <3>3 DEF Shown
        <4>2. ~Slid(o, e, s.pressed, under)
          BY <2>0, <3>3 DEF Slid
        <4>3. ~st[o].pressed
          BY <2>3, <3>3, <4>1, <4>2 DEF SlidOff, Others
        <4>4. ~st[o].down
          BY <3>1, <4>1, <4>3 DEF Shown
        <4> QED
          BY <2>3, <4>1, <4>4 DEF Quiet, IsDigital
      <3>4. CASE st[o].mover # e
        BY <2>3, <3>4
      <3> QED
        BY <3>2, <3>3, <3>4
    <2>4. OthersMoved(e, s, under)
      BY MoveOverFields
    <2> QED
      BY <2>1, <2>2, <2>3, <2>4 DEF OthersMoved
  <1> QED
    BY <1>1, <1>2 DEF Ended

LEMMA DigitalHolds ==
    ASSUME TypeInv, HoldInv, NEW e \in elements, NEW action, DigitalEvent(e, action)
    PROVE  Eventful(e) /\ (action \in {"up", "cancel"} => Ended(e))
  <1> e \in Ids /\ st \in [Ids -> Fields] /\ IsDigital(e) /\ st[e] \in Fields /\ Shown(e, st[e])
    BY WorldIds DEF TypeInv, FieldsTyped, DigitalEvent, HoldInv
  <1>1. CASE action = "down" /\ Listeners({e}, {}, [st EXCEPT ![e].mover = None, ![e].pressed = TRUE])
    <2> DEFINE v == [st EXCEPT ![e].mover = None, ![e].pressed = TRUE]
    <2>1. v \in [Ids -> Fields]
      BY TouchedTyped DEF TypeInv
    <2>2. /\ v[e].pressed = TRUE /\ v[e].mover = None /\ \A o \in Ids \ {e} : v[o] = st[o]
          /\ KindOf[e] = "display" /\ v[e].down => v[e].active # 0
      BY DEF Fields, Shown
    <2>3. Listeners({e}, {}, v)
      BY <1>1
    <2> HIDE DEF v
    <2>4. st' = NewFields({e}, {}, v)
      BY <2>1, <2>3, ListenersEffect
    <2>5. st'[e] = Clicked(e, v[e]) /\ \A o \in Ids \ {e} : st'[o] = st[o]
      BY <2>2, <2>4 DEF NewFields
    <2>6. st'[e].pressed = TRUE /\ st'[e].mover = None /\ (KindOf[e] = "display" => st'[e].active # 0)
      BY <2>1, <2>2, <2>5, ClickedFields, ClickedActive
    <2>7. Shown(e, st'[e])
      BY <2>6, VirtualControllerAssumption DEF Shown
    <2> QED
      BY <1>1, <2>5, <2>7 DEF Eventful, HoldInv
  <1>2. ASSUME NEW under, action = "move", MoveOver(e, st[e], {}, under)
        PROVE  Eventful(e)
    BY <1>2, MoveOverHolds
  <1>3. ASSUME NEW under, MoveOver(e, [st[e] EXCEPT !.pressed = FALSE], {e}, under), action \in {"up", "cancel"}
        PROVE  Eventful(e) /\ Ended(e)
    <2> DEFINE s == [st[e] EXCEPT !.pressed = FALSE]
    <2>1. s \in Fields /\ ~s.pressed /\ s.mover = st[e].mover
      BY DEF Fields
    <2>2. MoveOver(e, s, {e}, under)
      BY <1>3
    <2> HIDE DEF s
    <2>3. Ended(e)
      BY <2>1, <2>2, LiftedHolds
    <2>4. st'[e] = Unclicked(s)
      BY <2>1, <2>2, MoveOverFields
    <2>5. ~st'[e].down /\ st'[e].mover = st[e].mover
      BY <2>1, <2>4, ClickedFields
    <2>6. Shown(e, st'[e])
      BY <2>5 DEF Shown
    <2>7. ASSUME NEW o \in Ids \ {e}
          PROVE  /\ Shown(o, st'[o])
                 /\ st'[o] = st[o] \/ (o \in elements /\ (Quiet(o, st'[o]) \/ st'[o].mover = e))
      <3>0. st[o] \in Fields /\ None \notin Ids
        BY VirtualControllerAssumption
      <3>1. o \notin SlidOn(e, s, under)
        BY <2>1, <3>0 DEF SlidOn, Slid, Fields
      <3>2. CASE /\ o \in SlidOff(e, s, under)
                 /\ st'[o] = Unclicked([st[o] EXCEPT !.pressed = FALSE, !.mover = None])
        <4>1. [st[o] EXCEPT !.pressed = FALSE, !.mover = None] \in Fields
              /\ [st[o] EXCEPT !.pressed = FALSE, !.mover = None].mover = None
          BY <3>0 DEF Fields
        <4>2. ~st'[o].down /\ st'[o].mover = None /\ IsDigital(o) /\ o \in elements
          BY <3>2, <4>1, ClickedFields DEF SlidOff, Others
        <4>3. Quiet(o, st'[o])
          BY <4>2 DEF Quiet, IsDigital
        <4> QED
          BY <3>0, <4>2, <4>3 DEF Shown
      <3>3. CASE st'[o] = st[o]
        BY <3>3 DEF HoldInv
      <3>4. OthersMoved(e, s, under)
        BY <2>1, <2>2, MoveOverFields
      <3> QED
        BY <3>1, <3>2, <3>3, <3>4 DEF OthersMoved
    <2> QED
      BY <2>3, <2>6, <2>7 DEF Eventful
  <1>4. CASE action = "pointerUp" /\ UNCHANGED <<elementVars, keys, applied, stored>>
    BY <1>4 DEF elementVars, Eventful, HoldInv
  <1> QED
    BY <1>1, <1>2, <1>3, <1>4 DEF DigitalEvent
\* The end of a step that changes fingers and fields: st' and touches' satisfy
\* the invariant element by element.
LEMMA HoldsAfter ==
    ASSUME elements' \subseteq Ids,
           \A o \in elements' : \/ Quiet(o, st'[o])
                                \/ touches'[o] > 0
                                \/ st'[o].mover \in Ids /\ touches'[st'[o].mover] > 0
                                \/ o \in missed',
           \A o \in Ids \ elements' : Quiet(o, st'[o]),
           \A o \in Ids : Shown(o, st'[o])
    PROVE  HoldInv'
  BY DEF HoldInv, Quiet, Fingered, Shown, IsDigital

\* The finger that causes the event stays on e.
LEMMA TouchingHolds ==
    ASSUME TypeInv, HoldInv, NEW e \in elements, Eventful(e), elements' = elements,
           touches'[e] > 0, \A o \in Ids \ {e} : touches'[o] = touches[o], missed \ {e} \subseteq missed'
    PROVE  HoldInv'
  <1>1. elements' \subseteq Ids
    BY WorldIds DEF TypeInv
  <1>2. ASSUME NEW o \in elements
        PROVE  \/ Quiet(o, st'[o])
               \/ touches'[o] > 0
               \/ st'[o].mover \in Ids /\ touches'[st'[o].mover] > 0
               \/ o \in missed'
    <2>1. CASE o = e \/ st'[o].mover = e \/ Quiet(o, st'[o])
      BY <1>1, <2>1
    <2>2. CASE o # e /\ st'[o] = st[o]
      <3>1. Quiet(o, st[o]) \/ touches[o] > 0 \/ (st[o].mover \in Ids /\ touches[st[o].mover] > 0) \/ o \in missed
        BY DEF HoldInv, Fingered
      <3>2. touches'[o] = touches[o]
        BY <1>1, <2>2
      <3>3. ASSUME st[o].mover \in Ids, touches[st[o].mover] > 0 PROVE touches'[st[o].mover] > 0
        BY <3>3
      <3> QED
        BY <2>2, <3>1, <3>2, <3>3
    <2> QED
      BY <1>1, <2>1, <2>2 DEF Eventful
  <1>3. ASSUME NEW o \in Ids \ elements PROVE Quiet(o, st'[o]) \/ o = e
    BY <1>3 DEF Eventful, HoldInv
  <1> QED
    BY <1>1, <1>2, <1>3, HoldsAfter DEF Eventful

\* The finger that causes the event leaves e.
LEMMA EndedHolds ==
    ASSUME TypeInv, HoldInv, NEW e \in Ids, Eventful(e), Ended(e), elements' = elements,
           \A o \in Ids \ {e} : touches'[o] = touches[o], missed \subseteq missed'
    PROVE  HoldInv'
  <1>1. elements' \subseteq Ids
    BY WorldIds DEF TypeInv
  <1>2. ASSUME NEW o \in elements
        PROVE  \/ Quiet(o, st'[o])
               \/ touches'[o] > 0
               \/ st'[o].mover \in Ids /\ touches'[st'[o].mover] > 0
               \/ o \in missed'
    <2>1. CASE Quiet(o, st'[o])
      BY <2>1
    <2>2. CASE o # e /\ st'[o] = st[o] /\ st[o].mover # e
      <3>1. Quiet(o, st[o]) \/ touches[o] > 0 \/ (st[o].mover \in Ids /\ touches[st[o].mover] > 0) \/ o \in missed
        BY DEF HoldInv, Fingered
      <3>2. touches'[o] = touches[o]
        BY <1>1, <2>2
      <3>3. ASSUME st[o].mover \in Ids, touches[st[o].mover] > 0 PROVE touches'[st[o].mover] > 0
        BY <2>2, <3>3
      <3> QED
        BY <2>2, <3>1, <3>2, <3>3
    <2> QED
      BY <1>1, <2>1, <2>2 DEF Ended
  <1>3. ASSUME NEW o \in Ids \ elements PROVE Quiet(o, st'[o])
    BY <1>3 DEF Ended, HoldInv
  <1> QED
    BY <1>1, <1>2, <1>3, HoldsAfter DEF Eventful

\* Nothing is told to the elements, and the gestures that end are recorded.
LEMMA UntoldHolds ==
    ASSUME TypeInv, HoldInv, st' = st, elements' = elements, missed \subseteq missed',
           \A m \in Ids : touches[m] > 0 =>
               touches'[m] > 0 \/ (m \in missed' /\ \A o \in elements : st[o].mover = m => o \in missed')
    PROVE  HoldInv'
  <1>1. elements' \subseteq Ids
    BY WorldIds DEF TypeInv
  <1>2. ASSUME NEW o \in elements
        PROVE  \/ Quiet(o, st'[o])
               \/ touches'[o] > 0
               \/ st'[o].mover \in Ids /\ touches'[st'[o].mover] > 0
               \/ o \in missed'
    <2>1. Quiet(o, st[o]) \/ touches[o] > 0 \/ (st[o].mover \in Ids /\ touches[st[o].mover] > 0) \/ o \in missed
      BY DEF HoldInv, Fingered
    <2> QED
      BY <1>1, <2>1
  <1> QED
    BY <1>1, <1>2, HoldsAfter DEF HoldInv
\* In the active mode an event reaches the element, in the others it does not.
LEMMA EventHolds ==
    ASSUME TypeInv, HoldInv, NEW e \in elements, NEW action, ElementEvent(e, action)
    PROVE  Eventful(e) /\ (action \in {"up", "cancel"} => Ended(e))
  BY DigitalHolds, RadialHolds, AimHolds, StickHolds DEF ElementEvent

LEMMA Untold ==
    ASSUME NEW e, NEW action, OnTouchEvent(e, action), mode # "Active"
    PROVE  st' = st
  BY DEF OnTouchEvent

LEMMA Told ==
    ASSUME NEW e, NEW action, OnTouchEvent(e, action), mode = "Active"
    PROVE  ElementEvent(e, action)
  BY DEF OnTouchEvent

\* A step that takes a finger to e, moves it there, or lifts another.
LEMMA OnHolds ==
    ASSUME TypeInv, HoldInv, NEW e \in elements, NEW action, OnTouchEvent(e, action), elements' = elements,
           NEW n \in Nat, n > 0, touches' = [touches EXCEPT ![e] = n],
           missed' = missed \/ (mode = "Active" /\ missed' = missed \ {e})
    PROVE  HoldInv'
  <1>1. e \in Ids /\ touches \in [Ids -> Nat]
    BY WorldIds DEF TypeInv, FingersTyped
  <1>2. touches'[e] > 0 /\ \A o \in Ids \ {e} : touches'[o] = touches[o]
    BY <1>1
  <1>3. CASE mode = "Active"
    <2>1. Eventful(e)
      BY <1>3, Told, EventHolds
    <2>2. missed \ {e} \subseteq missed'
      OBVIOUS
    <2> QED
      BY <1>2, <2>1, <2>2, TouchingHolds
  <1>4. CASE mode # "Active"
    <2>1. st' = st /\ missed' = missed
      BY <1>4, Untold
    <2>2. \A m \in Ids : touches[m] > 0 => touches'[m] > 0
      BY <1>2
    <2> QED
      BY <2>1, <2>2, UntoldHolds
  <1> QED
    BY <1>3, <1>4

\* The last finger leaves e.
LEMMA OffHolds ==
    ASSUME TypeInv, HoldInv, NEW e \in elements, NEW action \in {"up", "cancel"}, OnTouchEvent(e, action),
           elements' = elements, touches' = [touches EXCEPT ![e] = 0], GestureEnds(e)
    PROVE  HoldInv'
  <1>1. e \in Ids /\ touches \in [Ids -> Nat]
    BY WorldIds DEF TypeInv, FingersTyped
  <1>2. \A o \in Ids \ {e} : touches'[o] = touches[o]
    BY <1>1
  <1>3. CASE mode = "Active"
    <2>1. Eventful(e) /\ Ended(e)
      BY <1>3, Told, EventHolds
    <2>2. missed \subseteq missed'
      BY <1>3 DEF GestureEnds
    <2> QED
      BY <1>1, <1>2, <2>1, <2>2, EndedHolds
  <1>4. CASE mode # "Active"
    <2>1. st' = st
      BY <1>4, Untold
    <2>2. missed' = missed \cup {e} \cup {o \in elements : st[o].mover = e}
      BY <1>4 DEF GestureEnds
    <2>3. ASSUME NEW m \in Ids, touches[m] > 0
          PROVE  touches'[m] > 0 \/ (m \in missed' /\ \A o \in elements : st[o].mover = m => o \in missed')
      <3>1. CASE m = e
        BY <2>2, <3>1
      <3>2. CASE m # e
        BY <1>2, <2>3, <3>2
      <3> QED
        BY <3>1, <3>2
    <2>4. missed \subseteq missed'
      BY <2>2
    <2> QED
      BY <2>1, <2>3, <2>4, UntoldHolds
  <1> QED
    BY <1>3, <1>4

LEMMA TouchHolds ==
    ASSUME TypeInv, HoldInv, NEW e \in Ids, Touch(e) \/ Slide(e) \/ Lift(e) \/ Cancel(e)
    PROVE  HoldInv'
  <1>1. touches \in [Ids -> Nat] /\ elements' = elements
    BY DEF TypeInv, FingersTyped, Touch, Slide, Lift, Cancel, touchFrame
  <1>2. e \in elements
    BY DEF TypeInv, FingersTyped, Touch, Slide, Lift, Cancel
  <1>3. CASE Touch(e)
    <2>1. touches' = [touches EXCEPT ![e] = touches[e] + 1]
      BY <1>3 DEF Touch
    <2>2. CASE touches[e] = 0
      <3>1. OnTouchEvent(e, "down") /\ missed' = IF mode = "Active" THEN missed \ {e} ELSE missed
        BY <1>3, <2>2 DEF Touch
      <3>2. touches[e] + 1 \in Nat /\ touches[e] + 1 > 0
        BY <2>2
      <3>3. missed' = missed \/ (mode = "Active" /\ missed' = missed \ {e})
        BY <3>1
      <3> QED
        BY <1>1, <1>2, <2>1, <3>1, <3>2, <3>3, OnHolds
    <2>3. CASE touches[e] # 0
      <3>1. st' = st /\ missed' = missed
        BY <1>3, <2>3 DEF Touch
      <3>2. \A m \in Ids : touches[m] > 0 => touches'[m] > 0
        BY <1>1, <2>1
      <3> QED
        BY <1>1, <3>1, <3>2, UntoldHolds
    <2> QED
      BY <2>2, <2>3
  <1>4. CASE Slide(e)
    <2>1. OnTouchEvent(e, "move") /\ touches' = touches /\ missed' = missed /\ touches[e] > 0
      BY <1>4 DEF Slide
    <2>2. touches' = [touches EXCEPT ![e] = touches[e]] /\ touches[e] \in Nat
      BY <1>1, <2>1
    <2> QED
      BY <1>1, <1>2, <2>1, <2>2, OnHolds
  <1>5. CASE Lift(e)
    <2>1. touches' = [touches EXCEPT ![e] = touches[e] - 1] /\ touches[e] \in Nat
      BY <1>1, <1>5 DEF Lift
    <2>2. CASE touches[e] = 1 /\ OnTouchEvent(e, "up") /\ GestureEnds(e)
      <3>1. touches' = [touches EXCEPT ![e] = 0]
        BY <2>1, <2>2
      <3> QED
        BY <1>1, <1>2, <2>2, <3>1, OffHolds
    <2>3. CASE touches[e] > 1 /\ OnTouchEvent(e, "pointerUp") /\ UNCHANGED missed
      <3>1. touches[e] - 1 \in Nat /\ touches[e] - 1 > 0
        BY <2>1, <2>3
      <3> QED
        BY <1>1, <1>2, <2>1, <2>3, <3>1, OnHolds
    <2>4. CASE touches[e] > 1 /\ UNCHANGED <<st, missed>>
      <3>1. \A m \in Ids : touches[m] > 0 => touches'[m] > 0
        BY <1>1, <2>1, <2>4
      <3> QED
        BY <1>1, <2>4, <3>1, UntoldHolds
    <2> QED
      BY <1>5, <2>2, <2>3, <2>4 DEF Lift
  <1>6. CASE Cancel(e)
    <2>1. OnTouchEvent(e, "cancel") /\ GestureEnds(e) /\ touches' = [touches EXCEPT ![e] = 0]
      BY <1>6 DEF Cancel
    <2> QED
      BY <1>1, <1>2, <2>1, OffHolds
  <1> QED
    BY <1>3, <1>4, <1>5, <1>6

LEMMA FreshQuiet ==
    ASSUME NEW e \in Ids
    PROVE  Quiet(e, Fresh) /\ Shown(e, Fresh)
  BY VirtualControllerAssumption DEF Quiet, Shown, Fresh

\* A layout built anew holds nothing.
LEMMA FreshHolds ==
    ASSUME elements' \subseteq Ids, \A e \in Ids : st'[e] = Fresh
    PROVE  HoldInv'
  <1>1. ASSUME NEW e \in Ids PROVE Quiet(e, st'[e]) /\ Shown(e, st'[e])
    BY FreshQuiet
  <1> QED
    BY <1>1, HoldsAfter

\* What Save leaves of an element holds nothing.
Rebound(e) ==
    CASE KindOf[e] = "blank" -> Unclicked(st[e])
      [] KindOf[e] = "display" -> [Released(e) EXCEPT !.next = 2]
      [] OTHER -> Released(e)

LEMMA ReboundQuiet ==
    ASSUME TypeInv, NEW e \in Ids
    PROVE  Quiet(e, Rebound(e)) /\ Rebound(e).mover = st[e].mover /\ (IsDigital(e) => ~Rebound(e).down)
  <1>1. st[e] \in Fields /\ Released(e) \in Fields
    BY ReleasedTyped DEF TypeInv, FieldsTyped
  <1>2. CASE KindOf[e] = "blank"
    BY <1>1, <1>2, ClickedFields DEF Quiet, Rebound
  <1>3. CASE KindOf[e] = "display"
    <2>1. Rebound(e) = [Released(e) EXCEPT !.next = 2]
      BY <1>3 DEF Rebound
    <2>2. Rebound(e).down = Released(e).down /\ Rebound(e).mover = Released(e).mover
      BY <1>1, <2>1 DEF Fields
    <2>3. ~Released(e).down /\ Released(e).mover = st[e].mover
      BY <1>3, ReleasedQuiet DEF Quiet
    <2> QED
      BY <1>3, <2>2, <2>3 DEF Quiet
  <1>4. CASE KindOf[e] \notin {"blank", "display"}
    <2>1. Rebound(e) = Released(e)
      BY <1>4 DEF Rebound
    <2> QED
      BY <2>1, ReleasedQuiet
  <1> QED
    BY <1>2, <1>3, <1>4

\* A dialog releases what its element holds before it changes or removes it.
LEMMA BindingHolds ==
    ASSUME TypeInv, HoldInv, NEW e \in Ids, NEW inLayout \in BOOLEAN, SaveBinding(e, inLayout)
    PROVE  HoldInv'
  <1>1. elements' = elements /\ touches' = touches /\ elements \subseteq Ids /\ st \in [Ids -> Fields]
    BY WorldIds DEF SaveBinding, TypeInv, FieldsTyped
  <1>2. CASE UNCHANGED <<st, missed>>
    BY <1>1, <1>2, UntoldHolds
  <1> DEFINE s == Rebound(e)
  <1>3. CASE st' = [st EXCEPT ![e] = s] /\ missed' = missed \ {e}
    <2>1. Quiet(e, s) /\ s.mover = st[e].mover /\ (IsDigital(e) => ~s.down)
      BY ReboundQuiet
    <2> HIDE DEF s
    <2>2. st'[e] = s /\ \A o \in Ids \ {e} : st'[o] = st[o]
      BY <1>1, <1>3
    <2>3. Shown(e, s)
      BY <2>1 DEF HoldInv, Shown, IsDigital
    <2>4. ASSUME NEW o \in elements
          PROVE  \/ Quiet(o, st'[o])
                 \/ touches'[o] > 0
                 \/ st'[o].mover \in Ids /\ touches'[st'[o].mover] > 0
                 \/ o \in missed'
      <3>1. CASE o = e
        BY <2>1, <2>2, <3>1
      <3>2. CASE o # e
        BY <1>1, <1>3, <2>2, <3>2 DEF HoldInv, Fingered
      <3> QED
        BY <3>1, <3>2
    <2>5. ASSUME NEW o \in Ids \ elements PROVE Quiet(o, st'[o])
      BY <2>1, <2>2 DEF HoldInv
    <2>6. ASSUME NEW o \in Ids PROVE Shown(o, st'[o])
      BY <2>2, <2>3 DEF HoldInv
    <2> QED
      BY <1>1, <2>4, <2>5, <2>6, HoldsAfter
  <1> QED
    BY <1>2, <1>3 DEF SaveBinding, Rebound

\* The buttons that the finger of a removed element pressed are noted.
LEMMA RemoveHolds ==
    ASSUME TypeInv, HoldInv, NEW e \in Ids, NEW inLayout \in BOOLEAN, RemoveElement(e, inLayout)
    PROVE  HoldInv'
  <1>1. elements \subseteq Ids /\ st \in [Ids -> Fields] /\ touches \in [Ids -> Nat]
    BY WorldIds DEF TypeInv, FieldsTyped, FingersTyped
  <1>2. CASE UNCHANGED <<elements, st, touches, missed>>
    BY <1>1, <1>2, UntoldHolds
  <1>3. ASSUME inLayout PROVE HoldInv'
    <2>1. /\ elements' = elements \ {e}
          /\ st' = [o \in Ids |-> IF o = e THEN Fresh
                                  ELSE IF st[o].mover = e THEN [st[o] EXCEPT !.mover = Gone] ELSE st[o]]
          /\ touches' = [touches EXCEPT ![e] = 0]
          /\ missed' = (missed \ {e}) \cup IF touches[e] = 0 THEN {} ELSE {o \in elements' : st[o].mover = e}
      BY <1>3 DEF RemoveElement
    <2>2. st'[e] = Fresh /\ Quiet(e, st'[e]) /\ Shown(e, st'[e])
      BY <2>1, FreshQuiet
    <2>3. ASSUME NEW o \in Ids \ {e}, st[o].mover = e
          PROVE  /\ Quiet(o, st[o]) => Quiet(o, st'[o])
                 /\ Shown(o, st'[o])
      <3> DEFINE s == [st[o] EXCEPT !.mover = Gone]
      <3>1. s.mover = Gone /\ s.pressed = st[o].pressed /\ s.down = st[o].down /\ s.held = st[o].held /\ s.tilt = st[o].tilt
            /\ s.active = st[o].active
        BY <1>1 DEF Fields
      <3>2. st'[o] = s
        BY <2>1, <2>3
      <3> HIDE DEF s
      <3>3. Shown(o, st[o])
        BY DEF HoldInv
      <3>4. Gone \notin Ids
        BY VirtualControllerAssumption
      <3>5. Shown(o, s)
        BY <3>1, <3>3, <3>4 DEF Shown
      <3>6. Quiet(o, st[o]) => Quiet(o, s)
        BY <3>1 DEF Quiet
      <3> QED
        BY <3>2, <3>5, <3>6
    <2>4. ASSUME NEW o \in Ids \ {e}, st[o].mover # e
          PROVE  st'[o] = st[o] /\ Shown(o, st'[o])
      BY <2>1, <2>4 DEF HoldInv
    <2>5. ASSUME NEW o \in elements'
          PROVE  \/ Quiet(o, st'[o])
                 \/ touches'[o] > 0
                 \/ st'[o].mover \in Ids /\ touches'[st'[o].mover] > 0
                 \/ o \in missed'
      <3>1. o \in elements /\ o \in Ids \ {e} /\ touches'[o] = touches[o] /\ (o \in missed => o \in missed')
        BY <1>1, <2>1
      <3>2. Quiet(o, st[o]) \/ touches[o] > 0 \/ (st[o].mover \in Ids /\ touches[st[o].mover] > 0) \/ o \in missed
        BY <3>1 DEF HoldInv, Fingered
      <3>3. CASE st[o].mover = e
        <4>1. touches[e] > 0 => o \in missed'
          BY <2>1, <3>1, <3>3
        <4> QED
          BY <2>3, <3>1, <3>2, <3>3, <4>1
      <3>4. CASE st[o].mover # e
        <4>1. ASSUME st[o].mover \in Ids, touches[st[o].mover] > 0 PROVE touches'[st[o].mover] > 0
          BY <1>1, <2>1, <3>4, <4>1
        <4> QED
          BY <2>4, <3>1, <3>2, <3>4, <4>1
      <3> QED
        BY <3>3, <3>4
    <2>6. ASSUME NEW o \in Ids \ elements' PROVE Quiet(o, st'[o])
      <3>1. CASE o = e
        BY <2>2, <3>1
      <3>2. CASE o # e
        <4>1. Quiet(o, st[o])
          BY <2>1, <3>2 DEF HoldInv
        <4> QED
          BY <2>3, <2>4, <3>2, <4>1
      <3> QED
        BY <3>1, <3>2
    <2>7. \A o \in Ids : Shown(o, st'[o])
      BY <2>2, <2>3, <2>4
    <2>8. elements' \subseteq Ids
      BY <1>1, <2>1
    <2> QED
      BY <2>5, <2>6, <2>7, <2>8, HoldsAfter
  <1> QED
    BY <1>2, <1>3 DEF RemoveElement

\* An element that is added was quiet outside the layout.
LEMMA AddHolds ==
    ASSUME TypeInv, HoldInv, NEW e \in Ids, Add(e)
    PROVE  HoldInv'
  <1>1. elements \subseteq Ids /\ elements' = elements \cup {e} /\ e \notin elements
        /\ UNCHANGED <<st, touches, missed>>
    BY WorldIds DEF TypeInv, Add, elementVars, inputVars
  <1>2. Quiet(e, st'[e])
    BY <1>1 DEF HoldInv
  <1>3. elements' \subseteq Ids
    BY <1>1
  <1>4. ASSUME NEW o \in elements'
        PROVE  \/ Quiet(o, st'[o])
               \/ touches'[o] > 0
               \/ st'[o].mover \in Ids /\ touches'[st'[o].mover] > 0
               \/ o \in missed'
    BY <1>1, <1>2 DEF HoldInv, Fingered
  <1>5. ASSUME NEW o \in Ids \ elements' PROVE Quiet(o, st'[o])
    BY <1>1 DEF HoldInv
  <1>6. \A o \in Ids : Shown(o, st'[o])
    BY <1>1 DEF HoldInv
  <1> QED
    BY <1>3, <1>4, <1>5, <1>6, HoldsAfter

\* hide() leaves nothing held.
LEMMA StopHolds ==
    ASSUME TypeInv, HoldInv, Stop
    PROVE  HoldInv'
  <1>1. /\ elements \subseteq Ids /\ elements' = elements
        /\ st' = [e \in Ids |-> IF e \in elements THEN Released(e) ELSE st[e]]
    BY WorldIds DEF TypeInv, Stop
  <1>2. ASSUME NEW o \in Ids PROVE Quiet(o, st'[o]) /\ Shown(o, st'[o])
    <2>1. Shown(o, st[o])
      BY DEF HoldInv
    <2>2. CASE o \in elements
      <3>1. st'[o] = Released(o)
        BY <1>1, <2>2
      <3>2. Quiet(o, Released(o)) /\ Released(o).mover = st[o].mover /\ (IsDigital(o) => ~Released(o).down)
        BY ReleasedQuiet
      <3> QED
        BY <2>1, <3>1, <3>2 DEF Shown, IsDigital
    <2>3. CASE o \notin elements
      BY <1>1, <2>1, <2>3 DEF HoldInv
    <2> QED
      BY <2>2, <2>3
  <1> QED
    BY <1>1, <1>2, HoldsAfter

LEMMA HoldNext == TypeInv /\ TypeInv' /\ HoldInv /\ [Next]_vars => HoldInv'
  <1> SUFFICES ASSUME TypeInv, TypeInv', HoldInv, [Next]_vars PROVE HoldInv'
    OBVIOUS
  <1>0. elements' \subseteq Ids
    <2>1. world' \in Worlds /\ elements' \subseteq world'.ids
      BY DEF TypeInv, WorldTyped
    <2>2. world' \in [ids : SUBSET Ids, profiles : SUBSET Profiles, fingers : Nat, moves : BOOLEAN]
      BY <2>1, VirtualControllerAssumption
    <2> QED
      BY <2>1, <2>2
  <1>1. CASE UNCHANGED <<elements, st, touches, missed>>
    BY <1>1, UntoldHolds
  <1>2. ASSUME NEW e \in Ids, Touch(e) \/ Slide(e) \/ Lift(e) \/ Cancel(e) PROVE HoldInv'
    BY <1>2, TouchHolds
  <1>3. ASSUME NEW e \in Ids, Add(e) PROVE HoldInv'
    BY <1>3, AddHolds
  <1>4. ASSUME NEW e \in Ids, NEW inLayout \in BOOLEAN, SaveBinding(e, inLayout) \/ RemoveElement(e, inLayout)
        PROVE  HoldInv'
    BY <1>4, BindingHolds, RemoveHolds
  <1>5. CASE (\E p \in Profiles : SwitchProfile(p) \/ CreateProfile(p)) \/ DeleteProfile \/ ConfigurationChanged \/ Relaunch
    <2>1. \A e \in Ids : st'[e] = Fresh
      BY <1>5 DEF SwitchProfile, CreateProfile, DeleteProfile, ConfigurationChanged, Relaunch, Refresh
    <2> QED
      BY <1>0, <2>1, FreshHolds
  <1>6. CASE Stop
    BY <1>6, StopHolds
  <1>7. CASE UNCHANGED vars \/ (\E d \in dialogs : DismissDialog(d)) \/ PulseEnds \/ Configure
    <2>1. UNCHANGED <<elements, st, touches, missed>>
      BY <1>7 DEF vars, elementVars, inputVars, DismissDialog, PulseEnds, Configure
    <2> QED
      BY <1>1, <2>1
  <1> QED
    BY <1>2, <1>3, <1>4, <1>5, <1>6, <1>7 DEF Next

LEMMA HoldInit == Init => HoldInv
  <1> SUFFICES ASSUME Init PROVE HoldInv
    OBVIOUS
  <1>1. elements \subseteq Ids /\ \A e \in Ids : st[e] = Fresh
    BY TypeInit, WorldIds DEF Init, TypeInv
  <1> QED
    BY <1>1, FreshQuiet DEF HoldInv

LEMMA HoldsWhat == TypeInv /\ HoldInv => HoldsTouched
  <1> SUFFICES ASSUME TypeInv, HoldInv, NEW e \in elements
               PROVE  \/ Holding(e) = {}
                      \/ touches[e] > 0
                      \/ st[e].mover \in Ids /\ touches[st[e].mover] > 0
                      \/ e \in missed
    BY DEF HoldsTouched
  <1>1. e \in Ids
    BY WorldIds DEF TypeInv
  <1>2. CASE Quiet(e, st[e])
    BY <1>2, QuietHolds DEF Holding
  <1> QED
    BY <1>2 DEF HoldInv, Fingered

\* No element holds a key unless a finger is on it or is where it slid from,
\* whatever was lifted, cancelled, slid over, rebound, removed or rebuilt, except
\* for the gestures that ended in a configuration mode.
THEOREM NothingHeld == Spec => []HoldsTouched
  BY TypeInit, TypeNext, HoldInit, HoldNext, HoldsWhat, PTL DEF Spec

-----------------------------------------------------------------------------
(* How often a key is held *)

\* The host has the keys down that are counted, and `t' is the count of each.
Right(k, t) == k.refs = t /\ k.host = {c \in Codes : t[c] > 0}

\* A key is counted in A, the places that elements hold, and in P, those of pulses.
Total(A, P) == [c \in Codes |-> Times(c, A) + Times(c, P)]

LEMMA TimesNat ==
    ASSUME NEW H, IsFiniteSet(H), NEW c
    PROVE  Times(c, H) \in Nat
  <1>1. {h \in H : h.key = c} \in SUBSET H
    OBVIOUS
  <1> QED
    BY <1>1, FS_Subset, FS_CardinalityType DEF Times

LEMMA TimesEmpty ==
    ASSUME NEW c
    PROVE  Times(c, {}) = 0
  <1>1. {h \in {} : h.key = c} = {}
    OBVIOUS
  <1> QED
    BY <1>1, FS_EmptySet DEF Times

LEMMA TimesUnion ==
    ASSUME NEW A, NEW B, IsFiniteSet(A), IsFiniteSet(B), A \cap B = {}, NEW c
    PROVE  Times(c, A \cup B) = Times(c, A) + Times(c, B)
  <1> DEFINE a == {h \in A : h.key = c}
             b == {h \in B : h.key = c}
  <1>1. IsFiniteSet(a) /\ IsFiniteSet(b)
    BY FS_Subset, a \in SUBSET A, b \in SUBSET B
  <1>2. {h \in A \cup B : h.key = c} = a \cup b /\ a \cap b = {}
    OBVIOUS
  <1>3. Times(c, A) = Cardinality(a) /\ Times(c, B) = Cardinality(b) /\ Times(c, A \cup B) = Cardinality(a \cup b)
    BY <1>2 DEF Times
  <1> HIDE DEF a, b
  <1>4. Cardinality(a \cup b) = Cardinality(a) + Cardinality(b) - Cardinality(a \cap b)
    BY <1>1, FS_Union
  <1>5. Cardinality(a) \in Nat /\ Cardinality(b) \in Nat /\ Cardinality(a \cap b) = 0
    BY <1>1, <1>2, FS_CardinalityType, FS_EmptySet
  <1> QED
    BY <1>3, <1>4, <1>5

\* Taking a part away takes its count away.
LEMMA TimesWithout ==
    ASSUME NEW A, IsFiniteSet(A), NEW X \in SUBSET A, NEW c
    PROVE  Times(c, A) = Times(c, A \ X) + Times(c, X)
  <1>1. IsFiniteSet(X) /\ IsFiniteSet(A \ X)
    BY FS_Subset, X \in SUBSET A, (A \ X) \in SUBSET A
  <1>2. A = (A \ X) \cup X /\ (A \ X) \cap X = {}
    OBVIOUS
  <1> QED
    BY <1>1, <1>2, TimesUnion

\* One release of each place in X takes them from the count.
LEMMA UpCounted ==
    ASSUME NEW k, NEW t, NEW u \in [Codes -> Nat], NEW X, IsFiniteSet(X), Right(k, t),
           \A c \in Codes : t[c] = u[c] + Times(c, X)
    PROVE  Right(Up(k, X), u)
  <1> DEFINE left(c) == IF Times(c, X) > k.refs[c] THEN 0 ELSE k.refs[c] - Times(c, X)
  <1>1. ASSUME NEW c \in Codes PROVE left(c) = u[c] /\ k.refs[c] \in Nat /\ u[c] \in Nat /\ u[c] <= k.refs[c]
    <2>1. Times(c, X) \in Nat /\ u[c] \in Nat /\ k.refs[c] = u[c] + Times(c, X)
      BY TimesNat DEF Right
    <2> QED
      BY <2>1
  <1>2. k.host = {c \in Codes : k.refs[c] > 0}
    BY DEF Right
  <1>3. Up(k, X).refs = [c \in Codes |-> left(c)] /\ Up(k, X).host = k.host \ {c \in Codes : k.refs[c] > 0 /\ left(c) = 0}
    BY DEF Up
  <1> HIDE DEF left
  <1>4. Up(k, X).refs = u /\ Up(k, X).host = {c \in Codes : u[c] > 0}
    BY <1>1, <1>2, <1>3
  <1> QED
    BY <1>4 DEF Right

LEMMA UpRight ==
    ASSUME NEW k, NEW A, NEW P, IsFiniteSet(A), IsFiniteSet(P), Right(k, Total(A, P)), NEW X \in SUBSET A
    PROVE  Right(Up(k, X), Total(A \ X, P))
  <1> DEFINE B == A \ X
             t == Total(A, P)
             u == Total(B, P)
  <1>1. IsFiniteSet(X) /\ IsFiniteSet(B)
    BY FS_Subset, X \in SUBSET A, B \in SUBSET A
  <1>2. \A c \in Codes : Times(c, A) = Times(c, B) + Times(c, X)
    BY TimesWithout
  <1> HIDE DEF B
  <1>3. \A c \in Codes : Times(c, B) \in Nat /\ Times(c, X) \in Nat /\ Times(c, P) \in Nat
    BY <1>1, TimesNat
  <1>4. /\ u \in [Codes -> Nat]
        /\ \A c \in Codes : u[c] = Times(c, B) + Times(c, P) /\ t[c] = (Times(c, B) + Times(c, X)) + Times(c, P)
    BY <1>2, <1>3 DEF Total
  <1> HIDE DEF t, u
  <1>5. \A c \in Codes : t[c] = u[c] + Times(c, X)
    BY <1>3, <1>4
  <1>6. Right(k, t)
    BY DEF t
  <1>7. Right(Up(k, X), u)
    BY <1>1, <1>4, <1>5, <1>6, UpCounted
  <1> QED
    BY <1>7 DEF u, B

\* One press of each place in Y adds them.
LEMMA DownRight ==
    ASSUME NEW k, NEW t \in [Codes -> Nat], Right(k, t), NEW Y, IsFiniteSet(Y), NEW r,
           r = [c \in Codes |-> t[c] + Times(c, Y)]
    PROVE  Right(Down(k, Y), r)
  <1>1. \A c \in Codes : Times(c, Y) \in Nat /\ t[c] \in Nat /\ r[c] = t[c] + Times(c, Y)
    BY TimesNat
  <1>2. k.refs = t /\ k.host = {c \in Codes : t[c] > 0}
    BY DEF Right
  <1>3. Down(k, Y).refs = r /\ Down(k, Y).host = k.host \cup {c \in Codes : t[c] = 0 /\ Times(c, Y) > 0}
    BY <1>2 DEF Down
  <1>4. k.host \cup {c \in Codes : t[c] = 0 /\ Times(c, Y) > 0} = {c \in Codes : r[c] > 0}
    BY <1>1, <1>2
  <1> QED
    BY <1>3, <1>4 DEF Right

LEMMA HoldRight ==
    ASSUME NEW k, NEW A, NEW P, IsFiniteSet(A), IsFiniteSet(P), Right(k, Total(A, P)),
           NEW Y, IsFiniteSet(Y), A \cap Y = {}
    PROVE  Right(Down(k, Y), Total(A \cup Y, P))
  <1> DEFINE t == Total(A, P)
  <1>1. \A c \in Codes : Times(c, A) \in Nat /\ Times(c, P) \in Nat /\ Times(c, Y) \in Nat
    BY TimesNat
  <1>2. t \in [Codes -> Nat] /\ \A c \in Codes : t[c] = Times(c, A) + Times(c, P)
    BY <1>1 DEF Total
  <1>3. \A c \in Codes : Times(c, A \cup Y) + Times(c, P) = t[c] + Times(c, Y)
    BY <1>1, <1>2, TimesUnion
  <1>4. Total(A \cup Y, P) = [c \in Codes |-> t[c] + Times(c, Y)]
    BY <1>3 DEF Total
  <1> HIDE DEF t
  <1>5. Right(k, t)
    BY DEF t
  <1> QED
    BY <1>2, <1>4, <1>5, DownRight

\* The places X are let go and the places Y taken.
LEMMA MoveRight ==
    ASSUME NEW k, NEW A, NEW P, IsFiniteSet(A), IsFiniteSet(P), Right(k, Total(A, P)),
           NEW X \in SUBSET A, NEW Y, IsFiniteSet(Y), (A \ X) \cap Y = {}
    PROVE  Right(Down(Up(k, X), Y), Total((A \ X) \cup Y, P))
  <1>1. IsFiniteSet(A \ X)
    BY FS_Subset, (A \ X) \in SUBSET A
  <1>2. Right(Up(k, X), Total(A \ X, P))
    BY UpRight
  <1> QED
    BY <1>1, <1>2, HoldRight

-----------------------------------------------------------------------------
(* The places of a binding *)

LEMMA PlacesFinite ==
    ASSUME NEW T, NEW codes \in Seq(T), NEW e, NEW n
    PROVE  IsFiniteSet(Places(e, n, codes))
  <1> DEFINE at == [i \in DOMAIN codes |-> [of |-> e, part |-> n, place |-> i, key |-> codes[i]]]
  <1>1. DOMAIN codes = 1 .. Len(codes) /\ Len(codes) \in Nat
    OBVIOUS
  <1>2. IsFiniteSet(DOMAIN codes)
    BY <1>1, FS_Interval
  <1>3. Places(e, n, codes) = {at[i] : i \in DOMAIN codes}
    BY DEF Places
  <1>4. at \in [DOMAIN codes -> Places(e, n, codes)]
    BY DEF Places
  <1> HIDE DEF at
  <1>5. at \in Surjection(DOMAIN codes, Places(e, n, codes))
    BY <1>3, <1>4 DEF Surjection
  <1> QED
    BY <1>2, <1>5, FS_Surjection

\* A place belongs to its element and its binding.
LEMMA PlacesOf ==
    ASSUME NEW e, NEW n, NEW codes, NEW h \in Places(e, n, codes)
    PROVE  h.of = e /\ h.part = n /\ h.place \in DOMAIN codes /\ h.key = codes[h.place]
  BY DEF Places

\* Whose place it is does not matter for the count.
LEMMA TimesPlaces ==
    ASSUME NEW T, NEW codes \in Seq(T), NEW e, NEW n, NEW o, NEW m, NEW c
    PROVE  Times(c, Places(e, n, codes)) = Times(c, Places(o, m, codes))
  <1> DEFINE S == {h \in Places(e, n, codes) : h.key = c}
             R == {h \in Places(o, m, codes) : h.key = c}
             f == [h \in S |-> [of |-> o, part |-> m, place |-> h.place, key |-> h.key]]
  <1>1. IsFiniteSet(S)
    BY PlacesFinite, FS_Subset, S \in SUBSET Places(e, n, codes)
  <1>2. f \in [S -> R]
    BY PlacesOf DEF Places
  <1>3. ASSUME NEW a \in S, NEW b \in S, f[a] = f[b] PROVE a = b
    <2>1. a.place = b.place
      BY <1>3
    <2>2. PICK i \in DOMAIN codes : a = [of |-> e, part |-> n, place |-> i, key |-> codes[i]]
      BY DEF Places
    <2>3. PICK j \in DOMAIN codes : b = [of |-> e, part |-> n, place |-> j, key |-> codes[j]]
      BY DEF Places
    <2> QED
      BY <2>1, <2>2, <2>3
  <1>4. ASSUME NEW r \in R PROVE \E s \in S : f[s] = r
    <2>1. PICK i \in DOMAIN codes : r = [of |-> o, part |-> m, place |-> i, key |-> codes[i]]
      BY DEF Places
    <2>2. [of |-> e, part |-> n, place |-> i, key |-> codes[i]] \in S
      BY <2>1 DEF Places
    <2>3. f[[of |-> e, part |-> n, place |-> i, key |-> codes[i]]] = r
      BY <2>1, <2>2
    <2> QED
      BY <2>2, <2>3
  <1>5. S = {h \in Places(e, n, codes) : h.key = c} /\ R = {h \in Places(o, m, codes) : h.key = c}
    OBVIOUS
  <1> HIDE DEF S, R, f
  <1>6. f \in Bijection(S, R)
    BY <1>2, <1>3, <1>4 DEF Bijection, Injection, Surjection, IsInjective
  <1>7. ExistsBijection(S, R)
    BY <1>6 DEF ExistsBijection
  <1>8. Cardinality(S) = Cardinality(R)
    BY <1>1, <1>7, FS_Bijection
  <1> QED
    BY <1>5, <1>8 DEF Times

-----------------------------------------------------------------------------
(* What the elements hold *)

\* The configuration c has the bindings that an element like e uses.
Sized(e, c) == Len(c.items) >= Bindings(KindOf[e])

\* What elements S hold with the configurations g and the fields f
HeldIn(S, g, f) == UNION {HoldingOf(e, g[e], f[e]) : e \in S}

LEMMA HeldNow ==
    HeldBy(elements) = HeldIn(elements, conf, st) /\ HeldBy(elements)' = HeldIn(elements', conf', st')
  BY DEF HeldBy, HeldIn, Holding

\* What an element holds are places of its own.
LEMMA HoldingIts ==
    ASSUME NEW e, NEW c, NEW s, NEW h \in HoldingOf(e, c, s)
    PROVE  h.of = e
  <1>1. ASSUME NEW n, NEW codes, h \in Places(e, n, codes) PROVE h.of = e
    BY <1>1, PlacesOf
  <1>2. CASE KindOf[e] = "radial"
    BY <1>1, <1>2 DEF HoldingOf
  <1>3. CASE KindOf[e] = "stick"
    <2>1. PICK d \in s.tilt : h \in Places(e, d, c.items[d])
      BY <1>3 DEF HoldingOf
    <2> QED
      BY <1>1, <2>1
  <1>4. CASE KindOf[e] = "display"
    <2>1. h \in Places(e, 0, Shortcut) \/ h \in Places(e, s.active, c.items[s.active])
      BY <1>4 DEF HoldingOf
    <2> QED
      BY <1>1, <2>1
  <1>5. CASE KindOf[e] \notin {"radial", "stick", "display"}
    <2>1. h \in Places(e, 1, c.items[1])
      BY <1>5 DEF HoldingOf
    <2> QED
      BY <1>1, <2>1
  <1> QED
    BY <1>2, <1>3, <1>4, <1>5

LEMMA HeldAt ==
    ASSUME NEW S, NEW g, NEW f, NEW h
    PROVE  h \in HeldIn(S, g, f) <=> h.of \in S /\ h \in HoldingOf(h.of, g[h.of], f[h.of])
  <1>1. ASSUME h \in HeldIn(S, g, f)
        PROVE  h.of \in S /\ h \in HoldingOf(h.of, g[h.of], f[h.of])
    <2>1. PICK e \in S : h \in HoldingOf(e, g[e], f[e])
      BY <1>1 DEF HeldIn
    <2>2. h.of = e
      BY <2>1, HoldingIts
    <2> QED
      BY <2>1, <2>2
  <1>2. ASSUME h.of \in S, h \in HoldingOf(h.of, g[h.of], f[h.of])
        PROVE  h \in HeldIn(S, g, f)
    BY <1>2 DEF HeldIn
  <1> QED
    BY <1>1, <1>2

LEMMA HoldingFinite ==
    ASSUME NEW e \in Ids, NEW c \in Confs, Sized(e, c), NEW s \in Fields, Shown(e, s)
    PROVE  IsFiniteSet(HoldingOf(e, c, s))
  <1>1. KindOf[e] \in Kinds /\ c.items \in Seq(Seq(Codes)) /\ Len(c.items) >= Bindings(KindOf[e])
    BY VirtualControllerAssumption DEF Confs, Sized
  <1>2. ASSUME NEW n \in Nat, 1 <= n, n <= Bindings(KindOf[e])
        PROVE  c.items[n] \in Seq(Codes)
    <2>1. Bindings(KindOf[e]) \in Nat
      BY DEF Bindings
    <2>2. n \in 1 .. Len(c.items)
      BY <1>1, <1>2, <2>1
    <2> QED
      BY <1>1, <2>2
  <1>3. CASE KindOf[e] = "radial"
    <2>1. s.held \in Seq(Codes)
      BY DEF Fields
    <2>2. HoldingOf(e, c, s) = Places(e, 0, s.held)
      BY <1>3 DEF HoldingOf
    <2> QED
      BY <2>1, <2>2, PlacesFinite
  <1>4. CASE KindOf[e] = "stick"
    <2> DEFINE f == [d \in s.tilt |-> Places(e, d, c.items[d])]
               T == {Places(e, d, c.items[d]) : d \in s.tilt}
    <2>1. s.tilt \subseteq 1 .. 4
      BY DEF Fields, Tilts
    <2>2. IsFiniteSet(1 .. 4)
      <3>1. 1 \in Int /\ 4 \in Int
        OBVIOUS
      <3> QED
        BY <3>1, FS_Interval
    <2>3. IsFiniteSet(s.tilt)
      BY <2>1, <2>2, FS_Subset
    <2>4. f \in Surjection(s.tilt, T)
      BY DEF Surjection
    <2>5. IsFiniteSet(T)
      BY <2>3, <2>4, FS_Surjection
    <2>6. ASSUME NEW d \in s.tilt PROVE IsFiniteSet(Places(e, d, c.items[d]))
      <3>1. d \in Nat /\ 1 <= d /\ d <= 4
        BY <2>1
      <3>2. c.items[d] \in Seq(Codes)
        BY <1>2, <1>4, <3>1 DEF Bindings
      <3> QED
        BY <3>2, PlacesFinite
    <2>7. HoldingOf(e, c, s) = UNION T
      BY <1>4 DEF HoldingOf
    <2>8. \A x \in T : IsFiniteSet(x)
      BY <2>6
    <2> HIDE DEF T
    <2> QED
      BY <2>5, <2>7, <2>8, FS_UNION
  <1>5. CASE KindOf[e] = "display"
    <2>1. Shortcut \in Seq({"ctrl", "alt", "shift"})
      BY DEF Shortcut
    <2>2. CASE s.down
      <3>1. s.active \in Nat /\ 1 <= s.active /\ s.active <= 2
        BY <1>5, <2>2 DEF Fields, Shown
      <3>2. c.items[s.active] \in Seq(Codes)
        BY <1>2, <1>5, <3>1 DEF Bindings
      <3>3. IsFiniteSet(Places(e, 0, Shortcut)) /\ IsFiniteSet(Places(e, s.active, c.items[s.active]))
        BY <2>1, <3>2, PlacesFinite
      <3>4. HoldingOf(e, c, s) = Places(e, 0, Shortcut) \cup Places(e, s.active, c.items[s.active])
        BY <1>5, <2>2 DEF HoldingOf
      <3> QED
        BY <3>3, <3>4, FS_Union
    <2>3. CASE ~s.down
      BY <1>5, <2>3, FS_EmptySet DEF HoldingOf
    <2> QED
      BY <2>2, <2>3
  <1>6. CASE KindOf[e] \in {"button", "blank", "aim"}
    <2>1. c.items[1] \in Seq(Codes)
      BY <1>2, <1>6 DEF Bindings
    <2>2. HoldingOf(e, c, s) \subseteq Places(e, 1, c.items[1])
      BY <1>6 DEF HoldingOf
    <2>3. IsFiniteSet(Places(e, 1, c.items[1]))
      BY <2>1, PlacesFinite
    <2> QED
      BY <2>2, <2>3, FS_Subset
  <1> QED
    BY <1>1, <1>3, <1>4, <1>5, <1>6 DEF Kinds

\* The world has finitely many elements, and so they hold finitely many places.
LEMMA HeldFinite ==
    ASSUME TypeInv, NEW S \in SUBSET elements, NEW f,
           \A e \in S : Sized(e, conf[e]) /\ f[e] \in Fields /\ Shown(e, f[e])
    PROVE  IsFiniteSet(HeldIn(S, conf, f))
  <1>1. IsFiniteSet(elements) /\ elements \subseteq Ids
    <2>1. world \in Worlds /\ elements \subseteq world.ids /\ IsFiniteSet(world.ids)
      BY VirtualControllerAssumption DEF TypeInv, WorldTyped
    <2> QED
      BY <2>1, FS_Subset, WorldIds DEF TypeInv
  <1>2. IsFiniteSet(S)
    BY <1>1, FS_Subset
  <1> DEFINE T == {HoldingOf(e, conf[e], f[e]) : e \in S}
             g == [e \in S |-> HoldingOf(e, conf[e], f[e])]
  <1>3. g \in Surjection(S, T)
    BY DEF Surjection
  <1>4. IsFiniteSet(T)
    BY <1>2, <1>3, FS_Surjection
  <1>5. ASSUME NEW e \in S PROVE IsFiniteSet(HoldingOf(e, conf[e], f[e]))
    <2>1. e \in Ids /\ conf[e] \in Confs
      BY <1>1 DEF TypeInv, FieldsTyped
    <2> QED
      BY <2>1, HoldingFinite
  <1>6. \A x \in T : IsFiniteSet(x)
    BY <1>5
  <1>7. HeldIn(S, conf, f) = UNION T
    BY DEF HeldIn
  <1> HIDE DEF T
  <1> QED
    BY <1>4, <1>6, <1>7, FS_UNION

-----------------------------------------------------------------------------
(* The pulses under way *)

PulsesTyped == pulses \in Seq(Seq(Codes)) /\ Len(pulses) <= MaxPulses

LEMMA PulsesFinite ==
    ASSUME NEW p \in Seq(Seq(Codes))
    PROVE  IsFiniteSet(PulsesOf(p))
  <1> DEFINE T == {Places(None, n, p[n]) : n \in DOMAIN p}
             f == [n \in DOMAIN p |-> Places(None, n, p[n])]
  <1>1. DOMAIN p = 1 .. Len(p) /\ Len(p) \in Nat /\ \A n \in DOMAIN p : p[n] \in Seq(Codes)
    OBVIOUS
  <1>2. IsFiniteSet(DOMAIN p)
    BY <1>1, FS_Interval
  <1>3. f \in Surjection(DOMAIN p, T)
    BY DEF Surjection
  <1>4. IsFiniteSet(T)
    BY <1>2, <1>3, FS_Surjection
  <1>5. \A x \in T : IsFiniteSet(x)
    BY <1>1, PlacesFinite
  <1>6. PulsesOf(p) = UNION T
    BY DEF PulsesOf
  <1> HIDE DEF T
  <1> QED
    BY <1>4, <1>5, <1>6, FS_UNION

LEMMA PulsesAt ==
    ASSUME NEW p, NEW h
    PROVE  h \in PulsesOf(p) <=> h.part \in DOMAIN p /\ h \in Places(None, h.part, p[h.part])
  <1>1. ASSUME h \in PulsesOf(p)
        PROVE  h.part \in DOMAIN p /\ h \in Places(None, h.part, p[h.part])
    <2>1. PICK n \in DOMAIN p : h \in Places(None, n, p[n])
      BY <1>1 DEF PulsesOf
    <2>2. h.part = n
      BY <2>1, PlacesOf
    <2> QED
      BY <2>1, <2>2
  <1>2. ASSUME h.part \in DOMAIN p, h \in Places(None, h.part, p[h.part])
        PROVE  h \in PulsesOf(p)
    BY <1>2 DEF PulsesOf
  <1> QED
    BY <1>1, <1>2

\* A pulse that begins is counted with the others.
LEMMA PulsesAppend ==
    ASSUME NEW p \in Seq(Seq(Codes)), NEW codes \in Seq(Codes), NEW e, NEW n, NEW c
    PROVE  Times(c, PulsesOf(Append(p, codes))) = Times(c, PulsesOf(p)) + Times(c, Places(e, n, codes))
  <1> DEFINE r == Append(p, codes)
             m == Len(p) + 1
             new == Places(None, m, codes)
  <1>1. /\ DOMAIN p = 1 .. Len(p) /\ Len(p) \in Nat /\ DOMAIN r = DOMAIN p \cup {m} /\ m \notin DOMAIN p
        /\ r[m] = codes /\ \A i \in DOMAIN p : r[i] = p[i]
    OBVIOUS
  <1> HIDE DEF r, m
  <1>2. ASSUME NEW h PROVE h \in PulsesOf(r) <=> h \in PulsesOf(p) \/ h \in new
    <2>1. CASE h.part = m
      <3>1. h \notin PulsesOf(p)
        BY <1>1, <2>1, PulsesAt
      <3>2. h \in PulsesOf(r) <=> h \in Places(None, m, codes)
        BY <1>1, <2>1, PulsesAt
      <3> QED
        BY <3>1, <3>2
    <2>2. CASE h.part # m
      <3>1. h \notin new
        BY <2>2, PlacesOf
      <3>2. h \in PulsesOf(r) <=> h.part \in DOMAIN p /\ h \in Places(None, h.part, p[h.part])
        BY <1>1, <2>2, PulsesAt
      <3> QED
        BY <3>1, <3>2, PulsesAt
    <2> QED
      BY <2>1, <2>2
  <1>3. ASSUME NEW h \in new PROVE h \notin PulsesOf(p)
    <2>1. h.part = m
      BY PlacesOf
    <2> QED
      BY <1>1, <2>1, PulsesAt
  <1>4. IsFiniteSet(PulsesOf(p)) /\ IsFiniteSet(new)
    BY PulsesFinite, PlacesFinite
  <1>5. Times(c, new) = Times(c, Places(e, n, codes))
    BY TimesPlaces
  <1> HIDE DEF new
  <1>6. PulsesOf(r) = PulsesOf(p) \cup new /\ PulsesOf(p) \cap new = {}
    BY <1>2, <1>3
  <1>7. Times(c, PulsesOf(r)) = Times(c, PulsesOf(p)) + Times(c, new)
    BY <1>4, <1>6, TimesUnion
  <1> QED
    BY <1>5, <1>7 DEF r

\* The oldest pulse that ends is taken from the count, though the places of the
\* others move up.
LEMMA PulsesTail ==
    ASSUME NEW p \in Seq(Seq(Codes)), p # <<>>, NEW e, NEW n, NEW c
    PROVE  /\ Head(p) \in Seq(Codes) /\ Tail(p) \in Seq(Seq(Codes)) /\ Len(Tail(p)) = Len(p) - 1
           /\ Times(c, PulsesOf(p)) = Times(c, PulsesOf(Tail(p))) + Times(c, Places(e, n, Head(p)))
  <1> DEFINE t == Tail(p)
             old == Places(None, 1, p[1])
             rest == PulsesOf(p) \ old
  <1>1. /\ DOMAIN p = 1 .. Len(p) /\ Len(p) \in Nat /\ Len(p) > 0 /\ 1 \in DOMAIN p
        /\ Head(p) = p[1] /\ p[1] \in Seq(Codes) /\ t \in Seq(Seq(Codes)) /\ Len(t) = Len(p) - 1
    OBVIOUS
  <1>2. /\ DOMAIN t \subseteq Nat
        /\ \A i \in DOMAIN t : i + 1 \in DOMAIN p /\ i + 1 # 1 /\ t[i] = p[i + 1]
        /\ \A i \in DOMAIN p \ {1} : i - 1 \in DOMAIN t /\ t[i - 1] = p[i] /\ (i - 1) + 1 = i
    OBVIOUS
  <1> HIDE DEF t
  <1>3. old \in SUBSET PulsesOf(p)
    BY <1>1 DEF PulsesOf
  <1>4. IsFiniteSet(PulsesOf(p)) /\ IsFiniteSet(PulsesOf(t))
    BY <1>1, PulsesFinite
  <1>5. ASSUME NEW h
        PROVE  h \in rest <=> h.part \in DOMAIN p \ {1} /\ h \in Places(None, h.part, p[h.part])
    <2>1. CASE h.part = 1
      BY <1>1, <2>1, PulsesAt
    <2>2. CASE h.part # 1
      <3>1. h \notin old
        BY <2>2, PlacesOf
      <3> QED
        BY <2>2, <3>1, PulsesAt
    <2> QED
      BY <2>1, <2>2
  <1>6. Times(c, PulsesOf(p)) = Times(c, rest) + Times(c, old)
    BY <1>3, <1>4, TimesWithout
  <1> HIDE DEF rest
  <1>7. Times(c, PulsesOf(t)) = Times(c, rest)
    <2> DEFINE S == {h \in PulsesOf(t) : h.key = c}
               R == {h \in rest : h.key = c}
               f == [h \in S |-> [of |-> None, part |-> h.part + 1, place |-> h.place, key |-> h.key]]
    <2>1. IsFiniteSet(S)
      BY <1>4, FS_Subset, S \in SUBSET PulsesOf(t)
    <2>2. ASSUME NEW h \in S
          PROVE  h.part \in DOMAIN t /\ \E i \in DOMAIN t[h.part] :
                    h = [of |-> None, part |-> h.part, place |-> i, key |-> t[h.part][i]]
      BY PulsesAt DEF Places
    <2>3. ASSUME NEW h \in S PROVE f[h] \in R
      <3>1. PICK i \in DOMAIN t[h.part] : h = [of |-> None, part |-> h.part, place |-> i, key |-> t[h.part][i]]
        BY <2>2
      <3>2. h.part \in DOMAIN t /\ h.key = c
        BY <2>2
      <3> DEFINE g == [of |-> None, part |-> h.part + 1, place |-> i, key |-> t[h.part][i]]
      <3>3. f[h] = g
        <4>1. f[h] = [of |-> None, part |-> h.part + 1, place |-> h.place, key |-> h.key]
          OBVIOUS
        <4>2. h.place = i /\ h.key = t[h.part][i]
          BY <3>1
        <4> QED
          BY <4>1, <4>2
      <3>4. g.part \in DOMAIN p \ {1} /\ p[g.part] = t[h.part] /\ g.key = c
        BY <1>2, <3>1, <3>2
      <3>5. g \in Places(None, g.part, p[g.part])
        BY <3>4 DEF Places
      <3> HIDE DEF g, f
      <3>6. g \in rest
        BY <1>5, <3>4, <3>5
      <3> QED
        BY <3>3, <3>4, <3>6
    <2>4. ASSUME NEW a \in S, NEW b \in S, f[a] = f[b] PROVE a = b
      <3>1. /\ f[a] = [of |-> None, part |-> a.part + 1, place |-> a.place, key |-> a.key]
            /\ f[b] = [of |-> None, part |-> b.part + 1, place |-> b.place, key |-> b.key]
        OBVIOUS
      <3> HIDE DEF f
      <3>2. a.part + 1 = b.part + 1 /\ a.place = b.place /\ a.key = b.key
        <4>1. ASSUME NEW i, NEW j, NEW x, NEW y, NEW u, NEW v,
                     [of |-> None, part |-> i, place |-> x, key |-> u] = [of |-> None, part |-> j, place |-> y, key |-> v]
              PROVE  i = j /\ x = y /\ u = v
          BY <4>1
        <4>2. [of |-> None, part |-> a.part + 1, place |-> a.place, key |-> a.key]
                = [of |-> None, part |-> b.part + 1, place |-> b.place, key |-> b.key]
          BY <2>4, <3>1
        <4> QED
          BY <4>1, <4>2
      <3>3. a.part \in Nat /\ b.part \in Nat
        BY <1>2, <2>2
      <3>4. a.part = b.part
        BY <3>2, <3>3
      <3>5. \E i : a = [of |-> None, part |-> a.part, place |-> i, key |-> t[a.part][i]]
        BY <2>2
      <3>6. \E i : b = [of |-> None, part |-> b.part, place |-> i, key |-> t[b.part][i]]
        BY <2>2
      <3>7. a = [of |-> None, part |-> a.part, place |-> a.place, key |-> a.key]
        BY <3>5
      <3>8. b = [of |-> None, part |-> b.part, place |-> b.place, key |-> b.key]
        BY <3>6
      <3> QED
        BY <3>2, <3>4, <3>7, <3>8
    <2>5. ASSUME NEW r \in R PROVE \E s \in S : f[s] = r
      <3>1. r.part \in DOMAIN p \ {1} /\ r \in Places(None, r.part, p[r.part]) /\ r.key = c
        BY <1>5
      <3>2. PICK i \in DOMAIN p[r.part] : r = [of |-> None, part |-> r.part, place |-> i, key |-> p[r.part][i]]
        BY <3>1 DEF Places
      <3> DEFINE s == [of |-> None, part |-> r.part - 1, place |-> i, key |-> p[r.part][i]]
      <3>3. s.part \in DOMAIN t /\ t[s.part] = p[r.part] /\ s.part + 1 = r.part
        BY <1>2, <3>1
      <3>4. s \in Places(None, s.part, t[s.part])
        BY <3>2, <3>3 DEF Places
      <3>5. s \in S
        <4>1. s.key = r.key
          BY <3>2
        <4> QED
          BY <3>1, <3>3, <3>4, <4>1, PulsesAt
      <3>6. f[s] = r
        <4>1. f[s] = [of |-> None, part |-> s.part + 1, place |-> s.place, key |-> s.key]
          BY <3>5
        <4>2. s.place = i /\ s.key = p[r.part][i]
          OBVIOUS
        <4> HIDE DEF f, s, S
        <4> QED
          BY <3>2, <3>3, <4>1, <4>2
      <3> QED
        BY <3>5, <3>6
    <2>6. f \in [S -> R]
      BY <2>3
    <2>7. Times(c, PulsesOf(t)) = Cardinality(S) /\ Times(c, rest) = Cardinality(R)
      BY DEF Times
    <2> HIDE DEF S, R, f
    <2>8. f \in Bijection(S, R)
      BY <2>4, <2>5, <2>6 DEF Bijection, Injection, Surjection, IsInjective
    <2>9. Cardinality(S) = Cardinality(R)
      BY <2>1, <2>8, FS_Bijection DEF ExistsBijection
    <2> QED
      BY <2>7, <2>9
  <1>8. Times(c, old) = Times(c, Places(e, n, Head(p)))
    BY <1>1, TimesPlaces
  <1> QED
    BY <1>1, <1>6, <1>7, <1>8 DEF t

\* A pulse that ends is released.
LEMMA PulseEndsRight ==
    ASSUME NEW k, NEW A, NEW P, NEW R, NEW Q, IsFiniteSet(A), IsFiniteSet(R), IsFiniteSet(Q),
           Right(k, Total(A, P)), \A c \in Codes : Times(c, P) = Times(c, R) + Times(c, Q)
    PROVE  Right(Up(k, Q), Total(A, R))
  <1> DEFINE t == Total(A, P)
             u == Total(A, R)
  <1>1. \A c \in Codes : Times(c, A) \in Nat /\ Times(c, R) \in Nat /\ Times(c, Q) \in Nat
    BY TimesNat
  <1>2. /\ u \in [Codes -> Nat]
        /\ \A c \in Codes : u[c] = Times(c, A) + Times(c, R) /\ t[c] = Times(c, A) + (Times(c, R) + Times(c, Q))
    BY <1>1 DEF Total
  <1> HIDE DEF t, u
  <1>3. \A c \in Codes : t[c] = u[c] + Times(c, Q)
    BY <1>1, <1>2
  <1>4. Right(k, t)
    BY DEF t
  <1>5. Right(Up(k, Q), u)
    BY <1>2, <1>3, <1>4, UpCounted
  <1> QED
    BY <1>5 DEF u

\* A pulse that begins is pressed.
LEMMA PulseRight ==
    ASSUME NEW k, NEW A, NEW P, NEW R, NEW Q, IsFiniteSet(A), IsFiniteSet(P), IsFiniteSet(Q),
           Right(k, Total(A, P)), \A c \in Codes : Times(c, R) = Times(c, P) + Times(c, Q)
    PROVE  Right(Down(k, Q), Total(A, R))
  <1> DEFINE t == Total(A, P)
  <1>1. \A c \in Codes : Times(c, A) \in Nat /\ Times(c, P) \in Nat /\ Times(c, Q) \in Nat
    BY TimesNat
  <1>2. t \in [Codes -> Nat] /\ \A c \in Codes : t[c] = Times(c, A) + Times(c, P)
    BY <1>1 DEF Total
  <1>3. \A c \in Codes : Times(c, A) + Times(c, R) = t[c] + Times(c, Q)
    BY <1>1, <1>2
  <1>4. Total(A, R) = [c \in Codes |-> t[c] + Times(c, Q)]
    BY <1>3 DEF Total
  <1> HIDE DEF t
  <1>5. Right(k, t)
    BY DEF t
  <1> QED
    BY <1>2, <1>4, <1>5, DownRight

-----------------------------------------------------------------------------
(* The events *)

\* The configurations on the screen and in the profiles have their bindings.
SizedInv ==
    /\ \A e \in Ids : Sized(e, conf[e])
    /\ \A p \in Profiles : \A e \in DOMAIN stored[p] : Sized(e, stored[p][e])

Held == HeldIn(elements, conf, st)
Pulsing == PulsesOf(pulses)
KeysInv == Right(keys, Total(Held, Pulsing))
Counted == TypeInv /\ HoldInv /\ SizedInv /\ PulsesTyped /\ KeysInv

LEMMA CountedFinite ==
    ASSUME Counted
    PROVE  IsFiniteSet(Held) /\ IsFiniteSet(Pulsing)
  <1>1. \A e \in elements : Sized(e, conf[e]) /\ st[e] \in Fields /\ Shown(e, st[e])
    BY WorldIds DEF Counted, TypeInv, FieldsTyped, HoldInv, SizedInv
  <1>2. elements \in SUBSET elements /\ TypeInv
    BY DEF Counted
  <1>3. IsFiniteSet(Held)
    BY <1>1, <1>2, HeldFinite DEF Held
  <1> QED
    BY <1>3, PulsesFinite DEF Counted, PulsesTyped, Pulsing

\* The fields from which it is known what an element holds
SameHold(s, r) == s.down = r.down /\ s.active = r.active /\ s.held = r.held /\ s.tilt = r.tilt

LEMMA HoldingSame ==
    ASSUME NEW e, NEW c, NEW d, NEW s, NEW r, c.items = d.items, SameHold(s, r)
    PROVE  HoldingOf(e, c, s) = HoldingOf(e, d, r)
  BY DEF HoldingOf, SameHold

\* The keys of the places X are let go and those of Y pressed.
LEMMA Moved ==
    ASSUME Counted, NEW X \in SUBSET Held, NEW Y, IsFiniteSet(Y), (Held \ X) \cap Y = {},
           NEW A, A = (Held \ X) \cup Y
    PROVE  Right(Down(Up(keys, X), Y), Total(A, Pulsing))
  BY CountedFinite, MoveRight DEF Counted, KeysInv

LEMMA LetGo ==
    ASSUME Counted, NEW X \in SUBSET Held
    PROVE  Right(Up(keys, X), Total(Held \ X, Pulsing))
  BY CountedFinite, UpRight DEF Counted, KeysInv

\* The switch that is flipped keeps its keys.
LEMMA FlippedItems ==
    ASSUME TypeInv, NEW P, NEW s, NEW o \in Ids
    PROVE  NewConf(P, s)[o].items = conf[o].items
  <1>1. conf[o] \in Confs
    BY DEF TypeInv, FieldsTyped
  <1>2. \A c \in Confs : \A b : [c EXCEPT !.shooting = b].items = c.items
    BY DEF Confs
  <1> QED
    BY <1>1, <1>2 DEF NewConf

\* The buttons that are clicked press what they hold from now on, those that
\* are released let go what they held.
LEMMA ListenersCounted ==
    ASSUME Counted, NEW P \in SUBSET elements, NEW R \in SUBSET elements, P \cap R = {},
           \A o \in P \cup R : IsDigital(o),
           NEW s \in [Ids -> Fields], \A o \in Ids : SameHold(s[o], st[o]),
           Listeners(P, R, s), \A o \in P : Shown(o, st'[o])
    PROVE  Right(keys', Total(HeldIn(elements, conf', st'), Pulsing))
  <1> DEFINE clicked == {o \in P : ~s[o].down}
             X == HeldIn(R, conf, st)
             Y == HeldIn(clicked, conf, st')
  <1>0. TypeInv /\ elements \subseteq Ids /\ st' = NewFields(P, R, s) /\ conf' = NewConf(P, s)
    BY WorldIds, ListenersEffect DEF Counted, TypeInv
  <1>1. st' \in [Ids -> Fields]
    BY <1>0, ListenersTyped DEF FieldsTyped
  <1>2. /\ \A o \in P : st'[o] = Clicked(o, s[o])
        /\ \A o \in R : st'[o] = Unclicked(s[o])
        /\ \A o \in elements \ (P \cup R) : st'[o] = s[o]
    BY <1>0 DEF NewFields
  <1>3. keys' = Down(Up(keys, X), Y)
    <2>1. HeldBy(R) = X
      BY DEF HeldBy, HeldIn, Holding
    <2>2. UNION {HoldingOf(e, conf[e], NewFields(P, R, s)[e]) : e \in clicked} = Y
      BY <1>0 DEF HeldIn
    <2>3. keys' = Down(Up(keys, HeldBy(R)), UNION {HoldingOf(e, conf[e], NewFields(P, R, s)[e]) : e \in clicked})
      BY DEF Listeners, NewFields
    <2> QED
      BY <2>1, <2>2, <2>3
  <1>4. X \in SUBSET Held
    BY DEF HeldIn, Held
  <1>5. IsFiniteSet(Y)
    <2>1. clicked \in SUBSET elements
      OBVIOUS
    <2>2. \A o \in clicked : Sized(o, conf[o]) /\ st'[o] \in Fields /\ Shown(o, st'[o])
      BY <1>0, <1>1 DEF Counted, SizedInv
    <2> HIDE DEF clicked
    <2> QED
      BY <1>0, <2>1, <2>2, HeldFinite
  <1>6. ASSUME NEW h, NEW o, o = h.of, o \in elements
        PROVE  h \in HoldingOf(o, conf'[o], st'[o]) <=> (h \in Held /\ h \notin X) \/ h \in Y
    <2> o \in Ids /\ st[o] \in Fields /\ s[o] \in Fields
      BY <1>0, <1>6 DEF TypeInv, FieldsTyped
    <2>1. conf'[o].items = conf[o].items
      BY <1>0, FlippedItems
    <2>2. h \in Held <=> h \in HoldingOf(o, conf[o], st[o])
      BY <1>6, HeldAt DEF Held
    <2>3. h \in X <=> o \in R /\ h \in HoldingOf(o, conf[o], st[o])
      BY <1>6, HeldAt
    <2>4. h \in Y <=> o \in clicked /\ h \in HoldingOf(o, conf[o], st'[o])
      BY <1>6, HeldAt
    <2>5. ASSUME SameHold(st'[o], st[o]) PROVE HoldingOf(o, conf'[o], st'[o]) = HoldingOf(o, conf[o], st[o])
      BY <2>1, <2>5, HoldingSame
    <2>6. CASE o \in clicked
      <3>1. Quiet(o, st[o])
        BY <2>6 DEF SameHold, Quiet, IsDigital
      <3>2. HoldingOf(o, conf[o], st[o]) = {}
        BY <3>1, QuietHolds
      <3>3. HoldingOf(o, conf'[o], st'[o]) = HoldingOf(o, conf[o], st'[o])
        BY <2>1, HoldingSame DEF SameHold
      <3> QED
        BY <2>2, <2>3, <2>4, <2>6, <3>2, <3>3
    <2>7. CASE o \in P /\ o \notin clicked
      <3>1. st'[o] = s[o]
        BY <1>2, <2>7 DEF Clicked
      <3>2. SameHold(st'[o], st[o])
        BY <3>1
      <3> QED
        BY <2>2, <2>3, <2>4, <2>5, <2>7, <3>2
    <2>8. CASE o \in R
      <3>1. ~st'[o].down
        BY <1>2, <2>8, ClickedFields
      <3>2. Quiet(o, st'[o])
        BY <2>8, <3>1 DEF Quiet, IsDigital
      <3>3. HoldingOf(o, conf'[o], st'[o]) = {}
        BY <3>2, QuietHolds
      <3> QED
        BY <2>2, <2>3, <2>4, <2>8, <3>3
    <2>9. CASE o \notin P \cup R
      <3>1. SameHold(st'[o], st[o])
        BY <1>2, <1>6, <2>9
      <3> QED
        BY <2>2, <2>3, <2>4, <2>5, <2>9, <3>1
    <2> QED
      BY <2>6, <2>7, <2>8, <2>9
  <1>7. ASSUME NEW h PROVE h \in HeldIn(elements, conf', st') <=> h \in (Held \ X) \cup Y
    <2>1. h \in HeldIn(elements, conf', st') <=> h.of \in elements /\ h \in HoldingOf(h.of, conf'[h.of], st'[h.of])
      BY HeldAt
    <2>2. h \in Held => h.of \in elements
      BY HeldAt DEF Held
    <2>3. h \in Y => h.of \in elements
      BY HeldAt
    <2> HIDE DEF X, Y
    <2> QED
      BY <1>6, <2>1, <2>2, <2>3
  <1>8. HeldIn(elements, conf', st') = (Held \ X) \cup Y
    BY <1>7
  <1>9. (Held \ X) \cap Y = {}
    <2> SUFFICES ASSUME NEW h \in Held, h \in Y PROVE FALSE
      OBVIOUS
    <2>1. h.of \in clicked
      BY HeldAt
    <2>2. Quiet(h.of, st[h.of])
      BY <1>0, <2>1 DEF SameHold, Quiet, IsDigital
    <2> QED
      BY <2>2, HeldAt, QuietHolds DEF Held
  <1> HIDE DEF X, Y
  <1> QED
    BY <1>3, <1>4, <1>5, <1>8, <1>9, Moved

\* The places `before' become those `after': X are let go, and Y are taken.
Changes(before, after, X, Y) ==
    X \subseteq before /\ (before \ X) \cap Y = {} /\ after = (before \ X) \cup Y

\* An event that changes the fields of e alone changes what e holds alone.
LEMMA OwnHeld ==
    ASSUME TypeInv, NEW e \in elements, NEW v, st' = [st EXCEPT ![e] = v], conf' = conf, NEW X, NEW Y,
           Changes(HoldingOf(e, conf[e], st[e]), HoldingOf(e, conf[e], v), X, Y)
    PROVE  Changes(Held, HeldIn(elements, conf', st'), X, Y)
  <1> DEFINE H == HoldingOf(e, conf[e], st[e])
             V == HoldingOf(e, conf[e], v)
  <1>0. e \in Ids /\ elements \subseteq Ids /\ st'[e] = v /\ \A o \in elements \ {e} : st'[o] = st[o]
    BY WorldIds DEF TypeInv, FieldsTyped
  <1>1. X \subseteq H /\ (H \ X) \cap Y = {} /\ V = (H \ X) \cup Y
    BY DEF Changes
  <1>2. (\A h \in H : h.of = e) /\ (\A h \in V : h.of = e)
    BY HoldingIts
  <1>3. ASSUME NEW h \in Y PROVE h.of = e
    BY <1>1, <1>2
  <1>4. ASSUME NEW h
        PROVE  /\ h \in HeldIn(elements, conf', st') <=>
                     h.of \in elements /\ h \in HoldingOf(h.of, conf[h.of], st'[h.of])
               /\ h \in Held <=> h.of \in elements /\ h \in HoldingOf(h.of, conf[h.of], st[h.of])
    BY HeldAt DEF Held
  <1>5. H \subseteq Held /\ \A h \in Held : h.of = e => h \in H
    BY <1>2, <1>4
  <1>6. ASSUME NEW h PROVE h \in HeldIn(elements, conf', st') <=> h \in (Held \ X) \cup Y
    <2>1. CASE h.of = e
      <3>1. h \in HeldIn(elements, conf', st') <=> h \in V
        BY <1>0, <1>4, <2>1
      <3>2. h \in Held <=> h \in H
        BY <1>5, <2>1
      <3> HIDE DEF H, V
      <3> QED
        BY <1>1, <3>1, <3>2
    <2>2. CASE h.of # e
      <3>1. h \notin X /\ h \notin Y
        BY <1>1, <1>2, <1>3, <2>2
      <3> QED
        BY <1>0, <1>4, <2>2, <3>1
    <2> QED
      BY <2>1, <2>2
  <1>7. ASSUME NEW h \in Held, h \in Y PROVE h \in X
    <2>1. h \in H
      BY <1>3, <1>5, <1>7
    <2> HIDE DEF H
    <2> QED
      BY <1>1, <1>7, <2>1
  <1> HIDE DEF H
  <1> QED
    BY <1>1, <1>5, <1>6, <1>7 DEF Changes

\* An event after which e holds what it held, nothing, or something at last.
LEMMA OwnKept ==
    ASSUME TypeInv, NEW e \in elements, NEW v, st' = [st EXCEPT ![e] = v], conf' = conf,
           HoldingOf(e, conf[e], v) = HoldingOf(e, conf[e], st[e])
    PROVE  HeldIn(elements, conf', st') = Held
  <1>1. Changes(HoldingOf(e, conf[e], st[e]), HoldingOf(e, conf[e], v), {}, {})
    BY DEF Changes
  <1>2. Changes(Held, HeldIn(elements, conf', st'), {}, {})
    BY <1>1, OwnHeld
  <1> QED
    BY <1>2 DEF Changes

LEMMA OwnQuiet ==
    ASSUME TypeInv, NEW e \in elements, NEW v, st' = [st EXCEPT ![e] = v], conf' = conf,
           HoldingOf(e, conf[e], v) = {}, NEW X, X = HoldingOf(e, conf[e], st[e])
    PROVE  X \in SUBSET Held /\ HeldIn(elements, conf', st') = Held \ X
  <1>1. Changes(HoldingOf(e, conf[e], st[e]), HoldingOf(e, conf[e], v), X, {})
    BY DEF Changes
  <1>2. Changes(Held, HeldIn(elements, conf', st'), X, {})
    BY <1>1, OwnHeld
  <1> QED
    BY <1>2 DEF Changes

LEMMA OwnBegins ==
    ASSUME TypeInv, NEW e \in elements, NEW v, st' = [st EXCEPT ![e] = v], conf' = conf,
           HoldingOf(e, conf[e], st[e]) = {}, NEW Y, HoldingOf(e, conf[e], v) = Y
    PROVE  Changes(Held, HeldIn(elements, conf', st'), {}, Y)
  <1>1. Changes(HoldingOf(e, conf[e], st[e]), HoldingOf(e, conf[e], v), {}, Y)
    BY DEF Changes
  <1> QED
    BY <1>1, OwnHeld

\* What is counted after an event: the places held then and the pulses then.
EventCounted == Right(keys', Total(HeldIn(elements, conf', st'), PulsesOf(pulses'))) /\ PulsesTyped'

LEMMA SamePulses ==
    ASSUME Counted, pulses' = pulses, Right(keys', Total(HeldIn(elements, conf', st'), Pulsing))
    PROVE  EventCounted
  BY DEF EventCounted, Counted, PulsesTyped, Pulsing

LEMMA QuietCounted ==
    ASSUME Counted, NEW e \in elements, NEW v, st' = [st EXCEPT ![e] = v], conf' = conf, pulses' = pulses,
           HoldingOf(e, conf[e], v) = {}, keys' = Up(keys, HoldingOf(e, conf[e], st[e]))
    PROVE  EventCounted
  <1> DEFINE H == HoldingOf(e, conf[e], st[e])
  <1>1. TypeInv /\ keys' = Up(keys, H)
    BY DEF Counted
  <1>2. H \in SUBSET Held /\ HeldIn(elements, conf', st') = Held \ H
    BY <1>1, OwnQuiet
  <1> HIDE DEF H
  <1>3. Right(keys', Total(HeldIn(elements, conf', st'), Pulsing))
    BY <1>1, <1>2, LetGo
  <1> QED
    BY <1>3, SamePulses

LEMMA BeginsCounted ==
    ASSUME Counted, NEW Y, IsFiniteSet(Y), Changes(Held, HeldIn(elements, conf', st'), {}, Y),
           keys' = Down(keys, Y), pulses' = pulses
    PROVE  EventCounted
  <1>1. HeldIn(elements, conf', st') = Held \cup Y /\ Held \cap Y = {}
    BY DEF Changes
  <1>2. Right(Down(keys, Y), Total(Held \cup Y, Pulsing))
    BY <1>1, CountedFinite, HoldRight DEF Counted, KeysInv
  <1> QED
    BY <1>1, <1>2, SamePulses

LEMMA KeptCounted ==
    ASSUME Counted, HeldIn(elements, conf', st') = Held, keys' = keys, pulses' = pulses
    PROVE  EventCounted
  BY SamePulses DEF Counted, KeysInv

LEMMA ViewedSame ==
    ASSUME TypeInv, NEW e, NEW s, SameHold(s, st[e]), NEW on, NEW off, NEW o \in Ids
    PROVE  SameHold(Viewed(e, s, on, off)[o], st[o])
  <1>1. st[o] \in Fields
    BY DEF TypeInv, FieldsTyped
  <1>2. \A r \in Fields : \A m : SameHold([r EXCEPT !.pressed = TRUE, !.mover = m], r) /\ SameHold([r EXCEPT !.pressed = FALSE, !.mover = m], r)
    BY DEF Fields, SameHold
  <1>3. SameHold(st[o], st[o])
    BY DEF SameHold
  <1> QED
    BY <1>1, <1>2, <1>3 DEF Viewed

LEMMA DigitalCounted ==
    ASSUME Counted, NEW e \in elements, NEW action, DigitalEvent(e, action)
    PROVE  EventCounted
  <1> TypeInv /\ HoldInv /\ e \in Ids /\ elements \subseteq Ids /\ IsDigital(e) /\ st[e] \in Fields /\ pulses' = pulses
    BY WorldIds DEF Counted, TypeInv, FieldsTyped, DigitalEvent
  <1>0. \A o \in Ids : Shown(o, st'[o])
    BY DigitalHolds DEF Eventful
  <1>1. CASE Listeners({e}, {}, [st EXCEPT ![e].mover = None, ![e].pressed = TRUE])
    <2> DEFINE v == [st EXCEPT ![e].mover = None, ![e].pressed = TRUE]
    <2>1. v \in [Ids -> Fields]
      BY TouchedTyped DEF TypeInv
    <2>2. v[e] = [[st[e] EXCEPT !.mover = None] EXCEPT !.pressed = TRUE] /\ \A o \in Ids \ {e} : v[o] = st[o]
      BY DEF TypeInv, FieldsTyped
    <2>3. \A o \in Ids : SameHold(v[o], st[o])
      <3>1. \A r \in Fields : SameHold([[r EXCEPT !.mover = None] EXCEPT !.pressed = TRUE], r)
        BY DEF SameHold, Fields
      <3>2. \A o \in Ids : SameHold(st[o], st[o])
        BY DEF SameHold
      <3> HIDE DEF v
      <3> QED
        BY <2>2, <3>1, <3>2
    <2>4. Listeners({e}, {}, v)
      BY <1>1
    <2> HIDE DEF v
    <2>5. {e} \in SUBSET elements /\ {} \in SUBSET elements /\ {e} \cap {} = {}
      OBVIOUS
    <2>6. Right(keys', Total(HeldIn(elements, conf', st'), Pulsing))
      BY <1>0, <2>1, <2>3, <2>4, <2>5, ListenersCounted
    <2> QED
      BY <2>6, SamePulses
  <1>2. ASSUME NEW s \in Fields, SameHold(s, st[e]), NEW own \in {{}, {e}}, NEW under, MoveOver(e, s, own, under)
        PROVE  EventCounted
    <2> DEFINE on == SlidOn(e, s, under)
               off == SlidOff(e, s, under)
               v == Viewed(e, s, on, off)
    <2>1. /\ on \in SUBSET elements /\ off \cup own \in SUBSET elements /\ on \cap (off \cup own) = {}
          /\ \A o \in on \cup (off \cup own) : IsDigital(o)
      BY DEF SlidOn, SlidOff, Others
    <2>2. v \in [Ids -> Fields]
      BY ViewedTyped DEF TypeInv
    <2>3. \A o \in Ids : SameHold(v[o], st[o])
      BY <1>2, ViewedSame
    <2>4. Listeners(on, off \cup own, v)
      BY <1>2, MoveOverEffect
    <2> HIDE DEF on, off, v
    <2>5. \A o \in on : Shown(o, st'[o])
      BY <1>0, <2>1
    <2>6. Right(keys', Total(HeldIn(elements, conf', st'), Pulsing))
      BY <2>1, <2>2, <2>3, <2>4, <2>5, ListenersCounted
    <2> QED
      BY <2>6, SamePulses
  <1>3. ASSUME NEW under, MoveOver(e, st[e], {}, under) PROVE EventCounted
    <2>1. SameHold(st[e], st[e]) /\ {} \in {{}, {e}}
      BY DEF SameHold
    <2> QED
      BY <1>2, <1>3, <2>1
  <1>4. ASSUME NEW under, MoveOver(e, [st[e] EXCEPT !.pressed = FALSE], {e}, under) PROVE EventCounted
    <2> DEFINE s == [st[e] EXCEPT !.pressed = FALSE]
    <2>1. s \in Fields /\ SameHold(s, st[e]) /\ {e} \in {{}, {e}}
      BY DEF SameHold, Fields
    <2>2. MoveOver(e, s, {e}, under)
      BY <1>4
    <2> HIDE DEF s
    <2> QED
      BY <1>2, <2>1, <2>2
  <1>5. CASE UNCHANGED <<elementVars, keys, applied, stored>>
    <2>1. Right(keys', Total(HeldIn(elements, conf', st'), Pulsing))
      BY <1>5 DEF elementVars, Counted, KeysInv, Held
    <2> QED
      BY <2>1, SamePulses
  <1> QED
    BY <1>1, <1>3, <1>4, <1>5 DEF DigitalEvent

LEMMA AimCounted ==
    ASSUME Counted, NEW e \in elements, NEW action, AimEvent(e, action)
    PROVE  EventCounted
  <1> TypeInv /\ e \in Ids /\ elements \subseteq Ids /\ KindOf[e] = "aim" /\ st[e] \in Fields /\ pulses' = pulses /\ conf' = conf
    BY WorldIds DEF Counted, TypeInv, FieldsTyped, AimEvent
  <1> DEFINE H == HoldingOf(e, conf[e], st[e])
             K == Places(e, 1, conf[e].items[1])
  <1>0. H = IF st[e].down THEN K ELSE {}
    BY DEF HoldingOf
  <1>1. IsFiniteSet(K)
    <2>1. conf[e].items \in Seq(Seq(Codes)) /\ Len(conf[e].items) >= 1
      BY DEF Counted, SizedInv, Sized, Bindings, TypeInv, FieldsTyped, Confs
    <2>2. conf[e].items[1] \in Seq(Codes)
      BY <2>1
    <2> QED
      BY <2>2, PlacesFinite
  <1>2. CASE action = "down" /\ st[e].down /\ st' = [st EXCEPT ![e].pressed = TRUE, ![e].down = TRUE] /\ keys' = keys
    <2> DEFINE v == [st[e] EXCEPT !.pressed = TRUE, !.down = TRUE]
    <2>1. st' = [st EXCEPT ![e] = v]
      BY <1>2 DEF TypeInv, FieldsTyped
    <2>2. v.down = TRUE
      BY DEF Fields
    <2>3. HoldingOf(e, conf[e], v) = H
      BY <1>0, <1>2, <2>2 DEF HoldingOf
    <2> HIDE DEF v
    <2>4. HeldIn(elements, conf', st') = Held
      BY <2>1, <2>3, OwnKept
    <2> QED
      BY <1>2, <2>4, KeptCounted
  <1>3. CASE action = "down" /\ ~st[e].down /\ st' = [st EXCEPT ![e].pressed = TRUE, ![e].down = TRUE] /\ keys' = Down(keys, K)
    <2> DEFINE v == [st[e] EXCEPT !.pressed = TRUE, !.down = TRUE]
    <2>1. st' = [st EXCEPT ![e] = v]
      BY <1>3 DEF TypeInv, FieldsTyped
    <2>2. v.down = TRUE
      BY DEF Fields
    <2>3. HoldingOf(e, conf[e], v) = K
      BY <2>2 DEF HoldingOf
    <2>4. H = {}
      BY <1>0, <1>3
    <2> HIDE DEF v, K
    <2>5. Changes(Held, HeldIn(elements, conf', st'), {}, K)
      BY <2>1, <2>3, <2>4, OwnBegins
    <2> QED
      BY <1>1, <1>3, <2>5, BeginsCounted
  <1>4. CASE st' = [st EXCEPT ![e] = Released(e)] /\ keys' = Up(keys, Holding(e))
    <2>1. HoldingOf(e, conf[e], Released(e)) = {}
      BY ReleasedQuiet, QuietHolds
    <2> QED
      BY <1>4, <2>1, QuietCounted DEF Holding
  <1>5. CASE UNCHANGED <<st, keys>>
    BY <1>5, SamePulses DEF Counted, KeysInv, Held
  <1> QED
    BY <1>2, <1>3, <1>4, <1>5 DEF AimEvent

LEMMA MovedCounted ==
    ASSUME Counted, NEW X, NEW Y, IsFiniteSet(Y), Changes(Held, HeldIn(elements, conf', st'), X, Y),
           keys' = Down(Up(keys, X), Y), pulses' = pulses
    PROVE  EventCounted
  <1>1. X \in SUBSET Held /\ (Held \ X) \cap Y = {} /\ HeldIn(elements, conf', st') = (Held \ X) \cup Y
    BY DEF Changes
  <1>2. Right(Down(Up(keys, X), Y), Total(HeldIn(elements, conf', st'), Pulsing))
    BY <1>1, Moved
  <1> QED
    BY <1>2, SamePulses

\* The keys of the directions D of a stick
Leaning(e, D) == UNION {Places(e, d, conf[e].items[d]) : d \in D}

LEMMA LeaningAt ==
    ASSUME NEW e, NEW D, NEW h
    PROVE  h \in Leaning(e, D) <=> h.part \in D /\ h \in Places(e, h.part, conf[e].items[h.part])
  <1>1. ASSUME h \in Leaning(e, D) PROVE h.part \in D /\ h \in Places(e, h.part, conf[e].items[h.part])
    <2>1. PICK d \in D : h \in Places(e, d, conf[e].items[d])
      BY <1>1 DEF Leaning
    <2>2. h.part = d
      BY <2>1, PlacesOf
    <2> QED
      BY <2>1, <2>2
  <1>2. ASSUME h.part \in D, h \in Places(e, h.part, conf[e].items[h.part]) PROVE h \in Leaning(e, D)
    BY <1>2 DEF Leaning
  <1> QED
    BY <1>1, <1>2

\* Leaning from the directions D to the directions G lets go those of D alone
\* and takes those of G alone.
LEMMA LeaningChanges ==
    ASSUME NEW e, NEW D, NEW G
    PROVE  Changes(Leaning(e, D), Leaning(e, G), Leaning(e, D \ G), Leaning(e, G \ D))
  <1>1. ASSUME NEW h
        PROVE  /\ h \in Leaning(e, D \ G) <=> h \in Leaning(e, D) /\ h \notin Leaning(e, G)
               /\ h \in Leaning(e, G \ D) <=> h \in Leaning(e, G) /\ h \notin Leaning(e, D)
    BY LeaningAt
  <1> QED
    BY <1>1 DEF Changes

LEMMA StickCounted ==
    ASSUME Counted, NEW e \in elements, NEW action, StickEvent(e, action)
    PROVE  EventCounted
  <1> TypeInv /\ HoldInv /\ e \in Ids /\ KindOf[e] = "stick" /\ st[e] \in Fields /\ pulses' = pulses /\ conf' = conf
    BY WorldIds DEF Counted, TypeInv, FieldsTyped, StickEvent
  <1>1. PICK p, tilt :
          LET s == [st[e] EXCEPT !.pressed = p, !.tilt = tilt]
          IN  /\ st' = [st EXCEPT ![e] = s]
              /\ keys' = Down(Up(keys, HoldingOf(e, conf[e], [s EXCEPT !.tilt = st[e].tilt \ tilt])),
                              HoldingOf(e, conf[e], [s EXCEPT !.tilt = tilt \ st[e].tilt]))
    BY DEF StickEvent
  <1> DEFINE s == [st[e] EXCEPT !.pressed = p, !.tilt = tilt]
             X == Leaning(e, st[e].tilt \ tilt)
             Y == Leaning(e, tilt \ st[e].tilt)
  <1>2. ASSUME NEW r PROVE HoldingOf(e, conf[e], r) = Leaning(e, r.tilt)
    BY DEF HoldingOf, Leaning
  <1>3. \A r \in Fields : \A q, t : [r EXCEPT !.pressed = q, !.tilt = t].tilt = t
    BY DEF Fields
  <1>4. \A r \in Fields : \A q, t, u : [[r EXCEPT !.pressed = q, !.tilt = t] EXCEPT !.tilt = u].tilt = u
    BY DEF Fields
  <1>5. keys' = Down(Up(keys, X), Y)
    <2> DEFINE D == st[e].tilt \ tilt
               G == tilt \ st[e].tilt
    <2>1. keys' = Down(Up(keys, HoldingOf(e, conf[e], [s EXCEPT !.tilt = D])), HoldingOf(e, conf[e], [s EXCEPT !.tilt = G]))
      BY <1>1
    <2>2. X = Leaning(e, D) /\ Y = Leaning(e, G)
      OBVIOUS
    <2> HIDE DEF D, G, X, Y
    <2>3. [s EXCEPT !.tilt = D].tilt = D /\ [s EXCEPT !.tilt = G].tilt = G
      BY <1>4
    <2> HIDE DEF s
    <2>4. HoldingOf(e, conf[e], [s EXCEPT !.tilt = D]) = Leaning(e, D)
      BY <1>2, <2>3
    <2>5. HoldingOf(e, conf[e], [s EXCEPT !.tilt = G]) = Leaning(e, G)
      BY <1>2, <2>3
    <2> QED
      BY <2>1, <2>2, <2>4, <2>5
  <1>6. st' = [st EXCEPT ![e] = s]
    BY <1>1
  <1>7. HoldingOf(e, conf[e], s) = Leaning(e, tilt) /\ HoldingOf(e, conf[e], st[e]) = Leaning(e, st[e].tilt)
    <2>1. s.tilt = tilt
      BY <1>3
    <2> HIDE DEF s
    <2>2. HoldingOf(e, conf[e], s) = Leaning(e, s.tilt)
      BY <1>2
    <2>3. HoldingOf(e, conf[e], st[e]) = Leaning(e, st[e].tilt)
      BY <1>2
    <2> QED
      BY <2>1, <2>2, <2>3
  <1>8. Changes(HoldingOf(e, conf[e], st[e]), HoldingOf(e, conf[e], s), X, Y)
    BY <1>7, LeaningChanges
  <1> HIDE DEF s
  <1>9. Changes(Held, HeldIn(elements, conf', st'), X, Y)
    <2> HIDE DEF X, Y
    <2> QED
      BY <1>6, <1>8, OwnHeld
  <1>10. IsFiniteSet(Y)
    <2>1. st'[e] = s /\ s \in Fields /\ conf[e] \in Confs
      BY <1>6, StickTyped DEF EventTyped, TypeInv, FieldsTyped
    <2>2. Shown(e, s)
      BY <2>1, StickHolds DEF Eventful
    <2>3. IsFiniteSet(HoldingOf(e, conf[e], s))
      BY <2>1, <2>2, HoldingFinite DEF Counted, SizedInv
    <2>4. Y \in SUBSET Leaning(e, tilt)
      BY LeaningAt
    <2> QED
      BY <1>7, <2>3, <2>4, FS_Subset
  <1> HIDE DEF X, Y
  <1> QED
    BY <1>5, <1>9, <1>10, MovedCounted

\* What an element holds is apart from what the others hold.
LEMMA HeldApart ==
    ASSUME TypeInv, NEW e \in elements, NEW H, H = HoldingOf(e, conf[e], st[e])
    PROVE  H \subseteq Held /\ \A h \in Held : h.of = e => h \in H
  <1>1. H \subseteq Held
    BY DEF Held, HeldIn
  <1> QED
    BY <1>1, HeldAt DEF Held

\* A radial menu, which holds H, chooses a sector whose keys are at Y; k are the
\* counts.
Chosen(H, Y, k) ==
    H \subseteq Held /\ (Held \ H) \cap Y = {} /\ IsFiniteSet(Y) /\ Right(k, Total((Held \ H) \cup Y, Pulsing))

LEMMA SelectRight ==
    ASSUME Counted, NEW e \in elements, KindOf[e] = "radial", NEW s \in Fields, s.held = st[e].held, NEW index,
           Selected(e, s, index).held \in Seq(Codes), NEW H, H = HoldingOf(e, conf[e], st[e]),
           NEW Y, Y = Places(e, 0, Selected(e, s, index).held)
    PROVE  Chosen(H, Y, SelectKeys(e, s, index))
  <1> TypeInv
    BY DEF Counted
  <1>1. H = Places(e, 0, s.held)
    BY DEF HoldingOf
  <1>2. H \subseteq Held /\ \A h \in Held : h.of = e => h \in H
    BY HeldApart
  <1>3. \A h \in Y : h.of = e
    BY PlacesOf
  <1>4. (Held \ H) \cap Y = {}
    BY <1>2, <1>3
  <1>5. IsFiniteSet(Y)
    BY PlacesFinite
  <1>6. CASE index = s.sel \/ ~conf[e].hold
    <2>1. SelectKeys(e, s, index) = keys /\ Selected(e, s, index).held = s.held
      BY <1>6 DEF SelectKeys, Selected, Fields
    <2>2. (Held \ H) \cup Y = Held
      BY <1>1, <1>2, <2>1
    <2> QED
      BY <1>2, <1>4, <1>5, <2>1, <2>2 DEF Chosen, Counted, KeysInv
  <1>7. CASE ~(index = s.sel \/ ~conf[e].hold)
    <2>1. SelectKeys(e, s, index) = Down(Up(keys, H), Y)
      BY <1>1, <1>7 DEF SelectKeys
    <2>2. Right(Down(Up(keys, H), Y), Total((Held \ H) \cup Y, Pulsing))
      BY <1>2, <1>4, <1>5, Moved
    <2> QED
      BY <1>2, <1>4, <1>5, <2>1, <2>2 DEF Chosen
  <1> QED
    BY <1>6, <1>7

\* The keys of the sector that is chosen are keys.
LEMMA SelectedHeld ==
    ASSUME TypeInv, NEW e \in Ids, NEW s \in Fields, NEW index \in Sectors(e) \cup {s.sel}
    PROVE  Selected(e, s, index).held \in Seq(Codes)
  <1>1. CASE index = s.sel
    BY <1>1 DEF Selected, Fields
  <1>2. CASE index \in Sectors(e)
    BY <1>2, SelectedTyped DEF Sectors, TypeInv, Fields
  <1> QED
    BY <1>1, <1>2

LEMMA ChosenCounted ==
    ASSUME Counted, NEW e \in elements, KindOf[e] = "radial", NEW s \in Fields, s.held = st[e].held,
           NEW index \in Sectors(e) \cup {s.sel}, st' = [st EXCEPT ![e] = Selected(e, s, index)],
           keys' = SelectKeys(e, s, index), conf' = conf, pulses' = pulses
    PROVE  EventCounted
  <1> TypeInv /\ e \in Ids
    BY WorldIds DEF Counted, TypeInv
  <1> DEFINE v == Selected(e, s, index)
             H == HoldingOf(e, conf[e], st[e])
             Y == Places(e, 0, v.held)
  <1>1. v.held \in Seq(Codes)
    BY SelectedHeld
  <1>2. HoldingOf(e, conf[e], v) = Y
    BY DEF HoldingOf
  <1>3. H \subseteq Held /\ (Held \ H) \cap Y = {} /\ Right(keys', Total((Held \ H) \cup Y, Pulsing))
    <2>1. H = HoldingOf(e, conf[e], st[e]) /\ Y = Places(e, 0, Selected(e, s, index).held)
      OBVIOUS
    <2>2. Selected(e, s, index).held \in Seq(Codes)
      BY <1>1
    <2> HIDE DEF H, Y, v
    <2>3. Chosen(H, Y, SelectKeys(e, s, index))
      BY <2>1, <2>2, SelectRight
    <2> QED
      BY <2>3 DEF Chosen
  <1>5. Changes(H, HoldingOf(e, conf[e], v), H, Y)
    BY <1>2 DEF Changes
  <1>6. st' = [st EXCEPT ![e] = v]
    OBVIOUS
  <1> HIDE DEF v, Y
  <1>7. Changes(Held, HeldIn(elements, conf', st'), H, Y)
    BY <1>5, <1>6, OwnHeld
  <1>8. HeldIn(elements, conf', st') = (Held \ H) \cup Y
    BY <1>7 DEF Changes
  <1> QED
    BY <1>3, <1>8, SamePulses

\* The menu is folded: what it held is let go, and the sector is pulsed if it is
\* not to be held.
LEMMA FoldedCounted ==
    ASSUME Counted, NEW e \in elements, KindOf[e] = "radial", NEW index \in Sectors(e), NEW v, v.held = <<>>,
           st' = [st EXCEPT ![e] = v], conf' = conf, NEW pulse \in BOOLEAN,
           pulse => index # 0 /\ Len(pulses) < MaxPulses, NEW r,
           r = Up(SelectKeys(e, st[e], index), Places(e, 0, Selected(e, st[e], index).held)),
           keys' = IF pulse THEN Down(r, Places(e, 0, conf[e].items[index])) ELSE r,
           pulses' = IF pulse THEN Append(pulses, conf[e].items[index]) ELSE pulses
    PROVE  EventCounted
  <1> TypeInv /\ e \in Ids /\ st[e] \in Fields
    BY WorldIds DEF Counted, TypeInv, FieldsTyped
  <1>1. PICK H, Y : H = HoldingOf(e, conf[e], st[e]) /\ Y = Places(e, 0, Selected(e, st[e], index).held)
    OBVIOUS
  <1>2. Selected(e, st[e], index).held \in Seq(Codes)
    BY SelectedHeld
  <1>3. Chosen(H, Y, SelectKeys(e, st[e], index))
    BY <1>1, <1>2, SelectRight
  <1>4. Right(r, Total(Held \ H, Pulsing)) /\ IsFiniteSet(Held \ H)
    <2>1. IsFiniteSet(Held) /\ IsFiniteSet(Pulsing) /\ IsFiniteSet(Y) /\ H \subseteq Held
      BY <1>3, CountedFinite DEF Chosen
    <2>2. IsFiniteSet(Held \ H)
      BY <2>1, FS_Difference
    <2>3. IsFiniteSet((Held \ H) \cup Y)
      BY <2>1, <2>2, FS_Union
    <2>4. Y \in SUBSET ((Held \ H) \cup Y) /\ ((Held \ H) \cup Y) \ Y = Held \ H
      BY <1>3 DEF Chosen
    <2>5. Right(SelectKeys(e, st[e], index), Total((Held \ H) \cup Y, Pulsing))
      BY <1>3 DEF Chosen
    <2>6. Right(Up(SelectKeys(e, st[e], index), Y), Total(((Held \ H) \cup Y) \ Y, Pulsing))
      BY <2>1, <2>3, <2>4, <2>5, UpRight
    <2> QED
      BY <1>1, <2>2, <2>4, <2>6
  <1>5. HeldIn(elements, conf', st') = Held \ H
    <2>1. Quiet(e, v)
      BY DEF Quiet
    <2>2. HoldingOf(e, conf[e], v) = {}
      BY <2>1, QuietHolds
    <2> QED
      BY <1>1, <2>2, OwnQuiet
  <1>6. CASE ~pulse
    <2>1. keys' = r /\ pulses' = pulses
      BY <1>6
    <2> QED
      BY <1>4, <1>5, <2>1, SamePulses
  <1>7. CASE pulse
    <2> DEFINE codes == conf[e].items[index]
    <2>1. codes \in Seq(Codes)
      <3>1. conf[e].items \in Seq(Seq(Codes))
        BY DEF TypeInv, FieldsTyped, Confs
      <3>2. index \in 1 .. Len(conf[e].items)
        BY <1>7, <3>1 DEF Sectors
      <3> QED
        BY <3>1, <3>2
    <2>2. keys' = Down(r, Places(e, 0, codes)) /\ pulses' = Append(pulses, codes)
      BY <1>7
    <2> HIDE DEF codes
    <2>3. pulses \in Seq(Seq(Codes)) /\ PulsesTyped'
      <3>1. MaxPulses \in Nat
        BY VirtualControllerAssumption
      <3> QED
        BY <1>7, <2>1, <2>2, <3>1 DEF Counted, PulsesTyped
    <2> DEFINE Q == Places(e, 0, codes)
    <2>4. \A c \in Codes : Times(c, PulsesOf(pulses')) = Times(c, Pulsing) + Times(c, Q)
      BY <2>1, <2>2, <2>3, PulsesAppend DEF Pulsing
    <2>5. IsFiniteSet(Q) /\ IsFiniteSet(Pulsing)
      BY <2>1, PlacesFinite, CountedFinite
    <2> HIDE DEF Q
    <2>6. Right(Down(r, Q), Total(Held \ H, PulsesOf(pulses')))
      BY <1>4, <2>4, <2>5, PulseRight
    <2> QED
      BY <1>5, <2>2, <2>3, <2>6 DEF Q, EventCounted
  <1> QED
    BY <1>6, <1>7

LEMMA RadialCounted ==
    ASSUME Counted, NEW e \in elements, NEW action, RadialEvent(e, action)
    PROVE  EventCounted
  <1> TypeInv /\ e \in Ids /\ FieldsTyped /\ st[e] \in Fields /\ KindOf[e] = "radial" /\ conf' = conf
    BY WorldIds DEF Counted, TypeInv, FieldsTyped, RadialEvent
  <1> DEFINE opened == IF action = "down" /\ ~st[e].pressed
                       THEN [st[e] EXCEPT !.pressed = TRUE, !.sel = 0] ELSE st[e]
             folded(index) == [Selected(e, st[e], index) EXCEPT
                                  !.held = <<>>, !.pressed = FALSE,
                                  !.sel = IF Selected(e, st[e], index).pressed THEN 0 ELSE @]
             released(index) == Up(SelectKeys(e, st[e], index), Places(e, 0, Selected(e, st[e], index).held))
             pulse(index) == ~conf[e].hold /\ index # 0
  <1>1. \/ \E index \in Sectors(e) \cup {opened.sel} :
              /\ st' = [st EXCEPT ![e] = Selected(e, opened, index)]
              /\ keys' = SelectKeys(e, opened, index) /\ pulses' = pulses
        \/ \E index \in Sectors(e) :
              /\ pulse(index) => Len(pulses) < MaxPulses
              /\ st' = [st EXCEPT ![e] = folded(index)]
              /\ keys' = IF pulse(index) THEN Down(released(index), Places(e, 0, conf[e].items[index])) ELSE released(index)
              /\ pulses' = IF pulse(index) THEN Append(pulses, conf[e].items[index]) ELSE pulses
        \/ st' = [st EXCEPT ![e] = Released(e)] /\ keys' = Up(keys, Holding(e)) /\ pulses' = pulses
    BY DEF RadialEvent
  <1>2. opened \in Fields /\ opened.held = st[e].held
    BY DEF Fields
  <1>3. ASSUME NEW index \in Sectors(e) PROVE folded(index).held = <<>> /\ pulse(index) \in BOOLEAN
    <2>1. Selected(e, st[e], index) \in Fields
      BY SelectedTyped DEF Sectors
    <2>2. \A s \in Fields : \A n : [s EXCEPT !.held = <<>>, !.pressed = FALSE, !.sel = n].held = <<>>
      BY DEF Fields
    <2> QED
      BY <2>1, <2>2
  <1>4. \A index : pulse(index) => index # 0
    OBVIOUS
  <1>5. \A index : released(index) = Up(SelectKeys(e, st[e], index), Places(e, 0, Selected(e, st[e], index).held))
    OBVIOUS
  <1> HIDE DEF opened, folded, released, pulse
  <1>6. CASE \E index \in Sectors(e) \cup {opened.sel} :
              /\ st' = [st EXCEPT ![e] = Selected(e, opened, index)]
              /\ keys' = SelectKeys(e, opened, index) /\ pulses' = pulses
    BY <1>2, <1>6, ChosenCounted
  <1>7. ASSUME NEW index \in Sectors(e),
               pulse(index) => Len(pulses) < MaxPulses,
               st' = [st EXCEPT ![e] = folded(index)],
               keys' = IF pulse(index) THEN Down(released(index), Places(e, 0, conf[e].items[index])) ELSE released(index),
               pulses' = IF pulse(index) THEN Append(pulses, conf[e].items[index]) ELSE pulses
        PROVE  EventCounted
    <2>1. PICK v, r, p : v = folded(index) /\ r = released(index) /\ p = pulse(index)
      OBVIOUS
    <2>2. v.held = <<>> /\ p \in BOOLEAN /\ (p => index # 0 /\ Len(pulses) < MaxPulses)
      BY <1>3, <1>4, <1>7, <2>1
    <2>3. r = Up(SelectKeys(e, st[e], index), Places(e, 0, Selected(e, st[e], index).held))
      BY <1>5, <2>1
    <2>4. /\ st' = [st EXCEPT ![e] = v]
          /\ keys' = IF p THEN Down(r, Places(e, 0, conf[e].items[index])) ELSE r
          /\ pulses' = IF p THEN Append(pulses, conf[e].items[index]) ELSE pulses
      BY <1>7, <2>1
    <2> QED
      BY <2>2, <2>3, <2>4, FoldedCounted
  <1>8. CASE st' = [st EXCEPT ![e] = Released(e)] /\ keys' = Up(keys, Holding(e)) /\ pulses' = pulses
    <2>1. HoldingOf(e, conf[e], Released(e)) = {}
      BY ReleasedQuiet, QuietHolds DEF Counted
    <2> QED
      BY <1>8, <2>1, QuietCounted DEF Holding
  <1> QED
    BY <1>1, <1>6, <1>7, <1>8

LEMMA ElementCounted ==
    ASSUME Counted, NEW e \in elements, NEW action, ElementEvent(e, action)
    PROVE  EventCounted
  BY DigitalCounted, RadialCounted, AimCounted, StickCounted DEF ElementEvent

-----------------------------------------------------------------------------
(* The bindings of a configuration *)

LEMMA DefaultSized ==
    ASSUME NEW e \in Ids
    PROVE  Sized(e, Default(e))
  <1>1. KindOf[e] \in Kinds
    BY VirtualControllerAssumption
  <1>2. Savable[KindOf[e]] # {} /\ \A c \in Savable[KindOf[e]] : Len(c.items) >= Bindings(KindOf[e])
    BY <1>1, VirtualControllerAssumption
  <1> QED
    BY <1>2 DEF Default, Sized

\* Preferences in which every element has its bindings
PrefsSized(f) == \A e \in DOMAIN f : Sized(e, f[e])

LEMMA SizedAfter ==
    ASSUME TypeInv, SizedInv, \A e \in Ids : Sized(e, conf'[e]), NEW f, PrefsSized(f),
           \/ stored' = stored
           \/ stored' = [stored EXCEPT ![current] = f]
           \/ \E p \in Profiles : stored' = [stored EXCEPT ![current] = f, ![p] = f]
    PROVE  SizedInv'
  <1>1. stored \in [Profiles -> Layouts]
    BY DEF TypeInv, StoredTyped
  <1>2. ASSUME NEW p \in Profiles PROVE stored'[p] = stored[p] \/ stored'[p] = f
    BY <1>1
  <1>3. ASSUME NEW p \in Profiles PROVE PrefsSized(stored'[p])
    BY <1>2 DEF SizedInv, PrefsSized
  <1> QED
    BY <1>3 DEF SizedInv, PrefsSized, Sized

LEMMA LayoutSized ==
    ASSUME TypeInv, SizedInv
    PROVE  PrefsSized(Layout)
  BY WorldIds DEF TypeInv, SizedInv, PrefsSized, Layout

\* The elements keep their bindings, and what is saved is what they have.
SizedKept ==
    /\ \A o \in Ids : conf'[o].items = conf[o].items
    /\ stored' = stored \/ stored' = [stored EXCEPT ![current] = [x \in elements |-> conf'[x]]]

LEMMA KeptSized ==
    ASSUME TypeInv, SizedInv, SizedKept
    PROVE  SizedInv'
  <1>1. elements \subseteq Ids
    BY WorldIds DEF TypeInv
  <1>2. \A o \in Ids : Sized(o, conf'[o])
    BY DEF SizedKept, SizedInv, Sized
  <1> DEFINE f == [x \in elements |-> conf'[x]]
  <1>3. PrefsSized(f)
    BY <1>1, <1>2 DEF PrefsSized
  <1>4. stored' = stored \/ stored' = [stored EXCEPT ![current] = f]
    BY DEF SizedKept
  <1> HIDE DEF f
  <1> QED
    BY <1>2, <1>3, <1>4, SizedAfter

LEMMA ListenersSized ==
    ASSUME TypeInv, NEW P \in SUBSET elements, NEW R, NEW s \in [Ids -> Fields], Listeners(P, R, s)
    PROVE  SizedKept
  <1>1. conf' = NewConf(P, s)
    BY ListenersEffect
  <1>2. \A o \in Ids : conf'[o].items = conf[o].items
    BY <1>1, FlippedItems
  <1>3. stored' = stored \/ stored' = [stored EXCEPT ![current] = [x \in elements |-> conf'[x]]]
    BY ListenersEffect
  <1> QED
    BY <1>2, <1>3 DEF SizedKept

LEMMA EventSized ==
    ASSUME TypeInv, NEW e \in elements, NEW action, ElementEvent(e, action)
    PROVE  SizedKept
  <1> e \in Ids /\ FieldsTyped /\ st[e] \in Fields
    BY WorldIds DEF TypeInv, FieldsTyped
  <1>1. CASE UNCHANGED <<conf, stored>>
    BY <1>1 DEF SizedKept
  <1>2. CASE Listeners({e}, {}, [st EXCEPT ![e].mover = None, ![e].pressed = TRUE])
    BY <1>2, TouchedTyped, ListenersSized
  <1>3. ASSUME NEW s \in Fields, NEW own, NEW under, MoveOver(e, s, own, under)
        PROVE  SizedKept
    <2>1. SlidOn(e, s, under) \in SUBSET elements
      BY DEF SlidOn, Others
    <2>2. Viewed(e, s, SlidOn(e, s, under), SlidOff(e, s, under)) \in [Ids -> Fields]
      BY ViewedTyped
    <2> QED
      BY <1>3, <2>1, <2>2, MoveOverEffect, ListenersSized
  <1>4. ASSUME NEW under, MoveOver(e, [st[e] EXCEPT !.pressed = FALSE], {e}, under) PROVE SizedKept
    <2>1. [st[e] EXCEPT !.pressed = FALSE] \in Fields
      BY DEF Fields
    <2> QED
      BY <1>3, <1>4, <2>1
  <1>5. ASSUME NEW under, MoveOver(e, st[e], {}, under) PROVE SizedKept
    BY <1>3, <1>5
  <1>6. CASE DigitalEvent(e, action)
    BY <1>1, <1>2, <1>4, <1>5, <1>6 DEF DigitalEvent, elementVars
  <1>7. CASE RadialEvent(e, action) \/ AimEvent(e, action) \/ StickEvent(e, action)
    BY <1>1, <1>7 DEF RadialEvent, AimEvent, StickEvent
  <1> QED
    BY <1>6, <1>7 DEF ElementEvent

\* Where an element is placed is no matter of its bindings.
LEMMA PlacedItems ==
    ASSUME TypeInv, NEW e \in Ids, NEW place, conf' = [conf EXCEPT ![e].place = place]
    PROVE  \A o \in Ids : conf'[o].items = conf[o].items
  <1>1. conf[e] \in Confs /\ conf \in [Ids -> Confs]
    BY DEF TypeInv, FieldsTyped
  <1>2. \A c \in Confs : [c EXCEPT !.place = place].items = c.items
    BY DEF Confs
  <1> QED
    BY <1>1, <1>2

LEMMA OnTouchSized ==
    ASSUME TypeInv, NEW e \in elements, NEW action, OnTouchEvent(e, action)
    PROVE  SizedKept
  <1> e \in Ids
    BY WorldIds DEF TypeInv
  <1>1. CASE ElementEvent(e, action)
    BY <1>1, EventSized
  <1>2. CASE UNCHANGED <<conf, stored>>
    BY <1>2 DEF SizedKept
  <1>3. ASSUME NEW place, conf' = [conf EXCEPT ![e].place = place], stored' = stored
        PROVE  SizedKept
    BY <1>3, PlacedItems DEF SizedKept
  <1> QED
    BY <1>1, <1>2, <1>3 DEF OnTouchEvent

LEMMA TouchSized ==
    ASSUME TypeInv, SizedInv, NEW e \in Ids, Touch(e) \/ Slide(e) \/ Lift(e) \/ Cancel(e)
    PROVE  SizedInv'
  <1>1. e \in elements
    BY DEF TypeInv, FingersTyped, Touch, Slide, Lift, Cancel
  <1>2. CASE \E action \in {"down", "move", "up", "pointerUp", "cancel"} : OnTouchEvent(e, action)
    BY <1>1, <1>2, OnTouchSized, KeptSized
  <1>3. CASE UNCHANGED <<conf, stored>>
    BY <1>3, KeptSized DEF SizedKept
  <1> QED
    BY <1>2, <1>3 DEF Touch, Slide, Lift, Cancel

LEMMA RefreshSized ==
    ASSUME TypeInv, SizedInv, NEW layout, PrefsSized(layout),
           conf' = [e \in Ids |-> IF e \in DOMAIN layout THEN layout[e] ELSE Default(e)]
    PROVE  \A e \in Ids : Sized(e, conf'[e])
  BY DefaultSized DEF PrefsSized

LEMMA SizedNext == TypeInv /\ SizedInv /\ [Next]_vars => SizedInv'
  <1> SUFFICES ASSUME TypeInv, SizedInv, [Next]_vars PROVE SizedInv'
    OBVIOUS
  <1>0. /\ elements \subseteq Ids /\ current \in Profiles /\ PrefsSized(Layout) /\ PrefsSized(<<>>)
        /\ \A p \in Profiles : PrefsSized(stored[p])
        /\ conf \in [Ids -> Confs] /\ \A e \in Ids : Sized(e, conf[e])
    BY WorldIds, CurrentProfile, LayoutSized DEF TypeInv, FieldsTyped, SizedInv, PrefsSized
  <1>1. ASSUME NEW e \in Ids, Touch(e) \/ Slide(e) \/ Lift(e) \/ Cancel(e) PROVE SizedInv'
    BY <1>1, TouchSized
  <1>2. ASSUME NEW e \in Ids, Add(e) PROVE SizedInv'
    <2> DEFINE f == [x \in elements' |-> conf[x]]
    <2>1. elements' \subseteq Ids /\ conf' = conf /\ stored' = [stored EXCEPT ![current] = f]
      BY <1>0, <1>2 DEF Add
    <2>2. PrefsSized(f)
      BY <1>0, <2>1 DEF PrefsSized
    <2> HIDE DEF f
    <2> QED
      BY <1>0, <2>1, <2>2, SizedAfter
  <1>3. ASSUME NEW e \in Ids, NEW inLayout \in BOOLEAN, SaveBinding(e, inLayout) PROVE SizedInv'
    <2> DEFINE f == [x \in elements |-> conf'[x]]
    <2>1. stored' = [stored EXCEPT ![current] = f]
      BY <1>3 DEF SaveBinding
    <2>2. \A o \in Ids : Sized(o, conf'[o])
      <3>1. CASE UNCHANGED conf
        BY <1>0, <3>1
      <3>2. ASSUME NEW c \in Savable[KindOf[e]],
                   conf' = [conf EXCEPT ![e] = [c EXCEPT !.shooting = conf[e].shooting, !.place = conf[e].place]]
            PROVE  \A o \in Ids : Sized(o, conf'[o])
        <4>1. KindOf[e] \in Kinds
          BY VirtualControllerAssumption
        <4>2. c \in Confs /\ Len(c.items) >= Bindings(KindOf[e])
          BY <4>1, VirtualControllerAssumption
        <4>3. [c EXCEPT !.shooting = conf[e].shooting, !.place = conf[e].place].items = c.items
          BY <4>2 DEF Confs
        <4>4. Sized(e, conf'[e])
          BY <1>0, <3>2, <4>2, <4>3 DEF Sized
        <4>5. \A o \in Ids \ {e} : conf'[o] = conf[o]
          BY <1>0, <3>2
        <4> QED
          BY <1>0, <4>4, <4>5
      <3> QED
        BY <1>3, <3>1, <3>2 DEF SaveBinding
    <2>3. PrefsSized(f)
      BY <1>0, <2>2 DEF PrefsSized
    <2> HIDE DEF f
    <2> QED
      BY <2>1, <2>2, <2>3, SizedAfter
  <1>4. ASSUME NEW e \in Ids, NEW inLayout \in BOOLEAN, RemoveElement(e, inLayout) PROVE SizedInv'
    <2> DEFINE f == [x \in elements' |-> conf[x]]
    <2>1. elements' \subseteq Ids /\ (stored' = stored \/ stored' = [stored EXCEPT ![current] = f])
      BY <1>0, <1>4 DEF RemoveElement
    <2>2. PrefsSized(f)
      BY <1>0, <2>1 DEF PrefsSized
    <2>3. conf' = conf \/ conf' = [conf EXCEPT ![e] = Default(e)]
      BY <1>4 DEF RemoveElement
    <2>4. \A o \in Ids : Sized(o, conf'[o])
      BY <1>0, <2>3, DefaultSized
    <2> HIDE DEF f
    <2> QED
      BY <2>1, <2>2, <2>4, SizedAfter
  <1>5. ASSUME NEW p \in Profiles, SwitchProfile(p) PROVE SizedInv'
    <2>1. stored' = [stored EXCEPT ![current] = Layout] /\ Refresh(stored[p])
      BY <1>5 DEF SwitchProfile
    <2>2. \A o \in Ids : Sized(o, conf'[o])
      BY <1>0, <2>1, RefreshSized DEF Refresh
    <2> QED
      BY <1>0, <2>1, <2>2, SizedAfter
  <1>6. ASSUME NEW p \in Profiles, CreateProfile(p) PROVE SizedInv'
    <2>1. stored' = [stored EXCEPT ![current] = Layout, ![p] = Layout] /\ Refresh(Layout)
      BY <1>6 DEF CreateProfile
    <2>2. \A o \in Ids : Sized(o, conf'[o])
      BY <1>0, <2>1, RefreshSized DEF Refresh
    <2> QED
      BY <1>0, <2>1, <2>2, SizedAfter
  <1>7. CASE DeleteProfile
    <2>1. Head(profiles') \in Profiles
      BY <1>7, DeletedList, CurrentProfile DEF TypeInv
    <2>2. stored' = [stored EXCEPT ![current] = <<>>] /\ Refresh(stored[Head(profiles')])
      BY <1>7 DEF DeleteProfile
    <2>3. \A o \in Ids : Sized(o, conf'[o])
      BY <1>0, <2>1, <2>2, RefreshSized DEF Refresh
    <2> QED
      BY <1>0, <2>2, <2>3, SizedAfter
  <1>8. CASE ConfigurationChanged
    <2>1. stored' = stored /\ Refresh(stored[current])
      BY <1>8 DEF ConfigurationChanged
    <2>2. \A o \in Ids : Sized(o, conf'[o])
      BY <1>0, <2>1, RefreshSized DEF Refresh
    <2> QED
      BY <1>0, <2>1, <2>2, SizedAfter
  <1>9. CASE Relaunch
    <2>1. stored' = stored /\ conf' = [e \in Ids |-> IF e \in DOMAIN stored[current] THEN stored[current][e] ELSE Default(e)]
      BY <1>9 DEF Relaunch
    <2>2. \A o \in Ids : Sized(o, conf'[o])
      BY <1>0, <2>1, RefreshSized
    <2> QED
      BY <1>0, <2>1, <2>2, SizedAfter
  <1>10. CASE UNCHANGED vars \/ (\E d \in dialogs : DismissDialog(d)) \/ PulseEnds \/ Configure \/ Stop
    <2>1. conf' = conf /\ (stored' = stored \/ stored' = [stored EXCEPT ![current] = Layout])
      BY <1>10 DEF vars, elementVars, profileVars, DismissDialog, PulseEnds, Configure, Stop
    <2> QED
      BY <1>0, <2>1, SizedAfter
  <1> QED
    BY <1>1, <1>2, <1>3, <1>4, <1>5, <1>6, <1>7, <1>8, <1>9, <1>10 DEF Next

LEMMA SizedInit == Init => SizedInv
  <1> SUFFICES ASSUME Init PROVE SizedInv
    OBVIOUS
  <1>1. \A e \in Ids : Sized(e, conf[e])
    BY DefaultSized DEF Init
  <1>2. elements \subseteq Ids
    BY TypeInit, WorldIds DEF TypeInv
  <1>3. PrefsSized(Layout) /\ PrefsSized(<<>>)
    BY <1>1, <1>2 DEF PrefsSized, Layout
  <1>4. \A p \in Profiles : stored[p] = Layout \/ stored[p] = <<>>
    BY DEF Init
  <1> QED
    BY <1>1, <1>3, <1>4 DEF SizedInv, PrefsSized

-----------------------------------------------------------------------------
(* Every step counts right *)

KeysAfter == KeysInv' /\ PulsesTyped'

LEMMA EventKeys ==
    ASSUME EventCounted, elements' = elements
    PROVE  KeysAfter
  BY DEF EventCounted, KeysAfter, KeysInv, Held, Pulsing

\* A step after which each element holds what it held.
LEMMA HeldSame ==
    ASSUME \A o \in elements : HoldingOf(o, conf'[o], st'[o]) = HoldingOf(o, conf[o], st[o])
    PROVE  HeldIn(elements, conf', st') = Held
  BY DEF HeldIn, Held

LEMMA StillCounted ==
    ASSUME Counted, HeldIn(elements', conf', st') = Held, keys' = keys, pulses' = pulses
    PROVE  KeysAfter
  BY DEF Counted, KeysAfter, KeysInv, PulsesTyped, Held, Pulsing

\* A step that lets go of the places X.
LEMMA LessCounted ==
    ASSUME Counted, NEW X \in SUBSET Held, HeldIn(elements', conf', st') = Held \ X,
           keys' = Up(keys, X), pulses' = pulses
    PROVE  KeysAfter
  <1>1. Right(keys', Total(Held \ X, Pulsing))
    BY LetGo
  <1>2. Held' = Held \ X /\ Pulsing' = Pulsing
    BY DEF Held, Pulsing
  <1>3. PulsesTyped'
    BY DEF Counted, PulsesTyped
  <1>4. KeysInv'
    BY <1>1, <1>2 DEF KeysInv
  <1> QED
    BY <1>3, <1>4 DEF KeysAfter

LEMMA OnTouchCounted ==
    ASSUME Counted, NEW e \in elements, NEW action, OnTouchEvent(e, action), elements' = elements
    PROVE  KeysAfter
  <1> TypeInv /\ e \in Ids /\ elements \subseteq Ids
    BY WorldIds DEF Counted, TypeInv
  <1>1. CASE mode = "Active"
    BY <1>1, Told, ElementCounted, EventKeys
  <1>2. CASE mode # "Active"
    <2>1. st' = st /\ keys' = keys /\ pulses' = pulses
      BY <1>2 DEF OnTouchEvent
    <2>2. \A o \in Ids : conf'[o].items = conf[o].items
      <3>1. conf' = conf \/ \E place : conf' = [conf EXCEPT ![e].place = place]
        BY <1>2 DEF OnTouchEvent
      <3> QED
        BY <3>1, PlacedItems
    <2>3. ASSUME NEW o \in elements PROVE HoldingOf(o, conf'[o], st'[o]) = HoldingOf(o, conf[o], st[o])
      <3>1. conf'[o].items = conf[o].items /\ SameHold(st'[o], st[o])
        BY <2>1, <2>2 DEF SameHold
      <3> QED
        BY <3>1, HoldingSame
    <2>4. HeldIn(elements', conf', st') = Held
      BY <2>3, HeldSame
    <2> QED
      BY <2>1, <2>4, StillCounted
  <1> QED
    BY <1>1, <1>2

\* A step that changes none of what the keys depend on.
LEMMA IdleCounted ==
    ASSUME Counted, UNCHANGED <<elements, conf, st, keys, pulses>>
    PROVE  KeysAfter
  <1>1. HeldIn(elements', conf', st') = Held
    BY DEF Held
  <1> QED
    BY <1>1, StillCounted

LEMMA TouchCounted ==
    ASSUME Counted, NEW e \in Ids, Touch(e) \/ Slide(e) \/ Lift(e) \/ Cancel(e)
    PROVE  KeysAfter
  <1>1. e \in elements /\ elements' = elements
    BY DEF Counted, TypeInv, FingersTyped, Touch, Slide, Lift, Cancel, touchFrame
  <1>2. CASE \E action \in {"down", "move", "up", "pointerUp", "cancel"} : OnTouchEvent(e, action)
    BY <1>1, <1>2, OnTouchCounted
  <1>3. CASE UNCHANGED <<conf, st, keys, pulses>>
    BY <1>1, <1>3, IdleCounted
  <1> QED
    BY <1>2, <1>3 DEF Touch, Slide, Lift, Cancel

\* The Runnable releases what the menu pressed.
LEMMA PulseEndsCounted ==
    ASSUME Counted, PulseEnds
    PROVE  KeysAfter
  <1> DEFINE Q == Places(None, 1, Head(pulses))
  <1>1. pulses \in Seq(Seq(Codes)) /\ Len(pulses) <= MaxPulses /\ Len(pulses) \in Nat /\ pulses # <<>> /\ MaxPulses \in Nat
    BY VirtualControllerAssumption DEF Counted, PulsesTyped, PulseEnds
  <1>2. /\ Head(pulses) \in Seq(Codes) /\ Tail(pulses) \in Seq(Seq(Codes)) /\ Len(Tail(pulses)) = Len(pulses) - 1
        /\ \A c \in Codes : Times(c, PulsesOf(pulses)) = Times(c, PulsesOf(Tail(pulses))) + Times(c, Q)
    BY <1>1, PulsesTail
  <1>3. IsFiniteSet(Q) /\ IsFiniteSet(PulsesOf(Tail(pulses))) /\ IsFiniteSet(Held)
    BY <1>2, PlacesFinite, PulsesFinite, CountedFinite
  <1>4. keys' = Up(keys, Q) /\ pulses' = Tail(pulses) /\ UNCHANGED <<elements, conf, st>>
    BY DEF PulseEnds, elementVars
  <1> HIDE DEF Q
  <1>5. Right(Up(keys, Q), Total(Held, PulsesOf(Tail(pulses))))
    <2>1. Right(keys, Total(Held, PulsesOf(pulses)))
      BY DEF Counted, KeysInv, Pulsing
    <2> QED
      BY <1>2, <1>3, <2>1, PulseEndsRight
  <1>6. Held' = Held /\ Pulsing' = PulsesOf(Tail(pulses))
    BY <1>4 DEF Held, Pulsing
  <1>7. KeysInv'
    BY <1>4, <1>5, <1>6 DEF KeysInv
  <1>8. PulsesTyped'
    BY <1>1, <1>2, <1>4 DEF PulsesTyped
  <1> QED
    BY <1>7, <1>8 DEF KeysAfter

\* A step after which e holds nothing, or is gone, and the others hold what they held.
LEMMA DroppedHeld ==
    ASSUME NEW e \in elements, elements' = elements \/ elements' = elements \ {e},
           e \in elements' => HoldingOf(e, conf'[e], st'[e]) = {},
           \A o \in elements \ {e} : HoldingOf(o, conf'[o], st'[o]) = HoldingOf(o, conf[o], st[o]),
           NEW X, X = HoldingOf(e, conf[e], st[e])
    PROVE  X \in SUBSET Held /\ HeldIn(elements', conf', st') = Held \ X
  <1>1. ASSUME NEW h
        PROVE  /\ h \in HeldIn(elements', conf', st') <=>
                     h.of \in elements' /\ h \in HoldingOf(h.of, conf'[h.of], st'[h.of])
               /\ h \in Held <=> h.of \in elements /\ h \in HoldingOf(h.of, conf[h.of], st[h.of])
    BY HeldAt DEF Held
  <1>2. \A h \in X : h.of = e
    BY HoldingIts
  <1>3. ASSUME NEW h PROVE h \in HeldIn(elements', conf', st') <=> h \in Held \ X
    <2>1. CASE h.of = e
      BY <1>1, <2>1
    <2>2. CASE h.of # e
      BY <1>1, <1>2, <2>2
    <2> QED
      BY <2>1, <2>2
  <1>4. X \subseteq Held
    BY <1>1, <1>2
  <1> QED
    BY <1>3, <1>4

LEMMA BindingCounted ==
    ASSUME Counted, NEW e \in Ids, NEW inLayout \in BOOLEAN, SaveBinding(e, inLayout)
    PROVE  KeysAfter
  <1>1. TypeInv /\ elements' = elements /\ elements \subseteq Ids /\ pulses' = pulses
        /\ st \in [Ids -> Fields] /\ conf \in [Ids -> Confs]
    BY WorldIds DEF Counted, TypeInv, FieldsTyped, SaveBinding
  <1>2. CASE UNCHANGED <<keys, st, conf>>
    BY <1>1, <1>2, IdleCounted
  <1>3. CASE /\ inLayout /\ keys' = Up(keys, Holding(e)) /\ st' = [st EXCEPT ![e] = Rebound(e)]
             /\ \E c \in Savable[KindOf[e]] :
                    conf' = [conf EXCEPT ![e] = [c EXCEPT !.shooting = conf[e].shooting, !.place = conf[e].place]]
    <2>1. e \in elements
      BY <1>1, <1>3 DEF SaveBinding, TypeInv, FingersTyped
    <2>2. st'[e] = Rebound(e) /\ \A o \in Ids \ {e} : st'[o] = st[o]
      BY <1>1, <1>3
    <2>3. \A o \in Ids \ {e} : conf'[o] = conf[o]
      BY <1>1, <1>3
    <2>4. HoldingOf(e, conf'[e], st'[e]) = {}
      BY <1>1, <2>2, ReboundQuiet, QuietHolds
    <2>5. \A o \in elements \ {e} : HoldingOf(o, conf'[o], st'[o]) = HoldingOf(o, conf[o], st[o])
      BY <1>1, <2>2, <2>3
    <2> DEFINE X == HoldingOf(e, conf[e], st[e])
    <2>6. keys' = Up(keys, X)
      BY <1>3 DEF Holding
    <2>7. X \in SUBSET Held /\ HeldIn(elements', conf', st') = Held \ X
      BY <1>1, <2>1, <2>4, <2>5, DroppedHeld
    <2> HIDE DEF X
    <2> QED
      BY <1>1, <2>6, <2>7, LessCounted
  <1> QED
    BY <1>2, <1>3 DEF SaveBinding, Rebound

LEMMA RemoveCounted ==
    ASSUME Counted, NEW e \in Ids, NEW inLayout \in BOOLEAN, RemoveElement(e, inLayout)
    PROVE  KeysAfter
  <1>1. TypeInv /\ elements \subseteq Ids /\ pulses' = pulses /\ st \in [Ids -> Fields] /\ conf \in [Ids -> Confs]
    BY WorldIds DEF Counted, TypeInv, FieldsTyped, RemoveElement
  <1>2. CASE UNCHANGED <<elements, keys, st, conf>>
    BY <1>1, <1>2, IdleCounted
  <1>3. CASE inLayout
    <2>1. e \in elements
      BY <1>1, <1>3 DEF RemoveElement, TypeInv, FingersTyped
    <2>2. /\ elements' = elements \ {e} /\ keys' = Up(keys, Holding(e))
          /\ st' = [o \in Ids |-> IF o = e THEN Fresh
                                  ELSE IF st[o].mover = e THEN [st[o] EXCEPT !.mover = Gone] ELSE st[o]]
          /\ conf' = [conf EXCEPT ![e] = Default(e)]
      BY <1>3 DEF RemoveElement
    <2>3. ASSUME NEW o \in elements \ {e} PROVE HoldingOf(o, conf'[o], st'[o]) = HoldingOf(o, conf[o], st[o])
      <3>1. o \in Ids /\ st[o] \in Fields /\ conf'[o] = conf[o]
        BY <1>1, <2>2
      <3>2. st'[o] = st[o] \/ st'[o] = [st[o] EXCEPT !.mover = Gone]
        BY <2>2, <3>1
      <3>3. \A s \in Fields : SameHold([s EXCEPT !.mover = Gone], s) /\ SameHold(s, s)
        BY DEF SameHold, Fields
      <3>4. SameHold(st'[o], st[o])
        BY <3>1, <3>2, <3>3
      <3> QED
        BY <3>1, <3>4, HoldingSame
    <2>4. e \notin elements'
      BY <2>2
    <2> DEFINE X == HoldingOf(e, conf[e], st[e])
    <2>5. keys' = Up(keys, X)
      BY <2>2 DEF Holding
    <2>6. X \in SUBSET Held /\ HeldIn(elements', conf', st') = Held \ X
      BY <2>1, <2>2, <2>3, <2>4, DroppedHeld
    <2> HIDE DEF X
    <2> QED
      BY <1>1, <2>5, <2>6, LessCounted
  <1> QED
    BY <1>2, <1>3 DEF RemoveElement

\* An element that is added holds nothing.
LEMMA AddCounted ==
    ASSUME Counted, NEW e \in Ids, Add(e)
    PROVE  KeysAfter
  <1>1. e \notin elements /\ elements' = elements \cup {e} /\ UNCHANGED <<conf, st, keys, pulses>>
    BY DEF Add, inputVars
  <1>2. HoldingOf(e, conf[e], st[e]) = {}
    BY <1>1, QuietHolds DEF Counted, HoldInv
  <1>3. HeldIn(elements', conf', st') = Held
    BY <1>1, <1>2 DEF HeldIn, Held
  <1> QED
    BY <1>1, <1>3, StillCounted

\* A step that releases everything.
LEMMA AllCounted ==
    ASSUME Counted, \A e \in elements' : Quiet(e, st'[e]), keys' = Up(keys, HeldBy(elements)), pulses' = pulses
    PROVE  KeysAfter
  <1>1. HeldIn(elements', conf', st') = {}
    BY QuietHolds DEF HeldIn
  <1>2. keys' = Up(keys, Held)
    BY HeldNow DEF Held
  <1>3. Held \in SUBSET Held /\ Held \ Held = {}
    OBVIOUS
  <1> QED
    BY <1>1, <1>2, <1>3, LessCounted

LEMMA StopCounted ==
    ASSUME Counted, Stop
    PROVE  KeysAfter
  <1>1. TypeInv /\ elements \subseteq Ids /\ elements' = elements /\ keys' = Up(keys, HeldBy(elements)) /\ pulses' = pulses
        /\ st' = [e \in Ids |-> IF e \in elements THEN Released(e) ELSE st[e]]
    BY WorldIds DEF Counted, TypeInv, Stop
  <1>2. \A e \in elements' : Quiet(e, st'[e])
    BY <1>1, ReleasedQuiet
  <1> QED
    BY <1>1, <1>2, AllCounted

\* Nothing is held, and nothing counted.
LEMMA NothingCounted ==
    ASSUME NEW H, NEW P, H = {}, P = {}
    PROVE  Right(NoKeys, Total(H, P))
  BY TimesEmpty DEF Right, Total, NoKeys

LEMMA RelaunchCounted ==
    ASSUME Relaunch, elements' \subseteq Ids
    PROVE  KeysAfter
  <1>1. keys' = NoKeys /\ pulses' = <<>> /\ st' = [e \in Ids |-> Fresh]
    BY DEF Relaunch
  <1>2. \A e \in elements' : Quiet(e, st'[e])
    BY <1>1, FreshQuiet
  <1>3. HeldIn(elements', conf', st') = {}
    BY <1>2, QuietHolds DEF HeldIn
  <1>4. PulsesOf(pulses') = {}
    BY <1>1 DEF PulsesOf
  <1>5. PulsesTyped'
    BY <1>1, VirtualControllerAssumption DEF PulsesTyped
  <1>6. KeysInv'
    BY <1>1, <1>3, <1>4, NothingCounted DEF KeysInv, Held, Pulsing
  <1> QED
    BY <1>5, <1>6 DEF KeysAfter

LEMMA KeysNext ==
    TypeInv /\ TypeInv' /\ HoldInv /\ SizedInv /\ PulsesTyped /\ KeysInv /\ [Next]_vars => PulsesTyped' /\ KeysInv'
  <1> SUFFICES ASSUME TypeInv', Counted, [Next]_vars PROVE KeysAfter
    BY DEF Counted, KeysAfter
  <1>0. elements' \subseteq Ids
    <2>1. world' \in Worlds /\ elements' \subseteq world'.ids
      BY DEF TypeInv, WorldTyped
    <2>2. world' \in [ids : SUBSET Ids, profiles : SUBSET Profiles, fingers : Nat, moves : BOOLEAN]
      BY <2>1, VirtualControllerAssumption
    <2> QED
      BY <2>1, <2>2
  <1>1. ASSUME NEW e \in Ids, Touch(e) \/ Slide(e) \/ Lift(e) \/ Cancel(e) PROVE KeysAfter
    BY <1>1, TouchCounted
  <1>2. ASSUME NEW e \in Ids, Add(e) PROVE KeysAfter
    BY <1>2, AddCounted
  <1>3. ASSUME NEW e \in Ids, NEW inLayout \in BOOLEAN, SaveBinding(e, inLayout) \/ RemoveElement(e, inLayout)
        PROVE  KeysAfter
    BY <1>3, BindingCounted, RemoveCounted
  <1>4. CASE (\E p \in Profiles : SwitchProfile(p) \/ CreateProfile(p)) \/ DeleteProfile \/ ConfigurationChanged
    <2>1. \A e \in elements' : Quiet(e, st'[e])
      BY <1>0, <1>4, FreshQuiet DEF SwitchProfile, CreateProfile, DeleteProfile, ConfigurationChanged, Refresh
    <2>2. keys' = Up(keys, HeldBy(elements)) /\ pulses' = pulses
      BY <1>4 DEF SwitchProfile, CreateProfile, DeleteProfile, ConfigurationChanged, Refresh
    <2> QED
      BY <2>1, <2>2, AllCounted
  <1>5. CASE Stop
    BY <1>5, StopCounted
  <1>6. CASE Relaunch
    BY <1>0, <1>6, RelaunchCounted
  <1>7. CASE PulseEnds
    BY <1>7, PulseEndsCounted
  <1>8. CASE UNCHANGED vars \/ (\E d \in dialogs : DismissDialog(d)) \/ Configure
    <2>1. UNCHANGED <<elements, conf, st, keys, pulses>>
      BY <1>8 DEF vars, elementVars, inputVars, DismissDialog, Configure
    <2> QED
      BY <2>1, IdleCounted
  <1> QED
    BY <1>1, <1>2, <1>3, <1>4, <1>5, <1>6, <1>7, <1>8 DEF Next

LEMMA KeysInit == Init => PulsesTyped /\ KeysInv
  <1> SUFFICES ASSUME Init PROVE PulsesTyped /\ KeysInv
    OBVIOUS
  <1>1. elements \subseteq Ids /\ keys = NoKeys /\ pulses = <<>> /\ st = [e \in Ids |-> Fresh]
    BY TypeInit, WorldIds DEF Init, TypeInv
  <1>2. HeldIn(elements, conf, st) = {}
    BY <1>1, FreshQuiet, QuietHolds DEF HeldIn
  <1>3. PulsesOf(pulses) = {}
    BY <1>1 DEF PulsesOf
  <1>4. PulsesTyped
    BY <1>1, VirtualControllerAssumption DEF PulsesTyped
  <1>5. KeysInv
    BY <1>1, <1>2, <1>3, NothingCounted DEF KeysInv, Held, Pulsing
  <1> QED
    BY <1>4, <1>5

\* What is noted as missed is in the layout.
MissedTyped == missed \subseteq elements

LEMMA MissedNext == TypeInv /\ MissedTyped /\ [Next]_vars => MissedTyped'
  <1> SUFFICES ASSUME TypeInv, MissedTyped, [Next]_vars PROVE MissedTyped'
    OBVIOUS
  <1>1. ASSUME NEW e \in Ids, Touch(e) \/ Slide(e) \/ Lift(e) \/ Cancel(e) PROVE MissedTyped'
    <2>1. e \in elements /\ elements' = elements
      BY <1>1 DEF TypeInv, FingersTyped, Touch, Slide, Lift, Cancel, touchFrame
    <2>2. missed' \subseteq missed \cup {e} \cup {o \in elements : st[o].mover = e}
      BY <1>1 DEF Touch, Slide, Lift, Cancel, GestureEnds
    <2> QED
      BY <2>1, <2>2 DEF MissedTyped
  <1>2. ASSUME NEW e \in Ids, Add(e) PROVE MissedTyped'
    BY <1>2 DEF Add, inputVars, MissedTyped
  <1>3. ASSUME NEW e \in Ids, NEW inLayout \in BOOLEAN, SaveBinding(e, inLayout) PROVE MissedTyped'
    BY <1>3 DEF SaveBinding, MissedTyped
  <1>4. ASSUME NEW e \in Ids, NEW inLayout \in BOOLEAN, RemoveElement(e, inLayout) PROVE MissedTyped'
    BY <1>4 DEF RemoveElement, MissedTyped
  <1>5. CASE (\E p \in Profiles : SwitchProfile(p) \/ CreateProfile(p)) \/ DeleteProfile \/ ConfigurationChanged \/ Relaunch \/ Stop
    BY <1>5 DEF SwitchProfile, CreateProfile, DeleteProfile, ConfigurationChanged, Relaunch, Stop, Refresh, MissedTyped
  <1>6. CASE UNCHANGED vars \/ (\E d \in dialogs : DismissDialog(d)) \/ Configure \/ PulseEnds
    BY <1>6 DEF vars, elementVars, inputVars, DismissDialog, Configure, PulseEnds, MissedTyped
  <1> QED
    BY <1>1, <1>2, <1>3, <1>4, <1>5, <1>6 DEF Next

LEMMA MissedInit == Init => MissedTyped
  BY DEF Init, MissedTyped

LEMMA KeysWhat == TypeInv /\ HoldInv /\ SizedInv /\ PulsesTyped /\ KeysInv /\ MissedTyped => KeysSound
  <1> SUFFICES ASSUME Counted, MissedTyped PROVE KeysSound
    BY DEF Counted
  <1>1. TypeInv /\ IsFiniteSet(Held) /\ IsFiniteSet(Pulsing)
    BY CountedFinite DEF Counted
  <1>2. \A c \in Codes : Times(c, Held) \in Nat /\ Times(c, Pulsing) \in Nat
    BY <1>1, TimesNat
  <1>3. keys.refs = Total(Held, Pulsing) /\ keys.host = {c \in Codes : Total(Held, Pulsing)[c] > 0}
    BY DEF Counted, KeysInv, Right
  <1>4. Total(Held, Pulsing) \in [Codes -> Nat] /\ keys.host \subseteq Codes
    BY <1>2, <1>3 DEF Total
  <1>5. KeysAccounted
    <2>1. Held = HeldBy(elements) /\ Pulsing = PulsesOf(pulses)
      BY HeldNow DEF Held, Pulsing
    <2>2. \A c \in Codes : keys.refs[c] = Times(c, Held) + Times(c, Pulsing)
      BY <1>3 DEF Total
    <2> QED
      BY <1>3, <2>1, <2>2 DEF KeysAccounted
  <1>6. TypeOK
    <2>1. ASSUME NEW e \in Ids
          PROVE  /\ conf[e] \in Confs
                 /\ st[e].pressed \in BOOLEAN /\ st[e].down \in BOOLEAN
                 /\ st[e].mover \in Ids \cup {None, Gone}
                 /\ st[e].sel \in Nat
                 /\ st[e].tilt \in Tilts
                 /\ st[e].next \in {1, 2} /\ st[e].active \in 0 .. 2
      BY <1>1 DEF TypeInv, FieldsTyped, Fields
    <2>2. DOMAIN conf = Ids
      BY <1>1 DEF TypeInv, FieldsTyped
    <2>3. Len(pulses) <= MaxPulses
      BY DEF Counted, PulsesTyped
    <2> QED
      BY <1>1, <1>3, <1>4, <2>1, <2>2, <2>3
      DEF TypeOK, TypeInv, WorldTyped, FingersTyped, ListTyped, StoredTyped, MissedTyped
  <1> QED
    BY <1>5, <1>6 DEF KeysSound

\* Each key is counted once for every place of a binding that an element or a
\* pulse under way holds, and the host holds it exactly when that is at least
\* one: for any elements, bindings, fingers, dialogs, profiles and pulses.
THEOREM KeysCorrect == Spec => []KeysSound
  BY TypeInit, TypeNext, HoldInit, HoldNext, SizedInit, SizedNext, KeysInit, KeysNext, MissedInit, MissedNext, KeysWhat, PTL DEF Spec
=============================================================================
