---------------------------- MODULE TouchContexts ----------------------------
(***************************************************************************)
(* Fingers on the stream and the mouse buttons they press on the host.     *)
(*   binding/input/touch/RelativeTouchContext.java (a trackpad),           *)
(*   binding/input/touch/AbsoluteTouchContext.java, Game.handleMotionEvent *)
(*                                                                         *)
(* Two contexts follow the fingers with the indices 0 and 1.  They decide  *)
(* with timers on the main thread what a gesture is: a tap, a drag, a long *)
(* press, or nothing any more.  What makes this hard: an index is not a    *)
(* finger (when the first one is lifted the second takes its place, and a  *)
(* new one may take it again), a button of the last tap may be released    *)
(* while the next gesture has begun, and some events never reach the       *)
(* contexts.                                                               *)
(*                                                                         *)
(* Time is counted in units of ReleaseTime, too coarse for the order of    *)
(* messages that are due in the same unit.  Left out: coordinates (a move  *)
(* stays near, leaves the dead zone, or goes far), pointer motion,         *)
(* scrolling, styluses and mice, and the historical positions of a move    *)
(* event.                                                                  *)
(***************************************************************************)
EXTENDS Naturals, FiniteSets

CONSTANTS
    MaxFingers,       \* bound: fingers on the screen
    ReleaseTime,      \* the delay of a button's release and of tapDownRunnable
    TapTime,          \* TAP_TIME_THRESHOLD
    KeyboardTime,     \* THREE_FINGER_TAP_THRESHOLD
    LongTime,         \* DRAG_TIME_THRESHOLD, LONG_PRESS_TIME_THRESHOLD
    No                \* no finger; no time

ASSUME TouchAssumption ==
    /\ MaxFingers \in Nat \ {0}
    /\ {ReleaseTime, TapTime, KeyboardTime, LongTime} \subseteq Nat
    /\ 0 < ReleaseTime /\ ReleaseTime < TapTime /\ TapTime < LongTime
    /\ No \notin Nat

VARIABLES
    trackpad,   \* prefConfig.touchscreenTrackpad
    fingers,    \* pointer ids on the stream, in the order of their indices
    contexts,   \* touchContextMap
    due,        \* the time that is left of each delayed message
    buttons,    \* the mouse buttons the host has down
    allowed,    \* allowLeftClick of the active blank area mode
    editing,    \* the on-screen controls are being moved or resized, or the input is not grabbed
    sinceThree, \* time since three fingers were down
    kept        \* history: the contexts did not hear of a lift they needed, or of a second finger

touch == <<contexts, due, buttons>>
touchVars == <<trackpad, fingers, touch, allowed, editing, sinceThree, kept>>

Indices == {0, 1}
Button(i) == IF i = 0 THEN "left" ELSE "right"
Ids == 0 .. MaxFingers - 1
Index(f, S) == Cardinality({g \in S : g < f})
Later(t, limit) == IF t < limit THEN t + 1 ELSE t

\* confirmedMove, confirmedDrag, confirmedTap, confirmedLongPress; most is
\* maxPointerCountInGesture and click gesturePrimaryClickEnabled.  owner is
\* the finger a context was told of last, taps counts its taps, and early says
\* that it pressed a button whose release was still to come: history.
Contexts == [cancelled : BOOLEAN, move : BOOLEAN, drag : BOOLEAN, tap : BOOLEAN, long : BOOLEAN,
             count : 0 .. MaxFingers, most : 0 .. MaxFingers, click : BOOLEAN, age : 0 .. TapTime + 1,
             owner : Ids \cup {No}, taps : Nat, early : BOOLEAN]
NewContext == [cancelled |-> FALSE, move |-> FALSE, drag |-> FALSE, tap |-> FALSE, long |-> FALSE,
               count |-> 0, most |-> 0, click |-> TRUE, age |-> TapTime + 1,
               owner |-> No, taps |-> 0, early |-> FALSE]

----------------------------------------------------------------------------
(* The methods of the contexts map <<contexts, due, buttons>>, as a          *)
(* record, to what they become.                                             *)

Messages == {"drag", "tapDown", "longPress", "left", "right"}

\* handler.removeCallbacks, handler.postDelayed
Without(w, what) == [w EXCEPT !.due[what] = No]
Posted(w, what, delay) == [w EXCEPT !.due[what] = delay]

Pressed(w, b) == [w EXCEPT !.buttons = @ \cup {b}]
Raised(w, b) == [w EXCEPT !.buttons = @ \ {b}]
\* A press whose release follows ReleaseTime later.
Clicked(w, i) == Posted([Pressed(w, Button(i)) EXCEPT !.contexts[i].taps = @ + 1], Button(i), ReleaseTime)
Pending(w, what) == w.due[what] # No

\* RelativeTouchContext
RelativeDown(w, i) ==
    LET c == [w.contexts[i] EXCEPT !.most = w.contexts[i].count, !.age = 0,
                 !.cancelled = FALSE, !.drag = FALSE, !.move = FALSE,
                 !.click = (i = 0 => allowed)]
        v == [w EXCEPT !.contexts[i] = c]
    IN  IF i = 0 THEN Posted(v, "drag", LongTime) ELSE v

\* (mutant: every finger of a tap taps)
IsTapOfEach(c, i) == ~c.drag /\ ~c.move /\ c.age <= TapTime

IsTap(c, i) == ~c.drag /\ ~c.move /\ i + 1 = c.most /\ c.age <= TapTime

RelativeUp(w, i) ==
    LET c == w.contexts[i]
        v == IF i = 0 THEN Without(w, "drag") ELSE w
    IN  CASE c.cancelled -> w
          [] ~c.cancelled /\ c.drag -> Raised(v, Button(i))
          [] ~c.cancelled /\ IsTap(c, i) /\ (i # 0 \/ c.click) -> Clicked(v, i)
          [] OTHER -> v

RelativeMove(w, i, d) ==
    LET c == w.contexts[i]
        v == [w EXCEPT !.contexts[i].move = TRUE]
    IN  IF c.cancelled \/ c.move \/ c.drag \/ d = "near" THEN w
        ELSE IF i = 0 THEN Without(v, "drag") ELSE v

RelativeCancel(w, i) ==
    LET v == [(IF i = 0 THEN Without(w, "drag") ELSE w) EXCEPT !.contexts[i].cancelled = TRUE]
    IN  IF w.contexts[i].drag THEN Raised(v, Button(i)) ELSE v

RelativeCount(w, i, n) ==
    [w EXCEPT !.contexts[i].count = n, !.contexts[i].most = IF n > @ THEN n ELSE @]

DragTimer(w) ==
    LET c == w.contexts[0]
    IN  IF c.move \/ c.most # 1 \/ ~c.click THEN w
        ELSE Pressed([w EXCEPT !.contexts[0].drag = TRUE], "left")

\* AbsoluteTouchContext
AbsoluteDown(w, i) ==
    LET v == [w EXCEPT !.contexts[i] = [@ EXCEPT !.cancelled = FALSE, !.tap = FALSE, !.long = FALSE]]
    IN  IF i = 0 THEN Posted(Posted(v, "tapDown", ReleaseTime), "longPress", LongTime) ELSE v

TapConfirmed(w) ==
    IF w.contexts[0].tap \/ w.contexts[0].long THEN w
    ELSE Pressed(Without([w EXCEPT !.contexts[0] = [@ EXCEPT !.tap = TRUE, !.early = Pending(w, "left")]], "tapDown"),
                 "left")

AbsoluteUp(w, i) ==
    LET c == w.contexts[i]
        v == Without(Without(w, "longPress"), "tapDown")
    IN  CASE c.cancelled \/ i # 0 -> w
          [] ~c.cancelled /\ i = 0 /\ c.long -> Raised(v, "right")
          [] ~c.cancelled /\ i = 0 /\ ~c.long /\ c.tap -> Raised(v, "left")
          [] OTHER -> Clicked(TapConfirmed(v), 0)

AbsoluteMove(w, i, d) ==
    LET v == IF d = "far" THEN Without(w, "longPress") ELSE w
    IN  IF w.contexts[i].cancelled \/ i # 0 THEN w
        ELSE IF d # "near" THEN TapConfirmed(v) ELSE v

\* (mutant: the timers go on)
AbsoluteCancelOnly(w, i) ==
    LET c == w.contexts[i]
        v == [w EXCEPT !.contexts[i].cancelled = TRUE]
    IN  CASE c.long -> Raised(v, "right")
          [] ~c.long /\ c.tap -> Raised(v, "left")
          [] OTHER -> v

AbsoluteCancel(w, i) ==
    LET c == w.contexts[i]
        u == IF i = 0 THEN Without(Without(w, "longPress"), "tapDown") ELSE w
        v == [u EXCEPT !.contexts[i].cancelled = TRUE]
    IN  CASE c.long -> Raised(v, "right")
          [] ~c.long /\ c.tap -> Raised(v, "left")
          [] OTHER -> v

\* A second finger ends the gesture of the first.
AbsoluteCount(w, i, n) == IF i = 0 /\ n > 1 THEN AbsoluteCancel(w, 0) ELSE w

\* (mutant: a tap that was confirmed stays down)
LongPressOnly(w) == Pressed([Without(w, "tapDown") EXCEPT !.contexts[0].long = TRUE], "right")

LongPress(w) ==
    LET v == [Without(w, "tapDown") EXCEPT !.contexts[0].long = TRUE]
    IN  Pressed(IF w.contexts[0].tap THEN Raised(v, "left") ELSE v, "right")

\* The class in use
TouchDown(w, i, f) ==
    LET v == [w EXCEPT !.contexts[i] = [@ EXCEPT !.owner = f, !.taps = 0, !.early = FALSE]]
    IN  IF trackpad THEN RelativeDown(v, i) ELSE AbsoluteDown(v, i)
TouchUp(w, i) == IF trackpad THEN RelativeUp(w, i) ELSE AbsoluteUp(w, i)
TouchMove(w, i, d) == IF trackpad THEN RelativeMove(w, i, d) ELSE AbsoluteMove(w, i, d)
CancelTouch(w, i) == IF trackpad THEN RelativeCancel(w, i) ELSE AbsoluteCancel(w, i)
SetCount(w, i, n) == IF trackpad THEN RelativeCount(w, i, n) ELSE AbsoluteCount(w, i, n)

SetCounts(w, n) == SetCount(SetCount(w, 0, n), 1, n)
CancelAll(w) == CancelTouch(CancelTouch(w, 0), 1)
Left(w, f) == [w EXCEPT !.contexts = [i \in Indices |-> IF @[i].owner = f THEN [@[i] EXCEPT !.owner = No, !.early = FALSE] ELSE @[i]]]

Now == [contexts |-> contexts, due |-> due, buttons |-> buttons]
Becomes(w) == contexts' = w.contexts /\ due' = w.due /\ buttons' = w.buttons
frame == UNCHANGED <<trackpad, allowed>>
----------------------------------------------------------------------------
(* handleMotionEvent, for the fingers on the stream.                        *)

\* A new finger has the lowest id that is free.  The third one ends the gesture;
\* there is no context for an index above 1.
\* Bound: no gesture is followed after one of which the contexts missed a part.
FingerDown(f) ==
    /\ f \in Ids \ fingers /\ \A g \in Ids : g < f => g \in fingers
    /\ ~kept
    /\ fingers' = fingers \cup {f}
    /\ LET n == Cardinality(fingers')
           i == Index(f, fingers')
       IN  \/ /\ editing /\ UNCHANGED <<due, buttons, sinceThree>>
              /\ contexts' = [c \in Indices |-> [contexts[c] EXCEPT !.taps = IF c = i THEN 0 ELSE @]]
           \/ ~editing /\ n = 3 /\ Becomes(CancelAll(Now)) /\ sinceThree' = 0
           \/ /\ ~editing /\ n # 3 /\ i \in Indices
              /\ Becomes(TouchDown(SetCounts(Now, n), i, f))
              /\ UNCHANGED sinceThree
           \/ ~editing /\ n # 3 /\ i \notin Indices /\ UNCHANGED <<touch, sinceThree>>
    /\ kept' = (kept \/ (editing /\ fingers # {}))
    /\ UNCHANGED editing /\ frame

\* A context needs the lift of its finger: to release a button, or to stop a timer.
Busy ==
    \/ \E b \in buttons : ~Pending(Now, b)
    \/ \E t \in {"drag", "tapDown", "longPress"} : Pending(Now, t)

\* The last of three fingers that tapped toggles the keyboard.  Android may
\* mark a lifted finger as cancelled.
FingerUp(f) ==
    /\ f \in fingers
    /\ fingers' = fingers \ {f}
    /\ LET i == Index(f, fingers)
           n == Cardinality(fingers)
       IN  \E cancelled \in BOOLEAN :
             LET keyboard == n = 1 /\ ~cancelled /\ sinceThree < KeyboardTime
                 handled == ~editing /\ ~keyboard /\ i \in Indices
             IN  /\ IF handled
                    THEN Becomes(Left(SetCounts(IF cancelled THEN CancelTouch(Now, i) ELSE TouchUp(Now, i), n - 1), f))
                    ELSE Becomes(Left(Now, f))
                 /\ kept' = (kept \/ ((editing \/ keyboard) /\ Busy))
    /\ UNCHANGED <<editing, sinceThree>> /\ frame

FingersMove ==
    /\ fingers # {} /\ ~editing
    /\ \E d \in [Indices -> {"near", "mid", "far"}] :
          LET w == TouchMove(Now, 0, d[0])
          IN  Becomes(IF Cardinality(fingers) > 1 THEN TouchMove(w, 1, d[1]) ELSE w)
    /\ UNCHANGED <<fingers, editing, sinceThree, kept>> /\ frame

GestureCancelled ==
    /\ fingers # {}
    /\ fingers' = {}
    /\ LET w == IF editing THEN Now ELSE SetCounts(CancelAll(Now), 0)
       IN  Becomes([w EXCEPT !.contexts = [i \in Indices |-> [@[i] EXCEPT !.owner = No, !.early = FALSE]]])
    /\ kept' = (kept \/ (editing /\ Busy))
    /\ UNCHANGED <<editing, sinceThree>> /\ frame

\* A message that is due; the release of a button was posted before the timers
\* of the next gesture.
TimerFires(what) ==
    /\ due[what] = 0
    /\ what = "tapDown" => due["left"] # 0
    /\ LET w == Without(Now, what)
       IN  Becomes(CASE what = "drag" -> DragTimer(w)
                     [] what = "tapDown" -> TapConfirmed(w)
                     [] what = "longPress" -> LongPress(w)
                     [] OTHER -> Raised(w, what))
    /\ UNCHANGED <<fingers, editing, sinceThree, kept>> /\ frame

Tick ==
    /\ \A m \in Messages : due[m] # 0
    /\ due' = [m \in Messages |-> IF due[m] = No THEN No ELSE due[m] - 1]
    /\ contexts' = [i \in Indices |-> [contexts[i] EXCEPT !.age = Later(@, TapTime + 1)]]
    /\ sinceThree' = Later(sinceThree, KeyboardTime)
    /\ UNCHANGED <<fingers, buttons, editing, kept>> /\ frame

\* The on-screen controls have views of their own: another finger on the gear
\* or on the switch of the blank area.  So have the keys that grab and ungrab.
Controls ==
    /\ \/ editing' = ~editing /\ UNCHANGED allowed
       \/ allowed' = ~allowed /\ UNCHANGED editing
    /\ UNCHANGED <<trackpad, fingers, touch, sinceThree, kept>>

TouchInit ==
    /\ trackpad \in BOOLEAN /\ allowed \in BOOLEAN
    /\ fingers = {} /\ buttons = {} /\ due = [m \in Messages |-> No]
    /\ contexts = [i \in Indices |-> NewContext]
    /\ editing = FALSE /\ kept = FALSE
    /\ sinceThree = KeyboardTime

TouchNext ==
    \/ \E f \in Ids : FingerDown(f) \/ FingerUp(f)
    \/ FingersMove \/ GestureCancelled
    \/ \E what \in Messages : TimerFires(what)
    \/ Tick \/ Controls

TouchSpec == TouchInit /\ [][TouchNext]_touchVars
----------------------------------------------------------------------------
\* The variables have their types.
TouchTyped ==
    /\ trackpad \in BOOLEAN /\ allowed \in BOOLEAN /\ editing \in BOOLEAN /\ kept \in BOOLEAN
    /\ fingers \subseteq Ids
    /\ contexts \in [Indices -> Contexts]
    /\ due \in [Messages -> 0 .. LongTime \cup {No}]
    /\ buttons \subseteq {"left", "right"}
    /\ sinceThree \in 0 .. KeyboardTime

\* With no finger on the screen and no message under way no button is down,
\* in whatever order fingers came, left, changed places or were cancelled;
\* unless a lift was kept from the context that had to handle it.
\* (touchUpEvent, cancelTouch, setPointerCount, handleMotionEvent)
NoButtonLeft == fingers = {} /\ (\A m \in Messages : due[m] = No) /\ ~kept => buttons = {}

\* A button that a context presses for a finger is down until that finger is
\* lifted, whatever messages of earlier gestures fire meanwhile; only a press
\* within ReleaseTime of a tap is cut short by the release of that tap.
\* (dragTimerRunnable, longPressRunnable, tapConfirmed)
PressHolds ==
    LET c == contexts[0]
    IN  ~c.cancelled /\ c.owner \in fingers /\ ~c.early =>
          /\ c.drag \/ (c.tap /\ ~c.long) => "left" \in buttons
          /\ c.long => "right" \in buttons

\* "This ensures we don't report duplicate taps for each finger on a
\* multi-finger tap gesture": of the fingers that are down together one taps.
\* (isTap)
TapOnce == ~kept => \A i \in Indices : contexts[i].taps <= 1

\* Touching the screen itself presses one button at a time: a long press takes
\* the left button back before it presses the right one.  (longPressRunnable)
OneButton == ~trackpad /\ ~kept => Cardinality(buttons) <= 1

\* The two together, with the types.
PressSound == TouchTyped /\ PressHolds /\ OneButton
=============================================================================
