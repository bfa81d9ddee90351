----------------------------- MODULE InputProof -----------------------------
(***************************************************************************)
(* Proofs about InputGrab, for any keys and bounds: type correctness, the  *)
(* agreement of the grab, the provider and Android's pointer capture, and  *)
(* what the shortcuts leave of the keyboard; and about TouchContexts, for  *)
(* any number of fingers and any delays: which buttons the contexts hold   *)
(* down, that none stays down, and that a tap is one tap.                  *)
(***************************************************************************)
EXTENDS InputGrab, TouchContexts, FiniteSetTheorems, TLAPS

-----------------------------------------------------------------------------
(* Type correctness *)

\* The stream posts its grab once.
TypeInv == TypeOK /\ (conn = "starting" => posted.grab = 0)

LEMMA TypeInit == Init => TypeInv
  <1> SUFFICES ASSUME Init PROVE TypeInv
    OBVIOUS
  <1>1. posted \in [{"toggle", "grab", "recapture"} -> 0 .. MaxPosted] /\ posted.grab = 0
    BY GrabAssumption DEF Init
  <1>2. /\ held \subseteq Keys /\ last \in held \cup {None}
        /\ modifierFlags \subseteq Combo
        /\ specialKeyCode \in Shortcuts \cup {None}
        /\ host \subseteq Keys /\ left \subseteq host
    BY DEF Init
  <1> QED
    BY <1>1, <1>2 DEF Init, TypeInv, TypeOK

\* A mask is made of the three modifiers, and no shortcut is a modifier.
LEMMA MaskType ==
    /\ \A k : Mask(k) \subseteq Combo
    /\ \A k \in Shortcuts : Mask(k) = {}
  <1>1. ASSUME NEW k PROVE Mask(k) \subseteq Combo
    <2>1. CASE k \in {"CTRL_LEFT", "CTRL_RIGHT"}
      BY <2>1 DEF Mask, Combo
    <2>2. CASE k = "ALT_LEFT"
      BY <2>2 DEF Mask, Combo
    <2>3. CASE k = "SHIFT_LEFT"
      BY <2>3 DEF Mask, Combo
    <2>4. CASE k \notin ModifierKeys
      BY <2>4 DEF Mask, ModifierKeys
    <2> QED
      BY <2>1, <2>2, <2>3, <2>4 DEF ModifierKeys
  <1>2. ASSUME NEW k \in Shortcuts PROVE Mask(k) = {}
    BY GrabAssumption DEF Mask
  <1> QED
    BY <1>1, <1>2

\* Showing and hiding the cursor keep the provider typed.
LEMMA CursorType ==
    ASSUME TypeOK, ShowCursor \/ HideCursor
    PROVE  /\ isCursorVisible' \in BOOLEAN /\ listening' \in BOOLEAN
           /\ captured' \in BOOLEAN /\ late' \in BOOLEAN
  BY DEF TypeOK, ShowCursor, HideCursor, Request

LEMMA GrabType ==
    ASSUME TypeOK, NEW grab \in BOOLEAN, SetInputGrabState(grab)
    PROVE  /\ isCursorVisible' \in BOOLEAN /\ listening' \in BOOLEAN
           /\ captured' \in BOOLEAN /\ late' \in BOOLEAN
           /\ isCapturing' \in BOOLEAN /\ meta' \in BOOLEAN /\ grabbedInput' \in BOOLEAN
  BY CursorType DEF SetInputGrabState

\* So do the shortcuts with the rest of what they touch.
LEMMA SpecialType ==
    ASSUME TypeInv, NEW k \in Keys, NEW down \in BOOLEAN, HandleSpecialKeys(k, down)
    PROVE  /\ modifierFlags' \subseteq Combo
           /\ specialKeyCode' \in Shortcuts \cup {None}
           /\ grabbedInput' \in BOOLEAN /\ cursorVisible' \in BOOLEAN /\ meta' \in BOOLEAN
           /\ isCapturing' \in BOOLEAN /\ isCursorVisible' \in BOOLEAN
           /\ listening' \in BOOLEAN /\ captured' \in BOOLEAN /\ late' \in BOOLEAN
           /\ device' \in BOOLEAN /\ focus' \in BOOLEAN
           /\ posted' \in [{"toggle", "grab", "recapture"} -> 0 .. MaxPosted]
           /\ posted'.grab = posted.grab
           /\ conn' = conn
           /\ activity' \in {"open", "finishing", "gone"}
  <1>1. modifierFlags' \subseteq Combo
    BY MaskType DEF TypeInv, TypeOK, HandleSpecialKeys, Flags
  <1>2. specialKeyCode' \in Shortcuts \cup {None}
    BY DEF TypeInv, TypeOK, HandleSpecialKeys, Begins
  <1>3. CASE Completes(k, down)
    <2>1. Perform(specialKeyCode)
      BY <1>3 DEF HandleSpecialKeys
    <2>2. CASE specialKeyCode = "Z"
      BY <2>1, <2>2, <1>1, <1>2, GrabAssumption
         DEF TypeInv, TypeOK, Perform, viewVars, HandleSpecialKeys
    <2>3. CASE specialKeyCode = "Q"
      BY <2>1, <2>3, <1>1, <1>2 DEF TypeInv, TypeOK, Perform, viewVars, HandleSpecialKeys
    <2>4. CASE specialKeyCode = "C"
      <3>1. ShowCursor \/ HideCursor
        BY <2>1, <2>4 DEF Perform
      <3> QED
        BY <3>1, <2>1, <2>4, <1>1, <1>2, CursorType
           DEF TypeInv, TypeOK, Perform, HandleSpecialKeys
    <2> QED
      BY <2>1, <2>2, <2>3, <2>4 DEF Perform
  <1>4. CASE ~Completes(k, down)
    BY <1>4, <1>1, <1>2 DEF TypeInv, TypeOK, HandleSpecialKeys, viewVars
  <1> QED
    BY <1>3, <1>4

LEMMA TypeNext == TypeInv /\ [Next]_vars => TypeInv'
  <1> SUFFICES ASSUME TypeInv, [Next]_vars PROVE TypeInv'
    OBVIOUS
  <1>1. ASSUME NEW k \in Keys, HandleKeyDown(k) PROVE TypeInv'
    BY <1>1, SpecialType DEF TypeInv, TypeOK, HandleKeyDown
  <1>2. ASSUME NEW k \in Keys, HandleKeyUp(k) PROVE TypeInv'
    BY <1>2, SpecialType DEF TypeInv, TypeOK, HandleKeyUp, hostVars
  <1>3. CASE HandleKeyRepeat
    <2>1. last \in Keys
      BY <1>3 DEF TypeInv, TypeOK, HandleKeyRepeat
    <2> QED
      BY <1>3, <2>1, SpecialType DEF TypeInv, TypeOK, HandleKeyRepeat, hostVars
  <1>4. CASE FocusLost
    <2>1. focus' \in BOOLEAN /\ captured' \in BOOLEAN /\ late' \in BOOLEAN /\ modifierFlags' \subseteq Combo
      BY <1>4 DEF FocusLost
    <2> QED
      BY <1>4, <2>1 DEF TypeInv, TypeOK, FocusLost, hostVars, grabVars, lifeVars
  <1>5. CASE FocusGained
    BY <1>5, GrabAssumption DEF TypeInv, TypeOK, FocusGained, hostVars, grabVars, viewVars, lifeVars
  <1>6. CASE Recapture
    BY <1>6, GrabAssumption
       DEF TypeInv, TypeOK, Recapture, Request, keyVars, hostVars, grabVars, lifeVars
  <1>7. CASE ToggleGrab
    <2>1. (~grabbedInput) \in BOOLEAN
      OBVIOUS
    <2>2. /\ isCursorVisible' \in BOOLEAN /\ listening' \in BOOLEAN
          /\ captured' \in BOOLEAN /\ late' \in BOOLEAN
          /\ isCapturing' \in BOOLEAN /\ meta' \in BOOLEAN /\ grabbedInput' \in BOOLEAN
      BY <1>7, <2>1, GrabType DEF TypeInv, ToggleGrab
    <2>3. /\ posted' \in [{"toggle", "grab", "recapture"} -> 0 .. MaxPosted]
          /\ posted'.grab = posted.grab
      BY <1>7, GrabAssumption DEF TypeInv, TypeOK, ToggleGrab
    <2>4. left' \subseteq host
      BY <1>7 DEF TypeInv, TypeOK, ToggleGrab, Leave
    <2> QED
      BY <1>7, <2>2, <2>3, <2>4 DEF TypeInv, TypeOK, ToggleGrab, keyVars, lifeVars
  <1>8. CASE GrabStarted
    <2>1. /\ isCursorVisible' \in BOOLEAN /\ listening' \in BOOLEAN
          /\ captured' \in BOOLEAN /\ late' \in BOOLEAN
          /\ isCapturing' \in BOOLEAN /\ meta' \in BOOLEAN /\ grabbedInput' \in BOOLEAN
      BY <1>8, GrabType DEF TypeInv, GrabStarted
    <2>2. posted' \in [{"toggle", "grab", "recapture"} -> 0 .. MaxPosted] /\ conn # "starting"
      BY <1>8, GrabAssumption DEF TypeInv, TypeOK, GrabStarted
    <2> QED
      BY <1>8, <2>1, <2>2 DEF TypeInv, TypeOK, GrabStarted, keyVars, hostVars, lifeVars
  <1>9. CASE DeviceAdded \/ DeviceRemoved \/ DeviceChanged
    <2>1. CASE DeviceAdded
      <3>1. captured' \in BOOLEAN /\ device' \in BOOLEAN
        BY <2>1 DEF TypeInv, TypeOK, DeviceAdded, Request
      <3> QED
        BY <2>1, <3>1 DEF TypeInv, TypeOK, DeviceAdded, keyVars, hostVars, grabVars, lifeVars
    <2>2. CASE DeviceRemoved
      <3>1. captured' \in BOOLEAN /\ late' \in BOOLEAN /\ device' \in BOOLEAN
        BY <2>2 DEF TypeInv, TypeOK, DeviceRemoved
      <3> QED
        BY <2>2, <3>1 DEF TypeInv, TypeOK, DeviceRemoved, keyVars, hostVars, grabVars, lifeVars
    <2>3. CASE DeviceChanged
      BY <2>3 DEF TypeInv, TypeOK, DeviceChanged, Request, keyVars, hostVars, grabVars, lifeVars
    <2> QED
      BY <1>9, <2>1, <2>2, <2>3
  <1>10. CASE ConnectionStarted
    BY <1>10, GrabAssumption DEF TypeInv, TypeOK, ConnectionStarted, keyVars, hostVars, grabVars, viewVars
  <1>11. CASE ConnectionTerminated
    BY <1>11, GrabType DEF TypeInv, TypeOK, ConnectionTerminated, keyVars
  <1>12. CASE OnPause
    BY <1>12, GrabType DEF TypeInv, TypeOK, OnPause, Leave, keyVars
  <1>13. CASE OnStop
    BY <1>13 DEF TypeInv, TypeOK, OnStop, keyVars, hostVars, grabVars, viewVars
  <1>14. CASE UNCHANGED vars
    BY <1>14 DEF TypeInv, TypeOK, vars, keyVars, hostVars, grabVars, viewVars, lifeVars
  <1> QED
    BY <1>1, <1>2, <1>3, <1>4, <1>5, <1>6, <1>7, <1>8, <1>9, <1>10, <1>11, <1>12, <1>13, <1>14
       DEF Next

\* The keys, the flags of the grab and of the provider and what is posted have
\* their types, whatever keys there are.  (Game.java, AndroidNativePointerCaptureProvider)
THEOREM GrabTypeCorrect == Spec => []TypeOK
  <1>1. TypeInv => TypeOK
    BY DEF TypeInv
  <1> QED
    BY TypeInit, TypeNext, <1>1, PTL DEF Spec

-----------------------------------------------------------------------------
(* The capture *)

\* The provider listens exactly while it captures without a cursor; without that
\* a device that arrives could take the pointer from a visible cursor, or fail to
\* give it.
CaptureInv ==
    /\ CapturedOnPurpose /\ CaptureHeld /\ ReleasedWhole
    /\ listening => ~isCursorVisible
    /\ isCapturing /\ ~isCursorVisible => listening

LEMMA CaptureInit == Init => CaptureInv
  BY DEF Init, CaptureInv, CapturedOnPurpose, CaptureHeld, ReleasedWhole

\* What the capture is about; steps that leave it alone keep CaptureInv.
captureVars == <<grabVars, viewVars, device, focus, posted.recapture>>

LEMMA CaptureUnchanged ==
    ASSUME CaptureInv, UNCHANGED captureVars
    PROVE  CaptureInv'
  BY DEF CaptureInv, CapturedOnPurpose, CaptureHeld, ReleasedWhole, captureVars, grabVars, viewVars

\* Every grab and release of the input.
LEMMA CaptureGrab ==
    ASSUME NEW grab \in BOOLEAN, SetInputGrabState(grab), CaptureInv, UNCHANGED <<device, focus>>
    PROVE  CaptureInv'
  <1>1. CASE grab /\ ~cursorVisible
    BY <1>1 DEF SetInputGrabState, HideCursor, Request,
                CaptureInv, CapturedOnPurpose, CaptureHeld, ReleasedWhole
  <1>2. CASE ~(grab /\ ~cursorVisible)
    BY <1>2 DEF SetInputGrabState, ShowCursor,
                CaptureInv, CapturedOnPurpose, CaptureHeld, ReleasedWhole
  <1> QED
    BY <1>1, <1>2

\* Every key, with the shortcut it may complete.
LEMMA CaptureSpecial ==
    ASSUME TypeInv, CaptureInv, NEW k, NEW down, HandleSpecialKeys(k, down)
    PROVE  CaptureInv'
  <1>1. UNCHANGED <<meta, device, focus>>
    BY DEF HandleSpecialKeys
  <1>2. CASE Completes(k, down)
    <2>1. Perform(specialKeyCode)
      BY <1>2 DEF HandleSpecialKeys
    <2>2. CASE specialKeyCode = "Z"
      <3>1. posted'.recapture = posted.recapture
        BY <2>1, <2>2 DEF Perform, TypeInv, TypeOK
      <3>2. UNCHANGED <<grabbedInput, viewVars>>
        BY <2>1, <2>2 DEF Perform
      <3> QED
        BY <1>1, <3>1, <3>2, CaptureUnchanged DEF captureVars, grabVars
    <2>3. CASE specialKeyCode = "Q"
      <3>1. UNCHANGED <<posted, grabbedInput, viewVars>>
        BY <2>1, <2>3 DEF Perform
      <3> QED
        BY <1>1, <3>1, CaptureUnchanged DEF captureVars, grabVars
    <2>4. CASE specialKeyCode = "C"
      <3>1. grabbedInput' = TRUE /\ (ShowCursor \/ HideCursor)
        BY <2>1, <2>4 DEF Perform
      <3>2. CASE ShowCursor
        BY <3>1, <3>2, <1>1 DEF ShowCursor, CaptureInv, CapturedOnPurpose, CaptureHeld, ReleasedWhole
      <3>3. CASE HideCursor
        BY <3>1, <3>3, <1>1
           DEF HideCursor, Request, CaptureInv, CapturedOnPurpose, CaptureHeld, ReleasedWhole
      <3> QED
        BY <3>1, <3>2, <3>3
    <2> QED
      BY <2>1, <2>2, <2>3, <2>4 DEF Perform
  <1>3. CASE ~Completes(k, down)
    <2>1. UNCHANGED <<posted, grabbedInput, viewVars>>
      BY <1>3 DEF HandleSpecialKeys
    <2> QED
      BY <1>1, <2>1, CaptureUnchanged DEF captureVars, grabVars
  <1> QED
    BY <1>2, <1>3

LEMMA CaptureNext == TypeInv /\ CaptureInv /\ [Next]_vars => CaptureInv'
  <1> SUFFICES ASSUME TypeInv, CaptureInv, [Next]_vars PROVE CaptureInv'
    OBVIOUS
  <1> USE DEF CaptureInv, CapturedOnPurpose, CaptureHeld, ReleasedWhole
  <1>1. ASSUME NEW k \in Keys, HandleKeyDown(k) \/ HandleKeyUp(k) PROVE CaptureInv'
    <2>1. CASE HandleKeyDown(k)
      BY <2>1, CaptureSpecial DEF HandleKeyDown
    <2>2. CASE HandleKeyUp(k)
      BY <2>2, CaptureSpecial DEF HandleKeyUp
    <2> QED
      BY <1>1, <2>1, <2>2
  <1>2. CASE HandleKeyRepeat
    BY <1>2, CaptureSpecial DEF HandleKeyRepeat
  <1>3. CASE FocusLost
    BY <1>3 DEF FocusLost, grabVars
  <1>4. CASE FocusGained
    <2>1. CASE isCapturing /\ ~isCursorVisible
      <3>1. posted'.recapture # 0
        BY <1>4, <2>1, GrabAssumption DEF FocusGained, TypeInv, TypeOK
      <3> QED
        BY <1>4, <3>1 DEF FocusGained, grabVars, viewVars
    <2>2. CASE ~(isCapturing /\ ~isCursorVisible)
      BY <1>4, <2>2 DEF FocusGained, grabVars, viewVars
    <2> QED
      BY <2>1, <2>2
  <1>5. CASE Recapture
    BY <1>5 DEF Recapture, Request, grabVars
  <1>6. CASE ToggleGrab
    <2>1. (~grabbedInput) \in BOOLEAN
      OBVIOUS
    <2> QED
      BY <1>6, <2>1, CaptureGrab DEF ToggleGrab
  <1>7. CASE GrabStarted
    BY <1>7, CaptureGrab DEF GrabStarted
  <1>8. CASE DeviceAdded
    <2>1. /\ UNCHANGED <<grabbedInput, meta, isCapturing, isCursorVisible, listening, late, focus, posted>>
          /\ device'
      BY <1>8 DEF DeviceAdded, grabVars
    <2>2. CASE listening /\ ~captured
      <3>1. captured' = (captured \/ focus)
        BY <1>8, <2>2 DEF DeviceAdded, Request
      <3> QED
        BY <2>1, <2>2, <3>1
    <2>3. CASE ~(listening /\ ~captured)
      <3>1. captured' = captured
        BY <1>8, <2>3 DEF DeviceAdded
      <3> QED
        BY <2>1, <2>3, <3>1
    <2> QED
      BY <2>2, <2>3
  <1>9. CASE DeviceRemoved
    BY <1>9 DEF DeviceRemoved, grabVars
  <1>10. CASE DeviceChanged
    BY <1>10 DEF DeviceChanged, Request, grabVars
  <1>11. CASE ConnectionStarted
    <2>1. posted'.recapture = posted.recapture
      BY <1>11 DEF ConnectionStarted, TypeInv, TypeOK
    <2> QED
      BY <1>11, <2>1, CaptureUnchanged DEF ConnectionStarted, captureVars
  <1>12. CASE ConnectionTerminated
    BY <1>12, CaptureGrab DEF ConnectionTerminated
  <1>13. CASE OnPause
    BY <1>13, CaptureGrab DEF OnPause
  <1>14. CASE OnStop
    BY <1>14, CaptureUnchanged DEF OnStop, captureVars
  <1>15. CASE UNCHANGED vars
    BY <1>15, CaptureUnchanged DEF vars, captureVars
  <1> QED
    BY <1>1, <1>2, <1>3, <1>4, <1>5, <1>6, <1>7, <1>8, <1>9, <1>10, <1>11, <1>12, <1>13, <1>14, <1>15
       DEF Next

\* The grab of the input, the provider and the pointer that Android captured agree
\* through every order of shortcuts, focus changes, devices and delayed Runnables.
\* (setInputGrabState, showCursor, hideCursor, onWindowFocusChanged)
THEOREM CaptureCorrect == Spec => []CaptureSound
  <1>1. TypeInv /\ CaptureInv => CaptureSound
    BY DEF TypeInv, CaptureInv, CaptureSound
  <1> QED
    BY TypeInit, TypeNext, CaptureInit, CaptureNext, <1>1, PTL DEF Spec

-----------------------------------------------------------------------------
(* The keyboard *)

\* Keys that are down on a host whose input is not grabbed were left there; a
\* shortcut key that Android repeats was eaten when it went down, so a repeat never
\* begins a shortcut with a key the host has down.
KeyboardInv ==
    /\ KeyboardSound
    /\ ~grabbedInput => host \subseteq left
    /\ conn # "connected" => host = {}
    /\ ~focus => held = {}
    /\ last \in Shortcuts /\ Combo \subseteq modifierFlags => Waiting

\* The masks of the keys that are down.
HeldMask == UNION {Mask(k) : k \in held}

LEMMA KeyboardInit == Init => KeyboardInv
  <1> SUFFICES ASSUME Init PROVE KeyboardInv
    OBVIOUS
  <1>1. ~Waiting /\ host = {} /\ modifierFlags = {} /\ last = None /\ grabbedInput /\ focus
    BY DEF Init, Waiting
  <1>2. None \notin Shortcuts
    BY GrabAssumption
  <1> QED
    BY <1>1, <1>2 DEF KeyboardInv, KeyboardSound

LEMMA KeyboardUnchanged ==
    ASSUME KeyboardInv, UNCHANGED <<keyVars, hostVars, grabbedInput, conn, focus>>
    PROVE  KeyboardInv'
  BY DEF KeyboardInv, KeyboardSound, Waiting, keyVars, hostVars

\* A waiting shortcut is one of the shortcuts, and its key has no mask.
LEMMA WaitingKey ==
    ASSUME TypeInv
    PROVE  /\ Waiting => specialKeyCode \in Shortcuts
           /\ \A k \in Keys : k # None
  BY GrabAssumption DEF TypeInv, TypeOK, Waiting, Keys, ModifierKeys

\* A key may grab the input but never ungrabs it at once.
LEMMA SpecialGrab ==
    ASSUME NEW k, NEW down, HandleSpecialKeys(k, down), grabbedInput
    PROVE  grabbedInput'
  <1>1. CASE Completes(k, down)
    BY <1>1 DEF HandleSpecialKeys, Perform
  <1>2. CASE ~Completes(k, down)
    BY <1>2 DEF HandleSpecialKeys
  <1> QED
    BY <1>1, <1>2

\* No key that goes down or repeats completes a shortcut.
LEMMA DownCompletesNothing ==
    ASSUME KeyboardInv, NEW k
    PROVE  ~Completes(k, TRUE)
  BY DEF KeyboardInv, KeyboardSound, Completes, Flags

\* A key that goes down.
LEMMA KeyboardDown ==
    ASSUME TypeInv, KeyboardInv, NEW k \in Keys, HandleKeyDown(k)
    PROVE  KeyboardInv'
  <1>1. /\ focus /\ k \notin held /\ left = {} /\ left' = {}
        /\ held' = held \cup {k} /\ last' = k
        /\ modifierFlags' = modifierFlags \cup Mask(k)
        /\ conn' = conn /\ focus'
    BY DEF HandleKeyDown, HandleSpecialKeys, Flags
  <1>2. specialKeyCode' = IF Begins(k, TRUE) THEN k ELSE specialKeyCode
    BY DownCompletesNothing DEF HandleKeyDown, HandleSpecialKeys
  <1>3. host' = IF Sent(k, TRUE) THEN host \cup {k} ELSE host
    BY DEF HandleKeyDown
  <1>4. host \subseteq held /\ specialKeyCode \notin host
    BY <1>1 DEF KeyboardInv, KeyboardSound
  <1>5. host' \subseteq held' \cup left'
    BY <1>1, <1>3, <1>4
  <1>6. specialKeyCode' \notin host'
    <2>1. CASE Begins(k, TRUE)
      BY <2>1, <1>1, <1>2, <1>3, <1>4 DEF Sent
    <2>2. CASE ~Begins(k, TRUE) /\ Waiting
      <3>1. Sent(k, TRUE) => k # specialKeyCode
        BY <2>2 DEF Sent, EatenWhileWaiting
      <3> QED
        BY <2>2, <3>1, <1>2, <1>3, <1>4
    <2>3. CASE ~Begins(k, TRUE) /\ ~Waiting
      BY <2>3, <1>2, <1>3, <1>4, WaitingKey DEF Waiting
    <2> QED
      BY <2>1, <2>2, <2>3
  <1>7. modifierFlags' \subseteq HeldMask'
    BY <1>1 DEF KeyboardInv, KeyboardSound, HeldMask
  <1>8. Waiting' => modifierFlags' # {}
    <2>1. CASE Begins(k, TRUE)
      BY <2>1, <1>1 DEF Begins, Flags, Combo
    <2>2. CASE ~Begins(k, TRUE)
      BY <2>2, <1>1, <1>2 DEF KeyboardInv, KeyboardSound, Waiting
    <2> QED
      BY <2>1, <2>2
  <1>9. ~grabbedInput' => host' \subseteq left'
    <2> SUFFICES ASSUME ~grabbedInput' PROVE host' \subseteq left'
      OBVIOUS
    <2>1. ~grabbedInput
      BY SpecialGrab DEF HandleKeyDown
    <2> QED
      BY <2>1, <1>1, <1>3 DEF KeyboardInv, Sent
  <1>10. conn' # "connected" => host' = {}
    BY <1>1, <1>3 DEF KeyboardInv, Sent
  <1>11. k \in Shortcuts /\ Combo \subseteq modifierFlags' => Waiting'
    <2> SUFFICES ASSUME k \in Shortcuts, Combo \subseteq modifierFlags' PROVE Waiting'
      OBVIOUS
    <2>1. Waiting \/ Begins(k, TRUE)
      BY <1>1 DEF Begins, Flags
    <2> QED
      BY <2>1, <1>2, WaitingKey DEF Waiting
  <1> QED
    BY <1>1, <1>5, <1>6, <1>7, <1>8, <1>9, <1>10, <1>11 DEF KeyboardInv, KeyboardSound, HeldMask

\* A key that is lifted.
LEMMA KeyboardUp ==
    ASSUME TypeInv, KeyboardInv, NEW k \in Keys, HandleKeyUp(k)
    PROVE  KeyboardInv'
  <1>1. /\ focus /\ held' = held \ {k} /\ last' = None
        /\ modifierFlags' = modifierFlags \ Mask(k)
        /\ conn' = conn /\ focus'
    BY DEF HandleKeyUp, HandleSpecialKeys, Flags
  <1>2. specialKeyCode' = IF Completes(k, FALSE) THEN None ELSE specialKeyCode
    BY DEF HandleKeyUp, HandleSpecialKeys, Begins
  <1>4. /\ Sent(k, FALSE) => host' = host \ {k} /\ left' = left \ {k}
        /\ ~Sent(k, FALSE) => host' = host /\ left' = left
    BY DEF HandleKeyUp, hostVars
  <1>5. ~Sent(k, FALSE) => k \notin host \/ k \in left
    <2> SUFFICES ASSUME ~Sent(k, FALSE) PROVE k \notin host \/ k \in left
      OBVIOUS
    <2>1. CASE EatenWhileWaiting(k, FALSE)
      BY <2>1 DEF EatenWhileWaiting, KeyboardInv, KeyboardSound
    <2>2. CASE ~grabbedInput'
      <3>1. ~grabbedInput
        BY <2>2, SpecialGrab DEF HandleKeyUp
      <3> QED
        BY <3>1 DEF KeyboardInv
    <2>3. CASE conn # "connected"
      BY <2>3 DEF KeyboardInv
    <2> QED
      BY <2>1, <2>2, <2>3 DEF Sent, Begins
  <1>6. host' \subseteq held' \cup left'
    BY <1>1, <1>4, <1>5 DEF KeyboardInv, KeyboardSound
  <1>7. specialKeyCode' \notin host' \ left'
    <2>1. host' \ left' \subseteq host \ left
      BY <1>4
    <2>2. None \notin host
      BY WaitingKey DEF TypeInv, TypeOK
    <2> QED
      BY <2>1, <2>2, <1>2 DEF KeyboardInv, KeyboardSound
  <1>8. modifierFlags' \subseteq HeldMask'
    BY <1>1 DEF KeyboardInv, KeyboardSound, HeldMask
  <1>9. Waiting' => modifierFlags' # {}
    <2> SUFFICES ASSUME Waiting' PROVE modifierFlags' # {}
      OBVIOUS
    <2>1. Waiting /\ ~Completes(k, FALSE)
      BY <1>2 DEF Waiting
    <2>2. CASE k = specialKeyCode
      <3>1. Mask(k) = {}
        BY <2>1, <2>2, WaitingKey, MaskType
      <3> QED
        BY <3>1, <2>1, <1>1 DEF KeyboardInv, KeyboardSound
    <2>3. CASE k # specialKeyCode
      BY <2>1, <2>3, <1>1 DEF Completes, Flags
    <2> QED
      BY <2>2, <2>3
  <1>10. ~grabbedInput' => host' \subseteq left'
    <2> SUFFICES ASSUME ~grabbedInput' PROVE host' \subseteq left'
      OBVIOUS
    <2>1. ~grabbedInput
      BY SpecialGrab DEF HandleKeyUp
    <2> QED
      BY <2>1, <1>4 DEF KeyboardInv, Sent
  <1>11. conn' # "connected" => host' = {}
    BY <1>1, <1>4 DEF KeyboardInv, Sent
  <1>12. last' \notin Shortcuts
    BY <1>1, GrabAssumption
  <1> QED
    BY <1>1, <1>6, <1>7, <1>8, <1>9, <1>10, <1>11, <1>12 DEF KeyboardInv, KeyboardSound, HeldMask

\* A key that repeats: it neither begins nor completes a shortcut.
LEMMA KeyboardRepeat ==
    ASSUME TypeInv, KeyboardInv, HandleKeyRepeat
    PROVE  KeyboardInv'
  <1>1. /\ last \in held
        /\ modifierFlags' = modifierFlags \cup Mask(last)
        /\ UNCHANGED <<held, last, host, left, conn, focus>>
    BY DEF HandleKeyRepeat, HandleSpecialKeys, Flags, hostVars, TypeInv, TypeOK
  <1>2. last \in Shortcuts => modifierFlags' = modifierFlags
    BY <1>1, MaskType
  <1>3. ~Begins(last, TRUE)
    BY <1>2, <1>1 DEF Begins, Flags, KeyboardInv
  <1>4. specialKeyCode' = specialKeyCode
    BY <1>3, DownCompletesNothing DEF HandleKeyRepeat, HandleSpecialKeys
  <1>5. ~grabbedInput' => ~grabbedInput
    BY SpecialGrab DEF HandleKeyRepeat
  <1>6. modifierFlags' \subseteq HeldMask'
    BY <1>1 DEF KeyboardInv, KeyboardSound, HeldMask
  <1>7. /\ host' \subseteq held' \cup left'
        /\ specialKeyCode' \notin host' \ left'
        /\ Waiting' => modifierFlags' # {}
    BY <1>1, <1>4 DEF KeyboardInv, KeyboardSound, Waiting
  <1>8. last' \in Shortcuts /\ Combo \subseteq modifierFlags' => Waiting'
    BY <1>1, <1>2, <1>4 DEF KeyboardInv, Waiting
  <1> QED
    BY <1>1, <1>5, <1>6, <1>7, <1>8 DEF KeyboardInv, KeyboardSound, HeldMask

\* The window's focus: no key is down when it changes, so no shortcut waits.
LEMMA KeyboardFocus ==
    ASSUME TypeInv, KeyboardInv, FocusLost \/ FocusGained
    PROVE  KeyboardInv'
  <1>1. /\ held = {} /\ held' = {} /\ modifierFlags' = {}
        /\ UNCHANGED <<last, specialKeyCode, host, left, grabbedInput, conn>>
    BY DEF FocusLost, FocusGained, KeyboardInv, hostVars, grabVars, lifeVars
  <1>2. ~Waiting
    BY <1>1 DEF KeyboardInv, KeyboardSound
  <1>3. ~Waiting' /\ ~(Combo \subseteq modifierFlags')
    BY <1>1, <1>2 DEF Waiting, Combo
  <1> QED
    BY <1>1, <1>3 DEF KeyboardInv, KeyboardSound

LEMMA KeyboardNext == TypeInv /\ KeyboardInv /\ [Next]_vars => KeyboardInv'
  <1> SUFFICES ASSUME TypeInv, KeyboardInv, [Next]_vars PROVE KeyboardInv'
    OBVIOUS
  <1>1. ASSUME NEW k \in Keys, HandleKeyDown(k) \/ HandleKeyUp(k) PROVE KeyboardInv'
    BY <1>1, KeyboardDown, KeyboardUp
  <1>2. CASE HandleKeyRepeat
    BY <1>2, KeyboardRepeat
  <1>3. CASE FocusLost \/ FocusGained
    BY <1>3, KeyboardFocus
  <1>4. CASE Recapture
    BY <1>4, KeyboardUnchanged DEF Recapture, grabVars, lifeVars
  <1>5. CASE ToggleGrab
    <2>1. /\ UNCHANGED <<keyVars, host, conn, focus>>
          /\ grabbedInput' = ~grabbedInput
          /\ left' = IF ~grabbedInput THEN left ELSE left \cup host
      BY <1>5 DEF ToggleGrab, SetInputGrabState, Leave, lifeVars
    <2> QED
      BY <2>1 DEF KeyboardInv, KeyboardSound, Waiting, keyVars
  <1>6. CASE GrabStarted
    <2>1. UNCHANGED <<keyVars, hostVars, conn, focus>> /\ grabbedInput'
      BY <1>6 DEF GrabStarted, SetInputGrabState, lifeVars
    <2> QED
      BY <2>1 DEF KeyboardInv, KeyboardSound, Waiting, keyVars, hostVars
  <1>7. CASE DeviceAdded \/ DeviceRemoved \/ DeviceChanged
    BY <1>7, KeyboardUnchanged DEF DeviceAdded, DeviceRemoved, DeviceChanged, grabVars, lifeVars
  <1>8. CASE ConnectionStarted
    BY <1>8 DEF ConnectionStarted, KeyboardInv, KeyboardSound, Waiting, keyVars, hostVars, grabVars
  <1>9. CASE ConnectionTerminated
    BY <1>9 DEF ConnectionTerminated, KeyboardInv, KeyboardSound, Waiting, keyVars
  <1>10. CASE OnPause
    <2>1. UNCHANGED <<keyVars, host, conn, focus>> /\ left' = left \cup host
      BY <1>10 DEF OnPause, Leave
    <2> QED
      BY <2>1 DEF KeyboardInv, KeyboardSound, Waiting, keyVars
  <1>11. CASE OnStop
    BY <1>11, KeyboardUnchanged DEF OnStop, grabVars
  <1>12. CASE UNCHANGED vars
    BY <1>12, KeyboardUnchanged DEF vars, grabVars, lifeVars
  <1> QED
    BY <1>1, <1>2, <1>3, <1>4, <1>5, <1>6, <1>7, <1>8, <1>9, <1>10, <1>11, <1>12 DEF Next

\* However shortcuts are typed and the input grabbed and released, the host has down
\* only keys that are down here or were when it was ungrabbed, never the key of a
\* shortcut, and no shortcut waits for modifiers nobody holds.  (handleSpecialKeys)
THEOREM KeyboardCorrect == Spec => []KeyboardSound
  <1>1. KeyboardInv => KeyboardSound
    BY DEF KeyboardInv
  <1> QED
    BY TypeInit, TypeNext, KeyboardInit, KeyboardNext, <1>1, PTL DEF Spec

-----------------------------------------------------------------------------
(* Fingers and the indices Android gives them *)

LEMMA FingersFinite ==
    ASSUME NEW F \in SUBSET Ids
    PROVE  IsFiniteSet(F) /\ Cardinality(F) \in 0 .. MaxFingers
  <1>1. IsFiniteSet(Ids) /\ Cardinality(Ids) = MaxFingers
    <2>1. MaxFingers \in Nat /\ MaxFingers # 0
      BY TouchAssumption
    <2>2. 0 \in Int /\ MaxFingers - 1 \in Int /\ ~(0 > MaxFingers - 1) /\ MaxFingers - 1 - 0 + 1 = MaxFingers
      BY <2>1
    <2>3. /\ IsFiniteSet(0 .. MaxFingers - 1)
          /\ Cardinality(0 .. MaxFingers - 1) = IF 0 > MaxFingers - 1 THEN 0 ELSE MaxFingers - 1 - 0 + 1
      BY <2>2, FS_Interval
    <2> QED
      BY <2>2, <2>3 DEF Ids
  <1>2. IsFiniteSet(F) /\ Cardinality(F) <= Cardinality(Ids)
    BY <1>1, FS_Subset
  <1>3. Cardinality(F) \in Nat
    BY <1>2, FS_CardinalityType
  <1> QED
    BY <1>1, <1>2, <1>3, TouchAssumption

LEMMA AtLeastTwo ==
    ASSUME NEW F \in SUBSET Ids, NEW a \in F, NEW b \in F, a # b
    PROVE  Cardinality(F) >= 2
  <1>1. IsFiniteSet({a}) /\ Cardinality({a}) = 1
    BY FS_Singleton
  <1>2. IsFiniteSet({a} \cup {b}) /\ Cardinality({a} \cup {b}) = 2
    BY <1>1, FS_AddElement
  <1>3. {a} \cup {b} \in SUBSET F
    OBVIOUS
  <1>4. IsFiniteSet(F) /\ Cardinality(F) \in Nat
    BY FingersFinite, FS_CardinalityType
  <1> QED
    BY <1>2, <1>3, <1>4, FS_Subset

LEMMA AtLeastThree ==
    ASSUME NEW F \in SUBSET Ids, NEW a \in F, NEW b \in F, NEW c \in F, a # b, a # c, b # c
    PROVE  Cardinality(F) >= 3
  <1>1. IsFiniteSet({a}) /\ Cardinality({a}) = 1
    BY FS_Singleton
  <1>2. IsFiniteSet({a} \cup {b}) /\ Cardinality({a} \cup {b}) = 2
    BY <1>1, FS_AddElement
  <1>3. IsFiniteSet(({a} \cup {b}) \cup {c}) /\ Cardinality(({a} \cup {b}) \cup {c}) = 3
    BY <1>2, FS_AddElement
  <1>4. (({a} \cup {b}) \cup {c}) \in SUBSET F
    OBVIOUS
  <1>5. IsFiniteSet(F) /\ Cardinality(F) \in Nat
    BY FingersFinite, FS_CardinalityType
  <1> QED
    BY <1>3, <1>4, <1>5, FS_Subset

\* A new finger has the lowest free id, so its index is its id.
LEMMA DownIndex ==
    ASSUME NEW F \in SUBSET Ids, NEW f \in Ids \ F, \A g \in Ids : g < f => g \in F,
           NEW G, G = F \cup {f}, NEW n, n = Cardinality(G)
    PROVE  /\ Index(f, G) = f /\ n \in 0 .. MaxFingers /\ G \in SUBSET Ids
           /\ f # 0 => n >= 2
           /\ (\E g \in F : g # 0) => n >= 2
           /\ (\E g \in F : g \notin {0, 1}) /\ f = 1 => n >= 3
           /\ n = 3 => \E g \in F : g # 0
           /\ f \notin {0, 1} /\ n # 3 => \E g \in F : g \notin {0, 1}
  <1>1. f \in Nat /\ f < MaxFingers /\ MaxFingers \in Nat
    BY TouchAssumption DEF Ids
  <1>2. G \in SUBSET Ids
    OBVIOUS
  <1>3. \A k \in Nat : k < f => k \in F
    BY <1>1 DEF Ids
  <1>4. \A g \in G : g \in Nat
    BY <1>2, TouchAssumption DEF Ids
  <1>5. {g \in G : g < f} = 0 .. f - 1
    <2>1. ASSUME NEW g \in G, g < f PROVE g \in 0 .. f - 1
      BY <1>1, <1>4, <2>1
    <2>2. ASSUME NEW g \in 0 .. f - 1 PROVE g \in G /\ g < f
      BY <1>1, <1>3, <2>2
    <2> QED
      BY <2>1, <2>2
  <1>6. Index(f, G) = f
    <2>1. Cardinality(0 .. f - 1) = f
      BY <1>1, FS_Interval
    <2> QED
      BY <1>5, <2>1 DEF Index
  <1>7. n \in 0 .. MaxFingers /\ IsFiniteSet(F) /\ Cardinality(F) \in Nat /\ n = Cardinality(F) + 1
    <2>1. IsFiniteSet(F) /\ Cardinality(F) \in 0 .. MaxFingers
      BY FingersFinite
    <2>2. n \in 0 .. MaxFingers
      BY <1>2, FingersFinite
    <2>3. n = Cardinality(F) + 1
      BY <2>1, FS_AddElement
    <2> QED
      BY <1>1, <2>1, <2>2, <2>3
  <1>8. f # 0 => n >= 2
    <2> SUFFICES ASSUME f # 0 PROVE n >= 2
      OBVIOUS
    <2>1. 0 \in G /\ f \in G
      BY <1>1, <1>3
    <2> QED
      BY <1>2, <2>1, AtLeastTwo
  <1>9. (\E g \in F : g # 0) => n >= 2
    <2> SUFFICES ASSUME NEW g \in F, g # 0 PROVE n >= 2
      OBVIOUS
    <2>1. g \in G /\ f \in G /\ g # f
      OBVIOUS
    <2> QED
      BY <1>2, <2>1, AtLeastTwo
  <1>10. (\E g \in F : g \notin {0, 1}) /\ f = 1 => n >= 3
    <2> SUFFICES ASSUME NEW g \in F, g \notin {0, 1}, f = 1 PROVE n >= 3
      OBVIOUS
    <2>1. 0 \in G /\ g \in G /\ f \in G /\ 0 # g /\ 0 # f /\ g # f
      BY <1>3
    <2> QED
      BY <1>2, <2>1, AtLeastThree
  <1>11. n = 3 => \E g \in F : g # 0
    <2> SUFFICES ASSUME \A g \in F : g = 0, n = 3 PROVE FALSE
      OBVIOUS
    <2>1. F \in SUBSET {0} /\ IsFiniteSet({0}) /\ Cardinality({0}) = 1
      BY FS_Singleton
    <2>2. Cardinality(F) <= Cardinality({0})
      BY <2>1, FS_Subset
    <2> QED
      BY <1>7, <2>1, <2>2
  <1>12. f \notin {0, 1} /\ n # 3 => \E g \in F : g \notin {0, 1}
    <2> SUFFICES ASSUME f \notin {0, 1}, n # 3, \A g \in F : g \in {0, 1} PROVE FALSE
      OBVIOUS
    <2>1. 0 \in F /\ 1 \in F
      BY <1>1, <1>3
    <2>2. F = {0} \cup {1}
      BY <2>1
    <2>3. IsFiniteSet({0}) /\ Cardinality({0}) = 1
      BY FS_Singleton
    <2>4. Cardinality(F) = 2
      BY <2>2, <2>3, FS_AddElement
    <2> QED
      BY <1>7, <2>4
  <1> QED
    BY <1>2, <1>6, <1>7, <1>8, <1>9, <1>10, <1>11, <1>12

\* The finger at the first index is the first one, if it is there; the one at
\* the second is the second one or a later one.
LEMMA UpIndex ==
    ASSUME NEW F \in SUBSET Ids, NEW f \in F, NEW i, i = Index(f, F)
    PROVE  /\ i = 0 => f = 0 \/ 0 \notin F
           /\ f = 0 => i = 0
           /\ f = 1 => i \in {0, 1}
           /\ Cardinality(F) - 1 \in 0 .. MaxFingers
  <1> DEFINE P == {g \in F : g < f}
  <1>1. i = Cardinality(P)
    BY DEF Index
  <1>2. IsFiniteSet(F) /\ Cardinality(F) \in 0 .. MaxFingers
    BY FingersFinite
  <1>3. IsFiniteSet(P) /\ Cardinality(P) \in Nat
    BY <1>2, FS_Subset, FS_CardinalityType
  <1>4. \A g \in F : g \in Nat
    BY TouchAssumption DEF Ids
  <1>5. i = 0 => f = 0 \/ 0 \notin F
    <2> SUFFICES ASSUME i = 0, f # 0, 0 \in F PROVE FALSE
      OBVIOUS
    <2>1. 0 \in P
      BY <1>4
    <2> QED
      BY <1>1, <1>3, <2>1, FS_EmptySet
  <1>6. f = 0 => i = 0
    <2> SUFFICES ASSUME f = 0 PROVE i = 0
      OBVIOUS
    <2>1. \A g \in F : ~(g < f)
      BY <1>4
    <2>2. P = {}
      BY <2>1
    <2> QED
      BY <1>1, <2>2, FS_EmptySet
  <1>7. f = 1 => i \in {0, 1}
    <2> SUFFICES ASSUME f = 1 PROVE i \in {0, 1}
      OBVIOUS
    <2>1. \A g \in F : g < f => g = 0
      BY <1>4
    <2>2. P \in SUBSET {0}
      BY <2>1
    <2>3. IsFiniteSet({0}) /\ Cardinality({0}) = 1
      BY FS_Singleton
    <2> HIDE DEF P
    <2>4. Cardinality(P) <= Cardinality({0})
      BY <2>2, <2>3, FS_Subset
    <2> QED
      BY <1>1, <1>3, <2>3, <2>4
  <1>8. Cardinality(F) - 1 \in 0 .. MaxFingers
    <2>1. F # {}
      OBVIOUS
    <2>2. Cardinality(F) # 0
      BY <1>2, <2>1, FS_EmptySet
    <2> QED
      BY <1>2, <2>2, TouchAssumption
  <1> QED
    BY <1>5, <1>6, <1>7, <1>8

-----------------------------------------------------------------------------
(* TouchContexts: the contexts, the messages and the buttons as a record *)

Words == [contexts : [Indices -> Contexts], due : [Messages -> 0 .. LongTime \cup {No}],
          buttons : SUBSET {"left", "right"}]
Put(w, i, c) == [w EXCEPT !.contexts[i] = c]

LEMMA CancelledEdit ==
    ASSUME NEW c \in Contexts, NEW b \in BOOLEAN
    PROVE  /\ [c EXCEPT !.cancelled = b] \in Contexts
           /\ [c EXCEPT !.move = b] \in Contexts
           /\ [c EXCEPT !.drag = b] \in Contexts
           /\ [c EXCEPT !.long = b] \in Contexts
  <1>1. [c EXCEPT !.cancelled = b] \in Contexts
    BY DEF Contexts
  <1>2. [c EXCEPT !.move = b] \in Contexts
    BY DEF Contexts
  <1>3. [c EXCEPT !.drag = b] \in Contexts
    BY DEF Contexts
  <1>4. [c EXCEPT !.long = b] \in Contexts
    BY DEF Contexts
  <1> QED
    BY <1>1, <1>2, <1>3, <1>4

LEMMA TapsEdit ==
    ASSUME NEW c \in Contexts PROVE [c EXCEPT !.taps = c.taps + 1] \in Contexts
  BY DEF Contexts

LEMMA TapEdit ==
    ASSUME NEW c \in Contexts, NEW b \in BOOLEAN PROVE [c EXCEPT !.tap = TRUE, !.early = b] \in Contexts
  BY DEF Contexts

LEMMA OwnerEdit ==
    ASSUME NEW c \in Contexts
    PROVE  /\ [c EXCEPT !.owner = No, !.early = FALSE] \in Contexts
           /\ \A f \in Ids : [c EXCEPT !.owner = f, !.taps = 0, !.early = FALSE] \in Contexts
  <1>1. [c EXCEPT !.owner = No, !.early = FALSE] \in Contexts
    BY DEF Contexts
  <1>2. \A f \in Ids : [c EXCEPT !.owner = f, !.taps = 0, !.early = FALSE] \in Contexts
    BY DEF Contexts
  <1> QED
    BY <1>1, <1>2

LEMMA DownEdit ==
    ASSUME NEW c \in Contexts, NEW b \in BOOLEAN
    PROVE  /\ [c EXCEPT !.most = c.count, !.age = 0, !.cancelled = FALSE, !.drag = FALSE,
                        !.move = FALSE, !.click = b] \in Contexts
           /\ [c EXCEPT !.cancelled = FALSE, !.tap = FALSE, !.long = FALSE] \in Contexts
  <1>1. 0 \in 0 .. TapTime + 1
    BY TouchAssumption
  <1>2. [c EXCEPT !.most = c.count, !.age = 0, !.cancelled = FALSE, !.drag = FALSE,
                  !.move = FALSE, !.click = b] \in Contexts
    BY <1>1 DEF Contexts
  <1>3. [c EXCEPT !.cancelled = FALSE, !.tap = FALSE, !.long = FALSE] \in Contexts
    BY DEF Contexts
  <1> QED
    BY <1>2, <1>3

LEMMA CountEdit ==
    ASSUME NEW c \in Contexts, NEW n \in 0 .. MaxFingers
    PROVE  [c EXCEPT !.count = n, !.most = IF n > c.most THEN n ELSE c.most] \in Contexts
  <1>1. (IF n > c.most THEN n ELSE c.most) \in 0 .. MaxFingers
    BY DEF Contexts
  <1> QED
    BY <1>1 DEF Contexts

LEMMA PutDoes ==
    ASSUME NEW w \in Words, NEW i \in Indices, NEW c \in Contexts
    PROVE  /\ Put(w, i, c) \in Words
           /\ Put(w, i, c).contexts[i] = c
           /\ \A j \in Indices : j # i => Put(w, i, c).contexts[j] = w.contexts[j]
           /\ Put(w, i, c).due = w.due
           /\ Put(w, i, c).buttons = w.buttons
  BY DEF Words, Put

LEMMA PutFirst ==
    ASSUME NEW w \in Words, NEW c \in Contexts, NEW v, v = Put(w, 0, c)
    PROVE  /\ v \in Words /\ v.contexts[0] = c /\ v.contexts[1] = w.contexts[1]
           /\ v.due = w.due /\ v.buttons = w.buttons
  BY DEF Words, Put, Indices

LEMMA PutSecond ==
    ASSUME NEW w \in Words, NEW c \in Contexts, NEW v, v = Put(w, 1, c)
    PROVE  /\ v \in Words /\ v.contexts[1] = c /\ v.contexts[0] = w.contexts[0]
           /\ v.due = w.due /\ v.buttons = w.buttons
  BY DEF Words, Put, Indices

LEMMA PostedDoes ==
    ASSUME NEW w \in Words, NEW m \in Messages, NEW d \in 0 .. LongTime \cup {No}
    PROVE  /\ Posted(w, m, d) \in Words
           /\ Posted(w, m, d).due[m] = d
           /\ \A k \in Messages : k # m => Posted(w, m, d).due[k] = w.due[k]
           /\ Posted(w, m, d).contexts = w.contexts
           /\ Posted(w, m, d).buttons = w.buttons
  BY DEF Words, Posted

LEMMA PostedDrag ==
    ASSUME NEW w \in Words, NEW v, v = Posted(w, "drag", LongTime)
    PROVE  /\ v \in Words /\ v.contexts = w.contexts /\ v.buttons = w.buttons
           /\ v.due["drag"] = LongTime
           /\ \A k \in Messages : k # "drag" => v.due[k] = w.due[k]
  <1>1. "drag" \in Messages
    BY DEF Messages
  <1>2. LongTime \in 0 .. LongTime \cup {No}
    BY TouchAssumption
  <1> QED
    BY <1>1, <1>2 DEF Words, Posted

LEMMA PostedTapDown ==
    ASSUME NEW w \in Words, NEW v, v = Posted(w, "tapDown", ReleaseTime)
    PROVE  /\ v \in Words /\ v.contexts = w.contexts /\ v.buttons = w.buttons
           /\ v.due["tapDown"] = ReleaseTime
           /\ \A k \in Messages : k # "tapDown" => v.due[k] = w.due[k]
  <1>1. "tapDown" \in Messages
    BY DEF Messages
  <1>2. ReleaseTime \in 0 .. LongTime \cup {No}
    BY TouchAssumption
  <1> QED
    BY <1>1, <1>2 DEF Words, Posted

LEMMA PostedLongPress ==
    ASSUME NEW w \in Words, NEW v, v = Posted(w, "longPress", LongTime)
    PROVE  /\ v \in Words /\ v.contexts = w.contexts /\ v.buttons = w.buttons
           /\ v.due["longPress"] = LongTime
           /\ \A k \in Messages : k # "longPress" => v.due[k] = w.due[k]
  <1>1. "longPress" \in Messages
    BY DEF Messages
  <1>2. LongTime \in 0 .. LongTime \cup {No}
    BY TouchAssumption
  <1> QED
    BY <1>1, <1>2 DEF Words, Posted

LEMMA WithoutDoes ==
    ASSUME NEW w \in Words, NEW m \in Messages
    PROVE  /\ Without(w, m) \in Words
           /\ Without(w, m).due[m] = No
           /\ \A k \in Messages : k # m => Without(w, m).due[k] = w.due[k]
           /\ Without(w, m).contexts = w.contexts
           /\ Without(w, m).buttons = w.buttons
  BY DEF Words, Without

LEMMA PressedDoes ==
    ASSUME NEW w \in Words, NEW b \in {"left", "right"}
    PROVE  /\ Pressed(w, b) \in Words
           /\ Pressed(w, b).buttons = w.buttons \cup {b}
           /\ Pressed(w, b).contexts = w.contexts /\ Pressed(w, b).due = w.due
  BY DEF Words, Pressed

LEMMA RaisedDoes ==
    ASSUME NEW w \in Words, NEW b \in {"left", "right"}
    PROVE  /\ Raised(w, b) \in Words
           /\ Raised(w, b).buttons = w.buttons \ {b}
           /\ Raised(w, b).contexts = w.contexts /\ Raised(w, b).due = w.due
  BY DEF Words, Raised

LEMMA ClickedDoes ==
    ASSUME NEW w \in Words, NEW i \in Indices
    PROVE  /\ Clicked(w, i) \in Words
           /\ Clicked(w, i).contexts[i] = [w.contexts[i] EXCEPT !.taps = w.contexts[i].taps + 1]
           /\ \A j \in Indices : j # i => Clicked(w, i).contexts[j] = w.contexts[j]
           /\ Clicked(w, i).due[Button(i)] = ReleaseTime
           /\ \A k \in Messages : k # Button(i) => Clicked(w, i).due[k] = w.due[k]
           /\ Clicked(w, i).buttons = w.buttons \cup {Button(i)}
  <1> DEFINE a == Pressed(w, Button(i))
             c == [a.contexts[i] EXCEPT !.taps = a.contexts[i].taps + 1]
             u == Put(a, i, c)
  <1>1. Button(i) \in {"left", "right"} /\ Button(i) \in Messages
    BY DEF Button, Messages
  <1>2. ReleaseTime \in 0 .. LongTime \cup {No}
    BY TouchAssumption
  <1>3. a \in Words /\ a.buttons = w.buttons \cup {Button(i)} /\ a.contexts = w.contexts /\ a.due = w.due
    BY <1>1, PressedDoes
  <1>4. a.contexts[i] \in Contexts
    BY <1>3 DEF Words
  <1>5. c \in Contexts
    BY <1>4, TapsEdit
  <1>6. Clicked(w, i) = Posted(u, Button(i), ReleaseTime)
    BY DEF Clicked, Put
  <1> HIDE DEF a, c
  <1>7. /\ u \in Words /\ u.contexts[i] = c /\ u.due = a.due /\ u.buttons = a.buttons
        /\ \A j \in Indices : j # i => u.contexts[j] = a.contexts[j]
    BY <1>3, <1>5, PutDoes
  <1> HIDE DEF u
  <1>8. /\ Posted(u, Button(i), ReleaseTime) \in Words
        /\ Posted(u, Button(i), ReleaseTime).due[Button(i)] = ReleaseTime
        /\ \A k \in Messages : k # Button(i) => Posted(u, Button(i), ReleaseTime).due[k] = u.due[k]
        /\ Posted(u, Button(i), ReleaseTime).contexts = u.contexts
        /\ Posted(u, Button(i), ReleaseTime).buttons = u.buttons
    BY <1>1, <1>2, <1>7, PostedDoes
  <1>9. c = [w.contexts[i] EXCEPT !.taps = w.contexts[i].taps + 1]
    BY <1>3 DEF c
  <1> QED
    BY <1>3, <1>6, <1>7, <1>8, <1>9

LEMMA ClickedLeft ==
    ASSUME NEW w \in Words, NEW v, v = Clicked(w, 0)
    PROVE  /\ v \in Words /\ v.contexts[1] = w.contexts[1]
           /\ v.contexts[0] = [w.contexts[0] EXCEPT !.taps = w.contexts[0].taps + 1]
           /\ v.due["left"] = ReleaseTime
           /\ \A k \in Messages : k # "left" => v.due[k] = w.due[k]
           /\ v.buttons = w.buttons \cup {"left"}
  <1>1. 0 \in Indices /\ 1 \in Indices /\ Button(0) = "left"
    BY DEF Indices, Button
  <1> QED
    BY <1>1, ClickedDoes

LEMMA ClickedRight ==
    ASSUME NEW w \in Words, NEW v, v = Clicked(w, 1)
    PROVE  /\ v \in Words /\ v.contexts[0] = w.contexts[0]
           /\ v.contexts[1] = [w.contexts[1] EXCEPT !.taps = w.contexts[1].taps + 1]
           /\ v.due["right"] = ReleaseTime
           /\ \A k \in Messages : k # "right" => v.due[k] = w.due[k]
           /\ v.buttons = w.buttons \cup {"right"}
  <1>1. 0 \in Indices /\ 1 \in Indices /\ Button(1) = "right"
    BY DEF Indices, Button
  <1> QED
    BY <1>1, ClickedDoes

SameOwners(w, v) == \A i \in Indices : v.contexts[i].owner = w.contexts[i].owner

RelativeLocal(w) ==
    /\ \A i \in Indices : ~w.contexts[i].tap /\ ~w.contexts[i].long
    /\ ~w.contexts[1].drag /\ ~Pending(w, "tapDown") /\ ~Pending(w, "longPress")
    /\ Pending(w, "left") => w.due["left"] <= ReleaseTime
    /\ Pending(w, "drag") /\ Pending(w, "left") => w.due["left"] < w.due["drag"]
    /\ w.contexts[0].cancelled => ~Pending(w, "drag")
    /\ "right" \in w.buttons => Pending(w, "right")

RelativeHeld(w) ==
    w.contexts[0].drag /\ ~w.contexts[0].cancelled /\ w.contexts[0].owner # No =>
        "left" \in w.buttons /\ ~Pending(w, "left")

RelativeLeft(w, F) ==
    /\ Pending(w, "drag") => 0 \in F
    /\ "left" \in w.buttons =>
          Pending(w, "left") \/ (0 \in F /\ ~w.contexts[0].cancelled /\ w.contexts[0].drag)

RelativeTaps(w, F) ==
    /\ (\E g \in F : g # 0) => w.contexts[0].most >= 2
    /\ (\E g \in F : g \notin {0, 1}) => w.contexts[1].cancelled \/ w.contexts[1].most >= 3
    /\ \/ w.contexts[0].taps = 0
       \/ w.contexts[0].taps = 1 /\ (w.contexts[0].cancelled \/ w.contexts[0].most >= 2 \/ 0 \notin F)
    /\ \/ w.contexts[1].taps = 0
       \/ w.contexts[1].taps = 1 /\ (w.contexts[1].cancelled \/ w.contexts[1].most >= 3 \/ 1 \notin F)

LEMMA WordParts ==
    ASSUME NEW w \in Words
    PROVE  /\ w.contexts[0] \in Contexts /\ w.contexts[1] \in Contexts
           /\ \A m \in Messages : w.due[m] \in 0 .. LongTime \cup {No}
           /\ w.buttons \subseteq {"left", "right"}
  BY DEF Words, Indices

LEMMA RelativeCancelFirst ==
    ASSUME NEW w \in Words, RelativeLocal(w), NEW v, v = RelativeCancel(w, 0)
    PROVE  /\ v \in Words /\ SameOwners(w, v)
           /\ v.contexts[0] = [w.contexts[0] EXCEPT !.cancelled = TRUE]
           /\ v.contexts[1] = w.contexts[1]
           /\ RelativeLocal(v)
           /\ RelativeHeld(w) => RelativeHeld(v)
           /\ \A F, G : RelativeLeft(w, F) => RelativeLeft(v, G)
           /\ \A F : RelativeTaps(w, F) => RelativeTaps(v, F)
  <1> DEFINE c == [w.contexts[0] EXCEPT !.cancelled = TRUE]
             a == Without(w, "drag")
             u == Put(a, 0, c)
  <1>0. c \in Contexts /\ w.contexts[0] \in Contexts
    BY WordParts, CancelledEdit
  <1>1. /\ a \in Words /\ a.due["drag"] = No
        /\ \A k \in Messages : k # "drag" => a.due[k] = w.due[k]
        /\ a.contexts = w.contexts /\ a.buttons = w.buttons
    BY WithoutDoes DEF Messages
  <1>2. /\ u \in Words /\ u.contexts[0] = c
        /\ \A j \in Indices : j # 0 => u.contexts[j] = a.contexts[j]
        /\ u.due = a.due /\ u.buttons = a.buttons
    BY <1>0, <1>1, PutDoes DEF Indices
  <1>3. v = IF w.contexts[0].drag THEN Raised(u, "left") ELSE u
    BY <1>1 DEF RelativeCancel, Put, Button
  <1>4. /\ v \in Words /\ v.contexts = u.contexts /\ v.due = u.due
        /\ v.buttons = IF w.contexts[0].drag THEN w.buttons \ {"left"} ELSE w.buttons
    <2>1. CASE w.contexts[0].drag
      BY <1>1, <1>2, <1>3, <2>1, RaisedDoes
    <2>2. CASE ~w.contexts[0].drag
      BY <1>1, <1>2, <1>3, <2>2
    <2> QED
      BY <2>1, <2>2
  <1>5. /\ c.cancelled /\ c.drag = w.contexts[0].drag /\ c.owner = w.contexts[0].owner
        /\ c.tap = w.contexts[0].tap /\ c.long = w.contexts[0].long
        /\ c.most = w.contexts[0].most /\ c.taps = w.contexts[0].taps
    BY <1>0 DEF Contexts
  <1>6. v.contexts[0] = c /\ v.contexts[1] = w.contexts[1]
    BY <1>1, <1>2, <1>4 DEF Indices
  <1>7. /\ v.due["drag"] = No /\ v.due["left"] = w.due["left"] /\ v.due["right"] = w.due["right"]
        /\ v.due["tapDown"] = w.due["tapDown"] /\ v.due["longPress"] = w.due["longPress"]
    BY <1>1, <1>2, <1>4 DEF Messages
  <1> HIDE DEF c, a, u
  <1>8. SameOwners(w, v)
    BY <1>5, <1>6 DEF SameOwners, Indices
  <1>9. RelativeLocal(v)
    BY <1>4, <1>5, <1>6, <1>7 DEF RelativeLocal, Pending, Indices
  <1>10. RelativeHeld(w) => RelativeHeld(v)
    BY <1>5, <1>6 DEF RelativeHeld
  <1>11. \A F, G : RelativeLeft(w, F) => RelativeLeft(v, G)
    BY <1>4, <1>7 DEF RelativeLeft, Pending
  <1>12. \A F : RelativeTaps(w, F) => RelativeTaps(v, F)
    BY <1>5, <1>6 DEF RelativeTaps
  <1> QED
    BY <1>4, <1>6, <1>8, <1>9, <1>10, <1>11, <1>12 DEF c

(* What happens to the second context leaves the left button alone. *)
LEMMA RelativeSecond ==
    ASSUME NEW w, NEW v, RelativeLocal(w),
           v.contexts[0] = w.contexts[0],
           ~v.contexts[1].tap, ~v.contexts[1].long, ~v.contexts[1].drag,
           v.contexts[1].owner = w.contexts[1].owner,
           \A m \in Messages : m # "right" => v.due[m] = w.due[m],
           "left" \in v.buttons <=> "left" \in w.buttons,
           "right" \in v.buttons => v.due["right"] # No
    PROVE  /\ SameOwners(w, v) /\ RelativeLocal(v)
           /\ RelativeHeld(w) => RelativeHeld(v)
           /\ \A F : RelativeLeft(w, F) => RelativeLeft(v, F)
  <1>1. /\ v.due["drag"] = w.due["drag"] /\ v.due["left"] = w.due["left"]
        /\ v.due["tapDown"] = w.due["tapDown"] /\ v.due["longPress"] = w.due["longPress"]
    BY DEF Messages
  <1>2. SameOwners(w, v)
    BY DEF SameOwners, Indices
  <1>3. RelativeLocal(v)
    BY <1>1 DEF RelativeLocal, Pending, Indices
  <1>4. RelativeHeld(w) => RelativeHeld(v)
    BY <1>1 DEF RelativeHeld, Pending
  <1>5. \A F : RelativeLeft(w, F) => RelativeLeft(v, F)
    BY <1>1 DEF RelativeLeft, Pending
  <1> QED
    BY <1>2, <1>3, <1>4, <1>5

LEMMA RelativeCancelSecond ==
    ASSUME NEW w \in Words, RelativeLocal(w), NEW v, v = RelativeCancel(w, 1)
    PROVE  /\ v \in Words /\ SameOwners(w, v)
           /\ v.contexts[1] = [w.contexts[1] EXCEPT !.cancelled = TRUE]
           /\ v.contexts[0] = w.contexts[0]
           /\ RelativeLocal(v)
           /\ RelativeHeld(w) => RelativeHeld(v)
           /\ \A F : RelativeLeft(w, F) => RelativeLeft(v, F)
           /\ \A F : RelativeTaps(w, F) => RelativeTaps(v, F)
  <1> DEFINE c == [w.contexts[1] EXCEPT !.cancelled = TRUE]
  <1>0. c \in Contexts /\ w.contexts[1] \in Contexts
    BY WordParts, CancelledEdit
  <1>1. /\ c.cancelled /\ c.drag = w.contexts[1].drag /\ c.owner = w.contexts[1].owner
        /\ c.tap = w.contexts[1].tap /\ c.long = w.contexts[1].long
        /\ c.most = w.contexts[1].most /\ c.taps = w.contexts[1].taps
    BY <1>0 DEF Contexts
  <1>2. v = Put(w, 1, c)
    BY DEF RelativeCancel, Put, Button, RelativeLocal
  <1> HIDE DEF c
  <1>3. /\ v \in Words /\ v.contexts[1] = c /\ v.contexts[0] = w.contexts[0]
        /\ v.due = w.due /\ v.buttons = w.buttons
    BY <1>0, <1>2, PutSecond
  <1>4. /\ ~v.contexts[1].tap /\ ~v.contexts[1].long /\ ~v.contexts[1].drag
        /\ v.contexts[1].owner = w.contexts[1].owner
        /\ "right" \in v.buttons => v.due["right"] # No
    BY <1>1, <1>3 DEF RelativeLocal, Indices, Pending
  <1>5. /\ SameOwners(w, v) /\ RelativeLocal(v)
        /\ RelativeHeld(w) => RelativeHeld(v)
        /\ \A F : RelativeLeft(w, F) => RelativeLeft(v, F)
    BY <1>3, <1>4, RelativeSecond
  <1>6. \A F : RelativeTaps(w, F) => RelativeTaps(v, F)
    BY <1>1, <1>3 DEF RelativeTaps
  <1> QED
    BY <1>3, <1>5, <1>6 DEF c

(* The counts of both contexts: they only grow the maximum. *)
LEMMA RelativeCountFirst ==
    ASSUME NEW w \in Words, RelativeLocal(w), NEW n \in 0 .. MaxFingers, NEW v, v = RelativeCount(w, 0, n)
    PROVE  /\ v \in Words /\ SameOwners(w, v)
           /\ v.contexts[0].count = n /\ v.contexts[0].most >= n
           /\ v.contexts[0].cancelled = w.contexts[0].cancelled
           /\ v.contexts[1] = w.contexts[1]
           /\ RelativeLocal(v)
           /\ RelativeHeld(w) => RelativeHeld(v)
           /\ \A F : RelativeLeft(w, F) => RelativeLeft(v, F)
           /\ \A F : RelativeTaps(w, F) => RelativeTaps(v, F)
  <1> DEFINE c == [w.contexts[0] EXCEPT !.count = n, !.most = IF n > w.contexts[0].most THEN n ELSE w.contexts[0].most]
  <1>0. c \in Contexts /\ w.contexts[0] \in Contexts
    BY WordParts, CountEdit
  <1>1. /\ c.cancelled = w.contexts[0].cancelled /\ c.drag = w.contexts[0].drag /\ c.owner = w.contexts[0].owner
        /\ c.tap = w.contexts[0].tap /\ c.long = w.contexts[0].long
        /\ c.count = n /\ c.taps = w.contexts[0].taps
    BY <1>0 DEF Contexts
  <1>2. c.most >= n /\ c.most >= w.contexts[0].most
    <2>1. c.most = IF n > w.contexts[0].most THEN n ELSE w.contexts[0].most
      BY <1>0 DEF Contexts
    <2>2. w.contexts[0].most \in Nat /\ n \in Nat
      BY <1>0, TouchAssumption DEF Contexts
    <2> QED
      BY <2>1, <2>2
  <1>3. v = Put(w, 0, c)
    BY DEF RelativeCount, Put
  <1>4. c.most \in Nat /\ w.contexts[0].most \in Nat
    BY <1>0, TouchAssumption DEF Contexts
  <1> HIDE DEF c
  <1>5. /\ v \in Words /\ v.contexts[0] = c /\ v.contexts[1] = w.contexts[1]
        /\ v.due = w.due /\ v.buttons = w.buttons
    BY <1>0, <1>3, PutFirst
  <1>6. SameOwners(w, v)
    BY <1>1, <1>5 DEF SameOwners, Indices
  <1>7. RelativeLocal(v)
    BY <1>1, <1>5 DEF RelativeLocal, Pending, Indices
  <1>8. RelativeHeld(w) => RelativeHeld(v)
    BY <1>1, <1>5 DEF RelativeHeld, Pending
  <1>9. \A F : RelativeLeft(w, F) => RelativeLeft(v, F)
    BY <1>1, <1>5 DEF RelativeLeft, Pending
  <1>10. \A F : RelativeTaps(w, F) => RelativeTaps(v, F)
    BY <1>1, <1>2, <1>4, <1>5 DEF RelativeTaps
  <1> QED
    BY <1>1, <1>2, <1>5, <1>6, <1>7, <1>8, <1>9, <1>10

LEMMA RelativeCountSecond ==
    ASSUME NEW w \in Words, RelativeLocal(w), NEW n \in 0 .. MaxFingers, NEW v, v = RelativeCount(w, 1, n)
    PROVE  /\ v \in Words /\ SameOwners(w, v)
           /\ v.contexts[1].count = n /\ v.contexts[1].most >= n
           /\ v.contexts[1].cancelled = w.contexts[1].cancelled
           /\ v.contexts[0] = w.contexts[0]
           /\ RelativeLocal(v)
           /\ RelativeHeld(w) => RelativeHeld(v)
           /\ \A F : RelativeLeft(w, F) => RelativeLeft(v, F)
           /\ \A F : RelativeTaps(w, F) => RelativeTaps(v, F)
  <1> DEFINE c == [w.contexts[1] EXCEPT !.count = n, !.most = IF n > w.contexts[1].most THEN n ELSE w.contexts[1].most]
  <1>0. c \in Contexts /\ w.contexts[1] \in Contexts
    BY WordParts, CountEdit
  <1>1. /\ c.cancelled = w.contexts[1].cancelled /\ c.drag = w.contexts[1].drag /\ c.owner = w.contexts[1].owner
        /\ c.tap = w.contexts[1].tap /\ c.long = w.contexts[1].long
        /\ c.count = n /\ c.taps = w.contexts[1].taps
    BY <1>0 DEF Contexts
  <1>2. c.most >= n /\ c.most >= w.contexts[1].most
    <2>1. c.most = IF n > w.contexts[1].most THEN n ELSE w.contexts[1].most
      BY <1>0 DEF Contexts
    <2>2. w.contexts[1].most \in Nat /\ n \in Nat
      BY <1>0, TouchAssumption DEF Contexts
    <2> QED
      BY <2>1, <2>2
  <1>3. v = Put(w, 1, c)
    BY DEF RelativeCount, Put
  <1>4. c.most \in Nat /\ w.contexts[1].most \in Nat
    BY <1>0, TouchAssumption DEF Contexts
  <1> HIDE DEF c
  <1>5. /\ v \in Words /\ v.contexts[1] = c /\ v.contexts[0] = w.contexts[0]
        /\ v.due = w.due /\ v.buttons = w.buttons
    BY <1>0, <1>3, PutSecond
  <1>6. /\ ~v.contexts[1].tap /\ ~v.contexts[1].long /\ ~v.contexts[1].drag
        /\ v.contexts[1].owner = w.contexts[1].owner
        /\ "right" \in v.buttons => v.due["right"] # No
    BY <1>1, <1>5 DEF RelativeLocal, Indices, Pending
  <1>7. /\ SameOwners(w, v) /\ RelativeLocal(v)
        /\ RelativeHeld(w) => RelativeHeld(v)
        /\ \A F : RelativeLeft(w, F) => RelativeLeft(v, F)
    BY <1>5, <1>6, RelativeSecond
  <1>8. \A F : RelativeTaps(w, F) => RelativeTaps(v, F)
    BY <1>1, <1>2, <1>4, <1>5 DEF RelativeTaps
  <1> QED
    BY <1>1, <1>2, <1>5, <1>7, <1>8

(* A move ends the wait for a drag. *)
LEMMA RelativeMoveFirst ==
    ASSUME NEW w \in Words, RelativeLocal(w), NEW d, NEW v, v = RelativeMove(w, 0, d)
    PROVE  /\ v \in Words /\ SameOwners(w, v)
           /\ RelativeLocal(v)
           /\ RelativeHeld(w) => RelativeHeld(v)
           /\ \A F : RelativeLeft(w, F) => RelativeLeft(v, F)
           /\ \A F : RelativeTaps(w, F) => RelativeTaps(v, F)
  <1> DEFINE c == [w.contexts[0] EXCEPT !.move = TRUE]
             u == Put(w, 0, c)
  <1>1. CASE v = w
    BY <1>1 DEF SameOwners
  <1>2. CASE v # w
    <2>0. c \in Contexts /\ w.contexts[0] \in Contexts
      BY WordParts, CancelledEdit
    <2>1. /\ c.cancelled = w.contexts[0].cancelled /\ c.drag = w.contexts[0].drag
          /\ c.owner = w.contexts[0].owner /\ c.tap = w.contexts[0].tap /\ c.long = w.contexts[0].long
          /\ c.most = w.contexts[0].most /\ c.taps = w.contexts[0].taps
      BY <2>0 DEF Contexts
    <2>2. v = Without(u, "drag")
      BY <1>2 DEF RelativeMove, Put
    <2> HIDE DEF c
    <2>3. /\ u \in Words /\ u.contexts[0] = c /\ u.contexts[1] = w.contexts[1]
          /\ u.due = w.due /\ u.buttons = w.buttons
      BY <2>0, PutDoes DEF Indices
    <2> HIDE DEF u
    <2>4. /\ v \in Words /\ v.contexts = u.contexts /\ v.buttons = w.buttons /\ v.due["drag"] = No
          /\ \A k \in Messages : k # "drag" => v.due[k] = w.due[k]
      BY <2>2, <2>3, WithoutDoes DEF Messages
    <2>5. /\ v.due["left"] = w.due["left"] /\ v.due["right"] = w.due["right"]
          /\ v.due["tapDown"] = w.due["tapDown"] /\ v.due["longPress"] = w.due["longPress"]
      BY <2>4 DEF Messages
    <2>6. SameOwners(w, v)
      BY <2>1, <2>3, <2>4 DEF SameOwners, Indices
    <2>7. RelativeLocal(v)
      BY <2>1, <2>3, <2>4, <2>5 DEF RelativeLocal, Pending, Indices
    <2>8. RelativeHeld(w) => RelativeHeld(v)
      BY <2>1, <2>3, <2>4, <2>5 DEF RelativeHeld, Pending
    <2>9. \A F : RelativeLeft(w, F) => RelativeLeft(v, F)
      BY <2>1, <2>3, <2>4, <2>5 DEF RelativeLeft, Pending
    <2>10. \A F : RelativeTaps(w, F) => RelativeTaps(v, F)
      BY <2>1, <2>3, <2>4 DEF RelativeTaps
    <2> QED
      BY <2>4, <2>6, <2>7, <2>8, <2>9, <2>10
  <1> QED
    BY <1>1, <1>2

LEMMA RelativeMoveSecond ==
    ASSUME NEW w \in Words, RelativeLocal(w), NEW d, NEW v, v = RelativeMove(w, 1, d)
    PROVE  /\ v \in Words /\ SameOwners(w, v)
           /\ RelativeLocal(v)
           /\ RelativeHeld(w) => RelativeHeld(v)
           /\ \A F : RelativeLeft(w, F) => RelativeLeft(v, F)
           /\ \A F : RelativeTaps(w, F) => RelativeTaps(v, F)
  <1> DEFINE c == [w.contexts[1] EXCEPT !.move = TRUE]
  <1>1. CASE v = w
    BY <1>1 DEF SameOwners
  <1>2. CASE v # w
    <2>0. c \in Contexts /\ w.contexts[1] \in Contexts
      BY WordParts, CancelledEdit
    <2>1. /\ c.cancelled = w.contexts[1].cancelled /\ c.drag = w.contexts[1].drag
          /\ c.owner = w.contexts[1].owner /\ c.tap = w.contexts[1].tap /\ c.long = w.contexts[1].long
          /\ c.most = w.contexts[1].most /\ c.taps = w.contexts[1].taps
      BY <2>0 DEF Contexts
    <2>2. v = Put(w, 1, c)
      BY <1>2 DEF RelativeMove, Put
    <2> HIDE DEF c
    <2>3. /\ v \in Words /\ v.contexts[1] = c /\ v.contexts[0] = w.contexts[0]
          /\ v.due = w.due /\ v.buttons = w.buttons
      BY <2>0, <2>2, PutSecond
    <2>4. /\ ~v.contexts[1].tap /\ ~v.contexts[1].long /\ ~v.contexts[1].drag
          /\ v.contexts[1].owner = w.contexts[1].owner
          /\ "right" \in v.buttons => v.due["right"] # No
      BY <2>1, <2>3 DEF RelativeLocal, Indices, Pending
    <2>5. /\ SameOwners(w, v) /\ RelativeLocal(v)
          /\ RelativeHeld(w) => RelativeHeld(v)
          /\ \A F : RelativeLeft(w, F) => RelativeLeft(v, F)
      BY <2>3, <2>4, RelativeSecond
    <2>6. \A F : RelativeTaps(w, F) => RelativeTaps(v, F)
      BY <2>1, <2>3 DEF RelativeTaps
    <2> QED
      BY <2>3, <2>5, <2>6
  <1> QED
    BY <1>1, <1>2

(* The lift of the finger at the first index, which leaves G of the fingers F. *)
LEMMA RelativeUpFirst ==
    ASSUME NEW w \in Words, RelativeLocal(w), NEW v, v = RelativeUp(w, 0),
           NEW F, NEW G \in SUBSET F, 0 \notin G, F # {}
    PROVE  /\ v \in Words /\ SameOwners(w, v)
           /\ RelativeLocal(v)
           /\ RelativeLeft(w, F) => RelativeLeft(v, G)
           /\ RelativeTaps(w, F) => RelativeTaps(v, G)
  <1> DEFINE c == w.contexts[0]
             a == Without(w, "drag")
  <1>0. c \in Contexts /\ c.most \in Nat /\ c.taps \in Nat
    <2>1. c \in Contexts
      BY WordParts
    <2> QED
      BY <2>1, TouchAssumption DEF Contexts
  <1>1. CASE c.cancelled
    <2>1. v = w
      BY <1>1 DEF RelativeUp
    <2>2. RelativeLeft(w, F) => RelativeLeft(w, G)
      BY <1>1 DEF RelativeLeft, RelativeLocal
    <2>3. RelativeTaps(w, F) => RelativeTaps(w, G)
      BY <1>1 DEF RelativeTaps
    <2> QED
      BY <2>1, <2>2, <2>3 DEF SameOwners
  <1>2. /\ ~c.cancelled /\ c.drag => v = Raised(a, "left")
        /\ ~c.cancelled /\ ~c.drag /\ IsTap(c, 0) /\ c.click => v = Clicked(a, 0)
        /\ ~c.cancelled /\ ~c.drag /\ ~(IsTap(c, 0) /\ c.click) => v = a
    <2>1. ASSUME ~c.cancelled, c.drag PROVE v = Raised(a, "left")
      BY <2>1 DEF RelativeUp, Button, IsTap
    <2>2. ASSUME ~c.cancelled, ~c.drag, IsTap(c, 0), c.click PROVE v = Clicked(a, 0)
      BY <2>2 DEF RelativeUp, Button
    <2>3. ASSUME ~c.cancelled, ~c.drag, ~(IsTap(c, 0) /\ c.click) PROVE v = a
      BY <2>3 DEF RelativeUp, Button
    <2> QED
      BY <2>1, <2>2, <2>3
  <1>3. /\ a \in Words /\ a.due["drag"] = No /\ a.contexts = w.contexts /\ a.buttons = w.buttons
        /\ \A k \in Messages : k # "drag" => a.due[k] = w.due[k]
    BY WithoutDoes DEF Messages
  <1>4. /\ a.due["left"] = w.due["left"] /\ a.due["right"] = w.due["right"]
        /\ a.due["tapDown"] = w.due["tapDown"] /\ a.due["longPress"] = w.due["longPress"]
    BY <1>3 DEF Messages
  <1> HIDE DEF a
  <1>5. CASE ~c.cancelled /\ c.drag
    <2>1. /\ v \in Words /\ v.contexts = w.contexts /\ v.due = a.due /\ v.buttons = w.buttons \ {"left"}
      BY <1>2, <1>3, <1>5, RaisedDoes
    <2>2. SameOwners(w, v)
      BY <2>1 DEF SameOwners
    <2>3. RelativeLocal(v)
      BY <1>3, <1>4, <2>1 DEF RelativeLocal, Pending
    <2>4. RelativeLeft(w, F) => RelativeLeft(v, G)
      BY <1>3, <1>4, <2>1 DEF RelativeLeft, Pending
    <2>5. RelativeTaps(w, F) => RelativeTaps(v, G)
      BY <2>1 DEF RelativeTaps
    <2> QED
      BY <2>1, <2>2, <2>3, <2>4, <2>5
  <1>6. CASE ~c.cancelled /\ ~c.drag /\ IsTap(c, 0) /\ c.click
    <2> DEFINE e == [c EXCEPT !.taps = c.taps + 1]
    <2>1. v = Clicked(a, 0)
      BY <1>2, <1>6
    <2>2. /\ v \in Words /\ v.contexts[0] = e /\ v.contexts[1] = w.contexts[1]
          /\ v.due["left"] = ReleaseTime /\ v.buttons = w.buttons \cup {"left"}
          /\ \A k \in Messages : k # "left" => v.due[k] = a.due[k]
      BY <1>3, <2>1, ClickedLeft
    <2>3. /\ v.due["drag"] = No /\ v.due["right"] = w.due["right"]
          /\ v.due["tapDown"] = w.due["tapDown"] /\ v.due["longPress"] = w.due["longPress"]
      BY <1>3, <1>4, <2>2 DEF Messages
    <2>4. /\ e.cancelled = c.cancelled /\ e.drag = c.drag /\ e.owner = c.owner /\ e.tap = c.tap
          /\ e.long = c.long /\ e.most = c.most /\ e.taps = c.taps + 1
      BY <1>0 DEF Contexts
    <2> HIDE DEF e
    <2>5. SameOwners(w, v)
      BY <2>2, <2>4 DEF SameOwners, Indices
    <2>6. ReleaseTime # No /\ ReleaseTime \in Nat
      BY TouchAssumption
    <2>7. RelativeLocal(v)
      BY <1>6, <2>2, <2>3, <2>4, <2>6 DEF RelativeLocal, Pending, Indices
    <2>8. RelativeLeft(v, G)
      BY <2>2, <2>3, <2>6 DEF RelativeLeft, Pending
    <2>9. c.most = 1
      BY <1>0, <1>6 DEF IsTap
    <2>10. ASSUME RelativeTaps(w, F) PROVE RelativeTaps(v, G)
      <3>1. ~\E g \in F : g # 0
        BY <2>9, <2>10 DEF RelativeTaps
      <3>2. c.taps = 0
        BY <1>6, <2>9, <2>10, <3>1 DEF RelativeTaps
      <3> QED
        BY <2>2, <2>4, <2>10, <3>1, <3>2 DEF RelativeTaps
    <2> QED
      BY <2>2, <2>5, <2>7, <2>8, <2>10
  <1>7. CASE ~c.cancelled /\ ~c.drag /\ ~(IsTap(c, 0) /\ c.click)
    <2>1. v = a
      BY <1>2, <1>7
    <2>2. SameOwners(w, v)
      BY <1>3, <2>1 DEF SameOwners
    <2>3. RelativeLocal(v)
      BY <1>3, <1>4, <2>1 DEF RelativeLocal, Pending
    <2>4. RelativeLeft(w, F) => RelativeLeft(v, G)
      BY <1>3, <1>4, <1>7, <2>1 DEF RelativeLeft, Pending
    <2>5. RelativeTaps(w, F) => RelativeTaps(v, G)
      BY <1>3, <2>1 DEF RelativeTaps
    <2> QED
      BY <1>3, <2>1, <2>2, <2>3, <2>4, <2>5
  <1> QED
    BY <1>1, <1>5, <1>6, <1>7

(* The lift of the finger at the second index: the second one, or a later one *)
(* that has moved up.                                                          *)
LEMMA RelativeUpSecond ==
    ASSUME NEW w \in Words, RelativeLocal(w), NEW v, v = RelativeUp(w, 1),
           NEW F, NEW G \in SUBSET F, 0 \in F => 0 \in G,
           (1 \in F /\ 1 \notin G) \/ \E g \in F : g \notin {0, 1}
    PROVE  /\ v \in Words /\ SameOwners(w, v)
           /\ RelativeLocal(v)
           /\ RelativeHeld(w) => RelativeHeld(v)
           /\ RelativeLeft(w, F) => RelativeLeft(v, G)
           /\ RelativeTaps(w, F) => RelativeTaps(v, G)
  <1> DEFINE c == w.contexts[1]
             e == [c EXCEPT !.taps = c.taps + 1]
  <1>0. c \in Contexts /\ c.most \in Nat /\ c.taps \in Nat
    <2>1. c \in Contexts
      BY WordParts
    <2> QED
      BY <2>1, TouchAssumption DEF Contexts
  <1>1. RelativeLeft(w, F) => RelativeLeft(w, G)
    BY DEF RelativeLeft
  <1>2. RelativeTaps(w, F) => RelativeTaps(w, G)
    BY DEF RelativeTaps
  <1>3. CASE v = w
    BY <1>1, <1>2, <1>3 DEF SameOwners
  <1>4. CASE v # w
    <2>1. v = Clicked(w, 1) /\ ~c.cancelled /\ c.most = 2
      BY <1>0, <1>4 DEF RelativeUp, RelativeLocal, IsTap
    <2>2. /\ v \in Words /\ v.contexts[1] = e /\ v.contexts[0] = w.contexts[0]
          /\ v.due["right"] = ReleaseTime /\ v.buttons = w.buttons \cup {"right"}
          /\ \A k \in Messages : k # "right" => v.due[k] = w.due[k]
      BY <2>1, ClickedRight
    <2>3. /\ e.cancelled = c.cancelled /\ e.drag = c.drag /\ e.owner = c.owner /\ e.tap = c.tap
          /\ e.long = c.long /\ e.most = c.most /\ e.taps = c.taps + 1
      BY <1>0 DEF Contexts
    <2> HIDE DEF e
    <2>4. ReleaseTime # No
      BY TouchAssumption
    <2>5. ~v.contexts[1].tap /\ ~v.contexts[1].long /\ ~v.contexts[1].drag
      BY <2>2, <2>3 DEF RelativeLocal, Indices
    <2>6. "left" \in v.buttons <=> "left" \in w.buttons
      BY <2>2
    <2>7. /\ SameOwners(w, v) /\ RelativeLocal(v)
          /\ RelativeHeld(w) => RelativeHeld(v)
          /\ \A H : RelativeLeft(w, H) => RelativeLeft(v, H)
      BY <2>2, <2>3, <2>4, <2>5, <2>6, RelativeSecond
    <2>8. ASSUME RelativeTaps(w, F) PROVE RelativeTaps(v, G)
      <3>1. 1 \in F /\ 1 \notin G /\ c.taps = 0
        BY <2>1, <2>8 DEF RelativeTaps
      <3> QED
        BY <1>2, <2>2, <2>3, <2>8, <3>1 DEF RelativeTaps
    <2> QED
      BY <1>1, <2>2, <2>7, <2>8
  <1> QED
    BY <1>3, <1>4

(* A finger that comes begins the gesture of its context anew.  The counts have *)
(* been set before.                                                             *)
LEMMA RelativeDownFirst ==
    ASSUME NEW w \in Words, RelativeLocal(w), trackpad, NEW v, v = TouchDown(w, 0, 0), 0 \in Ids,
           allowed \in BOOLEAN,
           NEW F, NEW G, G = F \cup {0}, (\E g \in F : g # 0) => w.contexts[0].count >= 2
    PROVE  /\ v \in Words
           /\ v.contexts[0].owner = 0 /\ v.contexts[1] = w.contexts[1]
           /\ RelativeLocal(v) /\ RelativeHeld(v)
           /\ 0 \notin F /\ RelativeLeft(w, F) => RelativeLeft(v, G)
           /\ RelativeTaps(w, F) => RelativeTaps(v, G)
  <1> DEFINE b == [w.contexts[0] EXCEPT !.owner = 0, !.taps = 0, !.early = FALSE]
             u == Put(w, 0, b)
             c == [u.contexts[0] EXCEPT !.most = u.contexts[0].count, !.age = 0, !.cancelled = FALSE,
                                        !.drag = FALSE, !.move = FALSE, !.click = allowed]
             a == Put(u, 0, c)
  <1>0. b \in Contexts /\ w.contexts[0] \in Contexts
    BY WordParts, OwnerEdit
  <1>1. v = Posted(a, "drag", LongTime)
    BY DEF TouchDown, RelativeDown, Put
  <1>2. /\ b.owner = 0 /\ b.taps = 0 /\ b.tap = w.contexts[0].tap /\ b.long = w.contexts[0].long
        /\ b.count = w.contexts[0].count
    BY <1>0 DEF Contexts
  <1> HIDE DEF b
  <1>3. u \in Words /\ u.contexts[0] = b /\ u.contexts[1] = w.contexts[1] /\ u.due = w.due /\ u.buttons = w.buttons
    BY <1>0, PutFirst
  <1> HIDE DEF u
  <1>4. c \in Contexts
    BY <1>0, <1>3, DownEdit
  <1>5. /\ c.owner = 0 /\ c.taps = 0 /\ c.tap = w.contexts[0].tap /\ c.long = w.contexts[0].long
        /\ c.most = w.contexts[0].count /\ ~c.cancelled /\ ~c.drag
    BY <1>0, <1>2, <1>3 DEF Contexts
  <1> HIDE DEF c
  <1>6. a \in Words /\ a.contexts[0] = c /\ a.contexts[1] = w.contexts[1] /\ a.due = w.due /\ a.buttons = w.buttons
    BY <1>3, <1>4, PutFirst
  <1> HIDE DEF a
  <1>7. LongTime \in 0 .. LongTime \cup {No} /\ LongTime # No /\ LongTime \in Nat
        /\ ReleaseTime \in Nat /\ ReleaseTime < LongTime
    BY TouchAssumption
  <1>8. /\ v \in Words /\ v.contexts = a.contexts /\ v.buttons = w.buttons /\ v.due["drag"] = LongTime
        /\ \A k \in Messages : k # "drag" => v.due[k] = w.due[k]
    BY <1>1, <1>6, PostedDrag
  <1>9. /\ v.due["left"] = w.due["left"] /\ v.due["right"] = w.due["right"]
        /\ v.due["tapDown"] = w.due["tapDown"] /\ v.due["longPress"] = w.due["longPress"]
    BY <1>8 DEF Messages
  <1>10. w.due["left"] \in Nat \cup {No}
    BY WordParts, TouchAssumption DEF Messages
  <1>11. RelativeLocal(v)
    BY <1>5, <1>6, <1>7, <1>8, <1>9, <1>10 DEF RelativeLocal, Pending, Indices
  <1>12. RelativeHeld(v)
    BY <1>5, <1>6, <1>8 DEF RelativeHeld
  <1>13. 0 \notin F /\ RelativeLeft(w, F) => RelativeLeft(v, G)
    BY <1>8, <1>9 DEF RelativeLeft, Pending
  <1>14. RelativeTaps(w, F) => RelativeTaps(v, G)
    BY <1>5, <1>6, <1>8 DEF RelativeTaps
  <1> QED
    BY <1>5, <1>6, <1>8, <1>11, <1>12, <1>13, <1>14

LEMMA RelativeDownSecond ==
    ASSUME NEW w \in Words, RelativeLocal(w), trackpad, NEW v, v = TouchDown(w, 1, 1), 1 \in Ids,
           NEW F, NEW G, G = F \cup {1}, w.contexts[0].most >= 2,
           (\E g \in F : g \notin {0, 1}) => w.contexts[1].count >= 3
    PROVE  /\ v \in Words
           /\ v.contexts[1].owner = 1 /\ v.contexts[0] = w.contexts[0]
           /\ RelativeLocal(v)
           /\ RelativeHeld(w) => RelativeHeld(v)
           /\ RelativeLeft(w, F) => RelativeLeft(v, G)
           /\ RelativeTaps(w, F) => RelativeTaps(v, G)
  <1> DEFINE b == [w.contexts[1] EXCEPT !.owner = 1, !.taps = 0, !.early = FALSE]
             u == Put(w, 1, b)
             c == [u.contexts[1] EXCEPT !.most = u.contexts[1].count, !.age = 0, !.cancelled = FALSE,
                                        !.drag = FALSE, !.move = FALSE, !.click = (1 = 0 => allowed)]
  <1>0. b \in Contexts /\ w.contexts[1] \in Contexts
    BY WordParts, OwnerEdit
  <1>1. v = Put(u, 1, c)
    BY DEF TouchDown, RelativeDown, Put
  <1>2. /\ b.owner = 1 /\ b.taps = 0 /\ b.tap = w.contexts[1].tap /\ b.long = w.contexts[1].long
        /\ b.count = w.contexts[1].count
    BY <1>0 DEF Contexts
  <1> HIDE DEF b
  <1>3. u \in Words /\ u.contexts[1] = b /\ u.contexts[0] = w.contexts[0] /\ u.due = w.due /\ u.buttons = w.buttons
    BY <1>0, PutSecond
  <1> HIDE DEF u
  <1>4. c \in Contexts
    <2>1. (1 = 0 => allowed) \in BOOLEAN
      OBVIOUS
    <2> QED
      BY <1>0, <1>3, <2>1, DownEdit
  <1>5. /\ c.owner = 1 /\ c.taps = 0 /\ c.tap = w.contexts[1].tap /\ c.long = w.contexts[1].long
        /\ c.most = w.contexts[1].count /\ ~c.cancelled /\ ~c.drag
    BY <1>0, <1>2, <1>3 DEF Contexts
  <1> HIDE DEF c
  <1>6. v \in Words /\ v.contexts[1] = c /\ v.contexts[0] = w.contexts[0] /\ v.due = w.due /\ v.buttons = w.buttons
    BY <1>1, <1>3, <1>4, PutSecond
  <1>7. RelativeLocal(v)
    BY <1>5, <1>6 DEF RelativeLocal, Pending, Indices
  <1>8. RelativeHeld(w) => RelativeHeld(v)
    BY <1>6 DEF RelativeHeld, Pending
  <1>9. RelativeLeft(w, F) => RelativeLeft(v, G)
    BY <1>6 DEF RelativeLeft, Pending
  <1>10. RelativeTaps(w, F) => RelativeTaps(v, G)
    BY <1>5, <1>6 DEF RelativeTaps
  <1> QED
    BY <1>5, <1>6, <1>7, <1>8, <1>9, <1>10

(* The messages: a drag begins, and a button of the last tap is released. *)
LEMMA RelativeDrag ==
    ASSUME NEW w \in Words, RelativeLocal(w), w.due["drag"] = 0, NEW v, v = DragTimer(Without(w, "drag"))
    PROVE  /\ v \in Words /\ SameOwners(w, v)
           /\ RelativeLocal(v)
           /\ RelativeHeld(w) => RelativeHeld(v)
           /\ \A F : RelativeLeft(w, F) => RelativeLeft(v, F)
           /\ \A F : RelativeTaps(w, F) => RelativeTaps(v, F)
  <1> DEFINE a == Without(w, "drag")
             c == [a.contexts[0] EXCEPT !.drag = TRUE]
             u == Put(a, 0, c)
  <1>1. /\ a \in Words /\ a.due["drag"] = No /\ a.contexts = w.contexts /\ a.buttons = w.buttons
        /\ \A k \in Messages : k # "drag" => a.due[k] = w.due[k]
    BY WithoutDoes DEF Messages
  <1>2. /\ a.due["left"] = w.due["left"] /\ a.due["right"] = w.due["right"]
        /\ a.due["tapDown"] = w.due["tapDown"] /\ a.due["longPress"] = w.due["longPress"]
    BY <1>1 DEF Messages
  <1>3. w.due["left"] \in Nat \cup {No} /\ 0 # No
    BY WordParts, TouchAssumption DEF Messages
  <1>4. w.due["left"] = No /\ ~w.contexts[0].cancelled
    BY <1>3 DEF RelativeLocal, Pending
  <1>5. v = a \/ v = Pressed(u, "left")
    BY DEF DragTimer, Put
  <1> HIDE DEF a
  <1>6. CASE v = a
    <2>1. SameOwners(w, v)
      BY <1>1, <1>6 DEF SameOwners
    <2>2. RelativeLocal(v)
      BY <1>1, <1>2, <1>6 DEF RelativeLocal, Pending
    <2>3. RelativeHeld(w) => RelativeHeld(v)
      BY <1>1, <1>2, <1>6 DEF RelativeHeld, Pending
    <2>4. \A F : RelativeLeft(w, F) => RelativeLeft(v, F)
      BY <1>1, <1>2, <1>6 DEF RelativeLeft, Pending
    <2>5. \A F : RelativeTaps(w, F) => RelativeTaps(v, F)
      BY <1>1, <1>6 DEF RelativeTaps
    <2> QED
      BY <1>1, <1>6, <2>1, <2>2, <2>3, <2>4, <2>5
  <1>7. CASE v = Pressed(u, "left")
    <2>0. a.contexts[0] \in Contexts
      BY <1>1, WordParts
    <2>1. c \in Contexts
      BY <2>0, CancelledEdit
    <2>2. /\ c.cancelled = w.contexts[0].cancelled /\ c.drag /\ c.owner = w.contexts[0].owner
          /\ c.tap = w.contexts[0].tap /\ c.long = w.contexts[0].long
          /\ c.most = w.contexts[0].most /\ c.taps = w.contexts[0].taps
      BY <1>1, <2>0 DEF Contexts
    <2> HIDE DEF c
    <2>3. /\ u \in Words /\ u.contexts[0] = c /\ u.contexts[1] = w.contexts[1]
          /\ u.due = a.due /\ u.buttons = w.buttons
      BY <1>1, <2>1, PutFirst
    <2> HIDE DEF u
    <2>4. /\ v \in Words /\ v.contexts[0] = c /\ v.contexts[1] = w.contexts[1]
          /\ v.due = a.due /\ v.buttons = w.buttons \cup {"left"}
      BY <1>7, <2>3, PressedDoes
    <2>5. SameOwners(w, v)
      BY <2>2, <2>4 DEF SameOwners, Indices
    <2>6. RelativeLocal(v)
      BY <1>1, <1>2, <2>2, <2>4 DEF RelativeLocal, Pending, Indices
    <2>7. RelativeHeld(v)
      BY <1>2, <1>4, <2>4 DEF RelativeHeld, Pending
    <2>8. \A F : RelativeLeft(w, F) => RelativeLeft(v, F)
      BY <1>1, <1>2, <1>3, <1>4, <2>2, <2>4 DEF RelativeLeft, Pending
    <2>9. \A F : RelativeTaps(w, F) => RelativeTaps(v, F)
      BY <2>2, <2>4 DEF RelativeTaps
    <2> QED
      BY <2>4, <2>5, <2>6, <2>7, <2>8, <2>9
  <1> QED
    BY <1>5, <1>6, <1>7

LEMMA RelativeRelease ==
    ASSUME NEW w \in Words, RelativeLocal(w), NEW b \in {"left", "right"}, w.due[b] = 0,
           NEW v, v = Raised(Without(w, b), b)
    PROVE  /\ v \in Words /\ SameOwners(w, v)
           /\ RelativeLocal(v)
           /\ RelativeHeld(w) => RelativeHeld(v)
           /\ \A F : RelativeLeft(w, F) => RelativeLeft(v, F)
           /\ \A F : RelativeTaps(w, F) => RelativeTaps(v, F)
  <1> DEFINE a == Without(w, b)
  <1>1. b \in Messages /\ 0 # No
    BY TouchAssumption DEF Messages
  <1>2. /\ a \in Words /\ a.due[b] = No /\ a.contexts = w.contexts /\ a.buttons = w.buttons
        /\ \A k \in Messages : k # b => a.due[k] = w.due[k]
    BY <1>1, WithoutDoes
  <1> HIDE DEF a
  <1>3. /\ v \in Words /\ v.contexts = w.contexts /\ v.due = a.due /\ v.buttons = w.buttons \ {b}
    BY <1>2, RaisedDoes DEF a
  <1>4. /\ v.due["drag"] = w.due["drag"]
        /\ v.due["tapDown"] = w.due["tapDown"] /\ v.due["longPress"] = w.due["longPress"]
    BY <1>2, <1>3 DEF Messages
  <1>5. \A k \in {"left", "right"} : v.due[k] = IF k = b THEN No ELSE w.due[k]
    BY <1>2, <1>3 DEF Messages
  <1>6. /\ v.due["left"] = IF b = "left" THEN No ELSE w.due["left"]
        /\ v.due["right"] = IF b = "right" THEN No ELSE w.due["right"]
    BY <1>5
  <1>7. /\ b = "left" => w.due["left"] = 0
        /\ "left" \in v.buttons <=> "left" \in w.buttons /\ b # "left"
        /\ "right" \in v.buttons <=> "right" \in w.buttons /\ b # "right"
    BY <1>3
  <1>8. SameOwners(w, v)
    BY <1>3 DEF SameOwners
  <1>9. RelativeLocal(v)
    BY <1>1, <1>3, <1>4, <1>6, <1>7 DEF RelativeLocal, Pending
  <1>10. RelativeHeld(w) => RelativeHeld(v)
    BY <1>1, <1>3, <1>6, <1>7 DEF RelativeHeld, Pending
  <1>11. \A F : RelativeLeft(w, F) => RelativeLeft(v, F)
    BY <1>1, <1>3, <1>4, <1>6, <1>7 DEF RelativeLeft, Pending
  <1>12. \A F : RelativeTaps(w, F) => RelativeTaps(v, F)
    BY <1>3 DEF RelativeTaps
  <1> QED
    BY <1>3, <1>8, <1>9, <1>10, <1>11, <1>12

AbsoluteLocal(w) ==
    /\ \A i \in Indices : ~w.contexts[i].drag
    /\ ~w.contexts[1].tap /\ ~w.contexts[1].long /\ w.contexts[1].taps = 0
    /\ ~Pending(w, "drag") /\ ~Pending(w, "right")
    /\ Pending(w, "left") => w.due["left"] <= ReleaseTime
    /\ Pending(w, "longPress") /\ Pending(w, "left") => w.due["left"] < w.due["longPress"]
    /\ w.contexts[0].cancelled => ~Pending(w, "tapDown") /\ ~Pending(w, "longPress")
    /\ w.contexts[0].taps = 0 \/ (w.contexts[0].taps = 1 /\ w.contexts[0].tap)

AbsoluteHeld(w) ==
    ~w.contexts[0].cancelled /\ w.contexts[0].owner # No =>
        /\ ~w.contexts[0].early /\ w.contexts[0].tap /\ ~w.contexts[0].long =>
              "left" \in w.buttons /\ ~Pending(w, "left")
        /\ w.contexts[0].long => "right" \in w.buttons

AbsoluteLeft(w, F) ==
    /\ Pending(w, "tapDown") \/ Pending(w, "longPress") => 0 \in F
    /\ "left" \in w.buttons =>
          Pending(w, "left") \/ (0 \in F /\ ~w.contexts[0].cancelled /\ w.contexts[0].tap /\ ~w.contexts[0].long)
    /\ "right" \in w.buttons =>
          0 \in F /\ ~w.contexts[0].cancelled /\ w.contexts[0].long /\ ~Pending(w, "left")

(* What keeps a later finger at the first index from tapping. *)
AbsoluteOthers(w, F) ==
    (\E g \in F : g # 0) =>
        w.contexts[0].cancelled \/ w.contexts[0].tap \/ w.contexts[0].long \/ Pending(w, "tapDown")

LEMMA AbsoluteCancelFirst ==
    ASSUME NEW w \in Words, AbsoluteLocal(w), NEW v, v = AbsoluteCancel(w, 0)
    PROVE  /\ v \in Words /\ SameOwners(w, v)
           /\ v.contexts[0].cancelled
           /\ AbsoluteLocal(v) /\ AbsoluteHeld(v)
           /\ \A F, G : AbsoluteLeft(w, F) => AbsoluteLeft(v, G)
           /\ \A F : AbsoluteOthers(v, F)
  <1> DEFINE c == [w.contexts[0] EXCEPT !.cancelled = TRUE]
             a == Without(w, "longPress")
             b == Without(a, "tapDown")
             u == Put(b, 0, c)
  <1>0. c \in Contexts /\ w.contexts[0] \in Contexts
    BY WordParts, CancelledEdit
  <1>1. /\ c.cancelled /\ c.drag = w.contexts[0].drag /\ c.owner = w.contexts[0].owner
        /\ c.tap = w.contexts[0].tap /\ c.long = w.contexts[0].long /\ c.taps = w.contexts[0].taps
    BY <1>0 DEF Contexts
  <1>2. /\ a \in Words /\ a.contexts = w.contexts /\ a.buttons = w.buttons /\ a.due["longPress"] = No
        /\ \A k \in Messages : k # "longPress" => a.due[k] = w.due[k]
    BY WithoutDoes DEF Messages
  <1> HIDE DEF a
  <1>3. /\ b \in Words /\ b.contexts = w.contexts /\ b.buttons = w.buttons /\ b.due["tapDown"] = No
        /\ \A k \in Messages : k # "tapDown" => b.due[k] = a.due[k]
    BY <1>2, WithoutDoes DEF Messages
  <1>4. /\ b.due["longPress"] = No /\ b.due["left"] = w.due["left"] /\ b.due["drag"] = w.due["drag"]
        /\ b.due["right"] = w.due["right"]
    BY <1>2, <1>3 DEF Messages
  <1>5. u = [b EXCEPT !.contexts[0].cancelled = TRUE]
    BY <1>3 DEF Put
  <1>6. v = IF w.contexts[0].long THEN Raised(u, "right")
            ELSE IF w.contexts[0].tap THEN Raised(u, "left") ELSE u
    <2>1. ASSUME w.contexts[0].long PROVE v = Raised(u, "right")
      BY <1>5, <2>1 DEF AbsoluteCancel, a
    <2>2. ASSUME ~w.contexts[0].long, w.contexts[0].tap PROVE v = Raised(u, "left")
      BY <1>5, <2>2 DEF AbsoluteCancel, a
    <2>3. ASSUME ~w.contexts[0].long, ~w.contexts[0].tap PROVE v = u
      BY <1>5, <2>3 DEF AbsoluteCancel, a
    <2> QED
      BY <2>1, <2>2, <2>3
  <1> HIDE DEF b, c
  <1>7. u \in Words /\ u.contexts[0] = c /\ u.contexts[1] = w.contexts[1] /\ u.due = b.due /\ u.buttons = w.buttons
    BY <1>0, <1>3, PutFirst
  <1> HIDE DEF u
  <1>8. /\ v \in Words /\ v.contexts = u.contexts /\ v.due = b.due
        /\ v.buttons = IF w.contexts[0].long THEN w.buttons \ {"right"}
                       ELSE IF w.contexts[0].tap THEN w.buttons \ {"left"} ELSE w.buttons
    <2>1. CASE w.contexts[0].long
      BY <1>6, <1>7, <2>1, RaisedDoes
    <2>2. CASE ~w.contexts[0].long /\ w.contexts[0].tap
      BY <1>6, <1>7, <2>2, RaisedDoes
    <2>3. CASE ~w.contexts[0].long /\ ~w.contexts[0].tap
      BY <1>6, <1>7, <2>3
    <2> QED
      BY <2>1, <2>2, <2>3
  <1>9. v.contexts[0] = c /\ v.contexts[1] = w.contexts[1]
    BY <1>7, <1>8
  <1>10. SameOwners(w, v)
    BY <1>1, <1>9 DEF SameOwners, Indices
  <1>11. AbsoluteLocal(v)
    BY <1>1, <1>3, <1>4, <1>8, <1>9 DEF AbsoluteLocal, Pending, Indices
  <1>12. AbsoluteHeld(v) /\ \A F : AbsoluteOthers(v, F)
    BY <1>1, <1>9 DEF AbsoluteHeld, AbsoluteOthers
  <1>13. \A F, G : AbsoluteLeft(w, F) => AbsoluteLeft(v, G)
    BY <1>3, <1>4, <1>8 DEF AbsoluteLeft, Pending
  <1> QED
    BY <1>1, <1>8, <1>9, <1>10, <1>11, <1>12, <1>13

(* The second context presses nothing: its fields do not matter. *)
LEMMA AbsoluteSecond ==
    ASSUME NEW w, NEW v, AbsoluteLocal(w),
           v.contexts[0] = w.contexts[0], v.due = w.due, v.buttons = w.buttons,
           ~v.contexts[1].tap, ~v.contexts[1].long, ~v.contexts[1].drag, v.contexts[1].taps = 0
    PROVE  /\ AbsoluteLocal(v)
           /\ AbsoluteHeld(w) => AbsoluteHeld(v)
           /\ \A F : AbsoluteLeft(w, F) => AbsoluteLeft(v, F)
           /\ \A F : AbsoluteOthers(w, F) => AbsoluteOthers(v, F)
  <1>1. AbsoluteLocal(v)
    BY DEF AbsoluteLocal, Pending, Indices
  <1>2. AbsoluteHeld(w) => AbsoluteHeld(v)
    BY DEF AbsoluteHeld, Pending
  <1>3. \A F : AbsoluteLeft(w, F) => AbsoluteLeft(v, F)
    BY DEF AbsoluteLeft, Pending
  <1>4. \A F : AbsoluteOthers(w, F) => AbsoluteOthers(v, F)
    BY DEF AbsoluteOthers, Pending
  <1> QED
    BY <1>1, <1>2, <1>3, <1>4

LEMMA AbsoluteCancelSecond ==
    ASSUME NEW w \in Words, AbsoluteLocal(w), NEW v, v = AbsoluteCancel(w, 1)
    PROVE  /\ v \in Words /\ SameOwners(w, v)
           /\ v.contexts[0] = w.contexts[0]
           /\ AbsoluteLocal(v)
           /\ AbsoluteHeld(w) => AbsoluteHeld(v)
           /\ \A F : AbsoluteLeft(w, F) => AbsoluteLeft(v, F)
           /\ \A F : AbsoluteOthers(w, F) => AbsoluteOthers(v, F)
  <1> DEFINE c == [w.contexts[1] EXCEPT !.cancelled = TRUE]
  <1>0. c \in Contexts /\ w.contexts[1] \in Contexts
    BY WordParts, CancelledEdit
  <1>1. /\ c.drag = w.contexts[1].drag /\ c.owner = w.contexts[1].owner
        /\ c.tap = w.contexts[1].tap /\ c.long = w.contexts[1].long /\ c.taps = w.contexts[1].taps
    BY <1>0 DEF Contexts
  <1>2. v = Put(w, 1, c)
    BY DEF AbsoluteCancel, Put, AbsoluteLocal
  <1> HIDE DEF c
  <1>3. /\ v \in Words /\ v.contexts[1] = c /\ v.contexts[0] = w.contexts[0]
        /\ v.due = w.due /\ v.buttons = w.buttons
    BY <1>0, <1>2, PutSecond
  <1>4. ~v.contexts[1].tap /\ ~v.contexts[1].long /\ ~v.contexts[1].drag /\ v.contexts[1].taps = 0
    BY <1>1, <1>3 DEF AbsoluteLocal, Indices
  <1>5. SameOwners(w, v)
    BY <1>1, <1>3 DEF SameOwners, Indices
  <1> QED
    BY <1>3, <1>4, <1>5, AbsoluteSecond

(* tapConfirmed presses the left button, unless it or a long press has. *)
LEMMA TapConfirmedDoes ==
    ASSUME NEW w \in Words, ~w.contexts[0].tap, ~w.contexts[0].long, NEW v, v = TapConfirmed(w)
    PROVE  /\ v \in Words /\ v.contexts[1] = w.contexts[1]
           /\ v.contexts[0].tap /\ (v.contexts[0].early <=> Pending(w, "left"))
           /\ v.contexts[0].drag = w.contexts[0].drag /\ v.contexts[0].owner = w.contexts[0].owner
           /\ v.contexts[0].long = w.contexts[0].long /\ v.contexts[0].taps = w.contexts[0].taps
           /\ v.contexts[0].cancelled = w.contexts[0].cancelled
           /\ v.due["tapDown"] = No
           /\ \A k \in Messages : k # "tapDown" => v.due[k] = w.due[k]
           /\ v.buttons = w.buttons \cup {"left"}
  <1> DEFINE c == [w.contexts[0] EXCEPT !.tap = TRUE, !.early = Pending(w, "left")]
             u == Put(w, 0, c)
             a == Without(u, "tapDown")
  <1>0. c \in Contexts /\ w.contexts[0] \in Contexts
    <2>1. Pending(w, "left") \in BOOLEAN
      BY DEF Pending
    <2> QED
      BY <2>1, WordParts, TapEdit
  <1>1. /\ c.tap /\ (c.early <=> Pending(w, "left")) /\ c.drag = w.contexts[0].drag /\ c.owner = w.contexts[0].owner
        /\ c.long = w.contexts[0].long /\ c.taps = w.contexts[0].taps /\ c.cancelled = w.contexts[0].cancelled
    BY <1>0 DEF Contexts, Pending
  <1>2. v = Pressed(a, "left")
    BY DEF TapConfirmed, Put
  <1> HIDE DEF c
  <1>3. u \in Words /\ u.contexts[0] = c /\ u.contexts[1] = w.contexts[1] /\ u.due = w.due /\ u.buttons = w.buttons
    BY <1>0, PutFirst
  <1> HIDE DEF u
  <1>4. /\ a \in Words /\ a.contexts = u.contexts /\ a.buttons = w.buttons /\ a.due["tapDown"] = No
        /\ \A k \in Messages : k # "tapDown" => a.due[k] = w.due[k]
    BY <1>3, WithoutDoes DEF Messages
  <1> HIDE DEF a
  <1>5. v \in Words /\ v.contexts = a.contexts /\ v.due = a.due /\ v.buttons = w.buttons \cup {"left"}
    BY <1>2, <1>4, PressedDoes
  <1> QED
    BY <1>1, <1>3, <1>4, <1>5

LEMMA AbsoluteTap ==
    ASSUME NEW w \in Words, AbsoluteLocal(w), ~w.contexts[0].cancelled, NEW v, v = TapConfirmed(w)
    PROVE  /\ v \in Words /\ SameOwners(w, v)
           /\ AbsoluteLocal(v)
           /\ AbsoluteHeld(w) => AbsoluteHeld(v)
           /\ \A F : (0 \in F \/ w.contexts[0].tap \/ w.contexts[0].long) /\ AbsoluteLeft(w, F) => AbsoluteLeft(v, F)
           /\ \A F : AbsoluteOthers(v, F)
  <1>1. CASE w.contexts[0].tap \/ w.contexts[0].long
    <2>1. v = w
      BY <1>1 DEF TapConfirmed
    <2> QED
      BY <1>1, <2>1 DEF SameOwners, AbsoluteOthers
  <1>2. CASE ~w.contexts[0].tap /\ ~w.contexts[0].long
    <2>1. /\ v \in Words /\ v.contexts[1] = w.contexts[1]
          /\ v.contexts[0].tap /\ (v.contexts[0].early <=> Pending(w, "left"))
          /\ v.contexts[0].drag = w.contexts[0].drag /\ v.contexts[0].owner = w.contexts[0].owner
          /\ v.contexts[0].long = w.contexts[0].long /\ v.contexts[0].taps = w.contexts[0].taps
          /\ v.contexts[0].cancelled = w.contexts[0].cancelled
          /\ v.due["tapDown"] = No
          /\ \A k \in Messages : k # "tapDown" => v.due[k] = w.due[k]
          /\ v.buttons = w.buttons \cup {"left"}
      BY <1>2, TapConfirmedDoes
    <2>2. /\ v.due["longPress"] = w.due["longPress"] /\ v.due["left"] = w.due["left"]
          /\ v.due["drag"] = w.due["drag"] /\ v.due["right"] = w.due["right"]
      BY <2>1 DEF Messages
    <2>3. SameOwners(w, v)
      BY <2>1 DEF SameOwners, Indices
    <2>4. AbsoluteLocal(v)
      BY <1>2, <2>1, <2>2 DEF AbsoluteLocal, Pending, Indices
    <2>5. AbsoluteHeld(w) => AbsoluteHeld(v)
      BY <1>2, <2>1, <2>2 DEF AbsoluteHeld, Pending
    <2>6. \A F : 0 \in F /\ AbsoluteLeft(w, F) => AbsoluteLeft(v, F)
      BY <1>2, <2>1, <2>2 DEF AbsoluteLeft, Pending
    <2>7. \A F : AbsoluteOthers(v, F)
      BY <2>1 DEF AbsoluteOthers
    <2> QED
      BY <1>2, <2>1, <2>3, <2>4, <2>5, <2>6, <2>7
  <1> QED
    BY <1>1, <1>2

(* A timer that is stopped, or that fires, is pending no more. *)
LEMMA AbsoluteWithout ==
    ASSUME NEW w \in Words, AbsoluteLocal(w), NEW m \in {"tapDown", "longPress"}, NEW v, v = Without(w, m)
    PROVE  /\ v \in Words /\ SameOwners(w, v)
           /\ v.contexts = w.contexts /\ v.buttons = w.buttons
           /\ v.due[m] = No /\ \A k \in Messages : k # m => v.due[k] = w.due[k]
           /\ AbsoluteLocal(v)
           /\ AbsoluteHeld(w) => AbsoluteHeld(v)
           /\ \A F : AbsoluteLeft(w, F) => AbsoluteLeft(v, F)
           /\ m = "longPress" => \A F : AbsoluteOthers(w, F) => AbsoluteOthers(v, F)
  <1>1. /\ v \in Words /\ v.contexts = w.contexts /\ v.buttons = w.buttons
        /\ v.due[m] = No /\ \A k \in Messages : k # m => v.due[k] = w.due[k]
    BY WithoutDoes DEF Messages
  <1>2. /\ v.due["left"] = w.due["left"] /\ v.due["drag"] = w.due["drag"] /\ v.due["right"] = w.due["right"]
        /\ v.due["tapDown"] = IF m = "tapDown" THEN No ELSE w.due["tapDown"]
        /\ v.due["longPress"] = IF m = "longPress" THEN No ELSE w.due["longPress"]
    BY <1>1 DEF Messages
  <1>3. SameOwners(w, v)
    BY <1>1 DEF SameOwners
  <1>4. AbsoluteLocal(v)
    BY <1>1, <1>2 DEF AbsoluteLocal, Pending
  <1>5. AbsoluteHeld(w) => AbsoluteHeld(v)
    BY <1>1, <1>2 DEF AbsoluteHeld, Pending
  <1>6. \A F : AbsoluteLeft(w, F) => AbsoluteLeft(v, F)
    BY <1>1, <1>2 DEF AbsoluteLeft, Pending
  <1>7. m = "longPress" => \A F : AbsoluteOthers(w, F) => AbsoluteOthers(v, F)
    BY <1>1, <1>2 DEF AbsoluteOthers, Pending
  <1> QED
    BY <1>1, <1>3, <1>4, <1>5, <1>6, <1>7

LEMMA AbsoluteUpFirst ==
    ASSUME NEW w \in Words, AbsoluteLocal(w), NEW v, v = AbsoluteUp(w, 0), NEW F, NEW G
    PROVE  /\ v \in Words /\ SameOwners(w, v)
           /\ AbsoluteLocal(v)
           /\ AbsoluteLeft(w, F) => AbsoluteLeft(v, G) /\ AbsoluteOthers(v, G)
  <1> DEFINE c == w.contexts[0]
             a == Without(w, "longPress")
             b == Without(a, "tapDown")
             t == TapConfirmed(b)
  <1>0. c \in Contexts /\ c.taps \in Nat
    <2>1. c \in Contexts
      BY WordParts
    <2> QED
      BY <2>1 DEF Contexts
  <1>1. CASE c.cancelled
    <2>1. v = w
      BY <1>1 DEF AbsoluteUp
    <2>2. AbsoluteLeft(w, F) => AbsoluteLeft(w, G)
      BY <1>1 DEF AbsoluteLeft, AbsoluteLocal
    <2>3. AbsoluteOthers(w, G)
      BY <1>1 DEF AbsoluteOthers
    <2> QED
      BY <2>1, <2>2, <2>3 DEF SameOwners
  <1>2. /\ ~c.cancelled /\ c.long => v = Raised(b, "right")
        /\ ~c.cancelled /\ ~c.long /\ c.tap => v = Raised(b, "left")
        /\ ~c.cancelled /\ ~c.long /\ ~c.tap => v = Clicked(t, 0)
    <2>1. ASSUME ~c.cancelled, c.long PROVE v = Raised(b, "right")
      BY <2>1 DEF AbsoluteUp
    <2>2. ASSUME ~c.cancelled, ~c.long, c.tap PROVE v = Raised(b, "left")
      BY <2>2 DEF AbsoluteUp
    <2>3. ASSUME ~c.cancelled, ~c.long, ~c.tap PROVE v = Clicked(t, 0)
      BY <2>3 DEF AbsoluteUp
    <2> QED
      BY <2>1, <2>2, <2>3
  <1>3. /\ a \in Words /\ a.contexts = w.contexts /\ a.buttons = w.buttons /\ AbsoluteLocal(a)
        /\ a.due["longPress"] = No /\ \A k \in Messages : k # "longPress" => a.due[k] = w.due[k]
    BY AbsoluteWithout
  <1> HIDE DEF a
  <1>4. /\ b \in Words /\ b.contexts = w.contexts /\ b.buttons = w.buttons /\ AbsoluteLocal(b)
        /\ b.due["tapDown"] = No /\ \A k \in Messages : k # "tapDown" => b.due[k] = a.due[k]
    BY <1>3, AbsoluteWithout
  <1>5. /\ b.due["longPress"] = No /\ b.due["left"] = w.due["left"] /\ b.due["drag"] = w.due["drag"]
        /\ b.due["right"] = w.due["right"]
    BY <1>3, <1>4 DEF Messages
  <1> HIDE DEF b
  <1>6. CASE ~c.cancelled /\ c.long
    <2>1. v \in Words /\ v.contexts = w.contexts /\ v.due = b.due /\ v.buttons = w.buttons \ {"right"}
      BY <1>2, <1>4, <1>6, RaisedDoes
    <2>2. SameOwners(w, v) /\ AbsoluteLocal(v)
      BY <1>4, <2>1 DEF SameOwners, AbsoluteLocal, Pending
    <2>3. AbsoluteLeft(w, F) => AbsoluteLeft(v, G)
      BY <1>4, <1>5, <1>6, <2>1 DEF AbsoluteLeft, Pending
    <2>4. AbsoluteOthers(v, G)
      BY <1>6, <2>1 DEF AbsoluteOthers
    <2> QED
      BY <2>1, <2>2, <2>3, <2>4
  <1>7. CASE ~c.cancelled /\ ~c.long /\ c.tap
    <2>1. v \in Words /\ v.contexts = w.contexts /\ v.due = b.due /\ v.buttons = w.buttons \ {"left"}
      BY <1>2, <1>4, <1>7, RaisedDoes
    <2>2. SameOwners(w, v) /\ AbsoluteLocal(v)
      BY <1>4, <2>1 DEF SameOwners, AbsoluteLocal, Pending
    <2>3. AbsoluteLeft(w, F) => AbsoluteLeft(v, G)
      BY <1>4, <1>5, <1>7, <2>1 DEF AbsoluteLeft, Pending
    <2>4. AbsoluteOthers(v, G)
      BY <1>7, <2>1 DEF AbsoluteOthers
    <2> QED
      BY <2>1, <2>2, <2>3, <2>4
  <1>8. CASE ~c.cancelled /\ ~c.long /\ ~c.tap
    <2>1. /\ t \in Words /\ t.contexts[1] = w.contexts[1]
          /\ t.contexts[0].tap
          /\ t.contexts[0].drag = w.contexts[0].drag /\ t.contexts[0].owner = w.contexts[0].owner
          /\ t.contexts[0].long = w.contexts[0].long /\ t.contexts[0].taps = w.contexts[0].taps
          /\ t.contexts[0].cancelled = w.contexts[0].cancelled
          /\ t.due["tapDown"] = No
          /\ \A k \in Messages : k # "tapDown" => t.due[k] = b.due[k]
          /\ t.buttons = w.buttons \cup {"left"}
      BY <1>4, <1>8, TapConfirmedDoes
    <2>2. t.contexts[0] \in Contexts
      BY <2>1, WordParts
    <2> HIDE DEF t
    <2> DEFINE e == [t.contexts[0] EXCEPT !.taps = t.contexts[0].taps + 1]
    <2>3. /\ e.tap /\ e.drag = w.contexts[0].drag /\ e.owner = w.contexts[0].owner
          /\ e.long = w.contexts[0].long /\ e.taps = w.contexts[0].taps + 1
          /\ e.cancelled = w.contexts[0].cancelled
      BY <2>1, <2>2 DEF Contexts
    <2>4. /\ v \in Words /\ v.contexts[0] = e /\ v.contexts[1] = t.contexts[1]
          /\ v.due["left"] = ReleaseTime /\ v.buttons = t.buttons \cup {"left"}
          /\ \A k \in Messages : k # "left" => v.due[k] = t.due[k]
      BY <1>2, <1>8, <2>1, ClickedLeft
    <2> HIDE DEF e
    <2>5. /\ v.due["tapDown"] = No /\ v.due["longPress"] = No
          /\ v.due["drag"] = w.due["drag"] /\ v.due["right"] = w.due["right"]
      BY <1>5, <2>1, <2>4 DEF Messages
    <2>6. ReleaseTime # No /\ ReleaseTime \in Nat
      BY TouchAssumption
    <2>7. SameOwners(w, v)
      BY <2>1, <2>3, <2>4 DEF SameOwners, Indices
    <2>8. c.taps = 0
      BY <1>8 DEF AbsoluteLocal
    <2>9. AbsoluteLocal(v)
      BY <1>8, <2>1, <2>3, <2>4, <2>5, <2>6, <2>8 DEF AbsoluteLocal, Pending, Indices
    <2>10. AbsoluteLeft(w, F) => AbsoluteLeft(v, G)
      BY <1>8, <2>1, <2>4, <2>5, <2>6 DEF AbsoluteLeft, Pending
    <2>11. AbsoluteOthers(v, G)
      BY <2>3, <2>4 DEF AbsoluteOthers
    <2> QED
      BY <2>4, <2>7, <2>9, <2>10, <2>11
  <1> QED
    BY <1>1, <1>6, <1>7, <1>8

LEMMA AbsoluteMoveFirst ==
    ASSUME NEW w \in Words, AbsoluteLocal(w), NEW d, NEW v, v = AbsoluteMove(w, 0, d), NEW F, F # {}
    PROVE  /\ v \in Words /\ SameOwners(w, v)
           /\ AbsoluteLocal(v)
           /\ AbsoluteHeld(w) => AbsoluteHeld(v)
           /\ AbsoluteLeft(w, F) /\ AbsoluteOthers(w, F) => AbsoluteLeft(v, F) /\ AbsoluteOthers(v, F)
  <1> DEFINE a == IF d = "far" THEN Without(w, "longPress") ELSE w
  <1>1. CASE w.contexts[0].cancelled
    <2>1. v = w
      BY <1>1 DEF AbsoluteMove
    <2> QED
      BY <2>1 DEF SameOwners
  <1>2. CASE ~w.contexts[0].cancelled
    <2>1. v = IF d # "near" THEN TapConfirmed(a) ELSE a
      BY <1>2 DEF AbsoluteMove
    <2>2. /\ a \in Words /\ SameOwners(w, a) /\ a.contexts = w.contexts
          /\ a.due["tapDown"] = w.due["tapDown"]
          /\ AbsoluteLocal(a)
          /\ AbsoluteHeld(w) => AbsoluteHeld(a)
          /\ AbsoluteLeft(w, F) => AbsoluteLeft(a, F)
          /\ AbsoluteOthers(w, F) => AbsoluteOthers(a, F)
      <3>1. CASE d = "far"
        <4>1. a = Without(w, "longPress")
          BY <3>1
        <4> HIDE DEF a
        <4> QED
          BY <4>1, AbsoluteWithout DEF Messages
      <3>2. CASE d # "far"
        BY <3>2 DEF SameOwners
      <3> QED
        BY <3>1, <3>2
    <2> HIDE DEF a
    <2>3. CASE d # "near"
      <3>1. ASSUME AbsoluteLeft(w, F), AbsoluteOthers(w, F)
            PROVE  0 \in F \/ a.contexts[0].tap \/ a.contexts[0].long
        BY <1>2, <2>2, <3>1 DEF AbsoluteLeft, AbsoluteOthers, Pending
      <3>2. v = TapConfirmed(a) /\ ~a.contexts[0].cancelled
        BY <1>2, <2>1, <2>2, <2>3
      <3>3. /\ v \in Words /\ SameOwners(a, v)
            /\ AbsoluteLocal(v)
            /\ AbsoluteHeld(a) => AbsoluteHeld(v)
            /\ (0 \in F \/ a.contexts[0].tap \/ a.contexts[0].long) /\ AbsoluteLeft(a, F) => AbsoluteLeft(v, F)
            /\ AbsoluteOthers(v, F)
        BY <2>2, <3>2, AbsoluteTap
      <3>4. SameOwners(w, v)
        BY <2>2, <3>3 DEF SameOwners
      <3> QED
        BY <2>2, <3>1, <3>3, <3>4
    <2>4. CASE d = "near"
      BY <2>1, <2>2, <2>4
    <2> QED
      BY <2>3, <2>4
  <1> QED
    BY <1>1, <1>2

LEMMA AbsoluteDownFirst ==
    ASSUME NEW w \in Words, AbsoluteLocal(w), ~trackpad, NEW v, v = TouchDown(w, 0, 0), 0 \in Ids,
           NEW F, NEW G, G = F \cup {0}
    PROVE  /\ v \in Words
           /\ v.contexts[0].owner = 0 /\ v.contexts[1] = w.contexts[1]
           /\ AbsoluteLocal(v) /\ AbsoluteHeld(v)
           /\ 0 \notin F /\ AbsoluteLeft(w, F) => AbsoluteLeft(v, G) /\ AbsoluteOthers(v, G)
  <1> DEFINE b == [w.contexts[0] EXCEPT !.owner = 0, !.taps = 0, !.early = FALSE]
             u == Put(w, 0, b)
             c == [u.contexts[0] EXCEPT !.cancelled = FALSE, !.tap = FALSE, !.long = FALSE]
             a == Put(u, 0, c)
             p == Posted(a, "tapDown", ReleaseTime)
  <1>0. b \in Contexts /\ w.contexts[0] \in Contexts
    BY WordParts, OwnerEdit
  <1>1. v = Posted(p, "longPress", LongTime)
    BY DEF TouchDown, AbsoluteDown, Put
  <1>2. b.owner = 0 /\ b.taps = 0 /\ b.drag = w.contexts[0].drag
    BY <1>0 DEF Contexts
  <1> HIDE DEF b
  <1>3. u \in Words /\ u.contexts[0] = b /\ u.contexts[1] = w.contexts[1] /\ u.due = w.due /\ u.buttons = w.buttons
    BY <1>0, PutFirst
  <1> HIDE DEF u
  <1>4. c \in Contexts
    BY <1>0, <1>3, DownEdit
  <1>5. /\ c.owner = 0 /\ c.taps = 0 /\ c.drag = w.contexts[0].drag
        /\ ~c.cancelled /\ ~c.tap /\ ~c.long
    BY <1>0, <1>2, <1>3 DEF Contexts
  <1> HIDE DEF c
  <1>6. a \in Words /\ a.contexts[0] = c /\ a.contexts[1] = w.contexts[1] /\ a.due = w.due /\ a.buttons = w.buttons
    BY <1>3, <1>4, PutFirst
  <1> HIDE DEF a
  <1>7. /\ LongTime \in 0 .. LongTime \cup {No} /\ LongTime # No /\ LongTime \in Nat
        /\ ReleaseTime \in 0 .. LongTime \cup {No} /\ ReleaseTime # No /\ ReleaseTime \in Nat
        /\ ReleaseTime < LongTime
    BY TouchAssumption
  <1>8. "tapDown" \in Messages /\ "longPress" \in Messages
    BY DEF Messages
  <1>9. /\ p \in Words /\ p.contexts = a.contexts /\ p.buttons = w.buttons /\ p.due["tapDown"] = ReleaseTime
        /\ \A k \in Messages : k # "tapDown" => p.due[k] = w.due[k]
    BY <1>6, PostedTapDown
  <1> HIDE DEF p
  <1>10. /\ v \in Words /\ v.contexts = a.contexts /\ v.buttons = w.buttons /\ v.due["longPress"] = LongTime
         /\ \A k \in Messages : k # "longPress" => v.due[k] = p.due[k]
    BY <1>1, <1>9, PostedLongPress
  <1>11. /\ v.due["tapDown"] = ReleaseTime /\ v.due["left"] = w.due["left"]
         /\ v.due["drag"] = w.due["drag"] /\ v.due["right"] = w.due["right"]
    BY <1>9, <1>10 DEF Messages
  <1>12. w.due["left"] \in Nat \cup {No}
    BY WordParts, TouchAssumption DEF Messages
  <1>13. AbsoluteLocal(v)
    BY <1>5, <1>6, <1>7, <1>10, <1>11, <1>12 DEF AbsoluteLocal, Pending, Indices
  <1>14. AbsoluteHeld(v)
    BY <1>5, <1>6, <1>10 DEF AbsoluteHeld
  <1>15. 0 \notin F /\ AbsoluteLeft(w, F) => AbsoluteLeft(v, G)
    BY <1>10, <1>11 DEF AbsoluteLeft, Pending
  <1>16. AbsoluteOthers(v, G)
    BY <1>7, <1>11 DEF AbsoluteOthers, Pending
  <1> QED
    BY <1>5, <1>6, <1>10, <1>13, <1>14, <1>15, <1>16

LEMMA AbsoluteDownSecond ==
    ASSUME NEW w \in Words, AbsoluteLocal(w), ~trackpad, NEW v, v = TouchDown(w, 1, 1), 1 \in Ids,
           NEW F, NEW G, G = F \cup {1}, w.contexts[0].cancelled
    PROVE  /\ v \in Words
           /\ v.contexts[1].owner = 1 /\ v.contexts[0] = w.contexts[0]
           /\ AbsoluteLocal(v)
           /\ AbsoluteHeld(w) => AbsoluteHeld(v)
           /\ AbsoluteLeft(w, F) => AbsoluteLeft(v, G) /\ AbsoluteOthers(v, G)
  <1> DEFINE b == [w.contexts[1] EXCEPT !.owner = 1, !.taps = 0, !.early = FALSE]
             u == Put(w, 1, b)
             c == [u.contexts[1] EXCEPT !.cancelled = FALSE, !.tap = FALSE, !.long = FALSE]
  <1>0. b \in Contexts /\ w.contexts[1] \in Contexts
    BY WordParts, OwnerEdit
  <1>1. v = Put(u, 1, c)
    BY DEF TouchDown, AbsoluteDown, Put
  <1>2. b.owner = 1 /\ b.taps = 0 /\ b.drag = w.contexts[1].drag
    BY <1>0 DEF Contexts
  <1> HIDE DEF b
  <1>3. u \in Words /\ u.contexts[1] = b /\ u.contexts[0] = w.contexts[0] /\ u.due = w.due /\ u.buttons = w.buttons
    BY <1>0, PutSecond
  <1> HIDE DEF u
  <1>4. c \in Contexts
    BY <1>0, <1>3, DownEdit
  <1>5. /\ c.owner = 1 /\ c.taps = 0 /\ c.drag = w.contexts[1].drag /\ ~c.tap /\ ~c.long
    BY <1>0, <1>2, <1>3 DEF Contexts
  <1> HIDE DEF c
  <1>6. v \in Words /\ v.contexts[1] = c /\ v.contexts[0] = w.contexts[0] /\ v.due = w.due /\ v.buttons = w.buttons
    BY <1>1, <1>3, <1>4, PutSecond
  <1>7. ~v.contexts[1].drag
    BY <1>5, <1>6 DEF AbsoluteLocal, Indices
  <1>8. /\ AbsoluteLocal(v)
        /\ AbsoluteHeld(w) => AbsoluteHeld(v)
        /\ AbsoluteLeft(w, F) => AbsoluteLeft(v, F)
    BY <1>5, <1>6, <1>7, AbsoluteSecond
  <1>9. AbsoluteLeft(v, F) => AbsoluteLeft(v, G)
    BY DEF AbsoluteLeft
  <1>10. AbsoluteOthers(v, G)
    BY <1>6 DEF AbsoluteOthers
  <1> QED
    BY <1>5, <1>6, <1>8, <1>9, <1>10

(* The messages *)
LEMMA AbsoluteTapDown ==
    ASSUME NEW w \in Words, AbsoluteLocal(w), w.due["tapDown"] = 0,
           NEW v, v = TapConfirmed(Without(w, "tapDown"))
    PROVE  /\ v \in Words /\ SameOwners(w, v)
           /\ AbsoluteLocal(v)
           /\ AbsoluteHeld(w) => AbsoluteHeld(v)
           /\ \A F : AbsoluteLeft(w, F) => AbsoluteLeft(v, F)
           /\ \A F : AbsoluteOthers(v, F)
  <1> DEFINE a == Without(w, "tapDown")
  <1>1. /\ a \in Words /\ SameOwners(w, a) /\ a.contexts = w.contexts
        /\ AbsoluteLocal(a)
        /\ AbsoluteHeld(w) => AbsoluteHeld(a)
        /\ \A F : AbsoluteLeft(w, F) => AbsoluteLeft(a, F)
    BY AbsoluteWithout
  <1>2. Pending(w, "tapDown")
    BY TouchAssumption DEF Pending
  <1>3. \A F : AbsoluteLeft(w, F) => 0 \in F
    BY <1>2 DEF AbsoluteLeft
  <1>4. ~a.contexts[0].cancelled
    BY <1>1, <1>2 DEF AbsoluteLocal
  <1>5. v = TapConfirmed(a)
    OBVIOUS
  <1> HIDE DEF a
  <1>6. /\ v \in Words /\ SameOwners(a, v)
        /\ AbsoluteLocal(v)
        /\ AbsoluteHeld(a) => AbsoluteHeld(v)
        /\ \A F : 0 \in F /\ AbsoluteLeft(a, F) => AbsoluteLeft(v, F)
        /\ \A F : AbsoluteOthers(v, F)
    BY <1>1, <1>4, <1>5, AbsoluteTap
  <1>7. SameOwners(w, v)
    BY <1>1, <1>6 DEF SameOwners
  <1> QED
    BY <1>1, <1>3, <1>6, <1>7

LEMMA AbsoluteLongPress ==
    ASSUME NEW w \in Words, AbsoluteLocal(w), w.due["longPress"] = 0,
           NEW v, v = LongPress(Without(w, "longPress"))
    PROVE  /\ v \in Words /\ SameOwners(w, v)
           /\ AbsoluteLocal(v) /\ AbsoluteHeld(v)
           /\ \A F : AbsoluteLeft(w, F) => AbsoluteLeft(v, F)
           /\ \A F : AbsoluteOthers(v, F)
  <1> DEFINE a == Without(w, "longPress")
             b == Without(a, "tapDown")
             c == [b.contexts[0] EXCEPT !.long = TRUE]
             u == Put(b, 0, c)
             r == IF w.contexts[0].tap THEN Raised(u, "left") ELSE u
  <1>1. /\ Pending(w, "longPress")
        /\ w.due["left"] \in Nat \cup {No}
    BY TouchAssumption, WordParts DEF Pending, Messages
  <1>2. w.due["left"] = No /\ ~w.contexts[0].cancelled
    BY <1>1 DEF AbsoluteLocal, Pending
  <1>3. /\ a \in Words /\ a.contexts = w.contexts /\ a.buttons = w.buttons /\ AbsoluteLocal(a)
        /\ a.due["longPress"] = No /\ \A k \in Messages : k # "longPress" => a.due[k] = w.due[k]
    BY AbsoluteWithout
  <1>4. v = Pressed(r, "right")
    BY <1>3 DEF LongPress, Put
  <1> HIDE DEF a
  <1>5. /\ b \in Words /\ b.contexts = w.contexts /\ b.buttons = w.buttons /\ AbsoluteLocal(b)
        /\ b.due["tapDown"] = No /\ \A k \in Messages : k # "tapDown" => b.due[k] = a.due[k]
    BY <1>3, AbsoluteWithout
  <1>6. /\ b.due["longPress"] = No /\ b.due["left"] = No /\ b.due["drag"] = w.due["drag"]
        /\ b.due["right"] = w.due["right"]
    BY <1>2, <1>3, <1>5 DEF Messages
  <1> HIDE DEF b
  <1>7. c \in Contexts /\ b.contexts[0] \in Contexts
    BY <1>5, WordParts, CancelledEdit
  <1>8. /\ c.long /\ c.cancelled = w.contexts[0].cancelled /\ c.drag = w.contexts[0].drag
        /\ c.owner = w.contexts[0].owner /\ c.tap = w.contexts[0].tap /\ c.taps = w.contexts[0].taps
    BY <1>5, <1>7 DEF Contexts
  <1> HIDE DEF c
  <1>9. u \in Words /\ u.contexts[0] = c /\ u.contexts[1] = w.contexts[1] /\ u.due = b.due /\ u.buttons = w.buttons
    BY <1>5, <1>7, PutFirst
  <1> HIDE DEF u
  <1>10. /\ r \in Words /\ r.contexts = u.contexts /\ r.due = b.due
         /\ "left" \in r.buttons <=> "left" \in w.buttons /\ ~w.contexts[0].tap
    <2>1. CASE w.contexts[0].tap
      BY <1>9, <2>1, RaisedDoes
    <2>2. CASE ~w.contexts[0].tap
      BY <1>9, <2>2
    <2> QED
      BY <2>1, <2>2
  <1> HIDE DEF r
  <1>11. v \in Words /\ v.contexts = u.contexts /\ v.due = b.due /\ v.buttons = r.buttons \cup {"right"}
    BY <1>10, <1>4, PressedDoes
  <1>12. SameOwners(w, v)
    BY <1>8, <1>9, <1>11 DEF SameOwners, Indices
  <1>13. AbsoluteLocal(v)
    BY <1>5, <1>6, <1>8, <1>9, <1>11 DEF AbsoluteLocal, Pending, Indices
  <1>14. AbsoluteHeld(v)
    BY <1>8, <1>9, <1>11 DEF AbsoluteHeld
  <1>15. \A F : AbsoluteLeft(w, F) => AbsoluteLeft(v, F)
    BY <1>1, <1>2, <1>5, <1>6, <1>8, <1>9, <1>10, <1>11 DEF AbsoluteLeft, Pending
  <1>16. \A F : AbsoluteOthers(v, F)
    BY <1>8, <1>9, <1>11 DEF AbsoluteOthers
  <1> QED
    BY <1>11, <1>12, <1>13, <1>14, <1>15, <1>16

LEMMA AbsoluteRelease ==
    ASSUME NEW w \in Words, AbsoluteLocal(w), w.due["left"] = 0,
           NEW v, v = Raised(Without(w, "left"), "left")
    PROVE  /\ v \in Words /\ SameOwners(w, v)
           /\ AbsoluteLocal(v)
           /\ AbsoluteHeld(w) => AbsoluteHeld(v)
           /\ \A F : AbsoluteLeft(w, F) => AbsoluteLeft(v, F)
           /\ \A F : AbsoluteOthers(w, F) => AbsoluteOthers(v, F)
  <1> DEFINE a == Without(w, "left")
  <1>1. /\ a \in Words /\ a.due["left"] = No /\ a.contexts = w.contexts /\ a.buttons = w.buttons
        /\ \A k \in Messages : k # "left" => a.due[k] = w.due[k]
    BY WithoutDoes DEF Messages
  <1> HIDE DEF a
  <1>2. v \in Words /\ v.contexts = w.contexts /\ v.due = a.due /\ v.buttons = w.buttons \ {"left"}
    BY <1>1, RaisedDoes DEF a
  <1>3. /\ v.due["left"] = No /\ v.due["drag"] = w.due["drag"] /\ v.due["right"] = w.due["right"]
        /\ v.due["tapDown"] = w.due["tapDown"] /\ v.due["longPress"] = w.due["longPress"]
    BY <1>1, <1>2 DEF Messages
  <1>4. Pending(w, "left")
    BY TouchAssumption DEF Pending
  <1>5. SameOwners(w, v)
    BY <1>2 DEF SameOwners
  <1>6. AbsoluteLocal(v)
    BY <1>2, <1>3 DEF AbsoluteLocal, Pending
  <1>7. AbsoluteHeld(w) => AbsoluteHeld(v)
    BY <1>2, <1>3, <1>4 DEF AbsoluteHeld, Pending
  <1>8. \A F : AbsoluteLeft(w, F) => AbsoluteLeft(v, F)
    BY <1>2, <1>3, <1>4 DEF AbsoluteLeft, Pending
  <1>9. \A F : AbsoluteOthers(w, F) => AbsoluteOthers(v, F)
    BY <1>2, <1>3 DEF AbsoluteOthers, Pending
  <1> QED
    BY <1>2, <1>5, <1>6, <1>7, <1>8, <1>9

-----------------------------------------------------------------------------
(* Both classes: the context in use is a parameter, the trackpad's or the     *)
(* screen's.                                                                  *)

Coherent(pad, w) == IF pad THEN RelativeLocal(w) ELSE AbsoluteLocal(w)
Holds(pad, w) == IF pad THEN RelativeHeld(w) ELSE AbsoluteHeld(w)
Accounted(pad, w, F) ==
    IF pad THEN RelativeLeft(w, F) /\ RelativeTaps(w, F) ELSE AbsoluteLeft(w, F) /\ AbsoluteOthers(w, F)
Owned(w, F) == \A i \in Indices : w.contexts[i].owner # No => w.contexts[i].owner = i /\ i \in F

LEMMA CountFirst ==
    ASSUME NEW w \in Words, Coherent(trackpad, w), NEW n \in 0 .. MaxFingers, NEW v, v = SetCount(w, 0, n)
    PROVE  /\ v \in Words /\ SameOwners(w, v)
           /\ trackpad => v.contexts[0].count = n /\ v.contexts[0].most >= n
           /\ ~trackpad /\ n > 1 => v.contexts[0].cancelled
           /\ Coherent(trackpad, v)
           /\ Holds(trackpad, w) => Holds(trackpad, v)
           /\ \A F : Accounted(trackpad, w, F) => Accounted(trackpad, v, F)
  <1>1. CASE trackpad
    <2>1. v = RelativeCount(w, 0, n) /\ RelativeLocal(w)
      BY <1>1 DEF SetCount, Coherent
    <2> QED
      BY <1>1, <2>1, RelativeCountFirst DEF Coherent, Holds, Accounted
  <1>2. CASE ~trackpad
    <2>1. AbsoluteLocal(w) /\ v = IF n > 1 THEN AbsoluteCancel(w, 0) ELSE w
      BY <1>2 DEF SetCount, Coherent, AbsoluteCount
    <2>2. CASE n > 1
      <3>1. v = AbsoluteCancel(w, 0)
        BY <2>1, <2>2
      <3>2. /\ v \in Words /\ SameOwners(w, v) /\ v.contexts[0].cancelled
            /\ AbsoluteLocal(v) /\ AbsoluteHeld(v)
            /\ \A F : AbsoluteLeft(w, F) => AbsoluteLeft(v, F)
            /\ \A F : AbsoluteOthers(v, F)
        BY <2>1, <3>1, AbsoluteCancelFirst
      <3> QED
        BY <1>2, <3>2 DEF Coherent, Holds, Accounted
    <2>3. CASE ~(n > 1)
      BY <1>2, <2>1, <2>3 DEF SameOwners, Coherent, Holds, Accounted
    <2> QED
      BY <2>2, <2>3
  <1> QED
    BY <1>1, <1>2

LEMMA CountSecond ==
    ASSUME NEW w \in Words, Coherent(trackpad, w), NEW n \in 0 .. MaxFingers, NEW v, v = SetCount(w, 1, n)
    PROVE  /\ v \in Words /\ SameOwners(w, v)
           /\ trackpad => v.contexts[1].count = n
           /\ v.contexts[0] = w.contexts[0]
           /\ Coherent(trackpad, v)
           /\ Holds(trackpad, w) => Holds(trackpad, v)
           /\ \A F : Accounted(trackpad, w, F) => Accounted(trackpad, v, F)
  <1>1. CASE trackpad
    <2>1. v = RelativeCount(w, 1, n) /\ RelativeLocal(w)
      BY <1>1 DEF SetCount, Coherent
    <2> QED
      BY <1>1, <2>1, RelativeCountSecond DEF Coherent, Holds, Accounted
  <1>2. CASE ~trackpad
    <2>1. v = w
      BY <1>2 DEF SetCount, AbsoluteCount
    <2> QED
      BY <1>2, <2>1 DEF SameOwners
  <1> QED
    BY <1>1, <1>2

LEMMA Counts ==
    ASSUME NEW w \in Words, Coherent(trackpad, w), NEW n \in 0 .. MaxFingers, NEW v, v = SetCounts(w, n)
    PROVE  /\ v \in Words /\ SameOwners(w, v)
           /\ trackpad => v.contexts[0].count = n /\ v.contexts[0].most >= n /\ v.contexts[1].count = n
           /\ ~trackpad /\ n > 1 => v.contexts[0].cancelled
           /\ Coherent(trackpad, v)
           /\ Holds(trackpad, w) => Holds(trackpad, v)
           /\ \A F : Accounted(trackpad, w, F) => Accounted(trackpad, v, F)
  <1> DEFINE u == SetCount(w, 0, n)
  <1>1. /\ u \in Words /\ SameOwners(w, u)
        /\ trackpad => u.contexts[0].count = n /\ u.contexts[0].most >= n
        /\ ~trackpad /\ n > 1 => u.contexts[0].cancelled
        /\ Coherent(trackpad, u)
        /\ Holds(trackpad, w) => Holds(trackpad, u)
        /\ \A F : Accounted(trackpad, w, F) => Accounted(trackpad, u, F)
    BY CountFirst
  <1>2. v = SetCount(u, 1, n)
    BY DEF SetCounts
  <1> HIDE DEF u
  <1>3. /\ v \in Words /\ SameOwners(u, v)
        /\ trackpad => v.contexts[1].count = n
        /\ v.contexts[0] = u.contexts[0]
        /\ Coherent(trackpad, v)
        /\ Holds(trackpad, u) => Holds(trackpad, v)
        /\ \A F : Accounted(trackpad, u, F) => Accounted(trackpad, v, F)
    BY <1>1, <1>2, CountSecond
  <1>4. SameOwners(w, v)
    BY <1>1, <1>3 DEF SameOwners
  <1> QED
    BY <1>1, <1>3, <1>4

\* When both contexts are cancelled no finger presses anything any more.
LEMMA Cancels ==
    ASSUME NEW w \in Words, Coherent(trackpad, w), NEW v, v = CancelAll(w)
    PROVE  /\ v \in Words /\ SameOwners(w, v)
           /\ Coherent(trackpad, v) /\ Holds(trackpad, v)
           /\ \A F, G : Accounted(trackpad, w, F) /\ ((\E g \in G : g # 0) => \E g \in F : g # 0) =>
                           Accounted(trackpad, v, G)
  <1> DEFINE u == CancelTouch(w, 0)
  <1>1. v = CancelTouch(u, 1)
    BY DEF CancelAll
  <1>2. CASE trackpad
    <2>1. RelativeLocal(w) /\ u = RelativeCancel(w, 0)
      BY <1>2 DEF Coherent, CancelTouch
    <2>2. v = RelativeCancel(u, 1)
      BY <1>1, <1>2 DEF CancelTouch
    <2> HIDE DEF u
    <2>3. /\ u \in Words /\ SameOwners(w, u)
          /\ u.contexts[0] = [w.contexts[0] EXCEPT !.cancelled = TRUE]
          /\ RelativeLocal(u)
          /\ \A F, G : RelativeLeft(w, F) => RelativeLeft(u, G)
          /\ \A F : RelativeTaps(w, F) => RelativeTaps(u, F)
      BY <2>1, RelativeCancelFirst
    <2>4. /\ v \in Words /\ SameOwners(u, v)
          /\ v.contexts[1] = [u.contexts[1] EXCEPT !.cancelled = TRUE]
          /\ v.contexts[0] = u.contexts[0]
          /\ RelativeLocal(v)
          /\ \A F : RelativeLeft(u, F) => RelativeLeft(v, F)
          /\ \A F : RelativeTaps(u, F) => RelativeTaps(v, F)
      BY <2>2, <2>3, RelativeCancelSecond
    <2>5. v.contexts[0].cancelled /\ v.contexts[1].cancelled
      <3>1. w.contexts[0] \in Contexts /\ u.contexts[1] \in Contexts
        BY <2>3, WordParts
      <3> QED
        BY <2>3, <2>4, <3>1 DEF Contexts
    <2>6. RelativeHeld(v)
      BY <2>5 DEF RelativeHeld
    <2>7. ASSUME NEW F, NEW G, RelativeTaps(w, F), (\E g \in G : g # 0) => \E g \in F : g # 0
          PROVE  RelativeTaps(v, G)
      <3>1. RelativeTaps(v, F)
        BY <2>3, <2>4, <2>7
      <3> QED
        BY <2>5, <2>7, <3>1 DEF RelativeTaps
    <2>8. SameOwners(w, v)
      BY <2>3, <2>4 DEF SameOwners
    <2> QED
      BY <1>2, <2>3, <2>4, <2>6, <2>7, <2>8 DEF Coherent, Holds, Accounted
  <1>3. CASE ~trackpad
    <2>1. AbsoluteLocal(w) /\ u = AbsoluteCancel(w, 0)
      BY <1>3 DEF Coherent, CancelTouch
    <2>2. v = AbsoluteCancel(u, 1)
      BY <1>1, <1>3 DEF CancelTouch
    <2> HIDE DEF u
    <2>3. /\ u \in Words /\ SameOwners(w, u)
          /\ AbsoluteLocal(u) /\ AbsoluteHeld(u)
          /\ \A F, G : AbsoluteLeft(w, F) => AbsoluteLeft(u, G)
          /\ \A F : AbsoluteOthers(u, F)
      BY <2>1, AbsoluteCancelFirst
    <2>4. /\ v \in Words /\ SameOwners(u, v)
          /\ AbsoluteLocal(v) /\ AbsoluteHeld(v)
          /\ \A F : AbsoluteLeft(u, F) => AbsoluteLeft(v, F)
          /\ \A F : AbsoluteOthers(v, F)
      BY <2>2, <2>3, AbsoluteCancelSecond
    <2>5. SameOwners(w, v)
      BY <2>3, <2>4 DEF SameOwners
    <2> QED
      BY <1>3, <2>3, <2>4, <2>5 DEF Coherent, Holds, Accounted
  <1> QED
    BY <1>2, <1>3

\* A new finger with a context, after the counts have been set.
LEMMA DownFirst ==
    ASSUME NEW w \in Words, Coherent(trackpad, w), trackpad \in BOOLEAN, allowed \in BOOLEAN,
           0 \in Ids, NEW v, v = TouchDown(w, 0, 0),
           NEW F, NEW G, G = F \cup {0}, 0 \notin F,
           trackpad /\ (\E g \in F : g # 0) => w.contexts[0].count >= 2
    PROVE  /\ v \in Words /\ v.contexts[0].owner = 0 /\ v.contexts[1] = w.contexts[1]
           /\ Coherent(trackpad, v) /\ Holds(trackpad, v)
           /\ Accounted(trackpad, w, F) => Accounted(trackpad, v, G)
  <1>1. CASE trackpad
    <2>1. RelativeLocal(w) /\ ((\E g \in F : g # 0) => w.contexts[0].count >= 2)
      BY <1>1 DEF Coherent
    <2>2. /\ v \in Words /\ v.contexts[0].owner = 0 /\ v.contexts[1] = w.contexts[1]
          /\ RelativeLocal(v) /\ RelativeHeld(v)
          /\ 0 \notin F /\ RelativeLeft(w, F) => RelativeLeft(v, G)
          /\ RelativeTaps(w, F) => RelativeTaps(v, G)
      BY <1>1, <2>1, RelativeDownFirst
    <2> QED
      BY <1>1, <2>2 DEF Coherent, Holds, Accounted
  <1>2. CASE ~trackpad
    <2>1. AbsoluteLocal(w)
      BY <1>2 DEF Coherent
    <2>2. /\ v \in Words /\ v.contexts[0].owner = 0 /\ v.contexts[1] = w.contexts[1]
          /\ AbsoluteLocal(v) /\ AbsoluteHeld(v)
          /\ 0 \notin F /\ AbsoluteLeft(w, F) => AbsoluteLeft(v, G) /\ AbsoluteOthers(v, G)
      BY <1>2, <2>1, AbsoluteDownFirst
    <2> QED
      BY <1>2, <2>2 DEF Coherent, Holds, Accounted
  <1> QED
    BY <1>1, <1>2

LEMMA DownSecond ==
    ASSUME NEW w \in Words, Coherent(trackpad, w), Holds(trackpad, w), trackpad \in BOOLEAN, allowed \in BOOLEAN,
           1 \in Ids, NEW v, v = TouchDown(w, 1, 1),
           NEW F, NEW G, G = F \cup {1},
           trackpad => w.contexts[0].most >= 2,
           trackpad /\ (\E g \in F : g \notin {0, 1}) => w.contexts[1].count >= 3,
           ~trackpad => w.contexts[0].cancelled
    PROVE  /\ v \in Words /\ v.contexts[1].owner = 1 /\ v.contexts[0] = w.contexts[0]
           /\ Coherent(trackpad, v) /\ Holds(trackpad, v)
           /\ Accounted(trackpad, w, F) => Accounted(trackpad, v, G)
  <1>1. CASE trackpad
    <2>1. RelativeLocal(w) /\ RelativeHeld(w) /\ w.contexts[0].most >= 2
          /\ ((\E g \in F : g \notin {0, 1}) => w.contexts[1].count >= 3)
      BY <1>1 DEF Coherent, Holds
    <2>2. /\ v \in Words /\ v.contexts[1].owner = 1 /\ v.contexts[0] = w.contexts[0]
          /\ RelativeLocal(v) /\ RelativeHeld(v)
          /\ RelativeLeft(w, F) => RelativeLeft(v, G)
          /\ RelativeTaps(w, F) => RelativeTaps(v, G)
      BY <1>1, <2>1, RelativeDownSecond
    <2> QED
      BY <1>1, <2>2 DEF Coherent, Holds, Accounted
  <1>2. CASE ~trackpad
    <2>1. AbsoluteLocal(w) /\ AbsoluteHeld(w) /\ w.contexts[0].cancelled
      BY <1>2 DEF Coherent, Holds
    <2>2. /\ v \in Words /\ v.contexts[1].owner = 1 /\ v.contexts[0] = w.contexts[0]
          /\ AbsoluteLocal(v) /\ AbsoluteHeld(v)
          /\ AbsoluteLeft(w, F) => AbsoluteLeft(v, G) /\ AbsoluteOthers(v, G)
      BY <1>2, <2>1, AbsoluteDownSecond
    <2> QED
      BY <1>2, <2>2 DEF Coherent, Holds, Accounted
  <1> QED
    BY <1>1, <1>2

\* Fingers that leave without a lift are not missed by what is accounted for,
\* unless it is the first one.
LEMMA Fewer ==
    ASSUME NEW w, NEW pad \in BOOLEAN, NEW F, NEW G \in SUBSET F, 0 \in F => 0 \in G, Accounted(pad, w, F)
    PROVE  Accounted(pad, w, G)
  <1>1. CASE pad
    <2>1. RelativeLeft(w, G)
      BY <1>1 DEF Accounted, RelativeLeft
    <2>2. RelativeTaps(w, G)
      BY <1>1 DEF Accounted, RelativeTaps
    <2> QED
      BY <1>1, <2>1, <2>2 DEF Accounted
  <1>2. CASE ~pad
    <2>1. AbsoluteLeft(w, G)
      BY <1>2 DEF Accounted, AbsoluteLeft
    <2>2. AbsoluteOthers(w, G)
      BY <1>2 DEF Accounted, AbsoluteOthers
    <2> QED
      BY <1>2, <2>1, <2>2 DEF Accounted
  <1> QED
    BY <1>1, <1>2

\* A lift, or a cancelled finger, at one of the two indices.
LEMMA LiftFirst ==
    ASSUME NEW w \in Words, Coherent(trackpad, w), trackpad \in BOOLEAN,
           NEW v, v = CancelTouch(w, 0) \/ v = TouchUp(w, 0),
           NEW F, NEW G \in SUBSET F, F # {}, 0 \notin G
    PROVE  /\ v \in Words /\ SameOwners(w, v)
           /\ Coherent(trackpad, v)
           /\ Accounted(trackpad, w, F) => Accounted(trackpad, v, G)
  <1>1. CASE trackpad /\ v = CancelTouch(w, 0)
    <2>1. RelativeLocal(w) /\ v = RelativeCancel(w, 0)
      BY <1>1 DEF Coherent, CancelTouch
    <2>2. /\ v \in Words /\ SameOwners(w, v) /\ RelativeLocal(v)
          /\ RelativeLeft(w, F) => RelativeLeft(v, G)
          /\ RelativeTaps(w, F) => RelativeTaps(v, F)
      BY <2>1, RelativeCancelFirst
    <2>3. RelativeTaps(v, F) => RelativeTaps(v, G)
      BY DEF RelativeTaps
    <2> QED
      BY <1>1, <2>2, <2>3 DEF Coherent, Accounted
  <1>2. CASE trackpad /\ v = TouchUp(w, 0)
    <2>1. RelativeLocal(w) /\ v = RelativeUp(w, 0)
      BY <1>2 DEF Coherent, TouchUp
    <2>2. /\ v \in Words /\ SameOwners(w, v) /\ RelativeLocal(v)
          /\ RelativeLeft(w, F) => RelativeLeft(v, G)
          /\ RelativeTaps(w, F) => RelativeTaps(v, G)
      BY <2>1, RelativeUpFirst
    <2> QED
      BY <1>2, <2>2 DEF Coherent, Accounted
  <1>3. CASE ~trackpad /\ v = CancelTouch(w, 0)
    <2>1. AbsoluteLocal(w) /\ v = AbsoluteCancel(w, 0)
      BY <1>3 DEF Coherent, CancelTouch
    <2>2. /\ v \in Words /\ SameOwners(w, v) /\ AbsoluteLocal(v)
          /\ AbsoluteLeft(w, F) => AbsoluteLeft(v, G)
          /\ AbsoluteOthers(v, G)
      BY <2>1, AbsoluteCancelFirst
    <2> QED
      BY <1>3, <2>2 DEF Coherent, Accounted
  <1>4. CASE ~trackpad /\ v = TouchUp(w, 0)
    <2>1. AbsoluteLocal(w) /\ v = AbsoluteUp(w, 0)
      BY <1>4 DEF Coherent, TouchUp
    <2>2. /\ v \in Words /\ SameOwners(w, v) /\ AbsoluteLocal(v)
          /\ AbsoluteLeft(w, F) => AbsoluteLeft(v, G) /\ AbsoluteOthers(v, G)
      BY <2>1, AbsoluteUpFirst
    <2> QED
      BY <1>4, <2>2 DEF Coherent, Accounted
  <1> QED
    BY <1>1, <1>2, <1>3, <1>4

LEMMA LiftSecond ==
    ASSUME NEW w \in Words, Coherent(trackpad, w), trackpad \in BOOLEAN,
           NEW v, v = CancelTouch(w, 1) \/ v = TouchUp(w, 1),
           NEW F, NEW G \in SUBSET F, 0 \in F => 0 \in G,
           (1 \in F /\ 1 \notin G) \/ \E g \in F : g \notin {0, 1}
    PROVE  /\ v \in Words /\ SameOwners(w, v)
           /\ Coherent(trackpad, v)
           /\ Holds(trackpad, w) => Holds(trackpad, v)
           /\ Accounted(trackpad, w, F) => Accounted(trackpad, v, G)
  <1>1. CASE trackpad /\ v = CancelTouch(w, 1)
    <2>1. RelativeLocal(w) /\ v = RelativeCancel(w, 1)
      BY <1>1 DEF Coherent, CancelTouch
    <2>2. /\ v \in Words /\ SameOwners(w, v) /\ RelativeLocal(v)
          /\ RelativeHeld(w) => RelativeHeld(v)
          /\ RelativeLeft(w, F) => RelativeLeft(v, F)
          /\ RelativeTaps(w, F) => RelativeTaps(v, F)
      BY <2>1, RelativeCancelSecond
    <2>3. Accounted(trackpad, w, F) => Accounted(trackpad, v, F)
      BY <1>1, <2>2 DEF Accounted
    <2> QED
      BY <1>1, <2>2, <2>3, Fewer DEF Coherent, Holds
  <1>2. CASE trackpad /\ v = TouchUp(w, 1)
    <2>1. RelativeLocal(w) /\ v = RelativeUp(w, 1)
      BY <1>2 DEF Coherent, TouchUp
    <2>2. /\ v \in Words /\ SameOwners(w, v) /\ RelativeLocal(v)
          /\ RelativeHeld(w) => RelativeHeld(v)
          /\ RelativeLeft(w, F) => RelativeLeft(v, G)
          /\ RelativeTaps(w, F) => RelativeTaps(v, G)
      BY <2>1, RelativeUpSecond
    <2> QED
      BY <1>2, <2>2 DEF Coherent, Holds, Accounted
  <1>3. CASE ~trackpad /\ v = CancelTouch(w, 1)
    <2>1. AbsoluteLocal(w) /\ v = AbsoluteCancel(w, 1)
      BY <1>3 DEF Coherent, CancelTouch
    <2>2. /\ v \in Words /\ SameOwners(w, v) /\ AbsoluteLocal(v)
          /\ AbsoluteHeld(w) => AbsoluteHeld(v)
          /\ AbsoluteLeft(w, F) => AbsoluteLeft(v, F)
          /\ AbsoluteOthers(w, F) => AbsoluteOthers(v, F)
      BY <2>1, AbsoluteCancelSecond
    <2>3. Accounted(trackpad, w, F) => Accounted(trackpad, v, F)
      BY <1>3, <2>2 DEF Accounted
    <2> QED
      BY <1>3, <2>2, <2>3, Fewer DEF Coherent, Holds
  <1>4. CASE ~trackpad /\ v = TouchUp(w, 1)
    <2>1. v = w
      BY <1>4 DEF TouchUp, AbsoluteUp
    <2> QED
      BY <2>1, Fewer DEF SameOwners
  <1> QED
    BY <1>1, <1>2, <1>3, <1>4

\* A finger that is gone owns no context.
LEMMA LeftDoes ==
    ASSUME NEW w \in Words, Coherent(trackpad, w), trackpad \in BOOLEAN, NEW f, NEW v, v = Left(w, f),
           NEW F, NEW G, G = F \ {f}, Owned(w, F)
    PROVE  /\ v \in Words /\ Owned(v, G)
           /\ Coherent(trackpad, v)
           /\ Holds(trackpad, w) \/ w.contexts[0].owner \in {f, No} => Holds(trackpad, v)
           /\ \A H : Accounted(trackpad, w, H) => Accounted(trackpad, v, H)
  <1> DEFINE e(i) == [w.contexts[i] EXCEPT !.owner = No, !.early = FALSE]
             c == [i \in Indices |-> IF w.contexts[i].owner = f THEN e(i) ELSE w.contexts[i]]
  <1>1. \A i \in Indices : w.contexts[i] \in Contexts
    BY DEF Words
  <1>2. \A i \in Indices : e(i) \in Contexts
    BY <1>1, OwnerEdit
  <1>3. \A i \in Indices :
            /\ e(i).owner = No /\ e(i).cancelled = w.contexts[i].cancelled
            /\ e(i).drag = w.contexts[i].drag /\ e(i).tap = w.contexts[i].tap
            /\ e(i).long = w.contexts[i].long
            /\ e(i).most = w.contexts[i].most /\ e(i).taps = w.contexts[i].taps
    BY <1>1 DEF Contexts
  <1>4. v = [w EXCEPT !.contexts = c]
    BY DEF Left
  <1>5. c \in [Indices -> Contexts]
    BY <1>1, <1>2
  <1>6. \A i \in Indices : c[i] = IF w.contexts[i].owner = f THEN e(i) ELSE w.contexts[i]
    OBVIOUS
  <1> HIDE DEF c, e
  <1>7. v \in Words /\ v.contexts = c /\ v.due = w.due /\ v.buttons = w.buttons
    BY <1>4, <1>5 DEF Words
  <1>8. \A i \in Indices :
            /\ v.contexts[i].cancelled = w.contexts[i].cancelled
            /\ v.contexts[i].drag = w.contexts[i].drag /\ v.contexts[i].tap = w.contexts[i].tap
            /\ v.contexts[i].long = w.contexts[i].long
            /\ v.contexts[i].most = w.contexts[i].most /\ v.contexts[i].taps = w.contexts[i].taps
            /\ w.contexts[i].owner = f => v.contexts[i].owner = No
            /\ w.contexts[i].owner # f => v.contexts[i] = w.contexts[i]
    BY <1>3, <1>6, <1>7
  <1>9. 0 \in Indices /\ 1 \in Indices
    BY DEF Indices
  <1>10. Owned(v, G)
    BY <1>8 DEF Owned
  <1>11. Coherent(trackpad, v)
    <2>1. RelativeLocal(w) => RelativeLocal(v)
      BY <1>7, <1>8, <1>9 DEF RelativeLocal, Pending
    <2>2. AbsoluteLocal(w) => AbsoluteLocal(v)
      BY <1>7, <1>8, <1>9 DEF AbsoluteLocal, Pending
    <2> QED
      BY <2>1, <2>2 DEF Coherent
  <1>12. ASSUME Holds(trackpad, w) \/ w.contexts[0].owner \in {f, No} PROVE Holds(trackpad, v)
    <2>1. CASE v.contexts[0].owner = No
      BY <2>1 DEF Holds, RelativeHeld, AbsoluteHeld
    <2>2. CASE v.contexts[0].owner # No
      <3>1. v.contexts[0] = w.contexts[0] /\ Holds(trackpad, w)
        BY <1>8, <1>9, <1>12, <2>2
      <3> QED
        BY <1>7, <3>1 DEF Holds, RelativeHeld, AbsoluteHeld, Pending
    <2> QED
      BY <2>1, <2>2
  <1>13. ASSUME NEW H, Accounted(trackpad, w, H) PROVE Accounted(trackpad, v, H)
    <2>1. RelativeLeft(w, H) => RelativeLeft(v, H)
      BY <1>7, <1>8, <1>9 DEF RelativeLeft, Pending
    <2>2. RelativeTaps(w, H) => RelativeTaps(v, H)
      BY <1>7, <1>8, <1>9 DEF RelativeTaps
    <2>3. AbsoluteLeft(w, H) => AbsoluteLeft(v, H)
      BY <1>7, <1>8, <1>9 DEF AbsoluteLeft, Pending
    <2>4. AbsoluteOthers(w, H) => AbsoluteOthers(v, H)
      BY <1>7, <1>8, <1>9 DEF AbsoluteOthers, Pending
    <2> QED
      BY <1>13, <2>1, <2>2, <2>3, <2>4 DEF Accounted
  <1> QED
    BY <1>7, <1>10, <1>11, <1>12, <1>13

LEMMA Moves ==
    ASSUME NEW w \in Words, Coherent(trackpad, w), trackpad \in BOOLEAN, NEW i \in Indices, NEW d,
           NEW v, v = TouchMove(w, i, d), NEW F, F # {}
    PROVE  /\ v \in Words /\ SameOwners(w, v)
           /\ Coherent(trackpad, v)
           /\ Holds(trackpad, w) => Holds(trackpad, v)
           /\ Accounted(trackpad, w, F) => Accounted(trackpad, v, F)
  <1>1. CASE trackpad /\ i = 0
    <2>1. RelativeLocal(w) /\ v = RelativeMove(w, 0, d)
      BY <1>1 DEF Coherent, TouchMove
    <2> QED
      BY <1>1, <2>1, RelativeMoveFirst DEF Coherent, Holds, Accounted
  <1>2. CASE trackpad /\ i = 1
    <2>1. RelativeLocal(w) /\ v = RelativeMove(w, 1, d)
      BY <1>2 DEF Coherent, TouchMove
    <2> QED
      BY <1>2, <2>1, RelativeMoveSecond DEF Coherent, Holds, Accounted
  <1>3. CASE ~trackpad /\ i = 0
    <2>1. AbsoluteLocal(w) /\ v = AbsoluteMove(w, 0, d)
      BY <1>3 DEF Coherent, TouchMove
    <2>2. /\ v \in Words /\ SameOwners(w, v) /\ AbsoluteLocal(v)
          /\ AbsoluteHeld(w) => AbsoluteHeld(v)
          /\ AbsoluteLeft(w, F) /\ AbsoluteOthers(w, F) => AbsoluteLeft(v, F) /\ AbsoluteOthers(v, F)
      BY <2>1, AbsoluteMoveFirst
    <2> QED
      BY <1>3, <2>2 DEF Coherent, Holds, Accounted
  <1>4. CASE ~trackpad /\ i = 1
    <2>1. v = w
      BY <1>4 DEF TouchMove, AbsoluteMove
    <2> QED
      BY <2>1 DEF SameOwners
  <1> QED
    BY <1>1, <1>2, <1>3, <1>4 DEF Indices

LEMMA Fires ==
    ASSUME NEW w \in Words, Coherent(trackpad, w), trackpad \in BOOLEAN,
           NEW what \in Messages, w.due[what] = 0,
           NEW a, a = Without(w, what),
           NEW v, v = CASE what = "drag" -> DragTimer(a)
                        [] what = "tapDown" -> TapConfirmed(a)
                        [] what = "longPress" -> LongPress(a)
                        [] OTHER -> Raised(a, what)
    PROVE  /\ v \in Words /\ SameOwners(w, v)
           /\ Coherent(trackpad, v)
           /\ Holds(trackpad, w) => Holds(trackpad, v)
           /\ \A F : Accounted(trackpad, w, F) => Accounted(trackpad, v, F)
  <1>1. Pending(w, what)
    BY TouchAssumption DEF Pending
  <1>2. CASE trackpad
    <2>1. RelativeLocal(w)
      BY <1>2 DEF Coherent
    <2>2. what # "tapDown" /\ what # "longPress"
      BY <1>1, <2>1 DEF RelativeLocal
    <2>3. CASE what = "drag"
      <3>1. v = DragTimer(Without(w, "drag"))
        BY <2>3
      <3> QED
        BY <1>2, <2>1, <2>3, <3>1, RelativeDrag DEF Coherent, Holds, Accounted
    <2>4. CASE what \in {"left", "right"}
      <3>1. v = Raised(Without(w, what), what)
        BY <2>4
      <3> QED
        BY <1>2, <2>1, <2>4, <3>1, RelativeRelease DEF Coherent, Holds, Accounted
    <2> QED
      BY <2>2, <2>3, <2>4 DEF Messages
  <1>3. CASE ~trackpad
    <2>1. AbsoluteLocal(w)
      BY <1>3 DEF Coherent
    <2>2. what # "drag" /\ what # "right"
      BY <1>1, <2>1 DEF AbsoluteLocal
    <2>3. CASE what = "tapDown"
      <3>1. v = TapConfirmed(Without(w, "tapDown"))
        BY <2>3
      <3> QED
        BY <1>3, <2>1, <2>3, <3>1, AbsoluteTapDown DEF Coherent, Holds, Accounted
    <2>4. CASE what = "longPress"
      <3>1. v = LongPress(Without(w, "longPress"))
        BY <2>4
      <3> QED
        BY <1>3, <2>1, <2>4, <3>1, AbsoluteLongPress DEF Coherent, Holds, Accounted
    <2>5. CASE what = "left"
      <3>1. v = Raised(Without(w, "left"), "left")
        BY <2>5
      <3> QED
        BY <1>3, <2>1, <2>5, <3>1, AbsoluteRelease DEF Coherent, Holds, Accounted
    <2> QED
      BY <2>2, <2>3, <2>4, <2>5 DEF Messages
  <1> QED
    BY <1>2, <1>3

LEMMA AgeEdit ==
    ASSUME NEW c \in Contexts, NEW a \in 0 .. TapTime + 1, NEW e, e = [c EXCEPT !.age = a]
    PROVE  /\ e \in Contexts
           /\ e.owner = c.owner /\ e.cancelled = c.cancelled /\ e.drag = c.drag /\ e.tap = c.tap
           /\ e.long = c.long /\ e.most = c.most /\ e.taps = c.taps /\ e.early = c.early
  BY DEF Contexts

\* Time passes for every message alike.
LEMMA Passes ==
    ASSUME NEW w \in Words, Coherent(trackpad, w), trackpad \in BOOLEAN, \A m \in Messages : w.due[m] # 0,
           NEW v,
           v = [contexts |-> [i \in Indices |-> [w.contexts[i] EXCEPT !.age = Later(w.contexts[i].age, TapTime + 1)]],
                due |-> [m \in Messages |-> IF w.due[m] = No THEN No ELSE w.due[m] - 1],
                buttons |-> w.buttons]
    PROVE  /\ v \in Words /\ SameOwners(w, v)
           /\ Coherent(trackpad, v)
           /\ Holds(trackpad, w) => Holds(trackpad, v)
           /\ \A F : Accounted(trackpad, w, F) => Accounted(trackpad, v, F)
  <1> DEFINE e(i) == [w.contexts[i] EXCEPT !.age = Later(w.contexts[i].age, TapTime + 1)]
             t(m) == IF w.due[m] = No THEN No ELSE w.due[m] - 1
  <1>1. \A i \in Indices : w.contexts[i] \in Contexts /\ Later(w.contexts[i].age, TapTime + 1) \in 0 .. TapTime + 1
    <2> SUFFICES ASSUME NEW i \in Indices
                 PROVE  w.contexts[i] \in Contexts /\ Later(w.contexts[i].age, TapTime + 1) \in 0 .. TapTime + 1
      OBVIOUS
    <2>1. w.contexts[i] \in Contexts
      BY DEF Words
    <2>2. w.contexts[i].age \in 0 .. TapTime + 1 /\ TapTime \in Nat
      BY <2>1, TouchAssumption DEF Contexts
    <2> QED
      BY <2>1, <2>2 DEF Later
  <1>2. \A i \in Indices :
            /\ e(i) \in Contexts
            /\ e(i).owner = w.contexts[i].owner /\ e(i).cancelled = w.contexts[i].cancelled
            /\ e(i).drag = w.contexts[i].drag /\ e(i).tap = w.contexts[i].tap
            /\ e(i).long = w.contexts[i].long
            /\ e(i).most = w.contexts[i].most /\ e(i).taps = w.contexts[i].taps /\ e(i).early = w.contexts[i].early
    BY <1>1, AgeEdit
  <1>3. \A m \in Messages :
            /\ w.due[m] = No \/ (w.due[m] \in Nat /\ w.due[m] >= 1 /\ w.due[m] <= LongTime)
            /\ t(m) \in 0 .. LongTime \cup {No}
            /\ t(m) = No <=> w.due[m] = No
    <2> SUFFICES ASSUME NEW m \in Messages
                 PROVE  /\ w.due[m] = No \/ (w.due[m] \in Nat /\ w.due[m] >= 1 /\ w.due[m] <= LongTime)
                        /\ t(m) \in 0 .. LongTime \cup {No}
                        /\ t(m) = No <=> w.due[m] = No
      OBVIOUS
    <2>1. w.due[m] \in 0 .. LongTime \cup {No} /\ w.due[m] # 0
      BY WordParts
    <2>2. LongTime \in Nat /\ No \notin Nat
      BY TouchAssumption
    <2>3. CASE w.due[m] = No
      BY <2>3
    <2>4. CASE w.due[m] # No
      <3>1. w.due[m] \in 0 .. LongTime /\ w.due[m] # 0
        BY <2>1, <2>4
      <3>2. w.due[m] \in Nat /\ w.due[m] >= 1 /\ w.due[m] <= LongTime /\ w.due[m] - 1 \in 0 .. LongTime
        BY <2>2, <3>1
      <3>3. t(m) = w.due[m] - 1
        BY <2>4
      <3> QED
        BY <2>2, <2>4, <3>2, <3>3
    <2> QED
      BY <2>3, <2>4
  <1>4. v = [contexts |-> [i \in Indices |-> e(i)], due |-> [m \in Messages |-> t(m)], buttons |-> w.buttons]
    OBVIOUS
  <1>5. \A m \in Messages : w.due[m] # No => t(m) = w.due[m] - 1
    OBVIOUS
  <1> HIDE DEF e, t
  <1>6. v.contexts = [i \in Indices |-> e(i)] /\ v.due = [m \in Messages |-> t(m)] /\ v.buttons = w.buttons
    BY <1>4
  <1>7. [i \in Indices |-> e(i)] \in [Indices -> Contexts]
    BY <1>2
  <1>8. [m \in Messages |-> t(m)] \in [Messages -> 0 .. LongTime \cup {No}]
    BY <1>3
  <1>9. v \in Words
    BY <1>4, <1>7, <1>8, WordParts DEF Words
  <1>10. \A i \in Indices :
             /\ v.contexts[i].owner = w.contexts[i].owner /\ v.contexts[i].cancelled = w.contexts[i].cancelled
             /\ v.contexts[i].drag = w.contexts[i].drag /\ v.contexts[i].tap = w.contexts[i].tap
             /\ v.contexts[i].long = w.contexts[i].long /\ v.contexts[i].most = w.contexts[i].most
             /\ v.contexts[i].taps = w.contexts[i].taps /\ v.contexts[i].early = w.contexts[i].early
    BY <1>2, <1>6
  <1>11. \A m \in Messages :
             /\ Pending(v, m) <=> Pending(w, m)
             /\ Pending(w, m) => v.due[m] = w.due[m] - 1 /\ w.due[m] \in Nat
    BY <1>3, <1>5, <1>6 DEF Pending
  <1>12. /\ 0 \in Indices /\ 1 \in Indices
         /\ "drag" \in Messages /\ "left" \in Messages /\ "right" \in Messages
         /\ "tapDown" \in Messages /\ "longPress" \in Messages
         /\ ReleaseTime \in Nat
    BY TouchAssumption DEF Indices, Messages
  <1> DEFINE Late(w1, x, y) == Pending(w1, x) /\ Pending(w1, y) => w1.due[y] < w1.due[x]
             Soon(w1) == Pending(w1, "left") => w1.due["left"] <= ReleaseTime
  <1>13. /\ Late(w, "drag", "left") => Late(v, "drag", "left")
         /\ Late(w, "longPress", "left") => Late(v, "longPress", "left")
         /\ Soon(w) => Soon(v)
    <2>1. Late(w, "drag", "left") => Late(v, "drag", "left")
      BY <1>11, <1>12
    <2>2. Late(w, "longPress", "left") => Late(v, "longPress", "left")
      BY <1>11, <1>12
    <2>3. Soon(w) => Soon(v)
      BY <1>11, <1>12
    <2> QED
      BY <2>1, <2>2, <2>3
  <1> DEFINE Same(m) == Pending(v, m) <=> Pending(w, m)
  <1>14. Same("left") /\ Same("right") /\ Same("drag") /\ Same("tapDown") /\ Same("longPress")
    BY <1>11, <1>12
  <1>15. /\ v.contexts[0].owner = w.contexts[0].owner /\ v.contexts[0].cancelled = w.contexts[0].cancelled
         /\ v.contexts[0].drag = w.contexts[0].drag /\ v.contexts[0].tap = w.contexts[0].tap
         /\ v.contexts[0].long = w.contexts[0].long /\ v.contexts[0].taps = w.contexts[0].taps
         /\ v.contexts[0].early = w.contexts[0].early
         /\ v.contexts[1].tap = w.contexts[1].tap /\ v.contexts[1].long = w.contexts[1].long
         /\ v.contexts[1].taps = w.contexts[1].taps /\ v.contexts[1].drag = w.contexts[1].drag
    BY <1>10, <1>12
  <1>16. RelativeLocal(w) => RelativeLocal(v)
    BY <1>6, <1>10, <1>11, <1>12, <1>13 DEF RelativeLocal
  <1>17. AbsoluteLocal(w) => AbsoluteLocal(v)
    <2> SUFFICES ASSUME AbsoluteLocal(w) PROVE AbsoluteLocal(v)
      OBVIOUS
    <2>1. Late(w, "longPress", "left") /\ Soon(w)
      BY DEF AbsoluteLocal
    <2>2. Late(v, "longPress", "left") /\ Soon(v)
      BY <1>13, <2>1
    <2>3. \A i \in Indices : ~v.contexts[i].drag
      BY <1>10 DEF AbsoluteLocal
    <2> QED
      BY <1>14, <1>15, <2>2, <2>3 DEF AbsoluteLocal
  <1>18. RelativeHeld(w) => RelativeHeld(v)
    BY <1>6, <1>14, <1>15 DEF RelativeHeld
  <1>19. AbsoluteHeld(w) => AbsoluteHeld(v)
    BY <1>6, <1>14, <1>15 DEF AbsoluteHeld
  <1>20. \A F : RelativeLeft(w, F) => RelativeLeft(v, F)
    BY <1>6, <1>14, <1>15 DEF RelativeLeft
  <1>21. \A F : RelativeTaps(w, F) => RelativeTaps(v, F)
    BY <1>10, <1>12 DEF RelativeTaps
  <1>22. \A F : AbsoluteLeft(w, F) => AbsoluteLeft(v, F)
    BY <1>6, <1>14, <1>15 DEF AbsoluteLeft
  <1>23. \A F : AbsoluteOthers(w, F) => AbsoluteOthers(v, F)
    BY <1>10, <1>11, <1>12 DEF AbsoluteOthers
  <1>24. SameOwners(w, v)
    BY <1>10 DEF SameOwners
  <1> QED
    BY <1>9, <1>16, <1>17, <1>18, <1>19, <1>20, <1>21, <1>22, <1>23, <1>24 DEF Coherent, Holds, Accounted

\* A finger that comes while the controls are edited: only the history knows.
LEMMA TapsReset ==
    ASSUME NEW c \in Contexts, NEW n \in Nat, NEW e, e = [c EXCEPT !.taps = n]
    PROVE  /\ e \in Contexts
           /\ e.owner = c.owner /\ e.cancelled = c.cancelled /\ e.drag = c.drag /\ e.tap = c.tap
           /\ e.long = c.long /\ e.most = c.most /\ e.taps = n /\ e.early = c.early
  BY DEF Contexts

LEMMA Unheard ==
    ASSUME NEW w \in Words, Coherent(trackpad, w), trackpad \in BOOLEAN, NEW j, NEW v,
           v = [contexts |-> [i \in Indices |->
                                [w.contexts[i] EXCEPT !.taps = IF i = j THEN 0 ELSE w.contexts[i].taps]],
                due |-> w.due, buttons |-> w.buttons]
    PROVE  /\ v \in Words /\ SameOwners(w, v)
           /\ Coherent(trackpad, v)
           /\ Holds(trackpad, w) => Holds(trackpad, v)
           /\ j = 0 /\ Accounted(trackpad, w, {}) => Accounted(trackpad, v, {0})
  <1> DEFINE e(i) == [w.contexts[i] EXCEPT !.taps = IF i = j THEN 0 ELSE w.contexts[i].taps]
  <1>1. \A i \in Indices : w.contexts[i] \in Contexts /\ w.contexts[i].taps \in Nat
    BY DEF Words, Contexts
  <1>2. \A i \in Indices :
            /\ e(i) \in Contexts
            /\ e(i).owner = w.contexts[i].owner /\ e(i).cancelled = w.contexts[i].cancelled
            /\ e(i).drag = w.contexts[i].drag /\ e(i).tap = w.contexts[i].tap
            /\ e(i).long = w.contexts[i].long
            /\ e(i).most = w.contexts[i].most /\ e(i).early = w.contexts[i].early
            /\ e(i).taps = IF i = j THEN 0 ELSE w.contexts[i].taps
    <2> SUFFICES ASSUME NEW i \in Indices
                 PROVE  /\ e(i) \in Contexts
                        /\ e(i).owner = w.contexts[i].owner /\ e(i).cancelled = w.contexts[i].cancelled
                        /\ e(i).drag = w.contexts[i].drag /\ e(i).tap = w.contexts[i].tap
                        /\ e(i).long = w.contexts[i].long
                        /\ e(i).most = w.contexts[i].most /\ e(i).early = w.contexts[i].early
                        /\ e(i).taps = IF i = j THEN 0 ELSE w.contexts[i].taps
      OBVIOUS
    <2>1. (IF i = j THEN 0 ELSE w.contexts[i].taps) \in Nat
      BY <1>1
    <2> QED
      BY <1>1, <2>1, TapsReset
  <1>3. v = [contexts |-> [i \in Indices |-> e(i)], due |-> w.due, buttons |-> w.buttons]
    OBVIOUS
  <1> HIDE DEF e
  <1>4. v.contexts = [i \in Indices |-> e(i)] /\ v.due = w.due /\ v.buttons = w.buttons
    BY <1>3
  <1>5. [i \in Indices |-> e(i)] \in [Indices -> Contexts]
    BY <1>2
  <1>6. v \in Words
    BY <1>3, <1>5 DEF Words
  <1>7. \A i \in Indices :
             /\ v.contexts[i].owner = w.contexts[i].owner /\ v.contexts[i].cancelled = w.contexts[i].cancelled
             /\ v.contexts[i].drag = w.contexts[i].drag /\ v.contexts[i].tap = w.contexts[i].tap
             /\ v.contexts[i].long = w.contexts[i].long /\ v.contexts[i].most = w.contexts[i].most
             /\ v.contexts[i].early = w.contexts[i].early
             /\ v.contexts[i].taps = IF i = j THEN 0 ELSE w.contexts[i].taps
    BY <1>2, <1>4
  <1>8. 0 \in Indices /\ 1 \in Indices
    BY DEF Indices
  <1>9. SameOwners(w, v)
    BY <1>7 DEF SameOwners
  <1>10. RelativeLocal(w) => RelativeLocal(v)
    BY <1>4, <1>7, <1>8 DEF RelativeLocal, Pending
  <1>11. AbsoluteLocal(w) => AbsoluteLocal(v)
    BY <1>4, <1>7, <1>8 DEF AbsoluteLocal, Pending
  <1>12. RelativeHeld(w) => RelativeHeld(v)
    BY <1>4, <1>7, <1>8 DEF RelativeHeld, Pending
  <1>13. AbsoluteHeld(w) => AbsoluteHeld(v)
    BY <1>4, <1>7, <1>8 DEF AbsoluteHeld, Pending
  <1>14. RelativeLeft(w, {}) => RelativeLeft(v, {0})
    BY <1>4, <1>7, <1>8 DEF RelativeLeft, Pending
  <1>15. j = 0 /\ RelativeTaps(w, {}) => RelativeTaps(v, {0})
    BY <1>7, <1>8 DEF RelativeTaps
  <1>16. AbsoluteLeft(w, {}) => AbsoluteLeft(v, {0})
    BY <1>4, <1>7, <1>8 DEF AbsoluteLeft, Pending
  <1>17. AbsoluteOthers(v, {0})
    BY DEF AbsoluteOthers
  <1> QED
    BY <1>6, <1>9, <1>10, <1>11, <1>12, <1>13, <1>14, <1>15, <1>16, <1>17 DEF Coherent, Holds, Accounted

\* Where nobody waits for a lift, nobody misses one.
LEMMA Idle ==
    ASSUME NEW w \in Words, Coherent(trackpad, w), trackpad \in BOOLEAN,
           \A b \in w.buttons : Pending(w, b),
           ~Pending(w, "drag"), ~Pending(w, "tapDown"), ~Pending(w, "longPress"),
           NEW F, NEW G \in SUBSET F, Accounted(trackpad, w, F)
    PROVE  Accounted(trackpad, w, G)
  <1>1. CASE trackpad
    <2>1. RelativeLeft(w, G)
      BY DEF RelativeLeft
    <2>2. RelativeTaps(w, G)
      BY <1>1 DEF Accounted, RelativeTaps
    <2> QED
      BY <1>1, <2>1, <2>2 DEF Accounted
  <1>2. CASE ~trackpad
    <2>1. AbsoluteLeft(w, G)
      BY <1>2 DEF AbsoluteLeft, Coherent, AbsoluteLocal
    <2>2. AbsoluteOthers(w, G)
      BY <1>2 DEF Accounted, AbsoluteOthers
    <2> QED
      BY <1>2, <2>1, <2>2 DEF Accounted
  <1> QED
    BY <1>1, <1>2

\* A finger beyond the second changes nothing once there is one.
LEMMA More ==
    ASSUME NEW w, NEW pad \in BOOLEAN, NEW F, NEW f, f \notin {0, 1}, \E g \in F : g \notin {0, 1},
           NEW G, G = F \cup {f}, Accounted(pad, w, F)
    PROVE  Accounted(pad, w, G)
  <1>1. CASE pad
    <2>1. RelativeLeft(w, G)
      BY <1>1 DEF Accounted, RelativeLeft
    <2>2. RelativeTaps(w, G)
      BY <1>1 DEF Accounted, RelativeTaps
    <2> QED
      BY <1>1, <2>1, <2>2 DEF Accounted
  <1>2. CASE ~pad
    <2>1. AbsoluteLeft(w, G)
      BY <1>2 DEF Accounted, AbsoluteLeft
    <2>2. AbsoluteOthers(w, G)
      BY <1>2 DEF Accounted, AbsoluteOthers
    <2> QED
      BY <1>2, <2>1, <2>2 DEF Accounted
  <1> QED
    BY <1>1, <1>2

-----------------------------------------------------------------------------
(* The inductive invariant, and one lemma per action *)

TouchInv ==
    /\ TouchTyped
    /\ Owned(Now, fingers) /\ Coherent(trackpad, Now) /\ Holds(trackpad, Now)
    /\ ~kept => Accounted(trackpad, Now, fingers)

LEMMA NowWord == TouchTyped => Now \in Words
  BY DEF TouchTyped, Now, Words

LEMMA OwnedWider ==
    ASSUME NEW w, NEW v, SameOwners(w, v), NEW F, NEW G, F \subseteq G, Owned(w, F)
    PROVE  Owned(v, G)
  BY DEF SameOwners, Owned

\* What a step leads to.
LEMMA Reached ==
    ASSUME NEW w \in Words, Becomes(w), TouchTyped, UNCHANGED trackpad,
           allowed' \in BOOLEAN, editing' \in BOOLEAN, kept' \in BOOLEAN,
           fingers' \subseteq Ids, sinceThree' \in 0 .. KeyboardTime,
           Owned(w, fingers'), Coherent(trackpad, w), Holds(trackpad, w),
           ~kept' => Accounted(trackpad, w, fingers')
    PROVE  TouchInv'
  <1>1. /\ contexts' = w.contexts /\ due' = w.due /\ buttons' = w.buttons
    BY DEF Becomes
  <1>2. w = [contexts |-> w.contexts, due |-> w.due, buttons |-> w.buttons]
    BY DEF Words
  <1>3. Now' = w
    BY <1>1, <1>2 DEF Now
  <1>4. TouchTyped'
    BY <1>1 DEF TouchTyped, Words
  <1> QED
    BY <1>3, <1>4 DEF TouchInv

LEMMA TouchStart == TouchInit => TouchInv
  <1> SUFFICES ASSUME TouchInit PROVE TouchInv
    OBVIOUS
  <1>1. /\ 0 \in 0 .. MaxFingers /\ TapTime + 1 \in 0 .. TapTime + 1 /\ KeyboardTime \in 0 .. KeyboardTime
        /\ TRUE \in BOOLEAN /\ 0 \in Nat
    BY TouchAssumption
  <1>2. NewContext \in Contexts
    BY <1>1 DEF NewContext, Contexts
  <1>3. TouchTyped
    BY <1>1, <1>2 DEF TouchInit, TouchTyped
  <1>4. \A i \in Indices : Now.contexts[i] = NewContext
    BY DEF TouchInit, Now
  <1>5. 0 \in Indices /\ 1 \in Indices
    BY DEF Indices
  <1>6. /\ Now.contexts[0] = NewContext /\ Now.contexts[1] = NewContext
        /\ \A m \in Messages : ~Pending(Now, m)
        /\ Now.buttons = {} /\ fingers = {}
    BY <1>4, <1>5 DEF TouchInit, Now, Pending
  <1>7. /\ ~Pending(Now, "drag") /\ ~Pending(Now, "tapDown") /\ ~Pending(Now, "longPress")
        /\ ~Pending(Now, "left") /\ ~Pending(Now, "right")
    BY <1>6 DEF Messages
  <1>8. /\ ~NewContext.cancelled /\ ~NewContext.drag /\ ~NewContext.tap /\ ~NewContext.long
        /\ NewContext.owner = No /\ NewContext.taps = 0
    BY DEF NewContext
  <1>9. Owned(Now, fingers)
    BY <1>4, <1>8 DEF Owned
  <1>10. RelativeLocal(Now) /\ RelativeHeld(Now)
    BY <1>4, <1>6, <1>7, <1>8 DEF RelativeLocal, RelativeHeld
  <1>11. AbsoluteLocal(Now) /\ AbsoluteHeld(Now)
    BY <1>4, <1>6, <1>7, <1>8 DEF AbsoluteLocal, AbsoluteHeld
  <1>12. RelativeLeft(Now, fingers) /\ RelativeTaps(Now, fingers)
    BY <1>6, <1>7, <1>8 DEF RelativeLeft, RelativeTaps
  <1>13. AbsoluteLeft(Now, fingers) /\ AbsoluteOthers(Now, fingers)
    BY <1>6, <1>7, <1>8 DEF AbsoluteLeft, AbsoluteOthers
  <1> QED
    BY <1>3, <1>9, <1>10, <1>11, <1>12, <1>13 DEF TouchInv, Coherent, Holds, Accounted

LEMMA AfterDown ==
    ASSUME TouchInv, NEW f \in Ids, FingerDown(f)
    PROVE  TouchInv'
  <1> DEFINE G == fingers \cup {f}
             n == Cardinality(G)
             i == Index(f, G)
  <1>1. /\ f \in Ids \ fingers /\ \A g \in Ids : g < f => g \in fingers
        /\ fingers' = G /\ ~kept /\ kept' = (kept \/ (editing /\ fingers # {}))
        /\ UNCHANGED <<editing, trackpad, allowed>>
    BY DEF FingerDown, frame
  <1>2. /\ fingers \in SUBSET Ids /\ TouchTyped /\ Now \in Words
        /\ trackpad \in BOOLEAN /\ allowed \in BOOLEAN /\ editing \in BOOLEAN /\ kept \in BOOLEAN
        /\ sinceThree \in 0 .. KeyboardTime
        /\ Owned(Now, fingers) /\ Coherent(trackpad, Now) /\ Holds(trackpad, Now)
        /\ Accounted(trackpad, Now, fingers)
    BY <1>1, NowWord DEF TouchInv, TouchTyped
  <1>3. /\ i = f /\ n \in 0 .. MaxFingers /\ G \in SUBSET Ids
        /\ f # 0 => n >= 2
        /\ (\E g \in fingers : g # 0) => n >= 2
        /\ (\E g \in fingers : g \notin {0, 1}) /\ f = 1 => n >= 3
        /\ n = 3 => \E g \in fingers : g # 0
        /\ f \notin {0, 1} /\ n # 3 => \E g \in fingers : g \notin {0, 1}
    BY <1>1, <1>2, DownIndex
  <1>4. /\ allowed' \in BOOLEAN /\ editing' \in BOOLEAN /\ kept' \in BOOLEAN /\ fingers' \subseteq Ids
        /\ UNCHANGED trackpad /\ fingers \subseteq fingers'
    BY <1>1, <1>2, <1>3
  <1>5. \/ /\ editing /\ UNCHANGED <<due, buttons, sinceThree>>
           /\ contexts' = [c \in Indices |-> [contexts[c] EXCEPT !.taps = IF c = i THEN 0 ELSE contexts[c].taps]]
        \/ ~editing /\ n = 3 /\ Becomes(CancelAll(Now)) /\ sinceThree' = 0
        \/ ~editing /\ n # 3 /\ i \in Indices /\ Becomes(TouchDown(SetCounts(Now, n), i, f)) /\ UNCHANGED sinceThree
        \/ ~editing /\ n # 3 /\ i \notin Indices /\ UNCHANGED <<touch, sinceThree>>
    BY <1>1 DEF FingerDown
  <1>6. 0 \in 0 .. KeyboardTime
    BY TouchAssumption
  <1> HIDE DEF i, n, G
  <1>7. CASE /\ editing /\ UNCHANGED <<due, buttons, sinceThree>>
             /\ contexts' = [c \in Indices |-> [contexts[c] EXCEPT !.taps = IF c = i THEN 0 ELSE contexts[c].taps]]
    <2> DEFINE v == [contexts |-> [c \in Indices |->
                                     [Now.contexts[c] EXCEPT !.taps = IF c = i THEN 0 ELSE Now.contexts[c].taps]],
                     due |-> Now.due, buttons |-> Now.buttons]
    <2>1. Becomes(v)
      BY <1>7 DEF Becomes, Now
    <2> HIDE DEF v
    <2>2. /\ v \in Words /\ SameOwners(Now, v)
          /\ Coherent(trackpad, v)
          /\ Holds(trackpad, Now) => Holds(trackpad, v)
          /\ i = 0 /\ Accounted(trackpad, Now, {}) => Accounted(trackpad, v, {0})
      BY <1>2, Unheard DEF v
    <2>3. Owned(v, fingers')
      BY <1>2, <1>4, <2>2, OwnedWider
    <2>4. ASSUME ~kept' PROVE Accounted(trackpad, v, fingers')
      <3>1. fingers = {}
        BY <1>1, <1>7, <2>4
      <3>2. f = 0
        BY <1>1, <3>1, TouchAssumption DEF Ids
      <3>3. fingers' = {0}
        BY <1>1, <3>1, <3>2 DEF G
      <3> QED
        BY <1>2, <1>3, <2>2, <3>1, <3>2, <3>3
    <2> QED
      BY <1>2, <1>4, <1>7, <2>1, <2>2, <2>3, <2>4, Reached
  <1>8. CASE ~editing /\ n = 3 /\ Becomes(CancelAll(Now)) /\ sinceThree' = 0
    <2> DEFINE v == CancelAll(Now)
    <2>1. /\ v \in Words /\ SameOwners(Now, v)
          /\ Coherent(trackpad, v) /\ Holds(trackpad, v)
          /\ Accounted(trackpad, Now, fingers) /\ ((\E g \in G : g # 0) => \E g \in fingers : g # 0) =>
                Accounted(trackpad, v, G)
      BY <1>2, Cancels
    <2> HIDE DEF v
    <2>2. Owned(v, fingers')
      BY <1>2, <1>4, <2>1, OwnedWider
    <2>3. Accounted(trackpad, v, fingers')
      BY <1>1, <1>2, <1>3, <1>8, <2>1
    <2>4. Becomes(v)
      BY <1>8 DEF v
    <2> QED
      BY <1>2, <1>4, <1>6, <1>8, <2>1, <2>2, <2>3, <2>4, Reached
  <1>9. CASE ~editing /\ n # 3 /\ i \in Indices /\ Becomes(TouchDown(SetCounts(Now, n), i, f)) /\ UNCHANGED sinceThree
    <2> DEFINE u == SetCounts(Now, n)
               v == TouchDown(u, i, i)
    <2>1. /\ u \in Words /\ SameOwners(Now, u)
          /\ trackpad => u.contexts[0].count = n /\ u.contexts[0].most >= n /\ u.contexts[1].count = n
          /\ ~trackpad /\ n > 1 => u.contexts[0].cancelled
          /\ Coherent(trackpad, u)
          /\ Holds(trackpad, Now) => Holds(trackpad, u)
          /\ Accounted(trackpad, Now, fingers) => Accounted(trackpad, u, fingers)
      BY <1>2, <1>3, Counts
    <2>2. Becomes(v)
      BY <1>3, <1>9
    <2> HIDE DEF u
    <2>3. n \in Nat /\ (trackpad => u.contexts[0].most \in Nat)
      <3>1. u.contexts[0] \in Contexts
        BY <2>1, WordParts
      <3> QED
        BY <1>3, <3>1, TouchAssumption DEF Contexts
    <2>4. Holds(trackpad, u) /\ Accounted(trackpad, u, fingers) /\ Owned(u, fingers)
      BY <1>2, <2>1, OwnedWider
    <2>5. /\ v \in Words /\ Owned(v, G)
          /\ Coherent(trackpad, v) /\ Holds(trackpad, v) /\ Accounted(trackpad, v, G)
      <3>1. CASE i = 0
        <4>1. /\ v = TouchDown(u, 0, 0) /\ 0 \in Ids /\ 0 \notin fingers /\ G = fingers \cup {0}
              /\ trackpad /\ (\E g \in fingers : g # 0) => u.contexts[0].count >= 2
          BY <1>1, <1>3, <2>1, <3>1 DEF G
        <4> HIDE DEF v
        <4>2. /\ v \in Words /\ v.contexts[0].owner = 0 /\ v.contexts[1] = u.contexts[1]
              /\ Coherent(trackpad, v) /\ Holds(trackpad, v)
              /\ Accounted(trackpad, u, fingers) => Accounted(trackpad, v, G)
          BY <1>2, <2>1, <4>1, DownFirst
        <4> QED
          BY <2>4, <4>1, <4>2 DEF Owned, Indices
      <3>2. CASE i = 1
        <4>1. /\ v = TouchDown(u, 1, 1) /\ 1 \in Ids /\ G = fingers \cup {1}
              /\ n >= 2 /\ ((\E g \in fingers : g \notin {0, 1}) => n >= 3)
          BY <1>1, <1>3, <3>2 DEF G
        <4>2. /\ trackpad => u.contexts[0].most >= 2
              /\ trackpad /\ (\E g \in fingers : g \notin {0, 1}) => u.contexts[1].count >= 3
              /\ ~trackpad => u.contexts[0].cancelled
          BY <2>1, <2>3, <4>1
        <4> HIDE DEF v
        <4>3. /\ v \in Words /\ v.contexts[1].owner = 1 /\ v.contexts[0] = u.contexts[0]
              /\ Coherent(trackpad, v) /\ Holds(trackpad, v)
              /\ Accounted(trackpad, u, fingers) => Accounted(trackpad, v, G)
          BY <1>2, <2>1, <2>4, <4>1, <4>2, DownSecond
        <4> QED
          BY <2>4, <4>1, <4>3 DEF Owned, Indices
      <3> QED
        BY <1>9, <3>1, <3>2 DEF Indices
    <2> HIDE DEF v
    <2>6. sinceThree' \in 0 .. KeyboardTime
      BY <1>2, <1>9
    <2> QED
      BY <1>1, <1>2, <1>4, <2>2, <2>5, <2>6, Reached
  <1>10. CASE ~editing /\ n # 3 /\ i \notin Indices /\ UNCHANGED <<touch, sinceThree>>
    <2>1. Becomes(Now)
      BY <1>10 DEF Becomes, Now, touch
    <2>2. Owned(Now, fingers')
      BY <1>2, <1>4 DEF Owned
    <2>3. f \notin {0, 1} /\ \E g \in fingers : g \notin {0, 1}
      BY <1>3, <1>10 DEF Indices
    <2>4. Accounted(trackpad, Now, fingers')
      BY <1>1, <1>2, <2>3, More DEF G
    <2> QED
      BY <1>2, <1>4, <1>10, <2>1, <2>2, <2>4, Reached
  <1> QED
    BY <1>5, <1>7, <1>8, <1>9, <1>10

LEMMA NotBusy ==
    ASSUME TouchInv, ~kept, ~Busy, NEW G \in SUBSET fingers
    PROVE  Accounted(trackpad, Now, G)
  <1>1. /\ Now \in Words /\ Coherent(trackpad, Now) /\ trackpad \in BOOLEAN
        /\ Accounted(trackpad, Now, fingers)
    BY NowWord DEF TouchInv, TouchTyped
  <1>2. /\ \A b \in Now.buttons : Pending(Now, b)
        /\ ~Pending(Now, "drag") /\ ~Pending(Now, "tapDown") /\ ~Pending(Now, "longPress")
    BY DEF Busy, Now
  <1> QED
    BY <1>1, <1>2, Idle

LEMMA AfterUp ==
    ASSUME TouchInv, NEW f \in Ids, FingerUp(f)
    PROVE  TouchInv'
  <1> DEFINE G == fingers \ {f}
             i == Index(f, fingers)
             n == Cardinality(fingers)
  <1>1. /\ f \in fingers /\ fingers' = G /\ G \in SUBSET fingers
        /\ UNCHANGED <<editing, sinceThree, trackpad, allowed>>
    BY DEF FingerUp, frame
  <1>2. /\ fingers \in SUBSET Ids /\ TouchTyped /\ Now \in Words
        /\ trackpad \in BOOLEAN /\ allowed \in BOOLEAN /\ editing \in BOOLEAN /\ kept \in BOOLEAN
        /\ sinceThree \in 0 .. KeyboardTime
        /\ Owned(Now, fingers) /\ Coherent(trackpad, Now) /\ Holds(trackpad, Now)
        /\ ~kept => Accounted(trackpad, Now, fingers)
    BY NowWord DEF TouchInv, TouchTyped
  <1>3. PICK cancelled \in BOOLEAN :
            LET keyboard == n = 1 /\ ~cancelled /\ sinceThree < KeyboardTime
                handled == ~editing /\ ~keyboard /\ i \in Indices
            IN  /\ IF handled
                   THEN Becomes(Left(SetCounts(IF cancelled THEN CancelTouch(Now, i) ELSE TouchUp(Now, i), n - 1), f))
                   ELSE Becomes(Left(Now, f))
                /\ kept' = (kept \/ ((editing \/ keyboard) /\ Busy))
    BY DEF FingerUp
  <1> DEFINE keyboard == n = 1 /\ ~cancelled /\ sinceThree < KeyboardTime
             handled == ~editing /\ ~keyboard /\ i \in Indices
  <1>4. /\ i = 0 => f = 0 \/ 0 \notin fingers
        /\ f = 0 => i = 0
        /\ f = 1 => i \in {0, 1}
        /\ n - 1 \in 0 .. MaxFingers
    BY <1>1, <1>2, UpIndex
  <1>5. /\ allowed' \in BOOLEAN /\ editing' \in BOOLEAN /\ kept' \in BOOLEAN
        /\ fingers' \subseteq Ids /\ sinceThree' \in 0 .. KeyboardTime /\ UNCHANGED trackpad
        /\ ~kept' => ~kept
    BY <1>1, <1>2, <1>3 DEF Busy
  <1> HIDE DEF i, n
  <1>6. CASE handled
    <2> DEFINE a == IF cancelled THEN CancelTouch(Now, i) ELSE TouchUp(Now, i)
               u == SetCounts(a, n - 1)
               v == Left(u, f)
    <2>1. Becomes(v)
      BY <1>3, <1>6
    <2>2. /\ a \in Words /\ SameOwners(Now, a) /\ Coherent(trackpad, a)
          /\ Holds(trackpad, a) \/ Now.contexts[0].owner \in {f, No}
          /\ Accounted(trackpad, Now, fingers) => Accounted(trackpad, a, G)
      <3>1. CASE i = 0
        <4>1. (a = CancelTouch(Now, 0) \/ a = TouchUp(Now, 0)) /\ fingers # {} /\ 0 \notin G
          BY <1>1, <1>4, <3>1
        <4> HIDE DEF a
        <4>2. /\ a \in Words /\ SameOwners(Now, a) /\ Coherent(trackpad, a)
              /\ Accounted(trackpad, Now, fingers) => Accounted(trackpad, a, G)
          BY <1>1, <1>2, <4>1, LiftFirst
        <4>3. Now.contexts[0].owner \in {f, No}
          BY <1>2, <1>4, <3>1 DEF Owned, Indices
        <4> QED
          BY <4>2, <4>3
      <3>2. CASE i = 1
        <4>1. /\ a = CancelTouch(Now, 1) \/ a = TouchUp(Now, 1)
              /\ f # 0
              /\ (1 \in fingers /\ 1 \notin G) \/ \E g \in fingers : g \notin {0, 1}
          BY <1>1, <1>4, <3>2
        <4>2. 0 \in fingers => 0 \in G
          BY <4>1
        <4> HIDE DEF a, G
        <4>3. /\ a \in Words /\ SameOwners(Now, a) /\ Coherent(trackpad, a)
              /\ Holds(trackpad, Now) => Holds(trackpad, a)
              /\ Accounted(trackpad, Now, fingers) => Accounted(trackpad, a, G)
          BY <1>1, <1>2, <4>1, <4>2, LiftSecond
        <4> QED
          BY <1>2, <4>3
      <3> QED
        BY <1>6, <3>1, <3>2 DEF Indices
    <2> HIDE DEF a
    <2>3. /\ u \in Words /\ SameOwners(a, u) /\ Coherent(trackpad, u)
          /\ Holds(trackpad, a) => Holds(trackpad, u)
          /\ Accounted(trackpad, a, G) => Accounted(trackpad, u, G)
      BY <1>4, <2>2, Counts
    <2> HIDE DEF u
    <2>4. /\ Owned(u, fingers) /\ u.contexts[0].owner = Now.contexts[0].owner
      BY <1>2, <2>2, <2>3 DEF Owned, SameOwners, Indices
    <2>5. /\ v \in Words /\ Owned(v, G) /\ Coherent(trackpad, v)
          /\ Holds(trackpad, u) \/ u.contexts[0].owner \in {f, No} => Holds(trackpad, v)
          /\ Accounted(trackpad, u, G) => Accounted(trackpad, v, G)
      BY <1>2, <2>3, <2>4, LeftDoes
    <2> HIDE DEF v
    <2>6. Holds(trackpad, v) /\ (~kept' => Accounted(trackpad, v, G))
      BY <1>2, <1>5, <2>2, <2>3, <2>4, <2>5
    <2> QED
      BY <1>1, <1>2, <1>5, <2>1, <2>5, <2>6, Reached
  <1>7. CASE ~handled
    <2> DEFINE v == Left(Now, f)
    <2>1. Becomes(v)
      BY <1>3, <1>7
    <2>2. /\ v \in Words /\ Owned(v, G) /\ Coherent(trackpad, v) /\ Holds(trackpad, v)
          /\ Accounted(trackpad, Now, G) => Accounted(trackpad, v, G)
      BY <1>2, LeftDoes
    <2> HIDE DEF v
    <2>3. ASSUME ~kept' PROVE Accounted(trackpad, Now, G)
      <3>1. CASE editing \/ keyboard
        <4>1. ~Busy /\ ~kept
          BY <1>3, <2>3, <3>1 DEF Busy
        <4> QED
          BY <1>1, <4>1, NotBusy
      <3>2. CASE ~(editing \/ keyboard)
        <4>1. f \notin {0, 1}
          BY <1>4, <1>7, <3>2 DEF Indices
        <4>2. 0 \in fingers => 0 \in G
          BY <4>1
        <4> HIDE DEF G
        <4> QED
          BY <1>1, <1>2, <1>5, <2>3, <4>2, Fewer
      <3> QED
        BY <3>1, <3>2
    <2> QED
      BY <1>1, <1>2, <1>5, <2>1, <2>2, <2>3, Reached
  <1> QED
    BY <1>6, <1>7

LEMMA AfterMove ==
    ASSUME TouchInv, FingersMove
    PROVE  TouchInv'
  <1>1. /\ TouchTyped /\ Now \in Words /\ trackpad \in BOOLEAN
        /\ Owned(Now, fingers) /\ Coherent(trackpad, Now) /\ Holds(trackpad, Now)
        /\ ~kept => Accounted(trackpad, Now, fingers)
    BY NowWord DEF TouchInv, TouchTyped
  <1>2. PICK d \in [Indices -> {"near", "mid", "far"}] :
            LET w == TouchMove(Now, 0, d[0])
            IN  Becomes(IF Cardinality(fingers) > 1 THEN TouchMove(w, 1, d[1]) ELSE w)
    BY DEF FingersMove
  <1> DEFINE u == TouchMove(Now, 0, d[0])
             v == IF Cardinality(fingers) > 1 THEN TouchMove(u, 1, d[1]) ELSE u
  <1>3. fingers # {} /\ Becomes(v)
    BY <1>2 DEF FingersMove
  <1>4. /\ allowed' \in BOOLEAN /\ editing' \in BOOLEAN /\ kept' \in BOOLEAN
        /\ fingers' \subseteq Ids /\ sinceThree' \in 0 .. KeyboardTime
        /\ UNCHANGED <<trackpad, fingers, kept>>
    BY <1>1 DEF FingersMove, frame, TouchTyped
  <1>5. 0 \in Indices /\ 1 \in Indices
    BY DEF Indices
  <1>6. /\ u \in Words /\ SameOwners(Now, u)
        /\ Coherent(trackpad, u) /\ Holds(trackpad, u)
        /\ Accounted(trackpad, Now, fingers) => Accounted(trackpad, u, fingers)
    BY <1>1, <1>3, <1>5, Moves
  <1> HIDE DEF u
  <1>7. /\ v \in Words /\ SameOwners(u, v)
        /\ Coherent(trackpad, v) /\ Holds(trackpad, v)
        /\ Accounted(trackpad, u, fingers) => Accounted(trackpad, v, fingers)
    <2>1. CASE v = u
      BY <1>6, <2>1 DEF SameOwners
    <2>2. CASE v = TouchMove(u, 1, d[1])
      <3>1. fingers # {} /\ 1 \in Indices
        BY <1>3, <1>5
      <3>2. u \in Words /\ Coherent(trackpad, u) /\ trackpad \in BOOLEAN
        BY <1>1, <1>6
      <3> HIDE DEF v
      <3>3. /\ v \in Words /\ SameOwners(u, v)
            /\ Coherent(trackpad, v)
            /\ Holds(trackpad, u) => Holds(trackpad, v)
            /\ Accounted(trackpad, u, fingers) => Accounted(trackpad, v, fingers)
        BY <2>2, <3>1, <3>2, Moves
      <3> QED
        BY <1>6, <3>3
    <2> QED
      BY <2>1, <2>2
  <1> HIDE DEF v
  <1>8. Owned(v, fingers')
    BY <1>1, <1>4, <1>6, <1>7 DEF Owned, SameOwners
  <1> QED
    BY <1>1, <1>3, <1>4, <1>6, <1>7, <1>8, Reached

\* No finger owns a context when all of them are gone.
LEMMA AllLeft ==
    ASSUME NEW w \in Words, Coherent(trackpad, w), trackpad \in BOOLEAN, NEW v,
           v = [w EXCEPT !.contexts = [i \in Indices |-> [w.contexts[i] EXCEPT !.owner = No, !.early = FALSE]]]
    PROVE  /\ v \in Words /\ Owned(v, {})
           /\ Coherent(trackpad, v) /\ Holds(trackpad, v)
           /\ \A H : Accounted(trackpad, w, H) => Accounted(trackpad, v, H)
  <1> DEFINE e(i) == [w.contexts[i] EXCEPT !.owner = No, !.early = FALSE]
             c == [i \in Indices |-> e(i)]
  <1>1. \A i \in Indices : w.contexts[i] \in Contexts
    BY DEF Words
  <1>2. \A i \in Indices : e(i) \in Contexts
    BY <1>1, OwnerEdit
  <1>3. \A i \in Indices :
            /\ e(i).owner = No /\ e(i).cancelled = w.contexts[i].cancelled
            /\ e(i).drag = w.contexts[i].drag /\ e(i).tap = w.contexts[i].tap /\ e(i).long = w.contexts[i].long
            /\ e(i).most = w.contexts[i].most /\ e(i).taps = w.contexts[i].taps
    BY <1>1 DEF Contexts
  <1>4. v = [w EXCEPT !.contexts = c]
    OBVIOUS
  <1>5. c \in [Indices -> Contexts]
    BY <1>2
  <1>6. \A i \in Indices : c[i] = e(i)
    OBVIOUS
  <1> HIDE DEF c, e
  <1>7. v \in Words /\ v.contexts = c /\ v.due = w.due /\ v.buttons = w.buttons
    BY <1>4, <1>5 DEF Words
  <1>8. \A i \in Indices :
            /\ v.contexts[i].cancelled = w.contexts[i].cancelled
            /\ v.contexts[i].drag = w.contexts[i].drag /\ v.contexts[i].tap = w.contexts[i].tap
            /\ v.contexts[i].long = w.contexts[i].long
            /\ v.contexts[i].most = w.contexts[i].most /\ v.contexts[i].taps = w.contexts[i].taps
            /\ v.contexts[i].owner = No
    BY <1>3, <1>6, <1>7
  <1>9. /\ v.contexts[0].cancelled = w.contexts[0].cancelled /\ v.contexts[1].cancelled = w.contexts[1].cancelled
        /\ v.contexts[0].drag = w.contexts[0].drag /\ v.contexts[1].drag = w.contexts[1].drag
        /\ v.contexts[0].tap = w.contexts[0].tap /\ v.contexts[1].tap = w.contexts[1].tap
        /\ v.contexts[0].long = w.contexts[0].long /\ v.contexts[1].long = w.contexts[1].long
        /\ v.contexts[0].most = w.contexts[0].most /\ v.contexts[1].most = w.contexts[1].most
        /\ v.contexts[0].taps = w.contexts[0].taps /\ v.contexts[1].taps = w.contexts[1].taps
        /\ v.contexts[0].owner = No
    BY <1>8 DEF Indices
  <1>10. \A m \in {"drag", "tapDown", "longPress", "left", "right"} : Pending(v, m) <=> Pending(w, m)
    BY <1>7 DEF Pending
  <1>11. Owned(v, {}) /\ Holds(trackpad, v)
    BY <1>8, <1>9 DEF Owned, Holds, RelativeHeld, AbsoluteHeld
  <1>12. Coherent(trackpad, v)
    <2>1. RelativeLocal(w) => RelativeLocal(v)
      BY <1>7, <1>8, <1>9, <1>10 DEF RelativeLocal
    <2>2. AbsoluteLocal(w) => AbsoluteLocal(v)
      BY <1>7, <1>8, <1>9, <1>10 DEF AbsoluteLocal
    <2> QED
      BY <2>1, <2>2 DEF Coherent
  <1>13. ASSUME NEW H, Accounted(trackpad, w, H) PROVE Accounted(trackpad, v, H)
    <2>1. RelativeLeft(w, H) => RelativeLeft(v, H)
      BY <1>7, <1>9, <1>10 DEF RelativeLeft
    <2>2. RelativeTaps(w, H) => RelativeTaps(v, H)
      BY <1>9 DEF RelativeTaps
    <2>3. AbsoluteLeft(w, H) => AbsoluteLeft(v, H)
      BY <1>7, <1>9, <1>10 DEF AbsoluteLeft
    <2>4. AbsoluteOthers(w, H) => AbsoluteOthers(v, H)
      BY <1>9, <1>10 DEF AbsoluteOthers
    <2> QED
      BY <1>13, <2>1, <2>2, <2>3, <2>4 DEF Accounted
  <1> QED
    BY <1>7, <1>11, <1>12, <1>13

LEMMA AfterCancel ==
    ASSUME TouchInv, GestureCancelled
    PROVE  TouchInv'
  <1> DEFINE w == IF editing THEN Now ELSE SetCounts(CancelAll(Now), 0)
             v == [w EXCEPT !.contexts = [i \in Indices |-> [w.contexts[i] EXCEPT !.owner = No, !.early = FALSE]]]
  <1>1. /\ TouchTyped /\ Now \in Words /\ trackpad \in BOOLEAN
        /\ Owned(Now, fingers) /\ Coherent(trackpad, Now) /\ Holds(trackpad, Now)
        /\ ~kept => Accounted(trackpad, Now, fingers)
    BY NowWord DEF TouchInv, TouchTyped
  <1>2. /\ fingers # {} /\ fingers' = {} /\ kept' = (kept \/ (editing /\ Busy))
        /\ UNCHANGED <<editing, sinceThree, trackpad, allowed>>
        /\ Becomes(v)
    BY DEF GestureCancelled, frame
  <1>3. /\ allowed' \in BOOLEAN /\ editing' \in BOOLEAN /\ kept' \in BOOLEAN
        /\ fingers' \subseteq Ids /\ sinceThree' \in 0 .. KeyboardTime
        /\ UNCHANGED trackpad /\ (~kept' => ~kept)
    BY <1>1, <1>2 DEF TouchTyped, Busy
  <1>4. w \in Words /\ Coherent(trackpad, w) /\ (~kept' => Accounted(trackpad, w, {}))
    <2>1. CASE editing
      <3>1. w = Now
        BY <2>1
      <3>2. ASSUME ~kept' PROVE Accounted(trackpad, Now, {})
        <4>1. ~kept /\ ~Busy
          BY <1>2, <2>1, <3>2 DEF Busy
        <4> QED
          BY <4>1, NotBusy
      <3> QED
        BY <1>1, <3>1, <3>2
    <2>2. CASE ~editing
      <3> DEFINE a == CancelAll(Now)
      <3>1. /\ a \in Words /\ Coherent(trackpad, a)
            /\ Accounted(trackpad, Now, fingers) => Accounted(trackpad, a, {})
        BY <1>1, Cancels
      <3>2. w = SetCounts(a, 0) /\ 0 \in 0 .. MaxFingers
        BY <2>2, TouchAssumption
      <3> HIDE DEF a, w
      <3>3. /\ w \in Words /\ Coherent(trackpad, w)
            /\ Accounted(trackpad, a, {}) => Accounted(trackpad, w, {})
        BY <3>1, <3>2, Counts
      <3> QED
        BY <1>1, <1>3, <3>1, <3>3
    <2> QED
      BY <1>1, <2>1, <2>2 DEF TouchTyped
  <1> HIDE DEF w
  <1>5. /\ v \in Words /\ Owned(v, {})
        /\ Coherent(trackpad, v) /\ Holds(trackpad, v)
        /\ Accounted(trackpad, w, {}) => Accounted(trackpad, v, {})
    BY <1>1, <1>4, AllLeft
  <1> HIDE DEF v
  <1> QED
    BY <1>1, <1>2, <1>3, <1>4, <1>5, Reached

LEMMA AfterTimer ==
    ASSUME TouchInv, NEW what \in Messages, TimerFires(what)
    PROVE  TouchInv'
  <1> DEFINE a == Without(Now, what)
             v == CASE what = "drag" -> DragTimer(a)
                    [] what = "tapDown" -> TapConfirmed(a)
                    [] what = "longPress" -> LongPress(a)
                    [] OTHER -> Raised(a, what)
  <1>1. /\ TouchTyped /\ Now \in Words /\ trackpad \in BOOLEAN
        /\ Owned(Now, fingers) /\ Coherent(trackpad, Now) /\ Holds(trackpad, Now)
        /\ ~kept => Accounted(trackpad, Now, fingers)
    BY NowWord DEF TouchInv, TouchTyped
  <1>2. Now.due[what] = 0 /\ Becomes(v) /\ UNCHANGED <<fingers, editing, sinceThree, kept, trackpad, allowed>>
    BY DEF TimerFires, frame, Now
  <1>3. /\ allowed' \in BOOLEAN /\ editing' \in BOOLEAN /\ kept' \in BOOLEAN
        /\ fingers' \subseteq Ids /\ sinceThree' \in 0 .. KeyboardTime
    BY <1>1, <1>2 DEF TouchTyped
  <1>4. /\ v \in Words /\ SameOwners(Now, v)
        /\ Coherent(trackpad, v) /\ Holds(trackpad, v)
        /\ Accounted(trackpad, Now, fingers) => Accounted(trackpad, v, fingers)
    BY <1>1, <1>2, Fires
  <1> HIDE DEF v
  <1>5. Owned(v, fingers')
    BY <1>1, <1>2, <1>4 DEF Owned, SameOwners
  <1> QED
    BY <1>1, <1>2, <1>3, <1>4, <1>5, Reached

LEMMA AfterTick == TouchInv /\ Tick => TouchInv'
  <1> SUFFICES ASSUME TouchInv, Tick PROVE TouchInv'
    OBVIOUS
  <1> DEFINE v == [contexts |-> [i \in Indices |->
                                   [Now.contexts[i] EXCEPT !.age = Later(Now.contexts[i].age, TapTime + 1)]],
                   due |-> [m \in Messages |-> IF Now.due[m] = No THEN No ELSE Now.due[m] - 1],
                   buttons |-> Now.buttons]
  <1>1. /\ TouchTyped /\ Now \in Words /\ trackpad \in BOOLEAN
        /\ Owned(Now, fingers) /\ Coherent(trackpad, Now) /\ Holds(trackpad, Now)
        /\ ~kept => Accounted(trackpad, Now, fingers)
    BY NowWord DEF TouchInv, TouchTyped
  <1>2. /\ \A m \in Messages : Now.due[m] # 0
        /\ Becomes(v) /\ sinceThree' = Later(sinceThree, KeyboardTime)
        /\ UNCHANGED <<fingers, editing, kept, trackpad, allowed>>
    BY DEF Tick, frame, Now, Becomes
  <1>3. Later(sinceThree, KeyboardTime) \in 0 .. KeyboardTime
    BY <1>1, TouchAssumption DEF TouchTyped, Later
  <1>4. /\ allowed' \in BOOLEAN /\ editing' \in BOOLEAN /\ kept' \in BOOLEAN
        /\ fingers' \subseteq Ids /\ sinceThree' \in 0 .. KeyboardTime
    BY <1>1, <1>2, <1>3 DEF TouchTyped
  <1>5. /\ v \in Words /\ SameOwners(Now, v)
        /\ Coherent(trackpad, v) /\ Holds(trackpad, v)
        /\ Accounted(trackpad, Now, fingers) => Accounted(trackpad, v, fingers)
    BY <1>1, <1>2, Passes
  <1> HIDE DEF v
  <1>6. Owned(v, fingers')
    BY <1>1, <1>2, <1>5 DEF Owned, SameOwners
  <1> QED
    BY <1>1, <1>2, <1>4, <1>5, <1>6, Reached

LEMMA AfterNone ==
    ASSUME TouchInv, UNCHANGED <<trackpad, fingers, touch, sinceThree, kept>>,
           allowed' \in BOOLEAN, editing' \in BOOLEAN
    PROVE  TouchInv'
  <1>1. /\ TouchTyped /\ Now \in Words
        /\ Owned(Now, fingers) /\ Coherent(trackpad, Now) /\ Holds(trackpad, Now)
        /\ ~kept => Accounted(trackpad, Now, fingers)
        /\ Becomes(Now)
        /\ fingers' \subseteq Ids /\ sinceThree' \in 0 .. KeyboardTime /\ kept' \in BOOLEAN
        /\ UNCHANGED <<trackpad, fingers, kept>>
    BY NowWord DEF TouchInv, TouchTyped, Becomes, Now, touch
  <1> QED
    BY <1>1, Reached

LEMMA TouchStep == TouchInv /\ [TouchNext]_touchVars => TouchInv'
  <1> SUFFICES ASSUME TouchInv, [TouchNext]_touchVars PROVE TouchInv'
    OBVIOUS
  <1>1. ASSUME NEW f \in Ids, FingerDown(f) PROVE TouchInv'
    BY <1>1, AfterDown
  <1>2. ASSUME NEW f \in Ids, FingerUp(f) PROVE TouchInv'
    BY <1>2, AfterUp
  <1>3. ASSUME NEW what \in Messages, TimerFires(what) PROVE TouchInv'
    BY <1>3, AfterTimer
  <1>4. CASE Controls
    <2>1. /\ UNCHANGED <<trackpad, fingers, touch, sinceThree, kept>>
          /\ allowed' \in BOOLEAN /\ editing' \in BOOLEAN
      BY <1>4 DEF Controls, TouchInv, TouchTyped
    <2> QED
      BY <2>1, AfterNone
  <1>5. CASE UNCHANGED touchVars
    <2>1. /\ UNCHANGED <<trackpad, fingers, touch, sinceThree, kept>>
          /\ allowed' \in BOOLEAN /\ editing' \in BOOLEAN
      BY <1>5 DEF touchVars, TouchInv, TouchTyped
    <2> QED
      BY <2>1, AfterNone
  <1> QED
    BY <1>1, <1>2, <1>3, <1>4, <1>5, AfterMove, AfterCancel, AfterTick DEF TouchNext

\* The variables have their types; a button that a context presses for a
\* finger is down until that finger is lifted, whatever messages of earlier
\* gestures fire meanwhile; and a touch of the screen itself presses one button
\* at a time.  For any number of fingers and any delays in the order of the
\* code's.  (dragTimerRunnable, longPressRunnable, tapConfirmed)
THEOREM PressCorrect == TouchSpec => []PressSound
  <1>1. TouchInv => PressSound
    <2> SUFFICES ASSUME TouchInv PROVE PressSound
      OBVIOUS
    <2>1. /\ TouchTyped /\ Coherent(trackpad, Now) /\ Holds(trackpad, Now)
          /\ ~kept => Accounted(trackpad, Now, fingers)
          /\ Now.contexts = contexts /\ Now.buttons = buttons
      BY DEF TouchInv, Now
    <2>2. No \notin fingers
      BY <2>1, TouchAssumption DEF TouchTyped, Ids
    <2>3. PressHolds
      <3>1. CASE trackpad
        BY <2>1, <2>2, <3>1 DEF PressHolds, Holds, Coherent, RelativeHeld, RelativeLocal, Indices
      <3>2. CASE ~trackpad
        BY <2>1, <2>2, <3>2 DEF PressHolds, Holds, Coherent, AbsoluteHeld, AbsoluteLocal, Indices
      <3> QED
        BY <3>1, <3>2
    <2>4. OneButton
      <3> SUFFICES ASSUME ~trackpad, ~kept PROVE Cardinality(buttons) <= 1
        BY DEF OneButton
      <3>1. ~("left" \in buttons /\ "right" \in buttons)
        BY <2>1 DEF Accounted, AbsoluteLeft
      <3>2. buttons = {} \/ buttons = {"left"} \/ buttons = {"right"}
        BY <2>1, <3>1 DEF TouchTyped
      <3>3. Cardinality({}) = 0 /\ Cardinality({"left"}) = 1 /\ Cardinality({"right"}) = 1
        BY FS_EmptySet, FS_Singleton
      <3> QED
        BY <3>2, <3>3
    <2> QED
      BY <2>1, <2>3, <2>4 DEF PressSound
  <1> QED
    BY <1>1, TouchStart, TouchStep, PTL DEF TouchSpec

\* With no finger on the screen and no message under way no button is down,
\* in whatever order the fingers came, left, changed places or were cancelled,
\* unless a lift was kept from the context that had to handle it.
\* (touchUpEvent, cancelTouch, setPointerCount, handleMotionEvent)
THEOREM ReleaseCorrect == TouchSpec => []NoButtonLeft
  <1>1. TouchInv => NoButtonLeft
    <2> SUFFICES ASSUME TouchInv, fingers = {}, \A m \in Messages : due[m] = No, ~kept PROVE buttons = {}
      BY DEF NoButtonLeft
    <2>1. /\ buttons \subseteq {"left", "right"} /\ Coherent(trackpad, Now) /\ Accounted(trackpad, Now, {})
          /\ Now.buttons = buttons
          /\ ~Pending(Now, "left") /\ ~Pending(Now, "right")
      BY DEF TouchInv, TouchTyped, Now, Pending, Messages
    <2>2. CASE trackpad
      BY <2>1, <2>2 DEF Coherent, RelativeLocal, Accounted, RelativeLeft
    <2>3. CASE ~trackpad
      BY <2>1, <2>3 DEF Accounted, AbsoluteLeft
    <2> QED
      BY <2>2, <2>3
  <1> QED
    BY <1>1, TouchStart, TouchStep, PTL DEF TouchSpec

\* Of the fingers that are down together one taps, and it taps once.
\* (isTap, setPointerCount)
THEOREM TapCorrect == TouchSpec => []TapOnce
  <1>1. TouchInv => TapOnce
    <2> SUFFICES ASSUME TouchInv, ~kept PROVE \A i \in Indices : contexts[i].taps <= 1
      BY DEF TapOnce
    <2>1. Coherent(trackpad, Now) /\ Accounted(trackpad, Now, fingers) /\ Now.contexts = contexts
      BY DEF TouchInv, Now
    <2>2. CASE trackpad
      BY <2>1, <2>2 DEF Accounted, RelativeTaps, Indices
    <2>3. CASE ~trackpad
      BY <2>1, <2>3 DEF Coherent, AbsoluteLocal, Indices
    <2> QED
      BY <2>2, <2>3
  <1> QED
    BY <1>1, TouchStart, TouchStep, PTL DEF TouchSpec
=============================================================================
