------------------------------ MODULE InputGrab ------------------------------
(***************************************************************************)
(* The keyboard, the grab and the pointer of a stream: handleKeyDown,      *)
(* handleKeyUp, handleSpecialKeys and setInputGrabState of Game.java, and  *)
(* binding/input/capture/AndroidNativePointerCaptureProvider.java.         *)
(*                                                                         *)
(* Everything runs on the main thread, but in pieces: a shortcut acts when *)
(* its last modifier is lifted, and the toggle of the grab (250 ms), the   *)
(* grab of a stream that started (500 ms) and the new request of the       *)
(* pointer after focus came back (500 ms) are Runnables that run between   *)
(* any two events, whatever happened since they were posted.               *)
(*                                                                         *)
(* External: Android gives the pointer only to a window with focus, takes  *)
(* it with the focus, repeats the key pressed last until one is lifted,    *)
(* and reports every key that is down as lifted before a window loses its  *)
(* focus.  A history in which a key was left down on the host is followed  *)
(* until the next key is pressed.                                          *)
(* Left out: Alt-Gr and Meta, text that has no key code, keys of game      *)
(* controllers, the pointer's own events.                                  *)
(***************************************************************************)
EXTENDS Naturals, FiniteSets

CONSTANTS
    Plain,        \* keys that are neither a modifier nor part of a shortcut
    Shortcuts,    \* the keys of the shortcuts in use, of "Z", "Q" and "C"
    None,         \* KEYCODE_UNKNOWN
    MaxHeld,      \* keys down at a time, besides the modifiers
    MaxPosted     \* Runnables of a kind waiting at a time

ASSUME GrabAssumption ==
    /\ Shortcuts \subseteq {"Z", "Q", "C"}
    /\ None \notin Plain \cup Shortcuts \cup {"CTRL_LEFT", "CTRL_RIGHT", "ALT_LEFT", "SHIFT_LEFT"}
    /\ Plain \cap Shortcuts = {}
    /\ MaxHeld \in Nat /\ MaxPosted \in Nat \ {0}

VARIABLES
    held,             \* the keys the window was told are down
    last,             \* the key Android repeats, or None
    modifierFlags,    \* modifierFlags
    specialKeyCode,   \* specialKeyCode; waitingForAllModifiersUp is set and reset with it
    host,             \* the keys the host has down
    left,             \* history: keys the host had down when the input was ungrabbed
    grabbedInput,     \* grabbedInput
    cursorVisible,    \* Game.cursorVisible
    meta,             \* the state given to setMetaKeyCaptureState
    isCapturing,      \* InputCaptureProvider.isCapturing
    isCursorVisible,  \* InputCaptureProvider.isCursorVisible
    listening,        \* registered with the InputManager
    captured,         \* hasPointerCapture
    late,             \* history: captured by a Runnable that should not have been carried out
    device,           \* whether a device that can be captured is connected
    focus,            \* whether the window has the focus
    posted,           \* the delayed Runnables: how many toggles, grabs and requests
    conn,             \* "starting", "connected" or "terminated"
    activity          \* "open", "finishing", or "gone" from its last onPause or onStop on

keyVars   == <<held, last, modifierFlags, specialKeyCode>>
hostVars  == <<host, left>>
grabVars  == <<grabbedInput, meta>>
viewVars  == <<isCapturing, isCursorVisible, listening, captured, late>>
lifeVars  == <<conn, activity>>
vars == <<keyVars, hostVars, grabVars, cursorVisible, viewVars, device, focus, posted, lifeVars>>

ModifierKeys == {"CTRL_LEFT", "CTRL_RIGHT", "ALT_LEFT", "SHIFT_LEFT"}
Keys == ModifierKeys \cup Plain \cup Shortcuts
Combo == {"CTRL", "ALT", "SHIFT"}

(* modifierMask of a key. *)
Mask(k) == CASE k \in {"CTRL_LEFT", "CTRL_RIGHT"} -> {"CTRL"}
             [] k = "ALT_LEFT"   -> {"ALT"}
             [] k = "SHIFT_LEFT" -> {"SHIFT"}
             [] OTHER            -> {}

Init ==
    /\ held = {} /\ last = None /\ modifierFlags = {} /\ specialKeyCode = None
    /\ host = {} /\ left = {}
    /\ grabbedInput = TRUE /\ cursorVisible = FALSE /\ meta = FALSE
    /\ isCapturing = FALSE /\ isCursorVisible = FALSE /\ listening = FALSE
    /\ captured = FALSE /\ late = FALSE
    /\ device \in BOOLEAN /\ focus = TRUE
    /\ posted = [toggle |-> 0, grab |-> 0, recapture |-> 0]
    /\ conn = "starting" /\ activity = "open"

-----------------------------------------------------------------------------
(* The provider *)

(* requestPointerCapture: refused to a window without focus. *)
Request == captured' = (captured \/ focus)

(* The listener goes first: releasing the pointer may call it. *)
ShowCursorListening ==
    /\ isCursorVisible' = TRUE
    /\ listening' = listening
    /\ captured' = FALSE /\ late' = FALSE

ShowCursor ==
    /\ isCursorVisible' = TRUE
    /\ listening' = FALSE
    /\ captured' = FALSE /\ late' = FALSE

HideCursor ==
    /\ isCursorVisible' = FALSE
    /\ listening' = TRUE
    /\ IF device THEN Request ELSE UNCHANGED captured
    /\ UNCHANGED late

(* enableCapture hides the cursor, which is shown again when it is visible. *)
SetInputGrabState(grab) ==
    /\ isCapturing' = grab
    /\ IF grab /\ ~cursorVisible THEN HideCursor ELSE ShowCursor
    /\ meta' = grab
    /\ grabbedInput' = grab

(* Keys the host has down when their releases stop being sent. *)
Leave(grab) == left' = IF grab THEN left ELSE left \cup host

(* A device that comes or goes, or changes its sources. *)
DeviceAdded ==
    /\ ~device
    /\ device' = TRUE
    /\ IF listening /\ ~captured THEN Request ELSE UNCHANGED captured
    /\ UNCHANGED <<keyVars, hostVars, grabVars, cursorVisible, isCapturing, isCursorVisible,
                   listening, late, focus, posted, lifeVars>>

DeviceRemoved ==
    /\ device
    /\ device' = FALSE
    /\ IF listening /\ captured
          THEN captured' = FALSE /\ late' = FALSE
          ELSE UNCHANGED <<captured, late>>
    /\ UNCHANGED <<keyVars, hostVars, grabVars, cursorVisible, isCapturing, isCursorVisible,
                   listening, focus, posted, lifeVars>>

DeviceChanged ==
    /\ device /\ listening /\ ~captured
    /\ Request
    /\ UNCHANGED <<keyVars, hostVars, grabVars, cursorVisible, isCapturing, isCursorVisible,
                   listening, late, device, focus, posted, lifeVars>>

-----------------------------------------------------------------------------
(* Shortcuts *)

Flags(k, down) == IF down THEN modifierFlags \cup Mask(k) ELSE modifierFlags \ Mask(k)

Waiting == specialKeyCode # None

(* While a shortcut waits for its modifiers, its own key and every other key *)
(* that goes down is kept from the host; lifts are passed on.                *)
EatenWhileWaitingBoth(k, down) ==
    Waiting /\ (k = specialKeyCode \/ Flags(k, down) # {})

EatenWhileWaiting(k, down) ==
    Waiting /\ (k = specialKeyCode \/ (down /\ Flags(k, down) # {}))

Completes(k, down) == Waiting /\ k # specialKeyCode /\ Flags(k, down) = {}

Begins(k, down) ==
    /\ ~Waiting /\ down
    /\ k \in Shortcuts
    /\ Combo \subseteq Flags(k, down)

(* The action of a shortcut: toggle the grab, quit, or toggle the cursor, which *)
(* grabs the input again when it was released.                                  *)
Perform(shortcut) ==
    \/ /\ shortcut = "Z"
       /\ posted.toggle < MaxPosted
       /\ posted' = [posted EXCEPT !.toggle = @ + 1]
       /\ UNCHANGED <<activity, grabbedInput, cursorVisible, viewVars>>
    \/ /\ shortcut = "Q"
       /\ activity' = IF activity = "open" THEN "finishing" ELSE activity
       /\ UNCHANGED <<posted, grabbedInput, cursorVisible, viewVars>>
    \/ /\ shortcut = "C"
       /\ grabbedInput' = TRUE
       /\ isCapturing' = (isCapturing \/ ~grabbedInput)
       /\ cursorVisible' = ~cursorVisible
       /\ IF cursorVisible' THEN ShowCursor ELSE HideCursor
       /\ UNCHANGED <<posted, activity>>

HandleSpecialKeys(k, down) ==
    /\ modifierFlags' = Flags(k, down)
    /\ specialKeyCode' = CASE Begins(k, down)    -> k
                           [] Completes(k, down) -> None
                           [] OTHER              -> specialKeyCode
    /\ IF Completes(k, down)
          THEN Perform(specialKeyCode)
          ELSE UNCHANGED <<posted, activity, grabbedInput, cursorVisible, viewVars>>
    /\ UNCHANGED <<meta, device, focus, conn>>

(* What is not consumed by a shortcut is sent while the input is grabbed. *)
Sent(k, down) ==
    /\ ~EatenWhileWaiting(k, down) /\ ~Begins(k, down)
    /\ grabbedInput'
    /\ conn = "connected"

-----------------------------------------------------------------------------
(* Keys *)

HandleKeyDown(k) ==
    /\ focus /\ activity # "gone"
    /\ k \notin held
    /\ k \in ModifierKeys \/ Cardinality(held \ ModifierKeys) < MaxHeld
    /\ left = {}
    /\ held' = held \cup {k}
    /\ last' = k
    /\ HandleSpecialKeys(k, TRUE)
    /\ host' = IF Sent(k, TRUE) THEN host \cup {k} ELSE host
    /\ UNCHANGED left

(* Repeats go through the shortcuts and are not sent. *)
HandleKeyRepeat ==
    /\ focus
    /\ last # None
    /\ HandleSpecialKeys(last, TRUE)
    /\ UNCHANGED <<held, last, hostVars>>

HandleKeyUp(k) ==
    /\ focus
    /\ k \in held
    /\ held' = held \ {k}
    /\ last' = None
    /\ HandleSpecialKeys(k, FALSE)
    /\ IF Sent(k, FALSE)
          THEN host' = host \ {k} /\ left' = left \ {k}
          ELSE UNCHANGED hostVars

-----------------------------------------------------------------------------
(* Focus, and the Runnables *)

FocusLost ==
    /\ focus /\ held = {}
    /\ focus' = FALSE
    /\ modifierFlags' = {}
    /\ captured' = FALSE /\ late' = FALSE
    /\ UNCHANGED <<held, last, specialKeyCode, hostVars, grabVars, cursorVisible, isCapturing,
                   isCursorVisible, listening, device, posted, lifeVars>>

FocusGained ==
    /\ ~focus /\ activity # "gone"
    /\ focus' = TRUE
    /\ modifierFlags' = {}
    /\ IF isCapturing /\ ~isCursorVisible
          THEN posted.recapture < MaxPosted /\ posted' = [posted EXCEPT !.recapture = @ + 1]
          ELSE UNCHANGED posted
    /\ UNCHANGED <<held, last, specialKeyCode, hostVars, grabVars, cursorVisible, viewVars,
                   device, lifeVars>>

(* The Runnable of onWindowFocusChanged looks at the devices only. *)
Recapture ==
    /\ posted.recapture > 0
    /\ posted' = [posted EXCEPT !.recapture = @ - 1]
    /\ IF device
          THEN /\ Request
               /\ late' = (captured' /\ (late \/ ~isCapturing \/ isCursorVisible))
          ELSE UNCHANGED <<captured, late>>
    /\ UNCHANGED <<keyVars, hostVars, grabVars, cursorVisible, isCapturing, isCursorVisible,
                   listening, device, focus, lifeVars>>

ToggleGrab ==
    /\ posted.toggle > 0
    /\ posted' = [posted EXCEPT !.toggle = @ - 1]
    /\ SetInputGrabState(~grabbedInput)
    /\ Leave(~grabbedInput)
    /\ UNCHANGED <<keyVars, host, cursorVisible, device, focus, lifeVars>>

(* The Runnable of connectionStarted. *)
GrabStarted ==
    /\ posted.grab > 0
    /\ posted' = [posted EXCEPT !.grab = @ - 1]
    /\ SetInputGrabState(TRUE)
    /\ UNCHANGED <<keyVars, hostVars, cursorVisible, device, focus, lifeVars>>

-----------------------------------------------------------------------------
(* The life of the stream *)

ConnectionStarted ==
    /\ conn = "starting"
    /\ conn' = "connected"
    /\ posted' = [posted EXCEPT !.grab = @ + 1]
    /\ UNCHANGED <<keyVars, hostVars, grabVars, cursorVisible, viewVars, device, focus, activity>>

(* The host that is gone has no key down; a graceful end finishes the activity. *)
ConnectionTerminated ==
    /\ conn = "connected"
    /\ conn' = "terminated"
    /\ SetInputGrabState(FALSE)
    /\ host' = {} /\ left' = {}
    /\ activity' \in {activity, IF activity = "open" THEN "finishing" ELSE activity}
    /\ UNCHANGED <<keyVars, cursorVisible, device, focus, posted>>

OnPause ==
    /\ activity = "finishing"
    /\ activity' = "gone"
    /\ SetInputGrabState(FALSE)
    /\ Leave(FALSE)
    /\ UNCHANGED <<keyVars, host, cursorVisible, device, focus, posted, conn>>

(* An activity that is left without finish() is finished by onStop, which does *)
(* not ungrab the input.                                                       *)
OnStop ==
    /\ activity = "open" /\ ~focus
    /\ activity' = "gone"
    /\ UNCHANGED <<keyVars, hostVars, grabVars, cursorVisible, viewVars, device, focus, posted, conn>>

Next ==
    \/ \E k \in Keys : HandleKeyDown(k) \/ HandleKeyUp(k)
    \/ HandleKeyRepeat
    \/ FocusLost \/ FocusGained
    \/ Recapture \/ ToggleGrab \/ GrabStarted
    \/ DeviceAdded \/ DeviceRemoved \/ DeviceChanged
    \/ ConnectionStarted \/ ConnectionTerminated \/ OnPause \/ OnStop

Spec == Init /\ [][Next]_vars

-----------------------------------------------------------------------------
(* Properties *)

TypeOK ==
    /\ held \subseteq Keys /\ last \in held \cup {None}
    /\ modifierFlags \subseteq Combo
    /\ specialKeyCode \in Shortcuts \cup {None}
    /\ host \subseteq Keys /\ left \subseteq host
    /\ grabbedInput \in BOOLEAN /\ cursorVisible \in BOOLEAN /\ meta \in BOOLEAN
    /\ isCapturing \in BOOLEAN /\ isCursorVisible \in BOOLEAN /\ listening \in BOOLEAN
    /\ captured \in BOOLEAN /\ late \in BOOLEAN
    /\ device \in BOOLEAN /\ focus \in BOOLEAN
    /\ posted \in [{"toggle", "grab", "recapture"} -> 0 .. MaxPosted]
    /\ conn \in {"starting", "connected", "terminated"}
    /\ activity \in {"open", "finishing", "gone"}

(* The pointer is taken only while the input is grabbed and the cursor is hidden, *)
(* unless the delayed request after a change of focus took it.                    *)
CapturedOnPurpose == captured => late \/ (grabbedInput /\ ~isCursorVisible)

(* A window with focus whose provider wants the pointer has it, as soon as no  *)
(* request is under way: whatever order focus, devices and shortcuts came in.  *)
CaptureHeld ==
    focus /\ isCapturing /\ ~isCursorVisible /\ device /\ posted.recapture = 0 => captured

(* Input that is not grabbed leaves the system's Meta key and the pointer alone. *)
ReleasedWhole == ~grabbedInput => ~meta /\ ~isCapturing /\ ~listening

(* The state of the capture agrees over Game, the provider and Android through   *)
(* every order of grabs, focus changes and devices (setInputGrabState,           *)
(* handleSpecialKeys, onWindowFocusChanged and the device listener).             *)
CaptureSound == TypeOK /\ CapturedOnPurpose /\ CaptureHeld /\ ReleasedWhole

(* A key is down on the host only while it is down here, or was when the input was *)
(* ungrabbed, and the key of a shortcut never goes down there; a shortcut waits    *)
(* only while a modifier that is really down keeps it (handleSpecialKeys).         *)
KeyboardSound ==
    /\ host \subseteq held \cup left
    /\ specialKeyCode \notin host \ left
    /\ modifierFlags \subseteq UNION {Mask(k) : k \in held}
    /\ Waiting => modifierFlags # {}
=============================================================================
