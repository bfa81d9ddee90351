---------------------------- MODULE EvdevCapture ----------------------------
(***************************************************************************)
(* Mouse and keyboard capture with root.                                   *)
(*   app/src/root/java/com.limelight/binding/input/evdev/                  *)
(*     EvdevCaptureProvider.java                                           *)
(*   app/src/main/java/com/limelight/Game.java (input grab)                *)
(*                                                                         *)
(* The provider's thread binds a socket, starts the reader through su,     *)
(* accepts its connection and reads events until the connection breaks.    *)
(* The main thread writes the requests and destroys the provider: it       *)
(* closes what it finds and joins the thread.  Nothing is locked between   *)
(* the two.  Game grabs the input half a second after the connection has   *)
(* started and when the user asks for it.                                  *)
(*                                                                         *)
(* Left out: what the events say and where they go.                        *)
(***************************************************************************)
EXTENDS EvdevReader

VARIABLES
    activity,       \* Game: "running", "paused" to finish, "destroyed"
    posted,         \* connectionStarted has posted the Runnable that grabs the input
    connected,      \* Game.connected
    grabbedInput,   \* Game.grabbedInput
    cursorVisible,  \* Game.cursorVisible
    started,        \* EvdevCaptureProvider.started
    shutdown,       \* EvdevCaptureProvider.shutdown
    servSock,       \* "null", "bound", "closed"
    evdevSock,      \* "null", "open", "closed"
    evdevOut,       \* the streams have been assigned
    su,             \* "null", "up", "destroyed"
    handler,        \* where handlerThread is
    destroying      \* where the main thread is in destroy()

gameVars == <<activity, posted, connected, grabbedInput, cursorVisible>>
sockVars == <<servSock, evdevSock, evdevOut, su>>
captureVars == <<gameVars, started, shutdown, sockVars, handler, destroying>>
vars == <<readerVars, captureVars>>

Init ==
    /\ ReaderInit
    /\ activity = "running" /\ posted = FALSE /\ connected = FALSE
    /\ grabbedInput = FALSE /\ cursorVisible = FALSE
    /\ started = FALSE /\ shutdown = FALSE
    /\ servSock = "null" /\ evdevSock = "null" /\ evdevOut = FALSE /\ su = "null"
    /\ handler = "new" /\ destroying = "no"

-----------------------------------------------------------------------------
(* handlerThread *)

\* Everything the handler does leaves the game alone
HandlerFrame == UNCHANGED <<gameVars, started, shutdown, destroying>>

Bind ==
    /\ handler = "bind"
    /\ servSock' = "bound" /\ handler' = "su"
    /\ UNCHANGED <<readerVars, evdevSock, evdevOut, su>> /\ HandlerFrame

\* The device has no su: reportDeviceNotRooted
NotRooted ==
    /\ handler = "su"
    /\ handler' = "done"
    /\ UNCHANGED <<readerVars, sockVars>> /\ HandlerFrame

StartSu ==
    /\ handler = "su"
    /\ Launch
    /\ su' = "up" /\ handler' = "accept"
    /\ UNCHANGED <<servSock, evdevSock, evdevOut>> /\ HandlerFrame

Accept ==
    /\ handler = "accept" /\ servSock = "bound" /\ link = "open"
    /\ handler' = "sock"
    /\ UNCHANGED <<readerVars, sockVars>> /\ HandlerFrame

AcceptFails ==
    /\ handler = "accept" /\ servSock = "closed"
    /\ handler' = "done"
    /\ UNCHANGED <<readerVars, sockVars>> /\ HandlerFrame

AssignSocket ==
    /\ handler = "sock"
    /\ evdevSock' = "open" /\ handler' = "streams"
    /\ UNCHANGED <<readerVars, servSock, evdevOut, su>> /\ HandlerFrame

\* getInputStream and getOutputStream throw when the socket was closed meanwhile
AssignStreams ==
    /\ handler = "streams"
    /\ IF evdevSock = "open" THEN evdevOut' = TRUE /\ handler' = "loop"
       ELSE evdevOut' = evdevOut /\ handler' = "done"
    /\ UNCHANGED <<readerVars, servSock, evdevSock, su>> /\ HandlerFrame

\* while (!isInterrupted() && !shutdown): destroy() sets both
LoopTest ==
    /\ handler = "loop"
    /\ handler' = IF shutdown THEN "done" ELSE "read"
    /\ UNCHANGED <<readerVars, sockVars>> /\ HandlerFrame

\* An event is handled, and the loop tests its condition again
ReadEvent ==
    /\ handler = "read" /\ evdevSock = "open"
    /\ \E e \in Entries : thread[e] = "poll" /\ entry[e].live /\ grabbing
    /\ handler' = IF shutdown THEN "done" ELSE "read"
    /\ UNCHANGED <<readerVars, sockVars>> /\ HandlerFrame

\* The socket was closed, or the reader is gone
ReadFails ==
    /\ handler = "read" /\ (evdevSock = "closed" \/ mainPc = "gone")
    /\ handler' = "done"
    /\ UNCHANGED <<readerVars, sockVars>> /\ HandlerFrame

HandlerStep ==
    \/ Bind \/ NotRooted \/ StartSu \/ Accept \/ AcceptFails \/ AssignSocket
    \/ AssignStreams \/ LoopTest \/ ReadEvent \/ ReadFails

-----------------------------------------------------------------------------
(* The process that su starts *)

\* The user allows it and connect() finds the socket
SuGranted ==
    /\ servSock = "bound"
    /\ Connect
    /\ UNCHANGED captureVars

\* The user denies it, or connect() finds no socket
SuDenied ==
    /\ mainPc = "launch"
    /\ Quit
    /\ UNCHANGED captureVars

-----------------------------------------------------------------------------
(* The provider on the main thread *)

\* What showCursor and hideCursor write, if they write
Send(reqs) ==
    /\ requests' = IF started' /\ ~shutdown /\ evdevOut THEN requests \o reqs ELSE requests
    /\ UNCHANGED <<world, plugged, listVars, grabbing, mainVars, link>>

EnableCapture ==
    /\ started' = TRUE
    /\ handler' = IF started THEN handler ELSE "bind"

\* Game.setInputGrabState
SetInputGrabState(grab) ==
    /\ grabbedInput' = grab
    /\ IF grab
       THEN /\ EnableCapture
            /\ Send(<<"regrab">> \o (IF cursorVisible THEN <<"ungrab">> ELSE <<>>))
       ELSE /\ UNCHANGED <<started, handler>>
            /\ Send(<<"ungrab">>)
    /\ UNCHANGED <<cursorVisible, shutdown, sockVars, destroying>>

Idle == destroying \in {"no", "returned"}

ConnectionStarted ==
    /\ activity = "running" /\ ~connected
    /\ connected' = TRUE /\ posted' = TRUE
    /\ UNCHANGED <<readerVars, activity, grabbedInput, cursorVisible,
                   started, shutdown, sockVars, handler, destroying>>

\* The Runnable that connectionStarted delays by half a second
PostedGrab ==
    /\ Idle /\ posted
    /\ posted' = FALSE
    /\ SetInputGrabState(TRUE)
    /\ UNCHANGED <<events, activity, connected>>

\* Ctrl+Alt+Shift+Z
ToggleGrab ==
    /\ Idle /\ activity = "running" /\ connected
    /\ Event
    /\ SetInputGrabState(~grabbedInput)
    /\ UNCHANGED <<activity, posted, connected>>

\* Ctrl+Alt+Shift+C
ToggleCursor ==
    /\ Idle /\ activity = "running" /\ connected
    /\ Event
    /\ cursorVisible' = ~cursorVisible
    /\ grabbedInput' = TRUE
    /\ IF grabbedInput THEN UNCHANGED <<started, handler>> ELSE EnableCapture
    /\ Send((IF grabbedInput THEN <<>> ELSE <<"regrab">>)
              \o (IF cursorVisible THEN <<"regrab">> ELSE <<"ungrab">>))
    /\ UNCHANGED <<activity, posted, connected, shutdown, sockVars, destroying>>

\* onPause of an activity that finishes
Pause ==
    /\ Idle /\ activity = "running"
    /\ activity' = "paused"
    /\ SetInputGrabState(FALSE)
    /\ UNCHANGED <<events, posted, connected>>

\* onDestroy calls destroy(), which returns at once when nothing was started
Destroy ==
    /\ Idle /\ activity \in {"running", "paused"}
    /\ activity' = "destroyed"
    /\ shutdown' = started
    /\ destroying' = IF started THEN "servSock" ELSE "returned"
    /\ UNCHANGED <<readerVars, posted, connected, grabbedInput, cursorVisible,
                   started, sockVars, handler>>

DestroyFrame == UNCHANGED <<gameVars, started, shutdown, handler>>

\* Mutant: the listening socket is left open
SkipServSock ==
    /\ destroying = "servSock"
    /\ destroying' = "sock"
    /\ UNCHANGED <<readerVars, sockVars>> /\ DestroyFrame
\* A connection that was not accepted yet is reset with its listening socket
CloseServSock ==
    /\ destroying = "servSock"
    /\ destroying' = "sock"
    /\ servSock' = IF servSock = "bound" THEN "closed" ELSE servSock
    /\ link' = IF servSock = "bound" /\ handler = "accept" /\ link = "open" THEN "closed" ELSE link
    /\ UNCHANGED <<kernelVars, listVars, grabbing, mainVars, requests, evdevSock, evdevOut, su>>
    /\ DestroyFrame

\* evdevSock, evdevIn and evdevOut: to close one closes the socket
CloseSocket ==
    /\ destroying = "sock"
    /\ destroying' = "su"
    /\ evdevSock' = IF evdevSock = "open" THEN "closed" ELSE evdevSock
    /\ link' = IF evdevSock = "open" THEN "closed" ELSE link
    /\ UNCHANGED <<kernelVars, listVars, grabbing, mainVars, requests, servSock, evdevOut, su>>
    /\ DestroyFrame

\* su.destroy(): it ends su, and the reader as long as su has not started it
DestroySu ==
    /\ destroying = "su"
    /\ destroying' = "join"
    /\ IF su = "up"
       THEN /\ su' = "destroyed"
            /\ IF mainPc = "launch" THEN Quit ELSE UNCHANGED readerVars
       ELSE UNCHANGED <<su, readerVars>>
    /\ UNCHANGED <<servSock, evdevSock, evdevOut>> /\ DestroyFrame

JoinReturns ==
    /\ destroying = "join" /\ handler = "done"
    /\ destroying' = "returned"
    /\ UNCHANGED <<readerVars, sockVars>> /\ DestroyFrame

DestroyStep == CloseServSock \/ CloseSocket \/ DestroySu \/ JoinReturns

GameStep ==
    \/ ConnectionStarted \/ PostedGrab \/ ToggleGrab \/ ToggleCursor \/ Pause \/ Destroy

Next ==
    \/ GameStep \/ DestroyStep \/ HandlerStep \/ SuGranted \/ SuDenied
    \/ (ReaderStep \/ KernelStep) /\ UNCHANGED captureVars

Spec == Init /\ [][Next]_vars

\* The threads run; the user answers the prompt of su; what was posted is run
Fairness ==
    /\ ReaderFairness
    /\ WF_vars(HandlerStep) /\ WF_vars(DestroyStep) /\ WF_vars(PostedGrab)
    /\ WF_vars(SuGranted \/ SuDenied)
FairSpec == Spec /\ Fairness

-----------------------------------------------------------------------------
(* Properties *)

TypeOK ==
    /\ world \in Worlds /\ plugged \subseteq world.names /\ events \in 0 .. world.events
    /\ entry \in [Entries -> [name : Names \cup {None}, open : BOOLEAN,
                              live : BOOLEAN, grabbed : BOOLEAN]]
    /\ thread \in [Entries -> {"none", "start", "grab", "poll", "cleanup", "unlinked"}]
    /\ list \in Seq(Entries) /\ locked \in BOOLEAN /\ grabbing \in BOOLEAN
    /\ mainPc \in {"none", "launch", "scan", "check", "insert", "poll", "apply", "gone"}
    /\ todo \subseteq Names /\ cur \in Entries \cup {None} /\ applied \subseteq Entries
    /\ cur # None <=> mainPc \in {"check", "insert"}
    /\ locked <=> mainPc \in {"check", "insert", "apply"}
    /\ link \in {"none", "open", "closed"} /\ requests \in Seq({"ungrab", "regrab"})
    /\ activity \in {"running", "paused", "destroyed"}
    /\ {posted, connected, grabbedInput, cursorVisible, started, shutdown, evdevOut} \subseteq BOOLEAN
    /\ servSock \in {"null", "bound", "closed"} /\ evdevSock \in {"null", "open", "closed"}
    /\ su \in {"null", "up", "destroyed"}
    /\ handler \in {"new", "bind", "su", "accept", "sock", "streams", "loop", "read", "done"}
    /\ destroying \in {"no", "servSock", "sock", "su", "join", "returned"}

\* The list is what the main thread walks and hands to ioctl and strcmp: its
\* entries have not been freed and their files are open, no name is in it twice,
\* and a thread that takes the lock to remove its entry finds it there.
ListSound ==
    /\ \A e \in Listed : Allocated(e) /\ entry[e].open /\ thread[e] \notin {"none", "unlinked"}
    /\ \A e, f \in Listed : entry[e].name = entry[f].name => e = f
    /\ IsInjective(list)
    /\ \A e \in Entries : thread[e] = "cleanup" /\ ~locked => e \in Listed

\* The list, with the types.
DevicesSound == TypeOK /\ ListSound

\* A mouse that stays plugged in gets a thread that reads it, whatever name it
\* has and whatever the thread that read the device of that name before is doing
PollProceeds ==
    \A n \in Mice :
       <>[](n \in plugged /\ Running /\ link = "open") =>
       <>[](\E e \in Listed : entry[e].name = n /\ entry[e].live /\ thread[e] = "poll")

\* When the application has closed the connection, Android gets every device back
HangUpReleases == link = "closed" ~> \A n \in Names : ~Grabbed(n)

\* destroy() returns, when the handler had bound its socket before: whatever the
\* handler waits for and whether su was allowed, denied or not answered yet.
DestroyReturns == destroying = "servSock" /\ servSock = "bound" ~> destroying = "returned"

=============================================================================
