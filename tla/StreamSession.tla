---------------------------- MODULE StreamSession ----------------------------
(***************************************************************************)
(* The life of a stream: Game (the activity), NvConnection, MoonBridge and *)
(* the native callbacks, in app/src/main/java/com/limelight/Game.java,     *)
(* nvstream/NvConnection.java, nvstream/jni/MoonBridge.java and            *)
(* jni/moonlight-core/callbacks.c.                                         *)
(*                                                                         *)
(* A session is one Game with its NvConnection and its decoder.  Several   *)
(* can exist at once: the activity that was left is stopped after the next *)
(* one is created, and its threads outlive it.  They share the permit of   *)
(* connectionAllowed, the monitor of MoonBridge.class, the static fields   *)
(* of MoonBridge that route the native callbacks, and the native library,  *)
(* which serves one connection at a time.                                  *)
(*                                                                         *)
(* Threads: the UI thread runs the activity's callbacks and, in order, the *)
(* Runnables posted to it; every session has a start thread and a stop     *)
(* thread; the library calls connectionTerminated on a thread of its own.  *)
(*                                                                         *)
(* moonlight-common-c is external: LiStartConnection runs its stages on    *)
(* the caller's thread, one of which sets the decoder up and starts it,    *)
(* and undoes them when one fails; LiStopConnection undoes all of them.    *)
(* Left out: overlays, picture in picture, input capture, audio, the       *)
(* negotiation inside startApp.                                            *)
(***************************************************************************)
EXTENDS Naturals, Sequences

CONSTANTS
    Sessions,      \* the Game activities that are ever created
    NoSession      \* null

ASSUME SessionAssumption == NoSession \notin Sessions

VARIABLES
    activity,      \* where the Game activity is: "none", "open" or "stopped"
    finishing,     \* finish() was called
    surface,       \* whether the surface of streamView is there
    attempted,     \* attemptedConnection
    connecting,    \* connecting
    connected,     \* connected
    displayed,     \* displayedFailureDialog
    dialog,        \* whether a failure dialog is on the screen
    ui,            \* the Runnables posted to the UI thread
    starter,       \* where the thread of NvConnection.start is
    stopper,       \* where the thread of stopConnection is
    stops,         \* how many such threads were started
    reporter,      \* where the thread of connectionTerminated is
    prepared,      \* prepareForStop was called on the decoder
    decoder,       \* the decoder's state: "none", "setup", "started" or "cleaned"
    permits,       \* connectionAllowed
    monitor,       \* the thread in the monitor of MoonBridge.class, or <<>>
    bridge,        \* MoonBridge.videoRenderer, audioRenderer, connectionListener
    native         \* the session whose connection the library has

activityVars == <<activity, finishing, surface, attempted>>
flagVars     == <<connecting, connected, displayed, dialog>>
stopVars     == <<stopper, stops>>
decoderVars  == <<prepared, decoder>>
sharedVars   == <<permits, monitor, bridge, native>>
vars == <<activityVars, flagVars, ui, starter, stopVars, reporter, decoderVars, sharedVars>>

Messages == {"started", "failed", "terminated"}
\* In LiStartConnection, under the monitor
Stages == {"stages", "setup", "video"}
Starters == {"none", "app", "acquire", "lock", "up", "failed", "done"} \cup Stages
Stoppers == {"none", "interrupt", "lock", "native", "bridge", "release", "done"}

Free == <<>>
MonitorFor(s, role) == monitor \in {Free, <<s, role>>}

Set(f, s, value) == [f EXCEPT ![s] = value]
Post(s, message) == ui' = [ui EXCEPT ![s] = Append(@, message)]

Init ==
    /\ activity = [s \in Sessions |-> "none"]
    /\ finishing = [s \in Sessions |-> FALSE]
    /\ surface = [s \in Sessions |-> FALSE]
    /\ attempted = [s \in Sessions |-> FALSE]
    /\ connecting = [s \in Sessions |-> FALSE]
    /\ connected = [s \in Sessions |-> FALSE]
    /\ displayed = [s \in Sessions |-> FALSE]
    /\ dialog = [s \in Sessions |-> FALSE]
    /\ ui = [s \in Sessions |-> <<>>]
    /\ starter = [s \in Sessions |-> "none"]
    /\ stopper = [s \in Sessions |-> "none"]
    /\ stops = [s \in Sessions |-> 0]
    /\ reporter = [s \in Sessions |-> "none"]
    /\ prepared = [s \in Sessions |-> FALSE]
    /\ decoder = [s \in Sessions |-> "none"]
    /\ permits = 1
    /\ monitor = Free
    /\ bridge = NoSession
    /\ native = NoSession

-----------------------------------------------------------------------------
(***************************************************************************)
(* The activity, on the UI thread                                          *)
(***************************************************************************)

\* onCreate, up to the surface callbacks.  The activity that was left before may
\* still be about to stop
CreateGame(s) ==
    /\ activity[s] = "none"
    /\ \A r \in Sessions : activity[r] = "open" => finishing[r]
    /\ activity' = Set(activity, s, "open")
    /\ UNCHANGED <<finishing, surface, attempted, flagVars, ui, starter, stopVars,
                   reporter, decoderVars, sharedVars>>

\* The user leaves, or a dialog that ends the activity is dismissed
Finish(s) ==
    /\ activity[s] = "open"
    /\ ~finishing[s]
    /\ finishing' = Set(finishing, s, TRUE)
    /\ dialog' = Set(dialog, s, FALSE)
    /\ UNCHANGED <<activity, surface, attempted, connecting, connected, displayed, ui,
                   starter, stopVars, reporter, decoderVars, sharedVars>>

SurfaceCreated(s) ==
    /\ activity[s] = "open"
    /\ ~surface[s]
    /\ surface' = Set(surface, s, TRUE)
    /\ UNCHANGED <<activity, finishing, attempted, flagVars, ui, starter, stopVars,
                   reporter, decoderVars, sharedVars>>

\* surfaceChanged starts the connection, once
SurfaceChanged(s) ==
    /\ surface[s]
    /\ ~attempted[s]
    /\ attempted' = Set(attempted, s, TRUE)
    /\ starter' = Set(starter, s, "app")
    /\ UNCHANGED <<activity, finishing, surface, flagVars, ui, stopVars, reporter,
                   decoderVars, sharedVars>>

\* Mutant: the flags are not cleared
StopKeepingFlags(s) ==
    /\ IF connecting[s] \/ connected[s]
       THEN /\ stopper' = Set(stopper, s, "interrupt")
            /\ stops' = Set(stops, s, stops[s] + 1)
       ELSE UNCHANGED stopVars
    /\ UNCHANGED <<connecting, connected>>

\* stopConnection: the connection is stopped by a thread of its own
StopConnection(s) ==
    IF connecting[s] \/ connected[s]
    THEN /\ connecting' = Set(connecting, s, FALSE)
         /\ connected' = Set(connected, s, FALSE)
         /\ stopper' = Set(stopper, s, "interrupt")
         /\ stops' = Set(stops, s, stops[s] + 1)
    ELSE UNCHANGED <<connecting, connected, stopVars>>

\* surfaceDestroyed: "Let the decoder know immediately that the surface is gone"
SurfaceDestroyed(s) ==
    /\ surface[s]
    /\ surface' = Set(surface, s, FALSE)
    /\ IF attempted[s]
       THEN /\ prepared' = Set(prepared, s, TRUE)
            /\ IF connected[s] THEN StopConnection(s)
               ELSE UNCHANGED <<connecting, connected, stopVars>>
       ELSE UNCHANGED <<prepared, connecting, connected, stopVars>>
    /\ UNCHANGED <<activity, finishing, attempted, displayed, dialog, ui, starter,
                   reporter, decoder, sharedVars>>

\* onStop: no failure of s is displayed any more, the connection is stopped.
\* Dialog.closeDialogs closes the dialogs of every activity
OnStop(s) ==
    /\ activity[s] = "open"
    /\ activity' = Set(activity, s, "stopped")
    /\ finishing' = Set(finishing, s, TRUE)
    /\ dialog' = [r \in Sessions |-> FALSE]
    /\ displayed' = Set(displayed, s, TRUE)
    /\ StopConnection(s)
    /\ UNCHANGED <<surface, attempted, ui, starter, reporter, decoderVars, sharedVars>>

\* The UI thread runs the next Runnable posted for s
Take(s, message) ==
    /\ ui[s] # <<>>
    /\ Head(ui[s]) = message
    /\ ui' = [ui EXCEPT ![s] = Tail(@)]

\* Dialog.run: "If we're dying, don't bother creating a dialog"
ShowDialog(s) == dialog' = Set(dialog, s, ~finishing[s])

\* connectionStarted, on the UI thread
HandleStarted(s) ==
    /\ Take(s, "started")
    /\ connected' = Set(connected, s, TRUE)
    /\ connecting' = Set(connecting, s, FALSE)
    /\ UNCHANGED <<activityVars, displayed, dialog, starter, stopVars, reporter,
                   decoderVars, sharedVars>>

\* stageFailed, on the UI thread
HandleFailed(s) ==
    /\ Take(s, "failed")
    /\ displayed' = Set(displayed, s, TRUE)
    /\ IF displayed[s] THEN UNCHANGED dialog ELSE ShowDialog(s)
    /\ UNCHANGED <<activityVars, connecting, connected, starter, stopVars, reporter,
                   decoderVars, sharedVars>>

\* connectionTerminated, on the UI thread: the dialog, or finish() for
\* ML_ERROR_GRACEFUL_TERMINATION (the error code is looked at nowhere before)
HandleTerminated(s) ==
    /\ Take(s, "terminated")
    /\ displayed' = Set(displayed, s, TRUE)
    /\ IF displayed[s] THEN UNCHANGED <<finishing, dialog, connecting, connected, stopVars>>
       ELSE /\ StopConnection(s)
            /\ \/ ShowDialog(s) /\ UNCHANGED finishing
               \/ finishing' = Set(finishing, s, TRUE) /\ UNCHANGED dialog
    /\ UNCHANGED <<activity, surface, attempted, starter, reporter, decoderVars, sharedVars>>

Runnable(s) == HandleStarted(s) \/ HandleFailed(s) \/ HandleTerminated(s)
Callback(s) == \/ CreateGame(s) \/ Finish(s) \/ SurfaceCreated(s) \/ SurfaceChanged(s)
               \/ SurfaceDestroyed(s) \/ OnStop(s)

-----------------------------------------------------------------------------
(***************************************************************************)
(* NvConnection.start, on its own thread                                   *)
(***************************************************************************)
Goto(s, label) == starter' = Set(starter, s, label)

\* startApp: the host starts or resumes the app, or the start has failed
StartApp(s) ==
    /\ starter[s] = "app"
    /\ \/ Goto(s, "acquire") /\ UNCHANGED ui
       \/ Goto(s, "done") /\ Post(s, "failed")
    /\ UNCHANGED <<activityVars, flagVars, stopVars, reporter, decoderVars, sharedVars>>

\* Mutant: the permit is waited for in the monitor
AcquireInMonitor(s) ==
    /\ starter[s] = "acquire"
    /\ MonitorFor(s, "start")
    /\ monitor' = <<s, "start">>
    /\ IF permits > 0
       THEN permits' = permits - 1 /\ Goto(s, "lock")
       ELSE UNCHANGED <<permits, starter>>
    /\ UNCHANGED <<activityVars, flagVars, ui, stopVars, reporter, decoderVars, bridge, native>>

\* "Acquire the connection semaphore to ensure we only have one connection going"
Acquire(s) ==
    /\ starter[s] = "acquire"
    /\ permits > 0
    /\ permits' = permits - 1
    /\ Goto(s, "lock")
    /\ UNCHANGED <<activityVars, flagVars, ui, stopVars, reporter, decoderVars, monitor,
                   bridge, native>>

\* Mutant: the bridge is not set up for this session
EnterKeepingBridge(s) ==
    /\ starter[s] = "lock"
    /\ MonitorFor(s, "start")
    /\ monitor' = <<s, "start">>
    /\ native' = s
    /\ Goto(s, "stages")
    /\ UNCHANGED <<activityVars, flagVars, ui, stopVars, reporter, decoderVars, permits, bridge>>

\* setupBridge in the monitor, then startConnection
EnterBridge(s) ==
    /\ starter[s] = "lock"
    /\ MonitorFor(s, "start")
    /\ monitor' = <<s, "start">>
    /\ bridge' = s
    /\ native' = s
    /\ Goto(s, "stages")
    /\ UNCHANGED <<activityVars, flagVars, ui, stopVars, reporter, decoderVars, permits>>

\* bridgeDrSetup: the decoder takes the surface, which must be there
SetupVideo(s) ==
    /\ starter[s] = "stages"
    /\ bridge # NoSession
    /\ surface[bridge]
    /\ decoder' = Set(decoder, bridge, "setup")
    /\ Goto(s, "setup")
    /\ UNCHANGED <<activityVars, flagVars, ui, stopVars, reporter, prepared, sharedVars>>

\* bridgeDrStart
StartVideo(s) ==
    /\ starter[s] = "setup"
    /\ decoder' = IF bridge = NoSession THEN decoder ELSE Set(decoder, bridge, "started")
    /\ Goto(s, "video")
    /\ UNCHANGED <<activityVars, flagVars, ui, stopVars, reporter, prepared, sharedVars>>

\* bridgeClConnectionStarted at the end of LiStartConnection
ConnectionStarted(s) ==
    /\ starter[s] = "video"
    /\ IF bridge = NoSession THEN UNCHANGED ui ELSE Post(bridge, "started")
    /\ Goto(s, "up")
    /\ UNCHANGED <<activityVars, flagVars, stopVars, reporter, decoderVars, sharedVars>>

\* What bridgeDrStop and bridgeDrCleanup do to the decoders
CleanedUp == IF bridge # NoSession /\ decoder[bridge] \in {"setup", "started"}
             THEN Set(decoder, bridge, "cleaned") ELSE decoder

\* A stage fails: bridgeClStageFailed, and the library undoes the stages
StageFailed(s) ==
    /\ starter[s] \in Stages
    /\ IF bridge = NoSession THEN UNCHANGED ui ELSE Post(bridge, "failed")
    /\ decoder' = CleanedUp
    /\ native' = NoSession
    /\ Goto(s, "failed")
    /\ UNCHANGED <<activityVars, flagVars, stopVars, reporter, prepared, permits, monitor,
                   bridge>>

\* startConnection returned 0
LeaveStarted(s) ==
    /\ starter[s] = "up"
    /\ monitor' = Free
    /\ Goto(s, "done")
    /\ UNCHANGED <<activityVars, flagVars, ui, stopVars, reporter, decoderVars, permits,
                   bridge, native>>

\* Mutant: the permit is left to a caller who never stops a failed start
LeaveKeepingPermit(s) ==
    /\ starter[s] = "failed"
    /\ monitor' = Free
    /\ Goto(s, "done")
    /\ UNCHANGED <<activityVars, flagVars, ui, stopVars, reporter, decoderVars, permits,
                   bridge, native>>

\* "LiStartConnection() failed, so the caller is not expected to stop the
\* connection themselves. We need to release their semaphore count for them."
LeaveFailed(s) ==
    /\ starter[s] = "failed"
    /\ permits' = permits + 1
    /\ monitor' = Free
    /\ Goto(s, "done")
    /\ UNCHANGED <<activityVars, flagVars, ui, stopVars, reporter, decoderVars, bridge, native>>

Start(s) == \/ StartApp(s) \/ Acquire(s) \/ EnterBridge(s) \/ SetupVideo(s) \/ StartVideo(s)
            \/ ConnectionStarted(s) \/ StageFailed(s) \/ LeaveStarted(s) \/ LeaveFailed(s)

-----------------------------------------------------------------------------
(***************************************************************************)
(* NvConnection.stop, on the thread of stopConnection                      *)
(***************************************************************************)
StopStep(s, from, to) ==
    /\ stopper[s] = from
    /\ stopper' = Set(stopper, s, to)

\* interruptConnection, outside of the monitor
Interrupt(s) ==
    /\ StopStep(s, "interrupt", "lock")
    /\ UNCHANGED <<activityVars, flagVars, ui, starter, stops, reporter, decoderVars,
                   sharedVars>>

EnterStop(s) ==
    /\ StopStep(s, "lock", "native")
    /\ MonitorFor(s, "stop")
    /\ monitor' = <<s, "stop">>
    /\ UNCHANGED <<activityVars, flagVars, ui, starter, stops, reporter, decoderVars,
                   permits, bridge, native>>

\* Mutant: cleanupBridge before stopConnection
CleanupThenStop(s) ==
    /\ StopStep(s, "native", "bridge")
    /\ bridge' = NoSession
    /\ native' = NoSession
    /\ UNCHANGED <<activityVars, flagVars, ui, starter, stops, reporter, decoderVars,
                   permits, monitor>>

\* MoonBridge.stopConnection
StopNative(s) ==
    /\ StopStep(s, "native", "bridge")
    /\ decoder' = CleanedUp
    /\ native' = NoSession
    /\ UNCHANGED <<activityVars, flagVars, ui, starter, stops, reporter, prepared,
                   permits, monitor, bridge>>

\* cleanupBridge, and out of the monitor
CleanupBridge(s) ==
    /\ StopStep(s, "bridge", "release")
    /\ bridge' = NoSession
    /\ monitor' = Free
    /\ UNCHANGED <<activityVars, flagVars, ui, starter, stops, reporter, decoderVars,
                   permits, native>>

\* "Now a pending connection can be processed"
ReleasePermit(s) ==
    /\ StopStep(s, "release", "done")
    /\ permits' = permits + 1
    /\ UNCHANGED <<activityVars, flagVars, ui, starter, stops, reporter, decoderVars,
                   monitor, bridge, native>>

Stop(s) == \/ Interrupt(s) \/ EnterStop(s) \/ StopNative(s) \/ CleanupBridge(s)
           \/ ReleasePermit(s)

-----------------------------------------------------------------------------
(***************************************************************************)
(* connectionTerminated, on a thread of the library                        *)
(***************************************************************************)

\* Once the video has started the library may give the connection up, once
Terminate(s) ==
    /\ native = s
    /\ starter[s] \in {"video", "up", "done"}
    /\ bridge # NoSession
    /\ reporter[bridge] = "none"
    /\ reporter' = Set(reporter, bridge, "test")
    /\ UNCHANGED <<activityVars, flagVars, ui, starter, stopVars, decoderVars, sharedVars>>

\* The connection test takes a while, then the UI thread is told
ReportTermination(s) ==
    /\ reporter[s] = "test"
    /\ reporter' = Set(reporter, s, "done")
    /\ Post(s, "terminated")
    /\ UNCHANGED <<activityVars, flagVars, starter, stopVars, decoderVars, sharedVars>>

Report(s) == Terminate(s) \/ ReportTermination(s)

-----------------------------------------------------------------------------
Next == \E s \in Sessions : Callback(s) \/ Runnable(s) \/ Start(s) \/ Stop(s) \/ Report(s)

Spec == Init /\ [][Next]_vars

\* Every thread is scheduled, the UI thread runs what is posted to it, and an
\* activity that is finishing is stopped
FairSpec ==
    /\ Spec
    /\ \A s \in Sessions :
          /\ WF_vars(Runnable(s))
          /\ WF_vars(Start(s))
          /\ WF_vars(Stop(s))
          /\ WF_vars(ReportTermination(s))
          /\ WF_vars(finishing[s] /\ OnStop(s))

-----------------------------------------------------------------------------
\* Where the activities and their threads can be, and the shared state.
TypeOK ==
    /\ activity \in [Sessions -> {"none", "open", "stopped"}]
    /\ finishing \in [Sessions -> BOOLEAN]
    /\ surface \in [Sessions -> BOOLEAN]
    /\ attempted \in [Sessions -> BOOLEAN]
    /\ connecting \in [Sessions -> BOOLEAN]
    /\ connected \in [Sessions -> BOOLEAN]
    /\ displayed \in [Sessions -> BOOLEAN]
    /\ dialog \in [Sessions -> BOOLEAN]
    /\ ui \in [Sessions -> Seq(Messages)]
    /\ starter \in [Sessions -> Starters]
    /\ stopper \in [Sessions -> Stoppers]
    /\ stops \in [Sessions -> Nat]
    /\ reporter \in [Sessions -> {"none", "test", "done"}]
    /\ prepared \in [Sessions -> BOOLEAN]
    /\ decoder \in [Sessions -> {"none", "setup", "started", "cleaned"}]
    /\ permits \in Nat
    /\ monitor \in {Free} \cup (Sessions \X {"start", "stop"})
    /\ bridge \in Sessions \cup {NoSession}
    /\ native \in Sessions \cup {NoSession}

\* The session uses the permit: from acquire() to the release, by the start thread if
\* the start failed and by the stop thread otherwise
Holds(s) ==
    \/ starter[s] \in Stages \cup {"lock", "up", "failed"}
    \/ starter[s] = "done" /\ native = s
    \/ stopper[s] \in {"bridge", "release"}

\* There is one connection at a time, and its permit is given back exactly once,
\* whoever ends it: never lost while nobody holds it, never released twice.
PermitAccounted ==
    /\ permits = IF \E s \in Sessions : Holds(s) THEN 0 ELSE 1
    /\ \A s, r \in Sessions : Holds(s) /\ Holds(r) => s = r

\* While the library has a connection, its callbacks go to the session of that
\* connection, never to the one before or to nobody.
CallbacksRouted == native # NoSession => bridge = native

\* A decoder that was set up belongs to the connection the library has: none is left
\* behind when a connection is stopped or its start fails.
NoDecoderLeft ==
    \A s \in Sessions : decoder[s] \in {"setup", "started"} => native = s

\* What the activity takes for its connection is the one the library has, and nobody is
\* stopping it: the activity can stop it, and will do so once.
ConnectedIsNative ==
    \A s \in Sessions : connected[s] => native = s /\ stopper[s] = "none"

\* The connection of a session is stopped at most once, and only after it started,
\* whichever of the surface, the activity and the library ends it first.
StoppedOnce ==
    \A s \in Sessions : stops[s] <= 1 /\ (stopper[s] # "none" => starter[s] \in {"up", "done"})

\* A failed start and a termination reach the user of that session, in a dialog or because
\* the activity ends, unless one was displayed before.
FailureSeen ==
    \A s \in Sessions :
        (starter[s] = "failed" \/ reporter[s] = "test") /\ ~displayed[s]
            ~> dialog[s] \/ finishing[s]

\* Stopping a connection comes to an end, whatever the other sessions do.
StopFinishes == \A s \in Sessions : stopper[s] = "interrupt" ~> stopper[s] = "done"

\* "Now a pending connection can be processed": a start waits for the permit no longer
\* than the connection of another session exists that nobody stops.
PendingProceeds ==
    \A s \in Sessions :
        starter[s] = "acquire" ~>
            \/ starter[s] # "acquire"
            \/ \E r \in Sessions : r # s /\ native = r /\ stopper[r] = "none"

\* The connection of an activity that was stopped ends.
SessionEnds == \A s \in Sessions : activity[s] = "stopped" ~> native # s
=============================================================================
