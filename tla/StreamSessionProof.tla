------------------------- MODULE StreamSessionProof -------------------------
(***************************************************************************)
(* Proofs about StreamSession, for any set of sessions: type correctness,  *)
(* and by one inductive invariant the permit, the routing of the native    *)
(* callbacks, the decoders and the single stop of a connection.            *)
(***************************************************************************)
EXTENDS StreamSession, SequenceTheorems, TLAPS

\* The UI thread will still run connectionStarted for s
StartPosted(s) == \E i \in DOMAIN ui[s] : ui[s][i] = "started"

\* connectionStarted is posted at most once
StartOnce(s) ==
    \A i, j \in DOMAIN ui[s] : ui[s][i] = "started" /\ ui[s][j] = "started" => i = j

-----------------------------------------------------------------------------
(***************************************************************************)
(* Type correctness                                                        *)
(***************************************************************************)

\* Initially everything has its type.
LEMMA TypeInit == Init => TypeOK
  <1> SUFFICES ASSUME Init PROVE TypeOK
    OBVIOUS
  <1>1. <<>> \in Seq(Messages)
    BY EmptySeq
  <1> QED
    BY <1>1 DEF Init, TypeOK, Starters, Stoppers, Stages, Free

\* A message posted keeps the queues typed.
LEMMA PostType ==
    ASSUME TypeOK, NEW s \in Sessions, NEW message \in Messages, Post(s, message)
    PROVE  ui' \in [Sessions -> Seq(Messages)]
  <1>1. Append(ui[s], message) \in Seq(Messages)
    BY AppendProperties DEF TypeOK
  <1> QED
    BY <1>1 DEF TypeOK, Post

\* So does a message taken.
LEMMA TakeType ==
    ASSUME TypeOK, NEW s \in Sessions, NEW message, Take(s, message)
    PROVE  ui' \in [Sessions -> Seq(Messages)]
  <1>1. Tail(ui[s]) \in Seq(Messages)
    BY HeadTailProperties DEF TypeOK, Take
  <1> QED
    BY <1>1 DEF TypeOK, Take

\* Assigning to one session's entry keeps the type of a function.
LEMMA SetType ==
    ASSUME NEW T, NEW f \in [Sessions -> T], NEW s \in Sessions, NEW v \in T
    PROVE  Set(f, s, v) \in [Sessions -> T]
  BY DEF Set

\* stopConnection keeps the flags and the stop thread typed.
LEMMA StopConnectionType ==
    ASSUME TypeOK, NEW s \in Sessions, StopConnection(s)
    PROVE  /\ connecting' \in [Sessions -> BOOLEAN]
           /\ connected' \in [Sessions -> BOOLEAN]
           /\ stopper' \in [Sessions -> Stoppers]
           /\ stops' \in [Sessions -> Nat]
  <1>1. CASE connecting[s] \/ connected[s]
    <2>1. "interrupt" \in Stoppers
      BY DEF Stoppers
    <2>2. stopper' = Set(stopper, s, "interrupt") /\ stops' = Set(stops, s, stops[s] + 1)
      BY <1>1 DEF StopConnection
    <2>3. /\ stopper' \in [Sessions -> Stoppers]
          /\ stops' \in [Sessions -> Nat]
      <3>1. stopper \in [Sessions -> Stoppers] /\ stops \in [Sessions -> Nat] /\ stops[s] + 1 \in Nat
        BY DEF TypeOK
      <3> QED
        BY <2>1, <2>2, <3>1, SetType
    <2>4. connecting' \in [Sessions -> BOOLEAN] /\ connected' \in [Sessions -> BOOLEAN]
      BY <1>1 DEF TypeOK, StopConnection, Set
    <2> QED
      BY <2>2, <2>3, <2>4
  <1>2. CASE ~(connecting[s] \/ connected[s])
    BY <1>2 DEF TypeOK, StopConnection, stopVars
  <1> QED
    BY <1>1, <1>2

\* The callbacks of the activity keep the types.
LEMMA TypeCallback ==
    ASSUME TypeOK, NEW s \in Sessions, Callback(s)
    PROVE  TypeOK'
  <1>1. CASE CreateGame(s)
    BY <1>1 DEF CreateGame, TypeOK, flagVars, stopVars, decoderVars, sharedVars, Set
  <1>2. CASE Finish(s)
    BY <1>2 DEF Finish, TypeOK, stopVars, decoderVars, sharedVars, Set
  <1>3. CASE SurfaceCreated(s)
    BY <1>3 DEF SurfaceCreated, TypeOK, flagVars, stopVars, decoderVars, sharedVars, Set
  <1>4. CASE SurfaceChanged(s)
    BY <1>4 DEF SurfaceChanged, TypeOK, flagVars, stopVars, decoderVars, sharedVars, Set, Starters
  <1>5. CASE SurfaceDestroyed(s)
    <2>1. StopConnection(s) \/ UNCHANGED <<connecting, connected, stopVars>>
      BY <1>5 DEF SurfaceDestroyed
    <2>2. /\ connecting' \in [Sessions -> BOOLEAN]
          /\ connected' \in [Sessions -> BOOLEAN]
          /\ stopper' \in [Sessions -> Stoppers]
          /\ stops' \in [Sessions -> Nat]
      BY <2>1, StopConnectionType DEF TypeOK, stopVars
    <2> QED
      BY <1>5, <2>2 DEF SurfaceDestroyed, TypeOK, sharedVars, stopVars, Set
  <1>6. CASE OnStop(s)
    <2>1. /\ connecting' \in [Sessions -> BOOLEAN]
          /\ connected' \in [Sessions -> BOOLEAN]
          /\ stopper' \in [Sessions -> Stoppers]
          /\ stops' \in [Sessions -> Nat]
      BY <1>6, StopConnectionType DEF OnStop
    <2> QED
      BY <1>6, <2>1 DEF OnStop, TypeOK, decoderVars, sharedVars, Set
  <1> QED
    BY <1>1, <1>2, <1>3, <1>4, <1>5, <1>6 DEF Callback

\* The Runnables of the UI thread keep the types.
LEMMA TypeRunnable ==
    ASSUME TypeOK, NEW s \in Sessions, Runnable(s)
    PROVE  TypeOK'
  <1>1. CASE HandleStarted(s)
    <2>1. ui' \in [Sessions -> Seq(Messages)]
      BY <1>1, TakeType DEF HandleStarted
    <2> QED
      BY <1>1, <2>1 DEF HandleStarted, TypeOK, activityVars, stopVars, decoderVars, sharedVars, Set
  <1>2. CASE HandleFailed(s)
    <2>1. ui' \in [Sessions -> Seq(Messages)]
      BY <1>2, TakeType DEF HandleFailed
    <2> QED
      BY <1>2, <2>1 DEF HandleFailed, ShowDialog, TypeOK, activityVars, stopVars, decoderVars, sharedVars, Set
  <1>3. CASE HandleTerminated(s)
    <2>1. ui' \in [Sessions -> Seq(Messages)]
      BY <1>3, TakeType DEF HandleTerminated
    <2>2. StopConnection(s) \/ UNCHANGED <<connecting, connected, stopVars>>
      BY <1>3 DEF HandleTerminated
    <2>3. /\ connecting' \in [Sessions -> BOOLEAN]
          /\ connected' \in [Sessions -> BOOLEAN]
          /\ stopper' \in [Sessions -> Stoppers]
          /\ stops' \in [Sessions -> Nat]
      BY <2>2, StopConnectionType DEF TypeOK, stopVars
    <2>4. /\ finishing' \in [Sessions -> BOOLEAN]
          /\ dialog' \in [Sessions -> BOOLEAN]
          /\ displayed' \in [Sessions -> BOOLEAN]
      <3>1. displayed' = Set(displayed, s, TRUE)
        BY <1>3 DEF HandleTerminated
      <3>2. finishing' = finishing \/ finishing' = Set(finishing, s, TRUE)
        BY <1>3 DEF HandleTerminated
      <3>3. dialog' = dialog \/ dialog' = Set(dialog, s, ~finishing[s])
        BY <1>3 DEF HandleTerminated, ShowDialog
      <3>4. TRUE \in BOOLEAN /\ (~finishing[s]) \in BOOLEAN
        OBVIOUS
      <3>5. /\ finishing \in [Sessions -> BOOLEAN]
            /\ dialog \in [Sessions -> BOOLEAN]
            /\ displayed \in [Sessions -> BOOLEAN]
        BY DEF TypeOK
      <3>6. displayed' \in [Sessions -> BOOLEAN]
        BY <3>1, <3>4, <3>5, SetType
      <3>7. finishing' \in [Sessions -> BOOLEAN]
        <4>1. Set(finishing, s, TRUE) \in [Sessions -> BOOLEAN]
          BY <3>4, <3>5, SetType
        <4> QED
          BY <4>1, <3>2, <3>5
      <3>8. dialog' \in [Sessions -> BOOLEAN]
        <4>1. Set(dialog, s, ~finishing[s]) \in [Sessions -> BOOLEAN]
          BY <3>4, <3>5, SetType
        <4> QED
          BY <4>1, <3>3, <3>5
      <3> QED
        BY <3>6, <3>7, <3>8
    <2> QED
      BY <1>3, <2>1, <2>3, <2>4 DEF HandleTerminated, TypeOK, decoderVars, sharedVars
  <1> QED
    BY <1>1, <1>2, <1>3 DEF Runnable

\* So does the start thread.
LEMMA TypeStart ==
    ASSUME TypeOK, NEW s \in Sessions, Start(s)
    PROVE  TypeOK'
  <1>a. \A r \in Sessions, message \in Messages :
            Post(r, message) => ui' \in [Sessions -> Seq(Messages)]
    BY PostType
  <1>b. {"started", "failed", "terminated"} = Messages
    BY DEF Messages
  <1> USE DEF TypeOK, activityVars, flagVars, stopVars, decoderVars, sharedVars, Set, Goto,
              Starters, Stages
  <1>1. CASE StartApp(s)
    <2>1. ui' \in [Sessions -> Seq(Messages)]
      BY <1>1, <1>a, <1>b DEF StartApp
    <2> QED
      BY <1>1, <2>1 DEF StartApp
  <1>2. CASE Acquire(s)
    BY <1>2 DEF Acquire
  <1>3. CASE EnterBridge(s)
    BY <1>3 DEF EnterBridge
  <1>4. CASE SetupVideo(s)
    BY <1>4 DEF SetupVideo
  <1>5. CASE StartVideo(s)
    BY <1>5 DEF StartVideo
  <1>6. CASE ConnectionStarted(s)
    <2>1. ui' \in [Sessions -> Seq(Messages)]
      BY <1>6, <1>a, <1>b DEF ConnectionStarted
    <2> QED
      BY <1>6, <2>1 DEF ConnectionStarted
  <1>7. CASE StageFailed(s)
    <2>1. ui' \in [Sessions -> Seq(Messages)]
      BY <1>7, <1>a, <1>b DEF StageFailed
    <2> QED
      BY <1>7, <2>1 DEF StageFailed, CleanedUp
  <1>8. CASE LeaveStarted(s)
    BY <1>8 DEF LeaveStarted
  <1>9. CASE LeaveFailed(s)
    BY <1>9 DEF LeaveFailed
  <1> QED
    BY <1>1, <1>2, <1>3, <1>4, <1>5, <1>6, <1>7, <1>8, <1>9 DEF Start

\* And the stop thread and the thread of connectionTerminated.
LEMMA TypeStop ==
    ASSUME TypeOK, NEW s \in Sessions, Stop(s) \/ Report(s)
    PROVE  TypeOK'
  <1>a. \A r \in Sessions, message \in Messages :
            Post(r, message) => ui' \in [Sessions -> Seq(Messages)]
    BY PostType
  <1>b. "terminated" \in Messages
    BY DEF Messages
  <1> USE DEF TypeOK, activityVars, flagVars, stopVars, decoderVars, sharedVars, Set,
              StopStep, Stoppers
  <1>1. CASE Interrupt(s)
    BY <1>1 DEF Interrupt
  <1>2. CASE EnterStop(s)
    BY <1>2 DEF EnterStop
  <1>3. CASE StopNative(s)
    BY <1>3 DEF StopNative, CleanedUp
  <1>4. CASE CleanupBridge(s)
    BY <1>4 DEF CleanupBridge
  <1>5. CASE ReleasePermit(s)
    BY <1>5 DEF ReleasePermit
  <1>6. CASE Terminate(s)
    BY <1>6 DEF Terminate
  <1>7. CASE ReportTermination(s)
    <2>1. ui' \in [Sessions -> Seq(Messages)]
      BY <1>7, <1>a, <1>b DEF ReportTermination
    <2> QED
      BY <1>7, <2>1 DEF ReportTermination
  <1> QED
    BY <1>1, <1>2, <1>3, <1>4, <1>5, <1>6, <1>7 DEF Stop, Report

\* Every step keeps the types.
LEMMA TypeNext == TypeOK /\ [Next]_vars => TypeOK'
  <1> SUFFICES ASSUME TypeOK, [Next]_vars PROVE TypeOK'
    OBVIOUS
  <1>1. CASE Next
    BY <1>1, TypeCallback, TypeRunnable, TypeStart, TypeStop DEF Next
  <1>2. CASE UNCHANGED vars
    BY <1>2 DEF TypeOK, vars, activityVars, flagVars, stopVars, decoderVars, sharedVars
  <1> QED
    BY <1>1, <1>2

\* Activities, their threads and the shared state have their types in every
\* execution, for any set of sessions.
THEOREM SessionTypeCorrect == Spec => []TypeOK
  BY TypeInit, TypeNext, PTL DEF Spec
-----------------------------------------------------------------------------
(***************************************************************************)
(* The inductive invariant                                                 *)
(***************************************************************************)

\* Who is in the monitor of MoonBridge.class
InStart(s) == starter[s] \in Stages \cup {"up", "failed"}
InStop(s) == stopper[s] \in {"native", "bridge"}

MonitorInv ==
    \A s \in Sessions : /\ InStart(s) <=> monitor = <<s, "start">>
                        /\ InStop(s) <=> monitor = <<s, "stop">>

\* How far the threads of a session are when the library has its connection
NativeInv ==
    \A s \in Sessions :
        /\ starter[s] \in Stages \cup {"up"} => native = s
        /\ native = s => /\ starter[s] \in Stages \cup {"up", "done"}
                         /\ stopper[s] \in {"none", "interrupt", "lock", "native"}
                         /\ bridge = s
        /\ stopper[s] \in {"interrupt", "lock", "native"} => native = s
        /\ stopper[s] # "none" => starter[s] \in {"up", "done"}
        /\ starter[s] # "none" => attempted[s]

\* The connection is stopped after the UI thread has seen it start
StartedInv ==
    \A s \in Sessions :
        /\ ~connecting[s]
        /\ connected[s] \/ StartPosted(s) =>
               /\ native = s
               /\ stopper[s] = "none"
               /\ starter[s] \in {"up", "done"}
        /\ ~(connected[s] /\ StartPosted(s))
        /\ StartOnce(s)
        /\ stops[s] = IF stopper[s] = "none" THEN 0 ELSE 1

\* The inductive invariant
IInv == TypeOK /\ MonitorInv /\ NativeInv /\ StartedInv /\ PermitAccounted /\ NoDecoderLeft

-----------------------------------------------------------------------------
(***************************************************************************)
(* The messages posted to the UI thread                                    *)
(***************************************************************************)

\* A queue grows at its end.
LEMMA PostAt ==
    ASSUME TypeOK, NEW s \in Sessions, NEW message \in Messages, Post(s, message)
    PROVE  /\ DOMAIN ui[s] = 1..Len(ui[s]) /\ Len(ui[s]) \in Nat
           /\ DOMAIN ui'[s] = 1..(Len(ui[s]) + 1)
           /\ \A i \in 1..Len(ui[s]) : ui'[s][i] = ui[s][i]
           /\ ui'[s][Len(ui[s]) + 1] = message
           /\ \A r \in Sessions \ {s} : ui'[r] = ui[r]
  <1>1. ui[s] \in Seq(Messages) /\ ui'[s] = Append(ui[s], message)
    BY DEF TypeOK, Post
  <1>2. \A r \in Sessions \ {s} : ui'[r] = ui[r]
    BY DEF TypeOK, Post
  <1>3. /\ Append(ui[s], message) \in Seq(Messages)
        /\ Len(Append(ui[s], message)) = Len(ui[s]) + 1
        /\ \A i \in 1..Len(ui[s]) : Append(ui[s], message)[i] = ui[s][i]
        /\ Append(ui[s], message)[Len(ui[s]) + 1] = message
    BY <1>1, AppendProperties
  <1>4. /\ DOMAIN ui[s] = 1..Len(ui[s]) /\ Len(ui[s]) \in Nat
        /\ DOMAIN Append(ui[s], message) = 1..Len(Append(ui[s], message))
    BY <1>1, <1>3, LenProperties
  <1> QED
    BY <1>1, <1>2, <1>3, <1>4

\* And shrinks at its head.
LEMMA TakeAt ==
    ASSUME TypeOK, NEW s \in Sessions, NEW message, Take(s, message)
    PROVE  /\ DOMAIN ui[s] = 1..Len(ui[s]) /\ Len(ui[s]) \in Nat \ {0}
           /\ ui[s][1] = message
           /\ DOMAIN ui'[s] = 1..(Len(ui[s]) - 1)
           /\ \A i \in 1..(Len(ui[s]) - 1) : ui'[s][i] = ui[s][i + 1]
           /\ \A r \in Sessions \ {s} : ui'[r] = ui[r]
  <1>1. ui[s] \in Seq(Messages) /\ ui[s] # <<>> /\ ui'[s] = Tail(ui[s]) /\ Head(ui[s]) = message
    BY DEF TypeOK, Take
  <1>2. \A r \in Sessions \ {s} : ui'[r] = ui[r]
    BY DEF TypeOK, Take
  <1>3. /\ Head(ui[s]) = ui[s][1]
        /\ Tail(ui[s]) \in Seq(Messages)
        /\ Len(Tail(ui[s])) = Len(ui[s]) - 1
        /\ \A i \in 1..Len(Tail(ui[s])) : Tail(ui[s])[i] = ui[s][i + 1]
    BY <1>1, HeadTailProperties
  <1>4. /\ DOMAIN ui[s] = 1..Len(ui[s]) /\ Len(ui[s]) \in Nat
        /\ DOMAIN Tail(ui[s]) = 1..Len(Tail(ui[s]))
    BY <1>1, <1>3, LenProperties
  <1>5. Len(ui[s]) # 0
    BY <1>1, EmptySeq
  <1> QED
    BY <1>1, <1>2, <1>3, <1>4, <1>5

\* Another message says nothing about connectionStarted.
LEMMA PostOther ==
    ASSUME TypeOK, NEW s \in Sessions, NEW message \in Messages \ {"started"}, Post(s, message),
           NEW r \in Sessions
    PROVE  /\ StartPosted(r)' <=> StartPosted(r)
           /\ StartOnce(r) => StartOnce(r)'
  <1> DEFINE n == Len(ui[s])
  <1>1. /\ DOMAIN ui[s] = 1..Len(ui[s]) /\ Len(ui[s]) \in Nat
        /\ DOMAIN ui'[s] = 1..(Len(ui[s]) + 1)
        /\ \A i \in 1..Len(ui[s]) : ui'[s][i] = ui[s][i]
        /\ ui'[s][Len(ui[s]) + 1] = message
        /\ \A q \in Sessions \ {s} : ui'[q] = ui[q]
    BY PostAt
  <1>2. CASE r = s
    <2>1. \A i \in 1..(n + 1) : ui'[s][i] = "started" => i \in 1..n /\ ui[s][i] = "started"
      BY <1>1
    <2>2. \A i \in 1..n : i \in 1..(n + 1) /\ (ui[s][i] = "started" => ui'[s][i] = "started")
      BY <1>1
    <2> HIDE DEF n
    <2>3. DOMAIN ui[s] = 1..n /\ DOMAIN ui'[s] = 1..(n + 1)
      BY <1>1 DEF n
    <2>4. StartPosted(s)' <=> StartPosted(s)
      BY <2>1, <2>2, <2>3 DEF StartPosted
    <2>5. StartOnce(s) => StartOnce(s)'
      BY <2>1, <2>3 DEF StartOnce
    <2> QED
      BY <1>2, <2>4, <2>5
  <1>3. CASE r # s
    BY <1>1, <1>3 DEF StartPosted, StartOnce
  <1> QED
    BY <1>2, <1>3

\* connectionStarted is posted to one session.
LEMMA PostStarted ==
    ASSUME TypeOK, NEW s \in Sessions, Post(s, "started"), ~StartPosted(s)
    PROVE  /\ StartOnce(s)'
           /\ \A r \in Sessions \ {s} : (StartPosted(r)' <=> StartPosted(r)) /\ (StartOnce(r) => StartOnce(r)')
  <1> DEFINE n == Len(ui[s])
  <1>1. "started" \in Messages
    BY DEF Messages
  <1>2. /\ DOMAIN ui[s] = 1..Len(ui[s]) /\ Len(ui[s]) \in Nat
        /\ DOMAIN ui'[s] = 1..(Len(ui[s]) + 1)
        /\ \A i \in 1..Len(ui[s]) : ui'[s][i] = ui[s][i]
        /\ ui'[s][Len(ui[s]) + 1] = "started"
        /\ \A q \in Sessions \ {s} : ui'[q] = ui[q]
    BY <1>1, PostAt
  <1>3. \A i \in 1..n : ui[s][i] # "started"
    BY <1>2 DEF StartPosted
  <1>4. \A i \in 1..(n + 1) : ui'[s][i] = "started" => i = n + 1
    BY <1>2, <1>3
  <1> HIDE DEF n
  <1>5. DOMAIN ui'[s] = 1..(n + 1)
    BY <1>2 DEF n
  <1>6. StartOnce(s)'
    BY <1>4, <1>5 DEF StartOnce
  <1>7. ASSUME NEW r \in Sessions \ {s}
        PROVE  (StartPosted(r)' <=> StartPosted(r)) /\ (StartOnce(r) => StartOnce(r)')
    BY <1>2 DEF StartPosted, StartOnce
  <1> QED
    BY <1>6, <1>7

\* Taking a message leaves at most what was posted.
LEMMA TakeAny ==
    ASSUME TypeOK, NEW s \in Sessions, NEW message, Take(s, message), NEW r \in Sessions
    PROVE  /\ StartPosted(r)' => StartPosted(r)
           /\ StartOnce(r) => StartOnce(r)'
  <1> DEFINE n == Len(ui[s])
  <1>1. /\ DOMAIN ui[s] = 1..n /\ n \in Nat \ {0}
        /\ DOMAIN ui'[s] = 1..(n - 1)
        /\ \A i \in 1..(n - 1) : ui'[s][i] = ui[s][i + 1]
        /\ \A q \in Sessions \ {s} : ui'[q] = ui[q]
    BY TakeAt
  <1>2. CASE r = s
    <2>1. \A i \in 1..(n - 1) : /\ i \in Nat
                                /\ i + 1 \in 1..n
                                /\ ui'[s][i] = "started" => ui[s][i + 1] = "started"
      BY <1>1
    <2>2. DOMAIN ui[s] = 1..n /\ DOMAIN ui'[s] = 1..(n - 1)
      BY <1>1
    <2> HIDE DEF n
    <2>3. StartPosted(s)' => StartPosted(s)
      BY <2>1, <2>2 DEF StartPosted
    <2>4. StartOnce(s) => StartOnce(s)'
      BY <2>1, <2>2 DEF StartOnce
    <2> QED
      BY <1>2, <2>3, <2>4
  <1>3. CASE r # s
    BY <1>1, <1>3 DEF StartPosted, StartOnce
  <1> QED
    BY <1>2, <1>3

\* Once connectionStarted is taken there is no other.
LEMMA TakeStarted ==
    ASSUME TypeOK, NEW s \in Sessions, Take(s, "started"), StartOnce(s)
    PROVE  StartPosted(s) /\ ~StartPosted(s)'
  <1>1. StartPosted(s)
    BY TakeAt DEF StartPosted
  <1>2. \A i \in 1..(Len(ui[s]) - 1) : i + 1 \in 1..Len(ui[s]) /\ i + 1 # 1
    BY TakeAt
  <1>3. \A i \in 1..(Len(ui[s]) - 1) : ui'[s][i] # "started"
    BY <1>2, TakeAt DEF StartOnce
  <1> QED
    BY <1>1, <1>3, TakeAt DEF StartPosted

\* stopConnection stops a connection that started, and does nothing otherwise.
LEMMA StopConnectionEffect ==
    ASSUME TypeOK, StartedInv, NEW s \in Sessions, StopConnection(s)
    PROVE  \/ ~connected[s] /\ UNCHANGED <<connecting, connected, stopper, stops>>
           \/ /\ connected[s]
              /\ connecting' = [connecting EXCEPT ![s] = FALSE]
              /\ connected' = [connected EXCEPT ![s] = FALSE]
              /\ stopper' = [stopper EXCEPT ![s] = "interrupt"]
              /\ stops' = [stops EXCEPT ![s] = 1]
  <1>1. ~connecting[s]
    BY DEF StartedInv
  <1>2. CASE connected[s]
    <2>1. stops[s] = 0
      BY <1>2 DEF StartedInv
    <2>2. stops' = [stops EXCEPT ![s] = 1]
      BY <1>2, <2>1 DEF StopConnection, Set
    <2> QED
      BY <1>2, <2>2 DEF StopConnection, Set
  <1>3. CASE ~connected[s]
    BY <1>1, <1>3 DEF StopConnection, stopVars
  <1> QED
    BY <1>2, <1>3

\* Whether or not stopConnection is called, the flags and the stop thread of s are left
\* alone or it is stopped.
StoppedOrNot(s) ==
    \/ UNCHANGED <<connecting, connected, stopper, stops>>
    \/ /\ connected[s]
       /\ connecting' = [connecting EXCEPT ![s] = FALSE]
       /\ connected' = [connected EXCEPT ![s] = FALSE]
       /\ stopper' = [stopper EXCEPT ![s] = "interrupt"]
       /\ stops' = [stops EXCEPT ![s] = 1]

\* The three steps that call stopConnection.
LEMMA StopConnectionSteps ==
    ASSUME TypeOK, StartedInv, NEW s \in Sessions,
           SurfaceDestroyed(s) \/ OnStop(s) \/ HandleTerminated(s)
    PROVE  StoppedOrNot(s)
  <1>1. StopConnection(s) \/ UNCHANGED <<connecting, connected, stopper, stops>>
    BY DEF SurfaceDestroyed, OnStop, HandleTerminated, stopVars
  <1> QED
    BY <1>1, StopConnectionEffect DEF StoppedOrNot

-----------------------------------------------------------------------------
(***************************************************************************)
(* The threads, the monitor and the connection of the library              *)
(***************************************************************************)

\* Between acquire() and the release a session, and the session of the connection
Busy(s) ==
    \/ starter[s] \in Stages \cup {"lock", "up", "failed"}
    \/ native = s
    \/ stopper[s] \in {"bridge", "release"}

\* They hold the permit: there is one such session at most.
LEMMA OneBusy ==
    ASSUME NativeInv, PermitAccounted
    PROVE  \A s, r \in Sessions : Busy(s) /\ Busy(r) => s = r
  BY DEF NativeInv, PermitAccounted, Holds, Busy, Stages

\* The activity keeps the monitor and the threads in order.
LEMMA ThreadsCallback ==
    ASSUME TypeOK, MonitorInv, NativeInv, StartedInv, PermitAccounted, NEW s \in Sessions, Callback(s)
    PROVE  MonitorInv' /\ NativeInv'
  <1>a. SurfaceDestroyed(s) \/ OnStop(s) \/ HandleTerminated(s) => StoppedOrNot(s)
    BY StopConnectionSteps
  <1> USE SessionAssumption DEF TypeOK, MonitorInv, NativeInv, InStart, InStop, Stages, Free, MonitorFor, Set, Goto, StopStep,
              activityVars, flagVars, stopVars, decoderVars, sharedVars
  <1>1. CASE CreateGame(s)
    BY <1>1 DEF CreateGame
  <1>2. CASE Finish(s)
    BY <1>2 DEF Finish
  <1>3. CASE SurfaceCreated(s)
    BY <1>3 DEF SurfaceCreated
  <1>4. CASE SurfaceChanged(s)
    BY <1>4 DEF SurfaceChanged
  <1>5. CASE SurfaceDestroyed(s)
    <2>1. StoppedOrNot(s) /\ UNCHANGED <<starter, attempted, sharedVars>>
      BY <1>5, <1>a DEF SurfaceDestroyed
    <2> QED
      BY <2>1 DEF StoppedOrNot, StartedInv
  <1>6. CASE OnStop(s)
    BY <1>6, <1>a DEF OnStop, StoppedOrNot, StartedInv
  <1> QED
    BY <1>1, <1>2, <1>3, <1>4, <1>5, <1>6 DEF Callback

\* The UI thread keeps the monitor and the threads in order.
LEMMA ThreadsRunnable ==
    ASSUME TypeOK, MonitorInv, NativeInv, StartedInv, PermitAccounted, NEW s \in Sessions, Runnable(s)
    PROVE  MonitorInv' /\ NativeInv'
  <1>a. SurfaceDestroyed(s) \/ OnStop(s) \/ HandleTerminated(s) => StoppedOrNot(s)
    BY StopConnectionSteps
  <1> USE SessionAssumption DEF TypeOK, MonitorInv, NativeInv, InStart, InStop, Stages, Free, MonitorFor, Set, Goto, StopStep,
              activityVars, flagVars, stopVars, decoderVars, sharedVars
  <1>1. CASE HandleStarted(s)
    BY <1>1 DEF HandleStarted
  <1>2. CASE HandleFailed(s)
    BY <1>2 DEF HandleFailed
  <1>3. CASE HandleTerminated(s)
    BY <1>3, <1>a DEF HandleTerminated, StoppedOrNot, StartedInv
  <1> QED
    BY <1>1, <1>2, <1>3 DEF Runnable

\* The start thread keeps the monitor and the threads in order.
LEMMA ThreadsStart ==
    ASSUME TypeOK, MonitorInv, NativeInv, StartedInv, PermitAccounted, NEW s \in Sessions, Start(s)
    PROVE  MonitorInv' /\ NativeInv'
  <1>a. \A r, q \in Sessions : Busy(r) /\ Busy(q) => r = q
    BY OneBusy
  <1> USE SessionAssumption DEF TypeOK, MonitorInv, NativeInv, InStart, InStop, Stages, Free, MonitorFor, Set, Goto, StopStep,
              activityVars, flagVars, stopVars, decoderVars, sharedVars
  <1>1. CASE StartApp(s)
    BY <1>1 DEF StartApp
  <1>2. CASE Acquire(s)
    BY <1>2 DEF Acquire
  <1>3. CASE EnterBridge(s)
    BY <1>3, <1>a DEF EnterBridge, Busy
  <1>4. CASE SetupVideo(s)
    BY <1>4 DEF SetupVideo
  <1>5. CASE StartVideo(s)
    BY <1>5 DEF StartVideo
  <1>6. CASE ConnectionStarted(s)
    BY <1>6 DEF ConnectionStarted
  <1>7. CASE StageFailed(s)
    BY <1>7 DEF StageFailed
  <1>8. CASE LeaveStarted(s)
    BY <1>8 DEF LeaveStarted
  <1>9. CASE LeaveFailed(s)
    BY <1>9 DEF LeaveFailed
  <1> QED
    BY <1>1, <1>2, <1>3, <1>4, <1>5, <1>6, <1>7, <1>8, <1>9 DEF Start

\* The stop thread keeps the monitor and the threads in order.
LEMMA ThreadsStop ==
    ASSUME TypeOK, MonitorInv, NativeInv, StartedInv, PermitAccounted, NEW s \in Sessions, Stop(s)
    PROVE  MonitorInv' /\ NativeInv'
  <1>a. \A r, q \in Sessions : Busy(r) /\ Busy(q) => r = q
    BY OneBusy
  <1> USE SessionAssumption DEF TypeOK, MonitorInv, NativeInv, InStart, InStop, Stages, Free, MonitorFor, Set, Goto, StopStep,
              activityVars, flagVars, stopVars, decoderVars, sharedVars
  <1>1. CASE Interrupt(s)
    BY <1>1 DEF Interrupt
  <1>2. CASE EnterStop(s)
    BY <1>2 DEF EnterStop
  <1>3. CASE StopNative(s)
    BY <1>3 DEF StopNative
  <1>4. CASE CleanupBridge(s)
    BY <1>4, <1>a DEF CleanupBridge, Busy
  <1>5. CASE ReleasePermit(s)
    BY <1>5 DEF ReleasePermit
  <1> QED
    BY <1>1, <1>2, <1>3, <1>4, <1>5 DEF Stop

\* The thread of connectionTerminated keeps the monitor and the threads in order.
LEMMA ThreadsReport ==
    ASSUME TypeOK, MonitorInv, NativeInv, StartedInv, PermitAccounted, NEW s \in Sessions, Report(s)
    PROVE  MonitorInv' /\ NativeInv'
  <1> USE SessionAssumption DEF TypeOK, MonitorInv, NativeInv, InStart, InStop, Stages, Free, MonitorFor, Set, Goto, StopStep,
              activityVars, flagVars, stopVars, decoderVars, sharedVars
  <1>1. CASE Terminate(s)
    BY <1>1 DEF Terminate
  <1>2. CASE ReportTermination(s)
    BY <1>2 DEF ReportTermination
  <1> QED
    BY <1>1, <1>2 DEF Report

-----------------------------------------------------------------------------
(***************************************************************************)
(* connectionStarted and stopConnection                                    *)
(***************************************************************************)

\* The activity starts and stops a connection once.
LEMMA StartedCallback ==
    ASSUME TypeOK, MonitorInv, NativeInv, StartedInv, NEW s \in Sessions, Callback(s)
    PROVE  StartedInv'
  <1>u. UNCHANGED ui => \A r \in Sessions : (StartPosted(r)' <=> StartPosted(r)) /\ (StartOnce(r) => StartOnce(r)')
    BY DEF StartPosted, StartOnce
  <1>a. SurfaceDestroyed(s) \/ OnStop(s) \/ HandleTerminated(s) => StoppedOrNot(s)
    BY StopConnectionSteps
  <1> USE SessionAssumption DEF TypeOK, NativeInv, StartedInv, MonitorInv, InStop, Stages, Set, Goto, StopStep,
              activityVars, flagVars, stopVars, decoderVars, sharedVars
  <1>1. CASE CreateGame(s)
    BY <1>1, <1>u DEF CreateGame
  <1>2. CASE Finish(s)
    BY <1>2, <1>u DEF Finish
  <1>3. CASE SurfaceCreated(s)
    BY <1>3, <1>u DEF SurfaceCreated
  <1>4. CASE SurfaceChanged(s)
    BY <1>4, <1>u DEF SurfaceChanged
  <1>5. CASE SurfaceDestroyed(s)
    BY <1>5, <1>u, <1>a DEF SurfaceDestroyed, StoppedOrNot
  <1>6. CASE OnStop(s)
    BY <1>6, <1>u, <1>a DEF OnStop, StoppedOrNot
  <1> QED
    BY <1>1, <1>2, <1>3, <1>4, <1>5, <1>6 DEF Callback

\* The UI thread starts and stops a connection once.
LEMMA StartedRunnable ==
    ASSUME TypeOK, MonitorInv, NativeInv, StartedInv, NEW s \in Sessions, Runnable(s)
    PROVE  StartedInv'
  <1>t. \A message : Take(s, message) =>
            \A r \in Sessions : (StartPosted(r)' => StartPosted(r)) /\ (StartOnce(r) => StartOnce(r)')
    BY TakeAny
  <1>a. SurfaceDestroyed(s) \/ OnStop(s) \/ HandleTerminated(s) => StoppedOrNot(s)
    BY StopConnectionSteps
  <1>s. Take(s, "started") => StartPosted(s) /\ ~StartPosted(s)'
    BY TakeStarted DEF StartedInv
  <1> USE SessionAssumption DEF TypeOK, NativeInv, StartedInv, MonitorInv, InStop, Stages, Set, Goto, StopStep,
              activityVars, flagVars, stopVars, decoderVars, sharedVars
  <1>1. CASE HandleStarted(s)
    <2>1. StartPosted(s) /\ ~StartPosted(s)'
      BY <1>1, <1>s DEF HandleStarted
    <2> QED
      BY <1>1, <1>t, <2>1 DEF HandleStarted
  <1>2. CASE HandleFailed(s)
    BY <1>2, <1>t DEF HandleFailed
  <1>3. CASE HandleTerminated(s)
    BY <1>3, <1>a, <1>t DEF HandleTerminated, StoppedOrNot
  <1> QED
    BY <1>1, <1>2, <1>3 DEF Runnable

\* The start thread starts and stops a connection once.
LEMMA StartedStart ==
    ASSUME TypeOK, MonitorInv, NativeInv, StartedInv, PermitAccounted, NEW s \in Sessions, Start(s)
    PROVE  StartedInv'
  <1>u. UNCHANGED ui => \A r \in Sessions : (StartPosted(r)' <=> StartPosted(r)) /\ (StartOnce(r) => StartOnce(r)')
    BY DEF StartPosted, StartOnce
  <1>p. \A q \in Sessions, message \in {"failed", "terminated"} : Post(q, message) =>
            \A r \in Sessions : (StartPosted(r)' <=> StartPosted(r)) /\ (StartOnce(r) => StartOnce(r)')
    BY PostOther DEF Messages
  <1>s. Post(s, "started") /\ ~StartPosted(s) =>
            /\ StartOnce(s)'
            /\ \A r \in Sessions \ {s} : (StartPosted(r)' <=> StartPosted(r)) /\ (StartOnce(r) => StartOnce(r)')
    <2> SUFFICES ASSUME Post(s, "started"), ~StartPosted(s)
                 PROVE  /\ StartOnce(s)'
                        /\ \A r \in Sessions \ {s} : (StartPosted(r)' <=> StartPosted(r)) /\ (StartOnce(r) => StartOnce(r)')
      OBVIOUS
    <2> QED
      BY PostStarted
  <1>a. \A r, q \in Sessions : Busy(r) /\ Busy(q) => r = q
    BY OneBusy
  <1> USE SessionAssumption DEF TypeOK, NativeInv, StartedInv, MonitorInv, InStop, Stages, Set, Goto, StopStep,
              activityVars, flagVars, stopVars, decoderVars, sharedVars
  <1>1. CASE StartApp(s)
    <2>1. \A r \in Sessions : (StartPosted(r)' <=> StartPosted(r)) /\ (StartOnce(r) => StartOnce(r)')
      BY <1>1, <1>p, <1>u DEF StartApp
    <2>2. starter[s] = "app" /\ \E to \in {"acquire", "done"} : starter' = [starter EXCEPT ![s] = to]
      BY <1>1 DEF StartApp
    <2>3. UNCHANGED <<connecting, connected, stopper, stops, native>>
      BY <1>1 DEF StartApp
    <2> QED
      BY <2>1, <2>2, <2>3
  <1>2. CASE Acquire(s)
    BY <1>2, <1>u DEF Acquire
  <1>3. CASE EnterBridge(s)
    BY <1>3, <1>u, <1>a DEF EnterBridge, Busy
  <1>4. CASE SetupVideo(s)
    BY <1>4, <1>u DEF SetupVideo
  <1>5. CASE StartVideo(s)
    BY <1>5, <1>u DEF StartVideo
  <1>6. CASE ConnectionStarted(s)
    <2>1. native = s /\ bridge = s
      BY <1>6 DEF ConnectionStarted
    <2>2. Post(s, "started") /\ ~StartPosted(s)
      BY <1>6, <2>1 DEF ConnectionStarted
    <2>3. /\ StartOnce(s)'
          /\ \A r \in Sessions \ {s} : (StartPosted(r)' <=> StartPosted(r)) /\ (StartOnce(r) => StartOnce(r)')
      BY <2>2, <1>s
    <2> QED
      BY <1>6, <2>1, <2>3 DEF ConnectionStarted
  <1>7. CASE StageFailed(s)
    BY <1>7, <1>p, <1>u DEF StageFailed
  <1>8. CASE LeaveStarted(s)
    BY <1>8, <1>u DEF LeaveStarted
  <1>9. CASE LeaveFailed(s)
    BY <1>9, <1>u DEF LeaveFailed
  <1> QED
    BY <1>1, <1>2, <1>3, <1>4, <1>5, <1>6, <1>7, <1>8, <1>9 DEF Start

\* The stop thread starts and stops a connection once.
LEMMA StartedStop ==
    ASSUME TypeOK, MonitorInv, NativeInv, StartedInv, NEW s \in Sessions, Stop(s)
    PROVE  StartedInv'
  <1>u. UNCHANGED ui => \A r \in Sessions : (StartPosted(r)' <=> StartPosted(r)) /\ (StartOnce(r) => StartOnce(r)')
    BY DEF StartPosted, StartOnce
  <1> USE SessionAssumption DEF TypeOK, NativeInv, StartedInv, MonitorInv, InStop, Stages, Set, Goto, StopStep,
              activityVars, flagVars, stopVars, decoderVars, sharedVars
  <1>1. CASE Interrupt(s)
    BY <1>1, <1>u DEF Interrupt
  <1>2. CASE EnterStop(s)
    BY <1>2, <1>u DEF EnterStop
  <1>3. CASE StopNative(s)
    BY <1>3, <1>u DEF StopNative
  <1>4. CASE CleanupBridge(s)
    BY <1>4, <1>u DEF CleanupBridge
  <1>5. CASE ReleasePermit(s)
    BY <1>5, <1>u DEF ReleasePermit
  <1> QED
    BY <1>1, <1>2, <1>3, <1>4, <1>5 DEF Stop

\* The thread of connectionTerminated starts and stops a connection once.
LEMMA StartedReport ==
    ASSUME TypeOK, MonitorInv, NativeInv, StartedInv, NEW s \in Sessions, Report(s)
    PROVE  StartedInv'
  <1>u. UNCHANGED ui => \A r \in Sessions : (StartPosted(r)' <=> StartPosted(r)) /\ (StartOnce(r) => StartOnce(r)')
    BY DEF StartPosted, StartOnce
  <1>p. \A q \in Sessions, message \in {"failed", "terminated"} : Post(q, message) =>
            \A r \in Sessions : (StartPosted(r)' <=> StartPosted(r)) /\ (StartOnce(r) => StartOnce(r)')
    BY PostOther DEF Messages
  <1> USE SessionAssumption DEF TypeOK, NativeInv, StartedInv, MonitorInv, InStop, Stages, Set, Goto, StopStep,
              activityVars, flagVars, stopVars, decoderVars, sharedVars
  <1>1. CASE Terminate(s)
    BY <1>1, <1>u DEF Terminate
  <1>2. CASE ReportTermination(s)
    BY <1>2, <1>p DEF ReportTermination
  <1> QED
    BY <1>1, <1>2 DEF Report

-----------------------------------------------------------------------------
(***************************************************************************)
(* The permit and the decoders                                             *)
(***************************************************************************)

\* A step that leaves the holders and the permits alone accounts for them.
LEMMA SameHolders ==
    ASSUME PermitAccounted, NoDecoderLeft, UNCHANGED <<permits, decoder, native>>,
           \A r \in Sessions : Holds(r)' <=> Holds(r)
    PROVE  PermitAccounted' /\ NoDecoderLeft'
  <1>1. (\E r \in Sessions : Holds(r)') <=> (\E r \in Sessions : Holds(r))
    OBVIOUS
  <1> QED
    BY <1>1 DEF PermitAccounted, NoDecoderLeft

\* The activity accounts for the permit and the decoders.
LEMMA PermitCallback ==
    ASSUME TypeOK, MonitorInv, NativeInv, StartedInv, PermitAccounted, NoDecoderLeft,
           NEW s \in Sessions, Callback(s)
    PROVE  PermitAccounted' /\ NoDecoderLeft'
  <1>a. SurfaceDestroyed(s) \/ OnStop(s) \/ HandleTerminated(s) => StoppedOrNot(s)
    BY StopConnectionSteps
  <1>c. (/\ UNCHANGED <<permits, decoder, native>>
         /\ \A r \in Sessions : Holds(r)' <=> Holds(r)) => PermitAccounted' /\ NoDecoderLeft'
    BY SameHolders
  <1> USE SessionAssumption DEF TypeOK, NativeInv, StartedInv, Stages, Set, Goto, StopStep, Holds, Busy,
          activityVars, flagVars, stopVars, decoderVars, sharedVars
  <1>1. CASE CreateGame(s)
    BY <1>1, <1>c DEF CreateGame
  <1>2. CASE Finish(s)
    BY <1>2, <1>c DEF Finish
  <1>3. CASE SurfaceCreated(s)
    BY <1>3, <1>c DEF SurfaceCreated
  <1>4. CASE SurfaceChanged(s)
    BY <1>4, <1>c DEF SurfaceChanged
  <1>5. CASE SurfaceDestroyed(s)
    BY <1>5, <1>a, <1>c DEF SurfaceDestroyed, StoppedOrNot
  <1>6. CASE OnStop(s)
    BY <1>6, <1>a, <1>c DEF OnStop, StoppedOrNot
  <1> QED
    BY <1>1, <1>2, <1>3, <1>4, <1>5, <1>6 DEF Callback

\* The UI thread accounts for the permit and the decoders.
LEMMA PermitRunnable ==
    ASSUME TypeOK, MonitorInv, NativeInv, StartedInv, PermitAccounted, NoDecoderLeft,
           NEW s \in Sessions, Runnable(s)
    PROVE  PermitAccounted' /\ NoDecoderLeft'
  <1>a. SurfaceDestroyed(s) \/ OnStop(s) \/ HandleTerminated(s) => StoppedOrNot(s)
    BY StopConnectionSteps
  <1>c. (/\ UNCHANGED <<permits, decoder, native>>
         /\ \A r \in Sessions : Holds(r)' <=> Holds(r)) => PermitAccounted' /\ NoDecoderLeft'
    BY SameHolders
  <1> USE SessionAssumption DEF TypeOK, NativeInv, StartedInv, Stages, Set, Goto, StopStep, Holds, Busy,
          activityVars, flagVars, stopVars, decoderVars, sharedVars
  <1>1. CASE HandleStarted(s)
    BY <1>1, <1>c DEF HandleStarted
  <1>2. CASE HandleFailed(s)
    BY <1>2, <1>c DEF HandleFailed
  <1>3. CASE HandleTerminated(s)
    BY <1>3, <1>a, <1>c DEF HandleTerminated, StoppedOrNot
  <1> QED
    BY <1>1, <1>2, <1>3 DEF Runnable

\* The start thread accounts for the permit and the decoders.
LEMMA PermitStart ==
    ASSUME TypeOK, MonitorInv, NativeInv, StartedInv, PermitAccounted, NoDecoderLeft,
           NEW s \in Sessions, Start(s)
    PROVE  PermitAccounted' /\ NoDecoderLeft'
  <1>b. \A r, q \in Sessions : Busy(r) /\ Busy(q) => r = q
    BY OneBusy
  <1> USE SessionAssumption DEF TypeOK, NativeInv, StartedInv, Stages, Set, Goto, StopStep, Holds, Busy,
          activityVars, flagVars, stopVars, decoderVars, sharedVars, PermitAccounted, NoDecoderLeft, CleanedUp
  <1>1. CASE StartApp(s)
    BY <1>1, <1>b DEF StartApp
  <1>2. CASE Acquire(s)
    BY <1>2, <1>b DEF Acquire
  <1>3. CASE EnterBridge(s)
    BY <1>3, <1>b DEF EnterBridge
  <1>4. CASE SetupVideo(s)
    BY <1>4, <1>b DEF SetupVideo
  <1>5. CASE StartVideo(s)
    BY <1>5, <1>b DEF StartVideo
  <1>6. CASE ConnectionStarted(s)
    BY <1>6, <1>b DEF ConnectionStarted
  <1>7. CASE StageFailed(s)
    BY <1>7, <1>b DEF StageFailed
  <1>8. CASE LeaveStarted(s)
    BY <1>8, <1>b DEF LeaveStarted
  <1>9. CASE LeaveFailed(s)
    BY <1>9, <1>b DEF LeaveFailed
  <1> QED
    BY <1>1, <1>2, <1>3, <1>4, <1>5, <1>6, <1>7, <1>8, <1>9 DEF Start

\* The stop thread accounts for the permit and the decoders.
LEMMA PermitStop ==
    ASSUME TypeOK, MonitorInv, NativeInv, StartedInv, PermitAccounted, NoDecoderLeft,
           NEW s \in Sessions, Stop(s)
    PROVE  PermitAccounted' /\ NoDecoderLeft'
  <1>b. \A r, q \in Sessions : Busy(r) /\ Busy(q) => r = q
    BY OneBusy
  <1> USE SessionAssumption DEF TypeOK, NativeInv, StartedInv, Stages, Set, Goto, StopStep, Holds, Busy,
          activityVars, flagVars, stopVars, decoderVars, sharedVars, PermitAccounted, NoDecoderLeft, CleanedUp
  <1>1. CASE Interrupt(s)
    BY <1>1, <1>b DEF Interrupt
  <1>2. CASE EnterStop(s)
    BY <1>2, <1>b DEF EnterStop
  <1>3. CASE StopNative(s)
    BY <1>3, <1>b DEF StopNative
  <1>4. CASE CleanupBridge(s)
    BY <1>4, <1>b DEF CleanupBridge
  <1>5. CASE ReleasePermit(s)
    BY <1>5, <1>b DEF ReleasePermit
  <1> QED
    BY <1>1, <1>2, <1>3, <1>4, <1>5 DEF Stop

\* The thread of connectionTerminated accounts for the permit and the decoders.
LEMMA PermitReport ==
    ASSUME TypeOK, MonitorInv, NativeInv, StartedInv, PermitAccounted, NoDecoderLeft,
           NEW s \in Sessions, Report(s)
    PROVE  PermitAccounted' /\ NoDecoderLeft'
  <1>c. (/\ UNCHANGED <<permits, decoder, native>>
         /\ \A r \in Sessions : Holds(r)' <=> Holds(r)) => PermitAccounted' /\ NoDecoderLeft'
    BY SameHolders
  <1> USE SessionAssumption DEF TypeOK, NativeInv, StartedInv, Stages, Set, Goto, StopStep, Holds, Busy,
          activityVars, flagVars, stopVars, decoderVars, sharedVars
  <1>1. CASE Terminate(s)
    BY <1>1, <1>c DEF Terminate
  <1>2. CASE ReportTermination(s)
    BY <1>2, <1>c DEF ReportTermination
  <1> QED
    BY <1>1, <1>2 DEF Report

-----------------------------------------------------------------------------
(***************************************************************************)
(* The theorems                                                            *)
(***************************************************************************)

\* Nobody holds the permit initially, and no connection exists.
LEMMA SessionInit == Init => IInv
  <1> SUFFICES ASSUME Init PROVE IInv
    OBVIOUS
  <1>1. TypeOK
    BY TypeInit
  <1>2. MonitorInv
    BY DEF Init, MonitorInv, InStart, InStop, Stages, Free
  <1>3. NativeInv
    BY SessionAssumption DEF Init, NativeInv, Stages
  <1>4. \A s \in Sessions : DOMAIN ui[s] = {}
    <2>1. \A s \in Sessions : ui[s] = <<>>
      BY DEF Init
    <2>2. DOMAIN <<>> = {}
      OBVIOUS
    <2> QED
      BY <2>1, <2>2
  <1>5. StartedInv
    BY <1>4 DEF Init, StartedInv, StartPosted, StartOnce
  <1>6. PermitAccounted /\ NoDecoderLeft
    BY SessionAssumption DEF Init, PermitAccounted, NoDecoderLeft, Holds, Stages
  <1> QED
    BY <1>1, <1>2, <1>3, <1>5, <1>6 DEF IInv

\* Every step keeps the invariant.
LEMMA SessionNext == IInv /\ [Next]_vars => IInv'
  <1> SUFFICES ASSUME IInv, [Next]_vars PROVE IInv'
    OBVIOUS
  <1>a. TypeOK /\ MonitorInv /\ NativeInv /\ StartedInv /\ PermitAccounted /\ NoDecoderLeft
    BY DEF IInv
  <1>1. CASE UNCHANGED vars
    <2>1. TypeOK'
      BY <1>a, TypeNext
    <2>2. MonitorInv' /\ NativeInv'
      BY <1>a, <1>1 DEF MonitorInv, NativeInv, InStart, InStop, vars, activityVars, stopVars, sharedVars
    <2>3. StartedInv'
      BY <1>a, <1>1 DEF StartedInv, StartPosted, StartOnce, vars, flagVars, stopVars, sharedVars
    <2>4. PermitAccounted' /\ NoDecoderLeft'
      BY <1>a, <1>1 DEF PermitAccounted, NoDecoderLeft, Holds, vars, stopVars, decoderVars, sharedVars
    <2> QED
      BY <2>1, <2>2, <2>3, <2>4 DEF IInv
  <1>2. CASE Next
    <2>1. PICK s \in Sessions : Callback(s) \/ Runnable(s) \/ Start(s) \/ Stop(s) \/ Report(s)
      BY <1>2 DEF Next
    <2>2. TypeOK'
      BY <1>a, TypeNext
    <2>3. MonitorInv' /\ NativeInv'
      BY <1>a, <2>1, ThreadsCallback, ThreadsRunnable, ThreadsStart, ThreadsStop, ThreadsReport
    <2>4. StartedInv'
      BY <1>a, <2>1, StartedCallback, StartedRunnable, StartedStart, StartedStop, StartedReport
    <2>5. PermitAccounted' /\ NoDecoderLeft'
      BY <1>a, <2>1, PermitCallback, PermitRunnable, PermitStart, PermitStop, PermitReport
    <2> QED
      BY <2>2, <2>3, <2>4, <2>5 DEF IInv
  <1> QED
    BY <1>1, <1>2

\* The permit of connectionAllowed is held by at most one session and given back exactly
\* once, by the start that failed or by the stop, for any number of sessions.
THEOREM OneConnection == Spec => []PermitAccounted
  <1>1. IInv => PermitAccounted
    BY DEF IInv
  <1> QED
    BY <1>1, SessionInit, SessionNext, PTL DEF Spec

\* The static fields of MoonBridge are those of the session whose connection the library
\* has, whatever sessions start and stop around it.
THEOREM BridgeOfConnection == Spec => []CallbacksRouted
  <1>1. IInv => CallbacksRouted
    BY DEF IInv, CallbacksRouted, NativeInv, TypeOK
  <1> QED
    BY <1>1, SessionInit, SessionNext, PTL DEF Spec

\* No decoder outlives the connection it was set up for.
THEOREM DecodersCleaned == Spec => []NoDecoderLeft
  <1>1. IInv => NoDecoderLeft
    BY DEF IInv
  <1> QED
    BY <1>1, SessionInit, SessionNext, PTL DEF Spec

\* NvConnection.stop runs once for a connection, after it started, whoever asks for it.
THEOREM SingleStop == Spec => [](ConnectedIsNative /\ StoppedOnce)
  <1>1. IInv => ConnectedIsNative /\ StoppedOnce
    BY DEF IInv, ConnectedIsNative, StoppedOnce, StartedInv, NativeInv
  <1> QED
    BY <1>1, SessionInit, SessionNext, PTL DEF Spec

=============================================================================
