-------------------------- MODULE VideoDecoderProof --------------------------
(***************************************************************************)
(* Proofs about VideoDecoder, for every number of attempts, exceptions and *)
(* HDR changes.                                                            *)
(***************************************************************************)
EXTENDS VideoDecoder, SequenceTheorems, TLAPS

(***************************************************************************)
(* Types                                                                   *)
(***************************************************************************)
Buffers == {"fresh", "stale"}

\* What belongs to Frames.
LEMMA FramesAre == \A q : q \in Frames <=> q \in Seq(Buffers) /\ Len(q) <= 2
  BY DEF Frames, Buffers, QueueLimit

\* Marking every queued frame stale, adding one to a queue that is not full and
\* taking one from a queue that is not empty keep the queue in its bounds.
LEMMA FrameQueues ==
    /\ <<>> \in Frames
    /\ \A q \in Frames :
          /\ [i \in DOMAIN q |-> "stale"] \in Frames
          /\ Len(q) # QueueLimit => Append(q, "fresh") \in Frames
          /\ q # <<>> => /\ Tail(q) \in Frames
                         /\ Append(Tail(q), "fresh") \in Frames
<1>1. <<>> \in Frames
  <2>1. <<>> \in Seq(Buffers) /\ Len(<<>>) = 0
    BY EmptySeq
  <2>2. Len(<<>>) <= 2
    BY <2>1
  <2> QED  BY <2>1, <2>2, FramesAre, Zenon
<1>2. ASSUME NEW q \in Frames
      PROVE  /\ q \in Seq(Buffers)
             /\ Len(q) \in Nat
             /\ Len(q) <= 2
             /\ "fresh" \in Buffers
  BY LenProperties, FramesAre DEF Buffers
<1>3. ASSUME NEW q \in Frames
      PROVE  [i \in DOMAIN q |-> "stale"] \in Frames
  <2> DEFINE r == [i \in 1..Len(q) |-> "stale"]
  <2>1. DOMAIN q = 1..Len(q)
    BY <1>2, LenProperties
  <2>2. r \in [1..Len(q) -> Buffers]
    BY DEF Buffers
  <2>3. r \in Seq(Buffers)
    BY <1>2, <2>2, SeqDef
  <2>4. Len(r) = Len(q)
    BY <1>2, <2>2, <2>3, LenProperties
  <2> QED  BY <1>2, <2>1, <2>3, <2>4, FramesAre
<1>4. ASSUME NEW q \in Frames, Len(q) # QueueLimit
      PROVE  Append(q, "fresh") \in Frames
  <2>1. Append(q, "fresh") \in Seq(Buffers) /\ Len(Append(q, "fresh")) = Len(q) + 1
    BY <1>2
  <2>2. Len(q) + 1 <= 2
    <3>1. Len(q) \in Nat /\ Len(q) <= 2 /\ Len(q) # 2
      BY <1>2, <1>4 DEF QueueLimit
    <3>2. \A n \in Nat : n <= 2 /\ n # 2 => n + 1 <= 2
      OBVIOUS
    <3> QED  BY <3>1, <3>2, Zenon
  <2> QED  BY <2>1, <2>2, FramesAre, Zenon
<1>5. ASSUME NEW q \in Frames, q # <<>>
      PROVE  Tail(q) \in Frames /\ Append(Tail(q), "fresh") \in Frames
  <2>1. Tail(q) \in Seq(Buffers) /\ Len(Tail(q)) = Len(q) - 1
    BY <1>2, <1>5, HeadTailProperties
  <2>2. /\ Append(Tail(q), "fresh") \in Seq(Buffers)
        /\ Len(Append(Tail(q), "fresh")) = Len(q)
    BY <1>2, <2>1
  <2>3. Len(Tail(q)) <= 2
    BY <1>2, <2>1
  <2>4. Len(Append(Tail(q), "fresh")) <= 2
    BY <1>2, <2>2
  <2> QED  BY <2>1, <2>2, <2>3, <2>4, FramesAre, Zenon
<1> QED  BY <1>1, <1>3, <1>4, <1>5

\* The same of outputQueue itself.
LEMMA QueueOps ==
    ASSUME TypeOK
    PROVE  /\ <<>> \in Frames
           /\ [i \in DOMAIN outputQueue |-> "stale"] \in Frames
           /\ Len(outputQueue) # QueueLimit => Append(outputQueue, "fresh") \in Frames
           /\ outputQueue # <<>> => /\ Tail(outputQueue) \in Frames
                                    /\ Append(Tail(outputQueue), "fresh") \in Frames
<1>1. outputQueue \in Frames
  BY DEF TypeOK
<1> QED  BY <1>1, FrameQueues

\* configureAndStartDecoder keeps the codec's own state in its ranges.
LEMMA TypeConfigure ==
    ASSUME TypeOK, ConfigureDecoder
    PROVE  /\ codec' = "ok" /\ configuredHdr' \in Nat
           /\ submittedCsd' \in BOOLEAN /\ csd' \in BOOLEAN /\ fed' = "empty"
           /\ nextInput' \in {"none", "stale"}
           /\ outputQueue' \in Frames
  BY QueueOps DEF ConfigureDecoder, TypeOK

\* Handling an exception of the codec keeps the shared state in its ranges.
LEMMA TypeException ==
    ASSUME TypeOK, NEW t \in Threads, HandleException(t)
    PROVE  TypeOK'
<1> USE DecoderAssumption DEF TypeOK, Threads, NONE, RESTART, RESET, RecoveryPcs, FixPcs,
        InputPcs, FetchPcs, QueuePcs, RenderPcs, ChoreoPcs, QueueLimit, Home, Goto,
        recoveryVars, threadVars, bufferVars, codecVars, frameVars, hdrVars, stopVars, envVars
<1>1. CASE ExceptionWhileStopping(t)
  BY <1>1 DEF ExceptionWhileStopping, DropInput
<1>2. CASE TransientException(t)
  BY <1>2 DEF TransientException
<1>3. CASE DemandRecovery(t)
  BY <1>3 DEF DemandRecovery, DropInput
<1>4. CASE ExhaustedException(t)
  BY <1>4 DEF ExhaustedException, DropInput
<1>5. CASE CasFromNone(t)
  BY <1>5 DEF CasFromNone, Requested
<1>6. CASE CasFromRestart(t)
  BY <1>6 DEF CasFromRestart, Requested
<1>7. CASE CheckRecoveryType(t)
  BY <1>7 DEF CheckRecoveryType, Requested
<1> QED  BY <1>1, <1>2, <1>3, <1>4, <1>5, <1>6, <1>7 DEF HandleException

\* Quiescing and recovering the codec keeps the shared state in its ranges.
LEMMA TypeRecover ==
    ASSUME TypeOK, NEW t \in Threads, Recover(t)
    PROVE  TypeOK'
<1>q. <<>> \in Frames
  BY QueueOps
<1>c. ConfigureDecoder =>
        /\ codec' = "ok" /\ configuredHdr' \in Nat
        /\ submittedCsd' \in BOOLEAN /\ csd' \in BOOLEAN /\ fed' = "empty"
        /\ nextInput' \in {"none", "stale"}
        /\ outputQueue' \in Frames
  BY TypeConfigure
<1> USE DecoderAssumption DEF TypeOK, Threads, NONE, RESTART, RESET, RecoveryPcs, FixPcs,
        InputPcs, FetchPcs, QueuePcs, RenderPcs, ChoreoPcs, QueueLimit, Home, Goto,
        recoveryVars, threadVars, bufferVars, codecVars, frameVars, hdrVars, stopVars, envVars
<1>1. CASE CheckRecovery(t)
  BY <1>1 DEF CheckRecovery, Return
<1>2. CASE Quiesce(t)
  BY <1>2 DEF Quiesce, Return
<1>3. CASE WakeUp(t)
  BY <1>3 DEF WakeUp, Return
<1>4. CASE BeginRecovery(t)
  BY <1>4, <1>q DEF BeginRecovery
<1>5. CASE RestartDecoder(t)
  <2>1. UNCHANGED <<attempts, initialException, wanted, frameVars, hdrVars, interrupted, quit,
                    stopper, faults, crash>>
    BY <1>5 DEF RestartDecoder
  <2>2. /\ codec' \in {"ok", "null", "released"} /\ configuredHdr' \in Nat
        /\ submittedCsd' \in BOOLEAN /\ csd' \in BOOLEAN
        /\ fed' \in {"empty", "csd", "decodable"}
        /\ nextInput' \in {"none", "fresh", "stale"}
        /\ outputQueue' \in Frames
    BY <1>5, <1>c DEF RestartDecoder, SurfaceInvalid
  <2>3. /\ recoveryType' \in {NONE, RESTART, RESET} /\ quiescedFlags' \subseteq Threads
        /\ stopping' \in BOOLEAN
    BY <1>5 DEF RestartDecoder, SurfaceInvalid, FinishRecovery
  <2>4. \/ UNCHANGED <<pc, after>>
        \/ pc' = [pc EXCEPT ![t] = "commit"] /\ after' = after
        \/ pc' = [pc EXCEPT ![t] = "recreate"] /\ after' = after
        \/ Return(t, TRUE)
    BY <1>5 DEF RestartDecoder, SurfaceInvalid, FinishRecovery
  <2> QED  BY <2>1, <2>2, <2>3, <2>4 DEF Return
<1>6. CASE ResetDecoder(t)
  <2>1. UNCHANGED <<attempts, initialException, wanted, frameVars, hdrVars, interrupted, quit,
                    stopper, faults, crash>>
    BY <1>6 DEF ResetDecoder
  <2>2. /\ codec' \in {"ok", "null", "released"} /\ configuredHdr' \in Nat
        /\ submittedCsd' \in BOOLEAN /\ csd' \in BOOLEAN
        /\ fed' \in {"empty", "csd", "decodable"}
        /\ nextInput' \in {"none", "fresh", "stale"}
        /\ outputQueue' \in Frames
    BY <1>6, <1>c DEF ResetDecoder, SurfaceInvalid
  <2>3. /\ recoveryType' \in {NONE, RESTART, RESET} /\ quiescedFlags' \subseteq Threads
        /\ stopping' \in BOOLEAN
    BY <1>6 DEF ResetDecoder, SurfaceInvalid, FinishRecovery
  <2>4. \/ UNCHANGED <<pc, after>>
        \/ pc' = [pc EXCEPT ![t] = "commit"] /\ after' = after
        \/ pc' = [pc EXCEPT ![t] = "recreate"] /\ after' = after
        \/ Return(t, TRUE)
    BY <1>6 DEF ResetDecoder, SurfaceInvalid, FinishRecovery
  <2> QED  BY <2>1, <2>2, <2>3, <2>4 DEF Return
<1>7. CASE RecreateDecoder(t)
  <2>1. UNCHANGED <<attempts, initialException, wanted, frameVars, hdrVars, interrupted, quit,
                    stopper, faults>>
    BY <1>7 DEF RecreateDecoder
  <2>2. /\ codec' \in {"ok", "null", "released"} /\ configuredHdr' \in Nat
        /\ submittedCsd' \in BOOLEAN /\ csd' \in BOOLEAN
        /\ fed' \in {"empty", "csd", "decodable"}
        /\ nextInput' \in {"none", "fresh", "stale"}
        /\ outputQueue' \in Frames
    BY <1>7, <1>c DEF RecreateDecoder, SurfaceInvalid
  <2>3. /\ recoveryType' \in {NONE, RESTART, RESET} /\ quiescedFlags' \subseteq Threads
        /\ stopping' \in BOOLEAN
    BY <1>7 DEF RecreateDecoder, SurfaceInvalid, FinishRecovery
  <2>4. \/ UNCHANGED <<pc, after>>
        \/ pc' = [pc EXCEPT ![t] = "commit"] /\ after' = after
        \/ pc' = [pc EXCEPT ![t] = "recreate"] /\ after' = after
        \/ Return(t, TRUE)
    BY <1>7 DEF RecreateDecoder, SurfaceInvalid, FinishRecovery
  <2>5. crash' \in {"no", "persistent", "unexpected", "unrecoverable", "hung", "cleanup"}
    BY <1>7 DEF RecreateDecoder
  <2> QED  BY <2>1, <2>2, <2>3, <2>4, <2>5 DEF Return
<1>8. CASE NothingToRecover(t)
  BY <1>8 DEF NothingToRecover, FinishRecovery, Return
<1>9. CASE CommitRecovery(t)
  BY <1>9 DEF CommitRecovery, FinishRecovery, Return
<1> QED  BY <1>1, <1>2, <1>3, <1>4, <1>5, <1>6, <1>7, <1>8, <1>9 DEF Recover

\* Submitting decode units keeps the shared state in its ranges.
LEMMA TypeInput ==
    ASSUME TypeOK, Input
    PROVE  TypeOK'
<1> USE DecoderAssumption DEF TypeOK, Threads, NONE, RESTART, RESET, RecoveryPcs, FixPcs,
        InputPcs, FetchPcs, QueuePcs, RenderPcs, ChoreoPcs, QueueLimit, Home, Goto,
        recoveryVars, threadVars, bufferVars, codecVars, frameVars, hdrVars, stopVars, envVars
<1>1. CASE NextFrame
  <2>1. UNCHANGED <<recoveryVars, after, wanted, bufferVars, codec, fed, submittedCsd,
                    configuredHdr, hdrVars, stopVars, envVars>>
    BY <1>1 DEF NextFrame
  <2>2. csd' \in BOOLEAN /\ frame' \in {"IDR", "P"} /\ idrWanted' \in BOOLEAN
    BY <1>1 DEF NextFrame
  <2>3. \/ pc' = [pc EXCEPT !["input"] = "preCsd"]
        \/ pc' = [pc EXCEPT !["input"] = "prePic"]
    BY <1>1 DEF NextFrame
  <2> QED  BY <2>1, <2>2, <2>3
<1>2. CASE FetchCached
  <2>1. AfterFetch(pc["input"]) \in InputPcs
    <3>1. pc["input"] \in {"preCsd", "postCsd", "prePic", "postPic"}
      BY <1>2 DEF FetchCached
    <3> QED  BY <3>1 DEF AfterFetch
  <2> QED  BY <1>2, <2>1 DEF FetchCached
<1>3. CASE FetchFromCodec
  BY <1>3 DEF FetchFromCodec, AfterFetch, CallRecovery, Throw
<1>4. CASE NoInputBuffer
  BY <1>4 DEF NoInputBuffer
<1>5. CASE QueueInput
  BY <1>5 DEF QueueInput, CallRecovery, Throw, Feed
<1>6. CASE CsdSubmitted
  BY <1>6 DEF CsdSubmitted
<1>7. CASE NeedIdr
  BY <1>7 DEF NeedIdr
<1> QED  BY <1>1, <1>2, <1>3, <1>4, <1>5, <1>6, <1>7 DEF Input

\* The renderer thread keeps the shared state in its ranges.
LEMMA TypeRender ==
    ASSUME TypeOK, Render
    PROVE  TypeOK'
<1>q. /\ <<>> \in Frames
      /\ [i \in DOMAIN outputQueue |-> "stale"] \in Frames
      /\ Len(outputQueue) # QueueLimit => Append(outputQueue, "fresh") \in Frames
      /\ outputQueue # <<>> => /\ Tail(outputQueue) \in Frames
                               /\ Append(Tail(outputQueue), "fresh") \in Frames
  BY QueueOps
<1> USE DecoderAssumption DEF TypeOK, Threads, NONE, RESTART, RESET, RecoveryPcs, FixPcs,
        InputPcs, FetchPcs, QueuePcs, RenderPcs, ChoreoPcs, QueueLimit, Home, Goto,
        recoveryVars, threadVars, bufferVars, codecVars, frameVars, hdrVars, stopVars, envVars
<1>1. CASE RenderLoop
  BY <1>1 DEF RenderLoop
<1>2. CASE DequeueOutput
  <2>1. outputQueue' \in Frames
    BY <1>2, <1>q DEF DequeueOutput
  <2> QED  BY <1>2, <2>1 DEF DequeueOutput, CallRecovery, Throw
<1>3. CASE TakeOldest
  <2>1. outputQueue' \in Frames
    BY <1>3, <1>q DEF TakeOldest
  <2>2. \/ /\ pc' = [pc EXCEPT !["render"] = "rec"]
           /\ \/ after' = [after EXCEPT !["render"] = "dead"]
              \/ after' = [after EXCEPT !["render"] = "loop"]
        \/ /\ pc' = [pc EXCEPT !["render"] = "exc"]
           /\ after' = [after EXCEPT !["render"] = "loop"]
    BY <1>3 DEF TakeOldest, CallRecovery, Throw
  <2>3. interrupted' \in BOOLEAN
    BY <1>3 DEF TakeOldest
  <2>4. faults' \in Nat
    BY <1>3 DEF TakeOldest, Throw
  <2>5. UNCHANGED <<recoveryVars, wanted, nextInput, codecVars, frameVars, hdrVars,
                    stopping, quit, stopper, crash>>
    BY <1>3 DEF TakeOldest
  <2> QED  BY <2>1, <2>2, <2>3, <2>4, <2>5
<1>4. CASE WakeInterrupted
  BY <1>4 DEF WakeInterrupted, Return
<1> QED  BY <1>1, <1>2, <1>3, <1>4 DEF Render

\* The choreographer thread keeps the shared state in its ranges.
LEMMA TypeChoreo ==
    ASSUME TypeOK, Choreo
    PROVE  TypeOK'
<1>q. /\ <<>> \in Frames
      /\ [i \in DOMAIN outputQueue |-> "stale"] \in Frames
      /\ Len(outputQueue) # QueueLimit => Append(outputQueue, "fresh") \in Frames
      /\ outputQueue # <<>> => /\ Tail(outputQueue) \in Frames
                               /\ Append(Tail(outputQueue), "fresh") \in Frames
  BY QueueOps
<1> USE DecoderAssumption DEF TypeOK, Threads, NONE, RESTART, RESET, RecoveryPcs, FixPcs,
        InputPcs, FetchPcs, QueuePcs, RenderPcs, ChoreoPcs, QueueLimit, Home, Goto,
        recoveryVars, threadVars, bufferVars, codecVars, frameVars, hdrVars, stopVars, envVars
<1>1. CASE StartChoreographer
  BY <1>1 DEF StartChoreographer
<1>2. CASE DoFrame
  <2>1. outputQueue' \in Frames
    BY <1>2, <1>q DEF DoFrame, CallRecovery
  <2> QED  BY <1>2, <2>1 DEF DoFrame, CallRecovery
<1>3. CASE ReleaseFrame
  BY <1>3 DEF ReleaseFrame, CallRecovery, Throw
<1>4. CASE QuitLooper
  BY <1>4 DEF QuitLooper
<1> QED  BY <1>1, <1>2, <1>3, <1>4 DEF Choreo

\* An HDR change keeps the shared state in its ranges.
LEMMA TypeHdr ==
    ASSUME TypeOK, Hdr
    PROVE  TypeOK'
<1> USE DecoderAssumption DEF TypeOK, Threads, NONE, RESTART, RESET, RecoveryPcs, FixPcs,
        InputPcs, FetchPcs, QueuePcs, RenderPcs, ChoreoPcs, QueueLimit, Home, Goto,
        recoveryVars, threadVars, bufferVars, codecVars, frameVars, hdrVars, stopVars, envVars
<1>1. CASE SetHdrMetadata
  BY <1>1 DEF SetHdrMetadata
<1>2. CASE PromoteToRestart
  BY <1>2 DEF PromoteToRestart
<1> QED  BY <1>1, <1>2 DEF Hdr

\* Stopping keeps the shared state in its ranges.
LEMMA TypeStop ==
    ASSUME TypeOK, NEW s \in Stoppers, Stop(s)
    PROVE  TypeOK'
<1> USE DecoderAssumption DEF TypeOK, Threads, NONE, RESTART, RESET, RecoveryPcs, FixPcs,
        InputPcs, FetchPcs, QueuePcs, RenderPcs, ChoreoPcs, QueueLimit, Home, Goto,
        recoveryVars, threadVars, bufferVars, codecVars, frameVars, hdrVars, stopVars, envVars
<1>1. CASE PrepareForStop(s)
  BY <1>1 DEF PrepareForStop, Step
<1>2. CASE InterruptRenderer(s)
  BY <1>2 DEF InterruptRenderer, Step
<1>3. CASE CancelRecovery(s)
  BY <1>3 DEF CancelRecovery, Step
<1>4. CASE PostQuit(s)
  BY <1>4 DEF PostQuit, Step, ChoreographerNull
<1> QED  BY <1>1, <1>2, <1>3, <1>4 DEF Stop

\* Joining the threads and cleaning up keeps the shared state in its ranges.
LEMMA TypeTeardown ==
    ASSUME TypeOK, Teardown
    PROVE  TypeOK'
<1> USE DecoderAssumption DEF TypeOK, Threads, NONE, RESTART, RESET, RecoveryPcs, FixPcs,
        InputPcs, FetchPcs, QueuePcs, RenderPcs, ChoreoPcs, QueueLimit, Home, Goto,
        recoveryVars, threadVars, bufferVars, codecVars, frameVars, hdrVars, stopVars, envVars
<1>1. CASE JoinChoreographer
  BY <1>1 DEF JoinChoreographer, Step
<1>2. CASE JoinRenderer
  BY <1>2 DEF JoinRenderer, Step
<1>3. CASE Cleanup
  BY <1>3 DEF Cleanup, Step
<1> QED  BY <1>1, <1>2, <1>3 DEF Teardown

\* Every step of the specification keeps the shared state in its ranges.
LEMMA TypeStep ==
    ASSUME TypeOK, [Next]_vars
    PROVE  TypeOK'
<1>1. CASE UNCHANGED vars
  BY <1>1 DEF TypeOK, vars, recoveryVars, threadVars, bufferVars, codecVars, frameVars,
              hdrVars, stopVars, envVars
<1>2. ASSUME NEW t \in Threads, HandleException(t) \/ Recover(t)
      PROVE  TypeOK'
  BY <1>2, TypeException, TypeRecover
<1>3. ASSUME NEW s \in Stoppers, Stop(s)
      PROVE  TypeOK'
  BY <1>3, TypeStop
<1>4. CASE Input \/ Render \/ Choreo \/ Hdr \/ Teardown
  BY <1>4, TypeInput, TypeRender, TypeChoreo, TypeHdr, TypeTeardown
<1> QED  BY <1>1, <1>2, <1>3, <1>4 DEF Next, Terminated

\* The shared state of the codec threads is always in its ranges, and at most
\* OUTPUT_BUFFER_QUEUE_LIMIT frames are held back from the codec.
THEOREM TypeCorrect == Spec => []TypeOK
<1>1. Init => TypeOK
  <2> SUFFICES ASSUME Init PROVE TypeOK
    OBVIOUS
  <2> USE DEF Init, Threads, RecoveryPcs, FixPcs, InputPcs, FetchPcs, QueuePcs, RenderPcs,
              ChoreoPcs
  <2>1. /\ pc \in [Threads -> RecoveryPcs \cup InputPcs \cup RenderPcs \cup ChoreoPcs]
        /\ pc["input"] = "idle" /\ pc["render"] = "loop" /\ pc["choreo"] \in {"absent", "unborn"}
    OBVIOUS
  <2>2. outputQueue \in Frames
    BY FrameQueues
  <2>3. /\ after \in [Threads -> InputPcs \cup RenderPcs \cup ChoreoPcs]
        /\ after["input"] = "fail" /\ after["render"] = "loop" /\ after["choreo"] = "idle"
    BY DEF Home
  <2> QED  BY <2>1, <2>2, <2>3, DecoderAssumption DEF TypeOK, NONE, RESTART, RESET
<1>2. TypeOK /\ [Next]_vars => TypeOK'
  BY TypeStep
<1> QED  BY <1>1, <1>2, PTL DEF Spec

-----------------------------------------------------------------------------
(***************************************************************************)
(* Recovery is exclusive                                                   *)
(*                                                                         *)
(* RecoveryExclusive is not inductive: it is a consequence of the flags.   *)
(* A thread whose flag is set is at rest, and it stays at rest until the   *)
(* flags are cleared, because it only leaves the wait when the recovery is *)
(* over or called off.  Recoveries are called off when the decoder stops,  *)
(* and a thread that comes out of a recovery while the decoder stops does  *)
(* not use the codec again.                                                *)
(***************************************************************************)

\* t does not use the codec, and will not before the flags are cleared
Quiet(t) ==
    \/ pc[t] \in {"wait", "absent"} \cup FixPcs
    \/ stopping /\ pc[t] \in {"fail", "idle", "loop", "dead"}

FlaggedQuiet == \A t \in quiescedFlags : Quiet(t)

FixerAlone ==
    \A t \in Threads : pc[t] \in FixPcs =>
        /\ quiescedFlags = Threads
        /\ \A u \in Threads : u # t => pc[u] \notin FixPcs

\* Until the choreographer runs nobody gets as far as a recovery
BeforeChoreographer ==
    pc["choreo"] = "unborn" =>
        /\ quiescedFlags = {}
        /\ pc["input"] = "idle"
        /\ pc["render"] \in {"loop", "deq", "dead"}

\* A thread on its way into a recovery only finds that there is none if it was
\* called off
CalledOff ==
    \A t \in Threads :
        /\ pc[t] = "mon" /\ recoveryType = NONE => stopping
        /\ pc[t] = "wait" /\ t \in quiescedFlags /\ recoveryType = NONE => stopping

StoppersStop ==
    /\ \A s \in Stoppers : stopper[s] # "none" => stopping
    /\ interrupted => stopping

\* The buffers were invalidated before the codec is touched
FixerClean ==
    \A t \in Threads : pc[t] \in {"attempt", "recreate", "commit"} =>
        nextInput = "none" /\ outputQueue = <<>>

QuiesceInv == FlaggedQuiet /\ FixerAlone /\ BeforeChoreographer /\ CalledOff /\ StoppersStop

AllFresh(q) == \A i \in DOMAIN q : q[i] # "stale"
BufferInv == FixerClean /\ nextInput # "stale" /\ AllFresh(outputQueue)

\* Handling an exception does not disturb a recovery.
LEMMA QuietException ==
    ASSUME TypeOK, ~SlowStart, QuiesceInv, NEW t \in Threads, HandleException(t)
    PROVE  QuiesceInv'
<1> USE DecoderAssumption DEF TypeOK, RecoveryPcs, InputPcs, FetchPcs, QueuePcs, RenderPcs, ChoreoPcs,
        Home, QuiesceInv, Threads, NONE, RESTART, RESET, FixPcs, Goto, Quiet, FlaggedQuiet, FixerAlone,
        BeforeChoreographer, CalledOff, StoppersStop, recoveryVars, threadVars, stopVars, envVars
<1>1. CASE ExceptionWhileStopping(t)
  BY <1>1 DEF ExceptionWhileStopping
<1>2. CASE TransientException(t)
  BY <1>2 DEF TransientException
<1>3. CASE DemandRecovery(t)
  BY <1>3 DEF DemandRecovery
<1>4. CASE ExhaustedException(t)
  BY <1>4 DEF ExhaustedException
<1>5. CASE CasFromNone(t)
  BY <1>5 DEF CasFromNone, Requested
<1>6. CASE CasFromRestart(t)
  BY <1>6 DEF CasFromRestart, Requested
<1>7. CASE CheckRecoveryType(t)
  BY <1>7 DEF CheckRecoveryType, Requested
<1> QED  BY <1>1, <1>2, <1>3, <1>4, <1>5, <1>6, <1>7 DEF HandleException

\* Quiescing and recovering keep the flags honest.
LEMMA QuietRecover ==
    ASSUME TypeOK, ~SlowStart, QuiesceInv, NEW t \in Threads, Recover(t)
    PROVE  QuiesceInv'
<1> USE DecoderAssumption DEF TypeOK, RecoveryPcs, InputPcs, FetchPcs, QueuePcs, RenderPcs, ChoreoPcs,
        Home, QuiesceInv, Threads, NONE, RESTART, RESET, FixPcs, Goto, Quiet, FlaggedQuiet, FixerAlone,
        BeforeChoreographer, CalledOff, StoppersStop, recoveryVars, threadVars, stopVars, envVars
<1>1. CASE CheckRecovery(t)
  BY <1>1 DEF CheckRecovery, Return
<1>2. CASE Quiesce(t)
  BY <1>2 DEF Quiesce, Return, MonitorFree, ChoreographerNull
<1>3. CASE WakeUp(t)
  BY <1>3 DEF WakeUp, Return, MonitorFree
<1>4. CASE BeginRecovery(t)
  BY <1>4 DEF BeginRecovery
<1>5. CASE RestartDecoder(t)
  BY <1>5 DEF RestartDecoder, SurfaceInvalid, FinishRecovery, Return
<1>6. CASE ResetDecoder(t)
  BY <1>6 DEF ResetDecoder, SurfaceInvalid, FinishRecovery, Return
<1>7. CASE RecreateDecoder(t)
  BY <1>7 DEF RecreateDecoder, SurfaceInvalid, FinishRecovery, Return
<1>8. CASE NothingToRecover(t)
  BY <1>8 DEF NothingToRecover, FinishRecovery, Return
<1>9. CASE CommitRecovery(t)
  BY <1>9 DEF CommitRecovery, FinishRecovery, Return
<1> QED  BY <1>1, <1>2, <1>3, <1>4, <1>5, <1>6, <1>7, <1>8, <1>9 DEF Recover

\* The input thread does not disturb a recovery.
LEMMA QuietInput ==
    ASSUME TypeOK, ~SlowStart, QuiesceInv, Input
    PROVE  QuiesceInv'
<1> USE DecoderAssumption DEF TypeOK, RecoveryPcs, InputPcs, FetchPcs, QueuePcs, RenderPcs, ChoreoPcs,
        Home, QuiesceInv, Threads, NONE, RESTART, RESET, FixPcs, Goto, Quiet, FlaggedQuiet, FixerAlone,
        BeforeChoreographer, CalledOff, StoppersStop, recoveryVars, threadVars, stopVars, envVars
<1>1. CASE NextFrame
  BY <1>1 DEF NextFrame
<1>2. CASE FetchCached
  BY <1>2 DEF FetchCached, AfterFetch
<1>3. CASE FetchFromCodec
  BY <1>3 DEF FetchFromCodec, CallRecovery, Throw
<1>4. CASE NoInputBuffer
  BY <1>4 DEF NoInputBuffer
<1>5. CASE QueueInput
  BY <1>5 DEF QueueInput, CallRecovery, Throw
<1>6. CASE CsdSubmitted
  BY <1>6 DEF CsdSubmitted
<1>7. CASE NeedIdr
  BY <1>7 DEF NeedIdr
<1> QED  BY <1>1, <1>2, <1>3, <1>4, <1>5, <1>6, <1>7 DEF Input

\* The renderer thread does not disturb a recovery.
LEMMA QuietRender ==
    ASSUME TypeOK, ~SlowStart, QuiesceInv, Render
    PROVE  QuiesceInv'
<1> USE DecoderAssumption DEF TypeOK, RecoveryPcs, InputPcs, FetchPcs, QueuePcs, RenderPcs, ChoreoPcs,
        Home, QuiesceInv, Threads, NONE, RESTART, RESET, FixPcs, Goto, Quiet, FlaggedQuiet, FixerAlone,
        BeforeChoreographer, CalledOff, StoppersStop, recoveryVars, threadVars, stopVars, envVars
<1>1. CASE RenderLoop
  BY <1>1 DEF RenderLoop
<1>2. CASE DequeueOutput
  BY <1>2 DEF DequeueOutput, CallRecovery, Throw
<1>3. CASE TakeOldest
  BY <1>3 DEF TakeOldest, CallRecovery, Throw
<1>4. CASE WakeInterrupted
  BY <1>4 DEF WakeInterrupted, Return, MonitorFree
<1> QED  BY <1>1, <1>2, <1>3, <1>4 DEF Render

\* The choreographer thread does not disturb a recovery.
LEMMA QuietChoreo ==
    ASSUME TypeOK, ~SlowStart, QuiesceInv, Choreo
    PROVE  QuiesceInv'
<1> USE DecoderAssumption DEF TypeOK, RecoveryPcs, InputPcs, FetchPcs, QueuePcs, RenderPcs, ChoreoPcs,
        Home, QuiesceInv, Threads, NONE, RESTART, RESET, FixPcs, Goto, Quiet, FlaggedQuiet, FixerAlone,
        BeforeChoreographer, CalledOff, StoppersStop, recoveryVars, threadVars, stopVars, envVars
<1>1. CASE StartChoreographer
  BY <1>1 DEF StartChoreographer
<1>2. CASE DoFrame
  BY <1>2 DEF DoFrame, CallRecovery
<1>3. CASE ReleaseFrame
  BY <1>3 DEF ReleaseFrame, CallRecovery, Throw
<1>4. CASE QuitLooper
  BY <1>4 DEF QuitLooper
<1> QED  BY <1>1, <1>2, <1>3, <1>4 DEF Choreo

\* An HDR change does not disturb a recovery.
LEMMA QuietHdr ==
    ASSUME TypeOK, ~SlowStart, QuiesceInv, Hdr
    PROVE  QuiesceInv'
<1> USE DecoderAssumption DEF TypeOK, RecoveryPcs, InputPcs, FetchPcs, QueuePcs, RenderPcs, ChoreoPcs,
        Home, QuiesceInv, Threads, NONE, RESTART, RESET, FixPcs, Goto, Quiet, FlaggedQuiet, FixerAlone,
        BeforeChoreographer, CalledOff, StoppersStop, recoveryVars, threadVars, stopVars, envVars
<1>1. CASE SetHdrMetadata
  BY <1>1 DEF SetHdrMetadata
<1>2. CASE PromoteToRestart
  BY <1>2 DEF PromoteToRestart
<1> QED  BY <1>1, <1>2 DEF Hdr

\* Stopping does not disturb a recovery.
LEMMA QuietStop ==
    ASSUME TypeOK, ~SlowStart, QuiesceInv, NEW s \in Stoppers, Stop(s)
    PROVE  QuiesceInv'
<1> USE DecoderAssumption DEF TypeOK, RecoveryPcs, InputPcs, FetchPcs, QueuePcs, RenderPcs, ChoreoPcs,
        Home, QuiesceInv, Threads, NONE, RESTART, RESET, FixPcs, Goto, Quiet, FlaggedQuiet, FixerAlone,
        BeforeChoreographer, CalledOff, StoppersStop, recoveryVars, threadVars, stopVars, envVars
<1>1. CASE PrepareForStop(s)
  BY <1>1 DEF PrepareForStop, Step
<1>2. CASE InterruptRenderer(s)
  BY <1>2 DEF InterruptRenderer, Step
<1>3. CASE CancelRecovery(s)
  BY <1>3 DEF CancelRecovery, Step, MonitorFree
<1>4. CASE PostQuit(s)
  BY <1>4 DEF PostQuit, Step
<1> QED  BY <1>1, <1>2, <1>3, <1>4 DEF Stop

\* Tearing down does not disturb a recovery.
LEMMA QuietTeardown ==
    ASSUME TypeOK, ~SlowStart, QuiesceInv, Teardown
    PROVE  QuiesceInv'
<1> USE DecoderAssumption DEF TypeOK, RecoveryPcs, InputPcs, FetchPcs, QueuePcs, RenderPcs, ChoreoPcs,
        Home, QuiesceInv, Threads, NONE, RESTART, RESET, FixPcs, Goto, Quiet, FlaggedQuiet, FixerAlone,
        BeforeChoreographer, CalledOff, StoppersStop, recoveryVars, threadVars, stopVars, envVars
<1>1. CASE JoinChoreographer
  BY <1>1 DEF JoinChoreographer, Step
<1>2. CASE JoinRenderer
  BY <1>2 DEF JoinRenderer, Step
<1>3. CASE Cleanup
  BY <1>3 DEF Cleanup, Step
<1> QED  BY <1>1, <1>2, <1>3 DEF Teardown
\* Every step keeps the flags honest.
LEMMA QuietStep ==
    ASSUME TypeOK, ~SlowStart, QuiesceInv, [Next]_vars
    PROVE  QuiesceInv'
<1>1. CASE UNCHANGED vars
  BY <1>1 DEF QuiesceInv, FlaggedQuiet, Quiet, FixerAlone, BeforeChoreographer, CalledOff,
              StoppersStop, vars, recoveryVars, threadVars, stopVars
<1>2. ASSUME NEW t \in Threads, HandleException(t) \/ Recover(t)
      PROVE  QuiesceInv'
  BY <1>2, QuietException, QuietRecover
<1>3. ASSUME NEW s \in Stoppers, Stop(s)
      PROVE  QuiesceInv'
  BY <1>3, QuietStop
<1>4. CASE Input \/ Render \/ Choreo \/ Hdr \/ Teardown
  BY <1>4, QuietInput, QuietRender, QuietChoreo, QuietHdr, QuietTeardown
<1> QED  BY <1>1, <1>2, <1>3, <1>4 DEF Next, Terminated

\* While one thread recovers the codec no other is in a place where it uses it.
LEMMA FixerExcludes ==
    ASSUME TypeOK, QuiesceInv
    PROVE  /\ RecoveryExclusive
           /\ \A t \in Threads : pc[t] \in FixPcs =>
                 \A u \in Threads : u # t => Quiet(u) /\ pc[u] \notin FixPcs \cup CodecPcs
<1>1. ASSUME NEW t \in Threads, NEW u \in Threads, pc[t] \in FixPcs, u # t
      PROVE  Quiet(u) /\ pc[u] \notin FixPcs \cup CodecPcs
  <2>1. Quiet(u) /\ pc[u] \notin FixPcs
    BY <1>1 DEF QuiesceInv, FixerAlone, FlaggedQuiet
  <2> QED  BY <2>1 DEF Quiet, CodecPcs, FetchPcs, QueuePcs
<1> QED  BY <1>1 DEF RecoveryExclusive

\* The recovery of the codec is exclusive: while a thread restarts, resets or recreates
\* it, no other thread is between two calls of it, whatever exceptions, HDR changes and
\* stops there are.  (It needs ~SlowStart: see ChoreographerNull.)
THEOREM ExclusiveRecovery == ~SlowStart /\ Spec => []RecoveryExclusive
<1> SUFFICES ASSUME ~SlowStart PROVE Spec => []RecoveryExclusive
  OBVIOUS
<1>1. Init => QuiesceInv
  BY DEF Init, QuiesceInv, FlaggedQuiet, FixerAlone, BeforeChoreographer, CalledOff,
         StoppersStop, Threads, FixPcs
<1>2. TypeOK /\ QuiesceInv /\ [Next]_vars => QuiesceInv'
  BY QuietStep
<1>3. TypeOK /\ QuiesceInv => RecoveryExclusive
  BY FixerExcludes
<1> QED  BY <1>1, <1>2, <1>3, TypeCorrect, PTL DEF Spec
-----------------------------------------------------------------------------
(***************************************************************************)
(* No buffer survives the life of the codec it belongs to                  *)
(***************************************************************************)

\* The queue operations of the renderer and the choreographer, on fresh frames.
LEMMA FreshQueues ==
    /\ AllFresh(<<>>)
    /\ [i \in DOMAIN <<>> |-> "stale"] = <<>>
    /\ \A q \in Frames : AllFresh(q) =>
          /\ AllFresh(Append(q, "fresh"))
          /\ q # <<>> => AllFresh(Tail(q)) /\ AllFresh(Append(Tail(q), "fresh"))
<1>1. AllFresh(<<>>)
  BY DEF AllFresh
<1>2. [i \in DOMAIN <<>> |-> "stale"] = <<>>
  OBVIOUS
<1>3. ASSUME NEW q \in Seq(Buffers), AllFresh(q)
      PROVE  AllFresh(Append(q, "fresh"))
  <2>1. ASSUME NEW i \in 1..Len(Append(q, "fresh"))
        PROVE  Append(q, "fresh")[i] # "stale"
    <3>1. "fresh" \in Buffers /\ Len(q) \in Nat /\ DOMAIN q = 1..Len(q)
      BY LenProperties DEF Buffers
    <3>2. Len(Append(q, "fresh")) = Len(q) + 1
      BY <3>1, AppendProperties
    <3>3. i \in 1..(Len(q) + 1)
      BY <3>2
    <3>4. CASE i \in 1..Len(q)
      <4>1. Append(q, "fresh")[i] = q[i]
        BY <3>1, <3>4, AppendProperties
      <4>2. q[i] # "stale"
        BY <1>3, <3>1, <3>4 DEF AllFresh
      <4> QED  BY <4>1, <4>2
    <3>5. CASE i = Len(q) + 1
      <4>1. Append(q, "fresh")[Len(q) + 1] = "fresh"
        BY <3>1, AppendProperties
      <4> QED  BY <3>5, <4>1
    <3> QED  BY <3>1, <3>3, <3>4, <3>5
  <2>2. DOMAIN Append(q, "fresh") = 1..Len(Append(q, "fresh"))
    <3>1. Append(q, "fresh") \in Seq(Buffers)
      BY AppendProperties DEF Buffers
    <3> QED  BY <3>1, LenProperties
  <2> QED  BY <2>1, <2>2 DEF AllFresh
<1>4. ASSUME NEW q \in Seq(Buffers), AllFresh(q), q # <<>>
      PROVE  Tail(q) \in Seq(Buffers) /\ AllFresh(Tail(q))
  <2>1. /\ Tail(q) \in Seq(Buffers) /\ Len(Tail(q)) = Len(q) - 1
        /\ \A i \in 1..Len(Tail(q)) : Tail(q)[i] = q[i + 1]
    BY <1>4, HeadTailProperties
  <2>2. /\ Len(q) \in Nat /\ DOMAIN q = 1..Len(q)
        /\ Len(Tail(q)) \in Nat /\ DOMAIN Tail(q) = 1..Len(Tail(q))
    BY <2>1, LenProperties
  <2>3. ASSUME NEW i \in 1..Len(Tail(q))
        PROVE  Tail(q)[i] # "stale"
    <3>1. i + 1 \in 1..Len(q)
      BY <2>1, <2>2
    <3> QED  BY <1>4, <2>1, <2>2, <3>1 DEF AllFresh
  <2> QED  BY <2>1, <2>2, <2>3 DEF AllFresh
<1>5. \A q \in Frames : q \in Seq(Buffers)
  BY FramesAre
<1> QED  BY <1>1, <1>2, <1>3, <1>4, <1>5
\* Handling an exception only gives buffers up.
LEMMA FreshException ==
    ASSUME TypeOK, QuiesceInv, BufferInv, NEW t \in Threads, HandleException(t)
    PROVE  BufferInv'
<1>x. RecoveryExclusive /\ \A v \in Threads : pc[v] \in FixPcs =>
          \A u \in Threads : u # v => Quiet(u) /\ pc[u] \notin FixPcs \cup CodecPcs
  BY FixerExcludes
<1>q. /\ AllFresh(<<>>)
      /\ [i \in DOMAIN <<>> |-> "stale"] = <<>>
      /\ AllFresh(outputQueue) =>
            /\ AllFresh(Append(outputQueue, "fresh"))
            /\ outputQueue # <<>> => /\ AllFresh(Tail(outputQueue))
                                     /\ AllFresh(Append(Tail(outputQueue), "fresh"))
  BY FreshQueues DEF TypeOK
<1> USE DEF TypeOK, Threads, FixPcs, FetchPcs, QueuePcs, CodecPcs, InputPcs, RenderPcs, ChoreoPcs, Goto,
        Home, Quiet, BufferInv, FixerClean, recoveryVars, threadVars, bufferVars, codecVars, stopVars
<1>1. CASE ExceptionWhileStopping(t)
  BY <1>1, <1>x, <1>q DEF ExceptionWhileStopping, DropInput
<1>2. CASE TransientException(t)
  BY <1>2, <1>x, <1>q DEF TransientException
<1>3. CASE DemandRecovery(t)
  BY <1>3, <1>x, <1>q DEF DemandRecovery, DropInput
<1>4. CASE ExhaustedException(t)
  BY <1>4, <1>x, <1>q DEF ExhaustedException, DropInput
<1>5. CASE CasFromNone(t)
  BY <1>5, <1>x, <1>q DEF CasFromNone, Requested
<1>6. CASE CasFromRestart(t)
  BY <1>6, <1>x, <1>q DEF CasFromRestart, Requested
<1>7. CASE CheckRecoveryType(t)
  BY <1>7, <1>x, <1>q DEF CheckRecoveryType, Requested
<1> QED  BY <1>1, <1>2, <1>3, <1>4, <1>5, <1>6, <1>7 DEF HandleException

\* A codec gets a new life only when none of its buffers is left.
LEMMA FreshRecover ==
    ASSUME TypeOK, QuiesceInv, BufferInv, NEW t \in Threads, Recover(t)
    PROVE  BufferInv'
<1>x. RecoveryExclusive /\ \A v \in Threads : pc[v] \in FixPcs =>
          \A u \in Threads : u # v => Quiet(u) /\ pc[u] \notin FixPcs \cup CodecPcs
  BY FixerExcludes
<1>q. /\ AllFresh(<<>>)
      /\ [i \in DOMAIN <<>> |-> "stale"] = <<>>
      /\ AllFresh(outputQueue) =>
            /\ AllFresh(Append(outputQueue, "fresh"))
            /\ outputQueue # <<>> => /\ AllFresh(Tail(outputQueue))
                                     /\ AllFresh(Append(Tail(outputQueue), "fresh"))
  BY FreshQueues DEF TypeOK
<1> USE DEF TypeOK, Threads, FixPcs, FetchPcs, QueuePcs, CodecPcs, InputPcs, RenderPcs, ChoreoPcs, Goto,
        Home, Quiet, BufferInv, FixerClean, recoveryVars, threadVars, bufferVars, codecVars, stopVars
<1>1. CASE CheckRecovery(t)
  BY <1>1, <1>x, <1>q DEF CheckRecovery, Return
<1>2. CASE Quiesce(t)
  BY <1>2, <1>x, <1>q DEF Quiesce, Return
<1>3. CASE WakeUp(t)
  BY <1>3, <1>x, <1>q DEF WakeUp, Return
<1>4. CASE BeginRecovery(t)
  BY <1>4, <1>x, <1>q DEF BeginRecovery
<1>5. CASE RestartDecoder(t)
  BY <1>5, <1>x, <1>q DEF RestartDecoder, ConfigureDecoder, SurfaceInvalid, FinishRecovery, Return
<1>6. CASE ResetDecoder(t)
  BY <1>6, <1>x, <1>q DEF ResetDecoder, ConfigureDecoder, SurfaceInvalid, FinishRecovery, Return
<1>7. CASE RecreateDecoder(t)
  BY <1>7, <1>x, <1>q DEF RecreateDecoder, ConfigureDecoder, SurfaceInvalid, FinishRecovery, Return
<1>8. CASE NothingToRecover(t)
  BY <1>8, <1>x, <1>q DEF NothingToRecover, FinishRecovery, Return
<1>9. CASE CommitRecovery(t)
  BY <1>9, <1>x, <1>q DEF CommitRecovery, FinishRecovery, Return
<1> QED  BY <1>1, <1>2, <1>3, <1>4, <1>5, <1>6, <1>7, <1>8, <1>9 DEF Recover

\* The input thread takes fresh buffers, and none during a recovery.
LEMMA FreshInput ==
    ASSUME TypeOK, QuiesceInv, BufferInv, Input
    PROVE  BufferInv'
<1>x. RecoveryExclusive /\ \A v \in Threads : pc[v] \in FixPcs =>
          \A u \in Threads : u # v => Quiet(u) /\ pc[u] \notin FixPcs \cup CodecPcs
  BY FixerExcludes
<1>q. /\ AllFresh(<<>>)
      /\ [i \in DOMAIN <<>> |-> "stale"] = <<>>
      /\ AllFresh(outputQueue) =>
            /\ AllFresh(Append(outputQueue, "fresh"))
            /\ outputQueue # <<>> => /\ AllFresh(Tail(outputQueue))
                                     /\ AllFresh(Append(Tail(outputQueue), "fresh"))
  BY FreshQueues DEF TypeOK
<1> USE DEF TypeOK, Threads, FixPcs, FetchPcs, QueuePcs, CodecPcs, InputPcs, RenderPcs, ChoreoPcs, Goto,
        Home, Quiet, BufferInv, FixerClean, recoveryVars, threadVars, bufferVars, codecVars, stopVars
<1>1. CASE NextFrame
  BY <1>1, <1>x, <1>q DEF NextFrame
<1>2. CASE FetchCached
  BY <1>2, <1>x, <1>q DEF FetchCached, AfterFetch
<1>3. CASE FetchFromCodec
  BY <1>3, <1>x, <1>q DEF FetchFromCodec, CallRecovery, Throw, AfterFetch
<1>4. CASE NoInputBuffer
  BY <1>4, <1>x, <1>q DEF NoInputBuffer
<1>5. CASE QueueInput
  BY <1>5, <1>x, <1>q DEF QueueInput, CallRecovery, Throw
<1>6. CASE CsdSubmitted
  BY <1>6, <1>x, <1>q DEF CsdSubmitted
<1>7. CASE NeedIdr
  BY <1>7, <1>x, <1>q DEF NeedIdr
<1> QED  BY <1>1, <1>2, <1>3, <1>4, <1>5, <1>6, <1>7 DEF Input

\* The renderer takes fresh frames, and none during a recovery.
LEMMA FreshRender ==
    ASSUME TypeOK, QuiesceInv, BufferInv, Render
    PROVE  BufferInv'
<1>x. RecoveryExclusive /\ \A v \in Threads : pc[v] \in FixPcs =>
          \A u \in Threads : u # v => Quiet(u) /\ pc[u] \notin FixPcs \cup CodecPcs
  BY FixerExcludes
<1>q. /\ AllFresh(<<>>)
      /\ [i \in DOMAIN <<>> |-> "stale"] = <<>>
      /\ AllFresh(outputQueue) =>
            /\ AllFresh(Append(outputQueue, "fresh"))
            /\ outputQueue # <<>> => /\ AllFresh(Tail(outputQueue))
                                     /\ AllFresh(Append(Tail(outputQueue), "fresh"))
  BY FreshQueues DEF TypeOK
<1> USE DEF TypeOK, Threads, FixPcs, FetchPcs, QueuePcs, CodecPcs, InputPcs, RenderPcs, ChoreoPcs, Goto,
        Home, Quiet, BufferInv, FixerClean, recoveryVars, threadVars, bufferVars, codecVars, stopVars
<1>1. CASE RenderLoop
  BY <1>1, <1>x, <1>q DEF RenderLoop
<1>2. CASE DequeueOutput
  <2>1. nextInput' = nextInput /\ \A t \in Threads : pc[t] \notin FixPcs
    BY <1>2, <1>x DEF DequeueOutput
  <2>2. outputQueue' \in {outputQueue, Append(outputQueue, "fresh")}
    BY <1>2 DEF DequeueOutput
  <2>3. \A t \in Threads : pc'[t] \notin FixPcs
    BY <1>2, <2>1 DEF DequeueOutput, CallRecovery, Throw
  <2> QED  BY <2>1, <2>2, <2>3, <1>q
<1>3. CASE TakeOldest
  <2>1. nextInput' = nextInput /\ \A t \in Threads : pc[t] \notin FixPcs
    BY <1>3, <1>x DEF TakeOldest
  <2>2. AllFresh(outputQueue')
    BY <1>3, <1>q DEF TakeOldest
  <2>3. \A t \in Threads : pc'[t] \notin FixPcs
    BY <1>3, <2>1 DEF TakeOldest, CallRecovery, Throw
  <2> QED  BY <2>1, <2>2, <2>3
<1>4. CASE WakeInterrupted
  BY <1>4, <1>x, <1>q DEF WakeInterrupted, Return, MonitorFree
<1> QED  BY <1>1, <1>2, <1>3, <1>4 DEF Render

\* The choreographer takes no frame during a recovery.
LEMMA FreshChoreo ==
    ASSUME TypeOK, QuiesceInv, BufferInv, Choreo
    PROVE  BufferInv'
<1>x. RecoveryExclusive /\ \A v \in Threads : pc[v] \in FixPcs =>
          \A u \in Threads : u # v => Quiet(u) /\ pc[u] \notin FixPcs \cup CodecPcs
  BY FixerExcludes
<1>q. /\ AllFresh(<<>>)
      /\ [i \in DOMAIN <<>> |-> "stale"] = <<>>
      /\ AllFresh(outputQueue) =>
            /\ AllFresh(Append(outputQueue, "fresh"))
            /\ outputQueue # <<>> => /\ AllFresh(Tail(outputQueue))
                                     /\ AllFresh(Append(Tail(outputQueue), "fresh"))
  BY FreshQueues DEF TypeOK
<1> USE DEF TypeOK, Threads, FixPcs, FetchPcs, QueuePcs, CodecPcs, InputPcs, RenderPcs, ChoreoPcs, Goto,
        Home, Quiet, BufferInv, FixerClean, recoveryVars, threadVars, bufferVars, codecVars, stopVars
<1>1. CASE StartChoreographer
  BY <1>1, <1>x, <1>q DEF StartChoreographer
<1>2. CASE DoFrame
  <2>1. CASE outputQueue # <<>> /\ outputQueue' = Tail(outputQueue) /\ Goto("choreo", "release")
    BY <1>2, <2>1, <1>x, <1>q DEF DoFrame
  <2>2. CASE CallRecovery("choreo", "idle") /\ UNCHANGED outputQueue
    BY <1>2, <2>2, <1>x, <1>q DEF DoFrame, CallRecovery
  <2> QED  BY <1>2, <2>1, <2>2 DEF DoFrame
<1>3. CASE ReleaseFrame
  BY <1>3, <1>x, <1>q DEF ReleaseFrame, CallRecovery, Throw
<1>4. CASE QuitLooper
  BY <1>4, <1>x, <1>q DEF QuitLooper
<1> QED  BY <1>1, <1>2, <1>3, <1>4 DEF Choreo

\* No step leaves a stale buffer, or any buffer while the codec is recovered.
LEMMA FreshStep ==
    ASSUME TypeOK, QuiesceInv, BufferInv, [Next]_vars
    PROVE  BufferInv'
<1> USE DEF BufferInv, FixerClean, threadVars, bufferVars
<1>1. CASE UNCHANGED vars
  BY <1>1 DEF vars
<1>2. ASSUME NEW t \in Threads, HandleException(t) \/ Recover(t)
      PROVE  BufferInv'
  BY <1>2, FreshException, FreshRecover
<1>3. ASSUME NEW s \in Stoppers, Stop(s)
      PROVE  BufferInv'
  BY <1>3 DEF Stop, PrepareForStop, InterruptRenderer, CancelRecovery, PostQuit
<1>4. CASE Input \/ Render \/ Choreo
  BY <1>4, FreshInput, FreshRender, FreshChoreo
<1>5. CASE Hdr
  BY <1>5 DEF Hdr, SetHdrMetadata, PromoteToRestart
<1>6. CASE Teardown
  BY <1>6 DEF Teardown, JoinChoreographer, JoinRenderer, Cleanup
<1> QED  BY <1>1, <1>2, <1>3, <1>4, <1>5, <1>6 DEF Next, Terminated

\* No buffer of an earlier life of the codec is left in nextInputBuffer or
\* outputBufferQueue after a recovery.
THEOREM FreshBuffers == ~SlowStart /\ Spec => []BuffersFresh
<1> SUFFICES ASSUME ~SlowStart PROVE Spec => []BuffersFresh
  OBVIOUS
<1>1. Init => QuiesceInv /\ BufferInv
  <2>1. Init => QuiesceInv
    BY DEF Init, QuiesceInv, FlaggedQuiet, FixerAlone, BeforeChoreographer, CalledOff,
           StoppersStop, Threads, FixPcs
  <2>2. Init => BufferInv
    BY FreshQueues DEF Init, BufferInv, FixerClean, Threads
  <2> QED  BY <2>1, <2>2
<1>2. TypeOK /\ QuiesceInv /\ BufferInv /\ [Next]_vars => QuiesceInv' /\ BufferInv'
  BY QuietStep, FreshStep
<1>3. BufferInv => BuffersFresh
  BY DEF BufferInv, AllFresh, BuffersFresh
<1> QED  BY <1>1, <1>2, <1>3, TypeCorrect, PTL DEF Spec
-----------------------------------------------------------------------------
(***************************************************************************)
(* The recovery protocol implements CodecLease.  First the steps of the    *)
(* lease, in the terms of its refinement mapping.                          *)
(***************************************************************************)
Primed == fed # "empty"
LeaseStep == [Lease!Next]_(Lease!vars)

\* No user comes or goes; buffers may be given up.
LEMMA LeaseKept ==
    ASSUME UNCHANGED <<Users, Owner>>, Leases' = Leases \/ Leases' = FALSE, Primed' = Primed
    PROVE  LeaseStep
  BY DEF LeaseStep, Lease!Next, Lease!vars, Primed, Lease!Forget

\* A thread starts to use a codec that nobody owns.
LEMMA LeaseEntered ==
    ASSUME NEW t \in Threads, Owner = {}, Users' = Users \cup {t}, Owner' = Owner, Leases' = Leases,
           Primed' = Primed
    PROVE  LeaseStep
  BY DEF LeaseStep, Lease!Next, Lease!vars, Primed, Lease!Enter

\* A user works with the codec and may leave it.
LEMMA LeaseWorked ==
    ASSUME NEW t \in Threads, t \in Users, Users' \in {Users, Users \ {t}}, Owner' = Owner,
           Primed => Primed'
    PROVE  LeaseStep
  BY DEF LeaseStep, Lease!Next, Lease!vars, Primed, Lease!Work, Leases

\* A thread becomes the owner of a codec nobody uses.
LEMMA LeaseAcquired ==
    ASSUME NEW t \in Threads, Users = {}, Owner = {}, Users' = {}, Owner' = {t}, Leases' = Leases,
           Primed' = Primed
    PROVE  LeaseStep
  BY DEF LeaseStep, Lease!Next, Lease!vars, Primed, Lease!Acquire

\* The owner gives the codec a new life, with no buffer out.
LEMMA LeaseRenewed ==
    ASSUME NEW t \in Threads, Owner = {t}, Owner' = {t}, Users = {}, Users' = {}, Leases = FALSE,
           Leases' = FALSE, Primed' = FALSE
    PROVE  LeaseStep
  BY DEF LeaseStep, Lease!Next, Lease!vars, Primed, Lease!Renew

\* The owner lets the others back in.
LEMMA LeaseRelinquished ==
    ASSUME NEW t \in Threads, Owner = {t}, Owner' = {}, Users' = Users, Leases' = Leases,
           Primed' = Primed
    PROVE  LeaseStep
  BY DEF LeaseStep, Lease!Next, Lease!vars, Primed, Lease!Relinquish

\* Handling an exception only gives buffers up.
LEMMA LeaseException ==
    ASSUME TypeOK, QuiesceInv, BufferInv, NEW t \in Threads, HandleException(t)
    PROVE  LeaseStep
<1> USE DEF TypeOK, Threads, FixPcs, FetchPcs, QueuePcs, CodecPcs, InputPcs, RenderPcs, ChoreoPcs, Goto,
        Users, Owner, Leases, Primed, recoveryVars, threadVars, bufferVars, codecVars, stopVars
<1>1. CASE ExceptionWhileStopping(t)
  <2>1. UNCHANGED <<Users, Owner>> /\ (Leases' = Leases \/ Leases' = FALSE) /\ Primed' = Primed
    BY <1>1 DEF ExceptionWhileStopping, DropInput
  <2> QED  BY <2>1, LeaseKept
<1>2. CASE TransientException(t)
  <2>1. UNCHANGED <<Users, Owner>> /\ (Leases' = Leases \/ Leases' = FALSE) /\ Primed' = Primed
    BY <1>2 DEF TransientException
  <2> QED  BY <2>1, LeaseKept
<1>3. CASE DemandRecovery(t)
  <2>1. UNCHANGED <<Users, Owner>> /\ (Leases' = Leases \/ Leases' = FALSE) /\ Primed' = Primed
    BY <1>3 DEF DemandRecovery, DropInput
  <2> QED  BY <2>1, LeaseKept
<1>4. CASE ExhaustedException(t)
  <2>1. UNCHANGED <<Users, Owner>> /\ (Leases' = Leases \/ Leases' = FALSE) /\ Primed' = Primed
    BY <1>4 DEF ExhaustedException, DropInput
  <2> QED  BY <2>1, LeaseKept
<1>5. CASE CasFromNone(t)
  <2>1. UNCHANGED <<Users, Owner>> /\ (Leases' = Leases \/ Leases' = FALSE) /\ Primed' = Primed
    BY <1>5 DEF CasFromNone, Requested
  <2> QED  BY <2>1, LeaseKept
<1>6. CASE CasFromRestart(t)
  <2>1. UNCHANGED <<Users, Owner>> /\ (Leases' = Leases \/ Leases' = FALSE) /\ Primed' = Primed
    BY <1>6 DEF CasFromRestart, Requested
  <2> QED  BY <2>1, LeaseKept
<1>7. CASE CheckRecoveryType(t)
  <2>1. UNCHANGED <<Users, Owner>> /\ (Leases' = Leases \/ Leases' = FALSE) /\ Primed' = Primed
    BY <1>7 DEF CheckRecoveryType, Requested
  <2> QED  BY <2>1, LeaseKept
<1> QED  BY <1>1, <1>2, <1>3, <1>4, <1>5, <1>6, <1>7 DEF HandleException

\* The input thread starts to use the codec only while nobody owns it.
LEMMA LeaseInput ==
    ASSUME TypeOK, QuiesceInv, BufferInv, Input
    PROVE  LeaseStep
<1>x. \A v \in Threads : pc[v] \in FixPcs =>
          \A u \in Threads : u # v => Quiet(u) /\ pc[u] \notin FixPcs \cup CodecPcs
  BY FixerExcludes
<1> USE DEF TypeOK, Threads, FixPcs, FetchPcs, QueuePcs, CodecPcs, InputPcs, RenderPcs, ChoreoPcs, Goto,
        Users, Owner, Leases, Primed, recoveryVars, threadVars, bufferVars, codecVars, stopVars
<1>1. CASE NextFrame
  <2>1. CASE TRUE
    <3>1. Owner = {}
      BY <1>1, <2>1, <1>x DEF NextFrame, Quiet
    <3>2. Users' = Users \cup {"input"} /\ Owner' = Owner
      BY <1>1, <2>1 DEF NextFrame
    <3>3. Leases' = Leases /\ Primed' = Primed
      BY <1>1, <2>1 DEF NextFrame
    <3> QED  BY <3>1, <3>2, <3>3, LeaseEntered
  <2>2. CASE ~(TRUE)
    <3>1. UNCHANGED <<Users, Owner>> /\ (Leases' = Leases \/ Leases' = FALSE) /\ Primed' = Primed
      BY <1>1, <2>2 DEF NextFrame
    <3> QED  BY <3>1, LeaseKept
  <2> QED  BY <2>1, <2>2
<1>2. CASE FetchCached
  <2>1. "input" \in Users /\ Users' \in {Users, Users \ {"input"}}
    BY <1>2 DEF FetchCached, AfterFetch
  <2>2. Owner' = Owner /\ (Primed => Primed')
    BY <1>2 DEF FetchCached, AfterFetch
  <2> QED  BY <2>1, <2>2, LeaseWorked
<1>3. CASE FetchFromCodec
  <2>1. "input" \in Users /\ Users' \in {Users, Users \ {"input"}}
    BY <1>3 DEF FetchFromCodec, AfterFetch, CallRecovery, Throw
  <2>2. Owner' = Owner /\ (Primed => Primed')
    BY <1>3 DEF FetchFromCodec, AfterFetch, CallRecovery, Throw
  <2> QED  BY <2>1, <2>2, LeaseWorked
<1>4. CASE NoInputBuffer
  <2>1. UNCHANGED <<Users, Owner>> /\ (Leases' = Leases \/ Leases' = FALSE) /\ Primed' = Primed
    BY <1>4 DEF NoInputBuffer
  <2> QED  BY <2>1, LeaseKept
<1>5. CASE QueueInput
  <2>1. "input" \in Users /\ Users' \in {Users, Users \ {"input"}}
    BY <1>5 DEF QueueInput, CallRecovery, Throw, Feed
  <2>2. Owner' = Owner /\ (Primed => Primed')
    BY <1>5 DEF QueueInput, CallRecovery, Throw, Feed
  <2> QED  BY <2>1, <2>2, LeaseWorked
<1>6. CASE CsdSubmitted
  <2>1. CASE TRUE
    <3>1. Owner = {}
      BY <1>6, <2>1, <1>x DEF CsdSubmitted, Quiet
    <3>2. Users' = Users \cup {"input"} /\ Owner' = Owner
      BY <1>6, <2>1 DEF CsdSubmitted
    <3>3. Leases' = Leases /\ Primed' = Primed
      BY <1>6, <2>1 DEF CsdSubmitted
    <3> QED  BY <3>1, <3>2, <3>3, LeaseEntered
  <2>2. CASE ~(TRUE)
    <3>1. UNCHANGED <<Users, Owner>> /\ (Leases' = Leases \/ Leases' = FALSE) /\ Primed' = Primed
      BY <1>6, <2>2 DEF CsdSubmitted
    <3> QED  BY <3>1, LeaseKept
  <2> QED  BY <2>1, <2>2
<1>7. CASE NeedIdr
  <2>1. UNCHANGED <<Users, Owner>> /\ (Leases' = Leases \/ Leases' = FALSE) /\ Primed' = Primed
    BY <1>7 DEF NeedIdr
  <2> QED  BY <2>1, LeaseKept
<1> QED  BY <1>1, <1>2, <1>3, <1>4, <1>5, <1>6, <1>7 DEF Input

\* The renderer starts to use the codec only while nobody owns it.
LEMMA LeaseRender ==
    ASSUME TypeOK, QuiesceInv, BufferInv, Render
    PROVE  LeaseStep
<1>x. \A v \in Threads : pc[v] \in FixPcs =>
          \A u \in Threads : u # v => Quiet(u) /\ pc[u] \notin FixPcs \cup CodecPcs
  BY FixerExcludes
<1> USE DEF TypeOK, Threads, FixPcs, FetchPcs, QueuePcs, CodecPcs, InputPcs, RenderPcs, ChoreoPcs, Goto,
        Users, Owner, Leases, Primed, recoveryVars, threadVars, bufferVars, codecVars, stopVars
<1>1. CASE RenderLoop
  <2>1. CASE ~stopping
    <3>1. Owner = {}
      BY <1>1, <2>1, <1>x DEF RenderLoop, Quiet
    <3>2. Users' = Users \cup {"render"} /\ Owner' = Owner
      BY <1>1, <2>1 DEF RenderLoop
    <3>3. Leases' = Leases /\ Primed' = Primed
      BY <1>1, <2>1 DEF RenderLoop
    <3> QED  BY <3>1, <3>2, <3>3, LeaseEntered
  <2>2. CASE ~(~stopping)
    <3>1. UNCHANGED <<Users, Owner>> /\ (Leases' = Leases \/ Leases' = FALSE) /\ Primed' = Primed
      BY <1>1, <2>2 DEF RenderLoop
    <3> QED  BY <3>1, LeaseKept
  <2> QED  BY <2>1, <2>2
<1>2. CASE DequeueOutput
  <2>1. "render" \in Users /\ Users' \in {Users, Users \ {"render"}}
    BY <1>2 DEF DequeueOutput, CallRecovery, Throw
  <2>2. Owner' = Owner /\ (Primed => Primed')
    BY <1>2 DEF DequeueOutput, CallRecovery, Throw
  <2> QED  BY <2>1, <2>2, LeaseWorked
<1>3. CASE TakeOldest
  <2>1. "render" \in Users /\ Users' \in {Users, Users \ {"render"}}
    BY <1>3 DEF TakeOldest, CallRecovery, Throw
  <2>2. Owner' = Owner /\ (Primed => Primed')
    BY <1>3 DEF TakeOldest, CallRecovery, Throw
  <2> QED  BY <2>1, <2>2, LeaseWorked
<1>4. CASE WakeInterrupted
  <2>1. UNCHANGED <<Users, Owner>> /\ (Leases' = Leases \/ Leases' = FALSE) /\ Primed' = Primed
    BY <1>4 DEF WakeInterrupted, Return
  <2> QED  BY <2>1, LeaseKept
<1> QED  BY <1>1, <1>2, <1>3, <1>4 DEF Render

\* The choreographer starts to use the codec only while nobody owns it.
LEMMA LeaseChoreo ==
    ASSUME TypeOK, QuiesceInv, BufferInv, Choreo
    PROVE  LeaseStep
<1>x. \A v \in Threads : pc[v] \in FixPcs =>
          \A u \in Threads : u # v => Quiet(u) /\ pc[u] \notin FixPcs \cup CodecPcs
  BY FixerExcludes
<1> USE DEF TypeOK, Threads, FixPcs, FetchPcs, QueuePcs, CodecPcs, InputPcs, RenderPcs, ChoreoPcs, Goto,
        Users, Owner, Leases, Primed, recoveryVars, threadVars, bufferVars, codecVars, stopVars
<1>1. CASE StartChoreographer
  <2>1. UNCHANGED <<Users, Owner>> /\ (Leases' = Leases \/ Leases' = FALSE) /\ Primed' = Primed
    BY <1>1 DEF StartChoreographer
  <2> QED  BY <2>1, LeaseKept
<1>2. CASE DoFrame
  <2>1. CASE pc'["choreo"] = "release"
    <3>1. Owner = {}
      BY <1>2, <2>1, <1>x DEF DoFrame, Quiet
    <3>2. Users' = Users \cup {"choreo"} /\ Owner' = Owner
      BY <1>2, <2>1 DEF DoFrame, CallRecovery
    <3>3. Leases' = Leases /\ Primed' = Primed
      BY <1>2, <2>1 DEF DoFrame, CallRecovery
    <3> QED  BY <3>1, <3>2, <3>3, LeaseEntered
  <2>2. CASE ~(pc'["choreo"] = "release")
    <3>1. UNCHANGED <<Users, Owner>> /\ (Leases' = Leases \/ Leases' = FALSE) /\ Primed' = Primed
      BY <1>2, <2>2 DEF DoFrame, CallRecovery
    <3> QED  BY <3>1, LeaseKept
  <2> QED  BY <2>1, <2>2
<1>3. CASE ReleaseFrame
  <2>1. "choreo" \in Users /\ Users' \in {Users, Users \ {"choreo"}}
    BY <1>3 DEF ReleaseFrame, CallRecovery, Throw
  <2>2. Owner' = Owner /\ (Primed => Primed')
    BY <1>3 DEF ReleaseFrame, CallRecovery, Throw
  <2> QED  BY <2>1, <2>2, LeaseWorked
<1>4. CASE QuitLooper
  <2>1. UNCHANGED <<Users, Owner>> /\ (Leases' = Leases \/ Leases' = FALSE) /\ Primed' = Primed
    BY <1>4 DEF QuitLooper
  <2> QED  BY <2>1, LeaseKept
<1> QED  BY <1>1, <1>2, <1>3, <1>4 DEF Choreo

\* Only the last thread to quiesce owns the codec, and only the owner renews it.
LEMMA LeaseRecover ==
    ASSUME TypeOK, QuiesceInv, BufferInv, NEW t \in Threads, Recover(t)
    PROVE  LeaseStep
<1>x. \A v \in Threads : pc[v] \in FixPcs =>
          \A u \in Threads : u # v => Quiet(u) /\ pc[u] \notin FixPcs \cup CodecPcs
  BY FixerExcludes
<1> USE DEF TypeOK, Threads, FixPcs, FetchPcs, QueuePcs, CodecPcs, InputPcs, RenderPcs, ChoreoPcs, Goto,
        Users, Owner, Leases, Primed, recoveryVars, threadVars, bufferVars, codecVars, stopVars
<1>1. CASE CheckRecovery(t)
  <2>1. CASE pc'[t] \in CodecPcs
    <3>1. Owner = {}
      BY <1>1, <1>x DEF CheckRecovery, Quiet
    <3>2. Users' = Users \cup {t} /\ Owner' = Owner
      BY <1>1, <2>1 DEF CheckRecovery, Return
    <3>3. pc'[t] # "take" /\ pc'[t] # "release"
      BY <1>1 DEF CheckRecovery, Return
    <3>4. Leases' = Leases /\ Primed' = Primed
      BY <1>1, <3>3 DEF CheckRecovery, Return
    <3> QED  BY <3>1, <3>2, <3>4, LeaseEntered
  <2>2. CASE pc'[t] \notin CodecPcs
    <3>1. UNCHANGED <<Users, Owner>> /\ (Leases' = Leases \/ Leases' = FALSE) /\ Primed' = Primed
      BY <1>1, <2>2 DEF CheckRecovery, Return
    <3> QED  BY <3>1, LeaseKept
  <2> QED  BY <2>1, <2>2
<1>2. CASE Quiesce(t)
  <2>1. CASE pc'[t] = "fix"
    <3>1. \A u \in Threads : u # t => Quiet(u)
      BY <1>2, <2>1 DEF Quiesce, QuiesceInv, FlaggedQuiet, BeforeChoreographer, ChoreographerNull, Quiet, Return
    <3>2. Users = {} /\ Owner = {}
      BY <1>2, <3>1 DEF Quiesce, MonitorFree, Quiet
    <3>3. Users' = {} /\ Owner' = {t}
      BY <1>2, <2>1, <3>2 DEF Quiesce, Return
    <3>4. Leases' = Leases /\ Primed' = Primed
      BY <1>2, <2>1 DEF Quiesce, Return
    <3> QED  BY <3>2, <3>3, <3>4, LeaseAcquired
  <2>2. CASE pc'[t] # "fix"
    <3>1. UNCHANGED <<Users, Owner>> /\ (Leases' = Leases \/ Leases' = FALSE) /\ Primed' = Primed
      BY <1>2, <2>2 DEF Quiesce, Return
    <3> QED  BY <3>1, LeaseKept
  <2> QED  BY <2>1, <2>2
<1>3. CASE WakeUp(t)
  <2>1. UNCHANGED <<Users, Owner>> /\ (Leases' = Leases \/ Leases' = FALSE) /\ Primed' = Primed
    BY <1>3 DEF WakeUp, Return
  <2> QED  BY <2>1, LeaseKept
<1>4. CASE BeginRecovery(t)
  <2>1. UNCHANGED <<Users, Owner>> /\ Primed' = Primed
    BY <1>4 DEF BeginRecovery
  <2>2. Leases' = FALSE
    BY <1>4, <1>x DEF BeginRecovery
  <2> QED  BY <2>1, <2>2, LeaseKept
<1>a. ASSUME pc[t] \in FixPcs
      PROVE  Owner = {t} /\ Users = {}
  BY <1>a, <1>x
<1>b. ASSUME pc[t] \in {"attempt", "recreate", "commit"}
      PROVE  Leases = FALSE
  BY <1>b, <1>x DEF BufferInv, FixerClean
<1>c. ASSUME pc[t] \in {"attempt", "recreate"}, ConfigureDecoder, pc' = [pc EXCEPT ![t] = "commit"]
      PROVE  LeaseStep
  <2>1. Owner = {t} /\ Users = {} /\ Leases = FALSE
    BY <1>c, <1>a, <1>b
  <2>2. Owner' = {t} /\ Users' = {}
    BY <1>c, <2>1
  <2>3. Leases' = FALSE /\ Primed' = FALSE
    BY <1>c, <2>1, FreshQueues DEF ConfigureDecoder
  <2> QED  BY <2>1, <2>2, <2>3, LeaseRenewed
<1>d. ASSUME pc[t] \in {"attempt", "recreate", "commit"}, FinishRecovery(t), UNCHANGED <<bufferVars, fed>>
      PROVE  LeaseStep
  <2>1. Owner = {t} /\ Users = {}
    BY <1>d, <1>a
  <2>2. Owner' = {} /\ Users' = Users
    BY <1>d, <2>1 DEF FinishRecovery, Return
  <2>3. Leases' = Leases /\ Primed' = Primed
    BY <1>d DEF FinishRecovery, Return
  <2> QED  BY <2>1, <2>2, <2>3, LeaseRelinquished
<1>e. ASSUME pc[t] \in {"attempt", "recreate"}, UNCHANGED <<bufferVars, fed>>,
             pc' = pc \/ pc' = [pc EXCEPT ![t] = "recreate"]
      PROVE  LeaseStep
  <2>1. UNCHANGED <<Users, Owner>> /\ (Leases' = Leases \/ Leases' = FALSE) /\ Primed' = Primed
    BY <1>e
  <2> QED  BY <2>1, LeaseKept
<1>5. CASE RestartDecoder(t)
  BY <1>5, <1>c, <1>d, <1>e DEF RestartDecoder, SurfaceInvalid
<1>6. CASE ResetDecoder(t)
  BY <1>6, <1>c, <1>d, <1>e DEF ResetDecoder, SurfaceInvalid
<1>7. CASE RecreateDecoder(t)
  BY <1>7, <1>c, <1>d, <1>e DEF RecreateDecoder, SurfaceInvalid
<1>8. CASE NothingToRecover(t)
  BY <1>8, <1>d DEF NothingToRecover
<1>9. CASE CommitRecovery(t)
  BY <1>9, <1>d DEF CommitRecovery
<1> QED  BY <1>1, <1>2, <1>3, <1>4, <1>5, <1>6, <1>7, <1>8, <1>9 DEF Recover

\* Every step is one of the lease, or leaves the lease as it is.
LEMMA LeaseNext ==
    ASSUME TypeOK, QuiesceInv, BufferInv, [Next]_vars
    PROVE  LeaseStep
<1> DEFINE Same == UNCHANGED <<pc, nextInput, outputQueue, fed>>
<1>1. ASSUME Same PROVE LeaseStep
  <2>1. UNCHANGED <<Users, Owner>> /\ (Leases' = Leases \/ Leases' = FALSE) /\ Primed' = Primed
    BY <1>1 DEF Users, Owner, Leases, Primed
  <2> QED  BY <2>1, LeaseKept
<1>2. UNCHANGED vars \/ Hdr \/ Teardown => Same
  BY DEF vars, Hdr, SetHdrMetadata, PromoteToRestart, Teardown, JoinChoreographer, JoinRenderer, Cleanup,
         threadVars, bufferVars, codecVars
<1>3. ASSUME NEW s \in Stoppers, Stop(s)
      PROVE  Same
  BY <1>3 DEF Stop, PrepareForStop, InterruptRenderer, CancelRecovery, PostQuit, threadVars,
              bufferVars, codecVars
<1>4. ASSUME NEW t \in Threads, HandleException(t) \/ Recover(t)
      PROVE  LeaseStep
  BY <1>4, LeaseException, LeaseRecover
<1>5. CASE Input \/ Render \/ Choreo
  BY <1>5, LeaseInput, LeaseRender, LeaseChoreo
<1> HIDE DEF Same
<1> QED  BY <1>1, <1>2, <1>3, <1>4, <1>5 DEF Next, Terminated

\* The recovery protocol implements the lease: nobody starts to use a codec that is
\* being recovered, and it is renewed by its only owner with no buffer of it out.
THEOREM RecoveryIsLease == ~SlowStart /\ Spec => LeaseSpec
<1> SUFFICES ASSUME ~SlowStart PROVE Spec => LeaseSpec
  OBVIOUS
<1>1. Init => Lease!Init
  BY DEF Init, Lease!Init, Users, Owner, Leases, Threads, CodecPcs, FetchPcs, QueuePcs, FixPcs
<1>2. Init => QuiesceInv /\ BufferInv
  <2>1. Init => QuiesceInv
    BY DEF Init, QuiesceInv, FlaggedQuiet, FixerAlone, BeforeChoreographer, CalledOff,
           StoppersStop, Threads, FixPcs
  <2>2. Init => BufferInv
    BY FreshQueues DEF Init, BufferInv, FixerClean, Threads
  <2> QED  BY <2>1, <2>2
<1>3. TypeOK /\ QuiesceInv /\ BufferInv /\ [Next]_vars =>
        QuiesceInv' /\ BufferInv' /\ [Lease!Next]_(Lease!vars)
  BY QuietStep, FreshStep, LeaseNext DEF LeaseStep
<1> QED  BY <1>1, <1>2, <1>3, TypeCorrect, PTL DEF Spec, LeaseSpec, Lease!Spec

-----------------------------------------------------------------------------
(***************************************************************************)
(* Recovery does not go on for ever                                        *)
(*                                                                         *)
(* AttemptsBounded is not inductive: an attempt is counted when a recovery *)
(* begins, long after it was asked for.  An exception asks only while      *)
(* attempts are left, and no recovery begins until the thread that asked   *)
(* quiesces; new HDR metadata resets the count before it asks.             *)
(***************************************************************************)
DemandPcs == {"cas", "casReset", "casGet"}
RenewPcs  == {"attempt", "recreate", "commit"}
Renewing  == \E t \in Threads : pc[t] \in RenewPcs

\* A recovery was asked for whose attempt is not yet counted
Outstanding == recoveryType # NONE /\ ~Renewing

AttemptsInv ==
    /\ AttemptsBounded
    /\ Outstanding => attempts <= CrMaxTries
    /\ \A t \in Threads : pc[t] \in DemandPcs => attempts < CrMaxTries
    /\ hdrPc = "cas" => attempts <= CrMaxTries /\ (Outstanding => attempts < CrMaxTries)

\* A step that counts nothing, asks for nothing and demands nothing keeps it.
LEMMA AttemptsCalm ==
    ASSUME AttemptsInv, UNCHANGED <<attempts, hdrPc>>, Outstanding' => Outstanding,
           \A t \in Threads : pc'[t] \in DemandPcs => pc[t] \in DemandPcs
    PROVE  AttemptsInv'
  BY DEF AttemptsInv, AttemptsBounded

\* A step that leaves recoveryType and every thread that recovers or demands alone.
LEMMA AttemptsAside ==
    ASSUME AttemptsInv, UNCHANGED <<attempts, hdrPc, recoveryType>>,
           \A t \in Threads : pc'[t] \in DemandPcs => pc[t] \in DemandPcs,
           \A t \in Threads : pc[t] \in RenewPcs => pc'[t] \in RenewPcs
    PROVE  AttemptsInv'
<1>1. Outstanding' => Outstanding
  BY DEF Outstanding, Renewing
<1> QED  BY <1>1, AttemptsCalm

\* While a thread demands a recovery none is under way.
LEMMA DemandExcludesRenewal ==
    ASSUME TypeOK, QuiesceInv, NEW t \in Threads, pc[t] \in DemandPcs
    PROVE  \A u \in Threads : pc[u] \notin FixPcs
<1> SUFFICES ASSUME NEW u \in Threads, pc[u] \in FixPcs PROVE FALSE
  OBVIOUS
<1>1. u # t
  BY DEF FixPcs, DemandPcs
<1>2. Quiet(t)
  BY <1>1, FixerExcludes
<1> QED  BY <1>2 DEF Quiet, FixPcs, DemandPcs

\* An exception demands a recovery only while attempts are left.
LEMMA AttemptsException ==
    ASSUME TypeOK, QuiesceInv, AttemptsInv, NEW t \in Threads, HandleException(t)
    PROVE  AttemptsInv'
<1>1. CASE ExceptionWhileStopping(t) \/ TransientException(t) \/ ExhaustedException(t) \/ CheckRecoveryType(t)
  <2>1. UNCHANGED <<attempts, hdrPc, recoveryType>>
    BY <1>1 DEF ExceptionWhileStopping, TransientException, ExhaustedException, CheckRecoveryType,
                recoveryVars, hdrVars
  <2>2. /\ pc[t] \in {"exc", "casGet"}
        /\ pc' = pc \/ pc' = [pc EXCEPT ![t] = "rec"]
    BY <1>1 DEF ExceptionWhileStopping, TransientException, ExhaustedException, CheckRecoveryType,
                Requested, Goto
  <2> QED  BY <2>1, <2>2, AttemptsAside DEF TypeOK, DemandPcs, RenewPcs
<1>2. CASE DemandRecovery(t)
  <2>1. /\ attempts < CrMaxTries /\ UNCHANGED <<attempts, hdrPc, recoveryType>>
        /\ pc[t] = "exc" /\ pc' = [pc EXCEPT ![t] = "cas"]
    BY <1>2 DEF DemandRecovery, Goto, recoveryVars, hdrVars
  <2>2. Outstanding' => Outstanding
    BY <2>1 DEF Outstanding, Renewing, RenewPcs, TypeOK
  <2> QED  BY <2>1, <2>2 DEF AttemptsInv, AttemptsBounded
<1>3. CASE CasFromNone(t) \/ CasFromRestart(t)
  <2>1. UNCHANGED <<attempts, hdrPc>> /\ pc[t] \in DemandPcs
    BY <1>3 DEF CasFromNone, CasFromRestart, hdrVars, DemandPcs
  <2>2. attempts < CrMaxTries /\ attempts \in Nat
    BY <2>1 DEF AttemptsInv, TypeOK
  <2> QED  BY <2>1, <2>2, DecoderAssumption DEF AttemptsInv, AttemptsBounded
<1> QED  BY <1>1, <1>2, <1>3 DEF HandleException

\* A recovery counts its attempt when it begins, and is over with no request left.
LEMMA AttemptsRecover ==
    ASSUME TypeOK, QuiesceInv, AttemptsInv, NEW t \in Threads, Recover(t)
    PROVE  AttemptsInv'
<1> USE DEF TypeOK, NONE, RESTART, RESET
<1>1. CASE CheckRecovery(t) \/ Quiesce(t) \/ WakeUp(t)
  <2>1. UNCHANGED <<attempts, hdrPc, recoveryType>>
    BY <1>1 DEF CheckRecovery, Quiesce, WakeUp, recoveryVars, hdrVars
  <2>2. /\ pc[t] \in {"rec", "mon", "wait"}
        /\ \E l \in {"mon", "wait", "fix", "fail"} \cup InputPcs \cup RenderPcs \cup ChoreoPcs :
              pc' = [pc EXCEPT ![t] = l]
    BY <1>1 DEF CheckRecovery, Quiesce, WakeUp, Return, Goto
  <2> QED  BY <2>1, <2>2, AttemptsAside
           DEF DemandPcs, RenewPcs, InputPcs, FetchPcs, QueuePcs, RenderPcs, ChoreoPcs
<1>2. CASE BeginRecovery(t)
  <2>1. /\ pc[t] = "fix" /\ pc' = [pc EXCEPT ![t] = "attempt"]
        /\ UNCHANGED <<hdrPc, recoveryType>>
        /\ attempts' = IF recoveryType # NONE THEN attempts + 1 ELSE attempts
    BY <1>2 DEF BeginRecovery, Goto, hdrVars
  <2>2. \A u \in Threads : u # t => pc[u] \notin FixPcs
    BY <2>1, FixerExcludes DEF FixPcs
  <2>3. ~Renewing /\ \A u \in Threads : pc[u] \notin DemandPcs
    BY <2>1, <2>2, DemandExcludesRenewal DEF Renewing, RenewPcs, FixPcs
  <2>4. Renewing' /\ \A u \in Threads : pc'[u] \notin DemandPcs
    BY <2>1, <2>3 DEF Renewing, RenewPcs, DemandPcs
  <2>5. recoveryType # NONE => Outstanding
    BY <2>3 DEF Outstanding
  <2> QED  BY <2>1, <2>4, <2>5, DecoderAssumption DEF AttemptsInv, AttemptsBounded, Outstanding
<1>3. CASE RestartDecoder(t) \/ ResetDecoder(t) \/ RecreateDecoder(t) \/ NothingToRecover(t) \/ CommitRecovery(t)
  <2>1. UNCHANGED <<attempts, hdrPc>> /\ pc[t] \in RenewPcs
    BY <1>3 DEF RestartDecoder, ResetDecoder, RecreateDecoder, NothingToRecover, CommitRecovery,
                hdrVars, RenewPcs
  <2>2. \/ recoveryType' = NONE /\ Return(t, TRUE)
        \/ pc' = pc
        \/ pc' = [pc EXCEPT ![t] = "commit"]
        \/ pc' = [pc EXCEPT ![t] = "recreate"]
    BY <1>3 DEF RestartDecoder, ResetDecoder, RecreateDecoder, NothingToRecover, CommitRecovery,
                SurfaceInvalid, FinishRecovery, Goto
  <2>3. Outstanding' => Outstanding
    BY <2>1, <2>2 DEF Outstanding, Renewing, RenewPcs
  <2>4. \A u \in Threads : pc'[u] \in DemandPcs => pc[u] \in DemandPcs
    <3>1. CASE Return(t, TRUE)
      <4>1. pc' = [pc EXCEPT ![t] = "fail"] \/ pc' = [pc EXCEPT ![t] = after[t]]
        BY <3>1 DEF Return
      <4>2. after[t] \notin DemandPcs
        BY DEF DemandPcs, InputPcs, FetchPcs, QueuePcs, RenderPcs, ChoreoPcs
      <4> QED  BY <4>1, <4>2 DEF DemandPcs
    <3>2. CASE ~Return(t, TRUE)
      BY <2>2, <3>2 DEF DemandPcs
    <3> QED  BY <3>1, <3>2
  <2> QED  BY <2>1, <2>3, <2>4, AttemptsCalm
<1> QED  BY <1>1, <1>2, <1>3 DEF Recover

\* Work with the codec demands nothing by itself.
LEMMA AttemptsWork ==
    ASSUME TypeOK, AttemptsInv, Input \/ Render \/ Choreo
    PROVE  AttemptsInv'
<1>1. UNCHANGED <<attempts, hdrPc, recoveryType>>
  BY DEF Input, NextFrame, FetchCached, FetchFromCodec, NoInputBuffer, QueueInput, CsdSubmitted, NeedIdr,
         Render, RenderLoop, DequeueOutput, TakeOldest, WakeInterrupted,
         Choreo, StartChoreographer, DoFrame, ReleaseFrame, QuitLooper, recoveryVars, hdrVars
<1>2. ASSUME NEW t \in Threads
      PROVE  /\ pc'[t] \in DemandPcs => pc[t] \in DemandPcs
             /\ pc[t] \in RenewPcs => pc'[t] \in RenewPcs
  <2> USE DEF TypeOK, Threads, DemandPcs, RenewPcs, InputPcs, FetchPcs, QueuePcs, RenderPcs, ChoreoPcs, Goto
  <2>1. CASE Input
    <3>1. \/ \E l \in {"rec", "exc"} \cup InputPcs : pc' = [pc EXCEPT !["input"] = l]
          \/ pc' = pc
      BY <2>1 DEF Input, NextFrame, FetchCached, FetchFromCodec, NoInputBuffer, QueueInput,
                  CsdSubmitted, NeedIdr, AfterFetch, CallRecovery, Throw
    <3>2. pc["input"] \in InputPcs
      BY <2>1 DEF Input, NextFrame, FetchCached, FetchFromCodec, NoInputBuffer, QueueInput,
                  CsdSubmitted, NeedIdr
    <3> QED  BY <3>1, <3>2
  <2>2. CASE Render
    <3>1. /\ pc["render"] \in {"loop", "deq", "take", "wait"}
          /\ \E l \in {"dead", "deq", "take", "rec", "exc", "loop"} : pc' = [pc EXCEPT !["render"] = l]
      BY <2>2 DEF Render, RenderLoop, DequeueOutput, TakeOldest, WakeInterrupted, CallRecovery, Throw, Return
    <3> QED  BY <3>1
  <2>3. CASE Choreo
    <3>1. /\ pc["choreo"] \in {"unborn", "idle", "release"}
          /\ \E l \in {"idle", "release", "rec", "exc", "dead"} : pc' = [pc EXCEPT !["choreo"] = l]
      BY <2>3 DEF Choreo, StartChoreographer, DoFrame, ReleaseFrame, QuitLooper, CallRecovery, Throw
    <3> QED  BY <3>1
  <2> QED  BY <2>1, <2>2, <2>3
<1> QED  BY <1>1, <1>2, AttemptsAside

\* Every step keeps the attempts within the limit.
LEMMA AttemptsStep ==
    ASSUME TypeOK, QuiesceInv, AttemptsInv, [Next]_vars
    PROVE  AttemptsInv'
<1>1. CASE UNCHANGED vars
  BY <1>1, AttemptsAside DEF vars, recoveryVars, threadVars, hdrVars
<1>2. ASSUME NEW t \in Threads, HandleException(t) \/ Recover(t)
      PROVE  AttemptsInv'
  BY <1>2, AttemptsException, AttemptsRecover
<1>3. CASE Input \/ Render \/ Choreo
  BY <1>3, AttemptsWork
<1>4. CASE Hdr
  <2>1. CASE SetHdrMetadata
    BY <2>1, DecoderAssumption DEF SetHdrMetadata, AttemptsInv, AttemptsBounded, Outstanding, Renewing, threadVars
  <2>2. CASE PromoteToRestart
    BY <2>2 DEF PromoteToRestart, AttemptsInv, AttemptsBounded, Outstanding, Renewing, threadVars
  <2> QED  BY <1>4, <2>1, <2>2 DEF Hdr
<1>5. ASSUME NEW s \in Stoppers, Stop(s)
      PROVE  AttemptsInv'
  <2>1. UNCHANGED <<attempts, hdrPc, pc>> /\ recoveryType' \in {recoveryType, NONE}
    BY <1>5 DEF Stop, PrepareForStop, InterruptRenderer, CancelRecovery, PostQuit,
                recoveryVars, threadVars, hdrVars
  <2>2. Outstanding' => Outstanding
    BY <2>1 DEF Outstanding, Renewing
  <2> QED  BY <2>1, <2>2, AttemptsCalm
<1>6. CASE Teardown
  BY <1>6, AttemptsAside DEF Teardown, JoinChoreographer, JoinRenderer, Cleanup, recoveryVars, threadVars, hdrVars
<1> QED  BY <1>1, <1>2, <1>3, <1>4, <1>5, <1>6 DEF Next, Terminated

\* The codec is recovered at most once more than CR_MAX_TRIES times between two changes
\* of the HDR metadata, however exceptions and changes interleave.  (codecRecoveryAttempts)
THEOREM RecoveryBounded == ~SlowStart /\ Spec => []AttemptsBounded
<1> SUFFICES ASSUME ~SlowStart PROVE Spec => []AttemptsBounded
  OBVIOUS
<1>1. Init => QuiesceInv
  BY DEF Init, QuiesceInv, FlaggedQuiet, FixerAlone, BeforeChoreographer, CalledOff,
         StoppersStop, Threads, FixPcs
<1>2. Init => AttemptsInv
  BY DecoderAssumption DEF Init, AttemptsInv, AttemptsBounded, Outstanding, Threads, DemandPcs
<1>3. TypeOK /\ QuiesceInv /\ AttemptsInv /\ [Next]_vars => QuiesceInv' /\ AttemptsInv'
  BY QuietStep, AttemptsStep
<1>4. AttemptsInv => AttemptsBounded
  BY DEF AttemptsInv
<1> QED  BY <1>1, <1>2, <1>3, <1>4, TypeCorrect, PTL DEF Spec

-----------------------------------------------------------------------------
(***************************************************************************)
(* The codec is fed what it can decode                                     *)
(*                                                                         *)
(* The invariant follows the input thread through submitDecodeUnit; a      *)
(* place it returns to when it finds no recovery counts as reached.  When  *)
(* it does take part in a recovery it returns to "fail" and asks for an    *)
(* IDR frame, so what the codec was given before does not matter.          *)
(***************************************************************************)
InputAt(x) == pc["input"] = x \/ (pc["input"] = "rec" /\ after["input"] = x)

Decodable == IF frame = "P" THEN fed = "decodable" ELSE fed # "empty" \/ (FusedIdr /\ csd)

FeedInv ==
    /\ pc["input"] \in {"exc"} \cup DemandPcs => after["input"] = "fail"
    /\ InputAt("idle") /\ ~idrWanted /\ ~stopping => fed = "decodable"
    /\ InputAt("preCsd") \/ InputAt("queueCsd") => frame = "IDR" /\ csd
    /\ InputAt("postCsd") \/ InputAt("csdDone") => frame = "IDR" /\ fed # "empty"
    /\ InputAt("prePic") \/ InputAt("queuePic") => Decodable
    /\ InputAt("postPic") => fed = "decodable"

\* What the invariant is about, besides the place of the input thread.
fedVars == <<fed, csd, frame, idrWanted, stopping>>

\* A step of another thread that leaves all of it alone keeps it.
LEMMA FeedAside ==
    ASSUME FeedInv, UNCHANGED fedVars, pc'["input"] = pc["input"], after'["input"] = after["input"]
    PROVE  FeedInv'
  BY DEF FeedInv, InputAt, Decodable, fedVars

\* An input thread that is at rest, or about to report its frame as lost, needs
\* nothing of what the codec was given.
LEMMA FeedGivenUp ==
    ASSUME TypeOK, \/ pc'["input"] \in {"wait", "mon", "fail", "hung"} \cup FixPcs
                   \/ pc'["input"] \in RecoveryPcs /\ after'["input"] = "fail"
                   \/ pc'["input"] = "idle" /\ (idrWanted' \/ stopping')
    PROVE  FeedInv'
  BY DEF FeedInv, InputAt, DemandPcs, FixPcs, RecoveryPcs

\* An exception leads the input thread to "fail".
LEMMA FeedException ==
    ASSUME TypeOK, FeedInv, NEW t \in Threads, HandleException(t)
    PROVE  FeedInv'
<1>1. UNCHANGED <<fedVars, after>> /\ pc[t] \in {"exc"} \cup DemandPcs
  BY DEF HandleException, ExceptionWhileStopping, TransientException, DemandRecovery, ExhaustedException,
         CasFromNone, CasFromRestart, CheckRecoveryType, fedVars, codecVars, frameVars, stopVars, DemandPcs
<1>2. pc' = pc \/ \E l \in {"rec", "cas", "casReset", "casGet"} : pc' = [pc EXCEPT ![t] = l]
  BY DEF HandleException, ExceptionWhileStopping, TransientException, DemandRecovery, ExhaustedException,
         CasFromNone, CasFromRestart, CheckRecoveryType, Requested, Goto
<1>3. CASE t = "input"
  <2>1. after'["input"] = "fail" /\ pc'["input"] \in RecoveryPcs
    BY <1>1, <1>2, <1>3 DEF FeedInv, TypeOK, RecoveryPcs, DemandPcs
  <2> QED  BY <2>1, FeedGivenUp
<1>4. CASE t # "input"
  <2>1. pc'["input"] = pc["input"] /\ after'["input"] = after["input"]
    BY <1>1, <1>2, <1>4 DEF TypeOK, Threads
  <2> QED  BY <2>1, <1>1, FeedAside
<1> QED  BY <1>3, <1>4

\* A recovery finds the input thread at rest and leaves it where its frame is lost.
LEMMA FeedRecover ==
    ASSUME TypeOK, QuiesceInv, FeedInv, NEW t \in Threads, Recover(t)
    PROVE  FeedInv'
<1>1. CASE t = "input"
  <2>1. CASE CheckRecovery(t)
    <3>1. UNCHANGED fedVars /\ pc["input"] = "rec"
      BY <1>1, <2>1 DEF CheckRecovery, fedVars, codecVars, frameVars, stopVars
    <3>2. CASE Return("input", FALSE)
      <4>1. pc'["input"] = after["input"] /\ after["input"] \in InputPcs
        BY <3>2 DEF Return, TypeOK, Threads
      <4> QED  BY <3>1, <4>1 DEF FeedInv, InputAt, Decodable, fedVars, InputPcs, FetchPcs, QueuePcs, DemandPcs
    <3>3. CASE Goto("input", "mon")
      <4>1. pc'["input"] = "mon"
        BY <3>3 DEF Goto, TypeOK, Threads
      <4> QED  BY <4>1, FeedGivenUp
    <3> QED  BY <1>1, <2>1, <3>2, <3>3 DEF CheckRecovery
  <2>2. CASE ~CheckRecovery(t)
    <3>1. \/ Return("input", TRUE)
          \/ \E l \in {"wait", "fix", "attempt", "recreate", "commit"} : pc' = [pc EXCEPT !["input"] = l]
          \/ pc' = pc /\ pc["input"] \in FixPcs
      BY <1>1, <2>2 DEF Recover, Quiesce, WakeUp, BeginRecovery, RestartDecoder, ResetDecoder,
             RecreateDecoder, NothingToRecover, CommitRecovery, SurfaceInvalid, FinishRecovery, Goto, FixPcs
    <3>2. pc'["input"] \in {"wait", "fail"} \cup FixPcs
      BY <3>1 DEF Return, TypeOK, Threads, FixPcs
    <3> QED  BY <3>2, FeedGivenUp
  <2> QED  BY <2>1, <2>2
<1>2. CASE t # "input"
  <2>1. pc'["input"] = pc["input"] /\ after'["input"] = after["input"]
    BY <1>2 DEF Recover, CheckRecovery, Quiesce, WakeUp, BeginRecovery, RestartDecoder, ResetDecoder,
           RecreateDecoder, NothingToRecover, CommitRecovery, SurfaceInvalid, FinishRecovery, Return, Goto,
           TypeOK, Threads
  <2>2. CASE CheckRecovery(t) \/ Quiesce(t) \/ WakeUp(t) \/ BeginRecovery(t) \/ NothingToRecover(t) \/ CommitRecovery(t)
    <3>1. UNCHANGED fedVars
      BY <2>2 DEF CheckRecovery, Quiesce, WakeUp, BeginRecovery, NothingToRecover, CommitRecovery,
             fedVars, codecVars, frameVars, stopVars
    <3> QED  BY <2>1, <3>1, FeedAside
  <2>3. CASE RestartDecoder(t) \/ ResetDecoder(t) \/ RecreateDecoder(t)
    <3>1. pc[t] \in FixPcs /\ "input" \in Threads
      BY <2>3 DEF RestartDecoder, ResetDecoder, RecreateDecoder, FixPcs, Threads
    <3>2. Quiet("input") /\ pc["input"] \notin FixPcs
      BY <3>1, <1>2, FixerExcludes
    <3>3. stopping => stopping'
      BY <2>3 DEF RestartDecoder, ResetDecoder, RecreateDecoder, SurfaceInvalid
    <3>4. \/ pc'["input"] \in {"wait", "fail"}
          \/ pc'["input"] = "idle" /\ stopping'
      BY <3>2, <3>3, <2>1 DEF Quiet, TypeOK, InputPcs, FetchPcs, QueuePcs, RecoveryPcs
    <3> QED  BY <3>4, FeedGivenUp
  <2> QED  BY <2>2, <2>3 DEF Recover
<1> QED  BY <1>1, <1>2

\* The input thread submits CSD before the picture that needs it.
LEMMA FeedInput ==
    ASSUME TypeOK, FeedInv, Input
    PROVE  FeedInv'
<1> USE DEF TypeOK, Threads, fedVars, codecVars, frameVars, stopVars, Goto, FetchPcs, QueuePcs, InputPcs
<1>1. CASE NextFrame
  <2>1. /\ pc["input"] = "idle" /\ ~stopping /\ UNCHANGED <<fed, submittedCsd, stopping>>
        /\ \E type \in {"IDR", "P"} :
              /\ idrWanted => type = "IDR"
              /\ frame' = type /\ csd' = (csd \/ type = "IDR")
              /\ pc'["input"] = IF type = "IDR" /\ (~submittedCsd \/ ~FusedIdr) THEN "preCsd" ELSE "prePic"
    BY <1>1 DEF NextFrame
  <2>2. ~idrWanted => fed = "decodable"
    BY <2>1 DEF FeedInv, InputAt
  <2> QED  BY <2>1, <2>2, DecoderAssumption DEF FeedInv, InputAt, Decodable, DemandPcs
<1>2. CASE FetchCached
  <2>1. UNCHANGED fedVars /\ pc["input"] \in FetchPcs /\ pc'["input"] = AfterFetch(pc["input"])
    BY <1>2 DEF FetchCached
  <2> QED  BY <2>1 DEF FeedInv, InputAt, Decodable, DemandPcs, AfterFetch
<1>3. CASE FetchFromCodec
  <2>1. /\ UNCHANGED fedVars /\ pc["input"] \in FetchPcs
        /\ \/ pc'["input"] = "rec" /\ after'["input"] = AfterFetch(pc["input"])
           \/ pc'["input"] = "rec" /\ after'["input"] = "hung"
           \/ pc'["input"] = "exc" /\ after'["input"] = "fail"
    BY <1>3 DEF FetchFromCodec, CallRecovery, Throw
  <2> QED  BY <2>1 DEF FeedInv, InputAt, Decodable, DemandPcs, AfterFetch
<1>4. CASE NoInputBuffer
  <2>1. pc'["input"] \in {"hung", "fail"}
    BY <1>4 DEF NoInputBuffer
  <2> QED  BY <2>1, FeedGivenUp
<1>5. CASE QueueInput
  <2>1. CASE pc'["input"] = "exc" /\ after'["input"] = "fail"
    BY <2>1, FeedGivenUp DEF RecoveryPcs
  <2>2. CASE /\ pc'["input"] = "rec" /\ fed' = Feed
             /\ after'["input"] = IF pc["input"] = "queueCsd" THEN "postCsd" ELSE "postPic"
    <3>1. UNCHANGED <<csd, frame, idrWanted, stopping>> /\ pc["input"] \in QueuePcs
      BY <1>5 DEF QueueInput
    <3>2. CASE pc["input"] = "queueCsd"
      <4>1. csd /\ frame = "IDR"
        BY <3>2 DEF FeedInv, InputAt
      <4>2. fed' # "empty"
        BY <2>2, <3>2, <4>1 DEF Feed
      <4> QED  BY <2>2, <3>1, <3>2, <4>1, <4>2 DEF FeedInv, InputAt, DemandPcs
    <3>3. CASE pc["input"] = "queuePic"
      <4>1. Decodable
        BY <3>3 DEF FeedInv, InputAt
      <4>2. fed' = "decodable"
        BY <2>2, <3>3, <4>1 DEF Feed, Decodable
      <4> QED  BY <2>2, <3>1, <3>3, <4>2 DEF FeedInv, InputAt, DemandPcs
    <3> QED  BY <3>1, <3>2, <3>3
  <2> QED  BY <1>5, <2>1, <2>2 DEF QueueInput, CallRecovery, Throw
<1>6. CASE CsdSubmitted
  <2>1. /\ UNCHANGED <<fed, csd, frame, idrWanted, stopping>>
        /\ pc["input"] = "csdDone" /\ pc'["input"] = "prePic"
    BY <1>6 DEF CsdSubmitted
  <2> QED  BY <2>1 DEF FeedInv, InputAt, Decodable, DemandPcs
<1>7. CASE NeedIdr
  <2>1. pc'["input"] = "idle" /\ idrWanted'
    BY <1>7 DEF NeedIdr
  <2> QED  BY <2>1, FeedGivenUp
<1> QED  BY <1>1, <1>2, <1>3, <1>4, <1>5, <1>6, <1>7 DEF Input

\* Every step keeps the input decodable.
LEMMA FeedStep ==
    ASSUME TypeOK, QuiesceInv, FeedInv, [Next]_vars
    PROVE  FeedInv'
<1>1. CASE UNCHANGED vars
  BY <1>1, FeedAside DEF vars, fedVars, threadVars, codecVars, frameVars, stopVars
<1>2. ASSUME NEW t \in Threads, HandleException(t) \/ Recover(t)
      PROVE  FeedInv'
  BY <1>2, FeedException, FeedRecover
<1>3. CASE Input
  BY <1>3, FeedInput
<1>4. CASE Render \/ Choreo
  <2>1. UNCHANGED fedVars
    BY <1>4 DEF Render, RenderLoop, DequeueOutput, TakeOldest, WakeInterrupted, Choreo, StartChoreographer,
                DoFrame, ReleaseFrame, QuitLooper, fedVars, codecVars, frameVars, stopVars
  <2>2. pc'["input"] = pc["input"] /\ after'["input"] = after["input"]
    BY <1>4 DEF Render, RenderLoop, DequeueOutput, TakeOldest, WakeInterrupted, Choreo, StartChoreographer,
                DoFrame, ReleaseFrame, QuitLooper, Goto, CallRecovery, Throw, Return, TypeOK, Threads
  <2> QED  BY <2>1, <2>2, FeedAside
<1>5. CASE Hdr \/ Teardown
  BY <1>5, FeedAside DEF Hdr, SetHdrMetadata, PromoteToRestart, Teardown, JoinChoreographer, JoinRenderer,
              Cleanup, fedVars, threadVars, codecVars, frameVars, stopVars
<1>6. ASSUME NEW s \in Stoppers, Stop(s)
      PROVE  FeedInv'
  <2>1. UNCHANGED <<fed, csd, frame, idrWanted, pc, after>> /\ (stopping => stopping')
    BY <1>6 DEF Stop, PrepareForStop, InterruptRenderer, CancelRecovery, PostQuit, threadVars, codecVars, frameVars
  <2> QED  BY <2>1 DEF FeedInv, InputAt, Decodable
<1> QED  BY <1>1, <1>2, <1>3, <1>4, <1>5, <1>6 DEF Next, Terminated

\* Every picture handed to the codec is decodable by what this life of the codec was
\* given before, through exceptions, recoveries, lost frames and a stop.
\* (submitDecodeUnit, submittedCsd, DR_NEED_IDR)
THEOREM DecodableFeed == ~SlowStart /\ Spec => []DecodableInput
<1> SUFFICES ASSUME ~SlowStart PROVE Spec => []DecodableInput
  OBVIOUS
<1>1. Init => QuiesceInv
  BY DEF Init, QuiesceInv, FlaggedQuiet, FixerAlone, BeforeChoreographer, CalledOff,
         StoppersStop, Threads, FixPcs
<1>2. Init => FeedInv
  BY DEF Init, FeedInv, InputAt, Threads, DemandPcs
<1>3. TypeOK /\ QuiesceInv /\ FeedInv /\ [Next]_vars => QuiesceInv' /\ FeedInv'
  BY QuietStep, FeedStep
<1>4. FeedInv => DecodableInput
  BY DEF FeedInv, InputAt, Decodable, DecodableInput
<1> QED  BY <1>1, <1>2, <1>3, <1>4, TypeCorrect, PTL DEF Spec
=============================================================================
