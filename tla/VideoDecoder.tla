---------------------------- MODULE VideoDecoder ----------------------------
(***************************************************************************)
(* The MediaCodec based video decoder of the stream:                       *)
(*   app/src/main/java/com/limelight/binding/video/                        *)
(*     MediaCodecDecoderRenderer.java                                      *)
(*                                                                         *)
(* Three threads share one MediaCodec: the native decode thread that       *)
(* submits decode units ("input"), the renderer thread that drains decoded *)
(* frames ("render") and, in the balanced pacing mode only, the            *)
(* choreographer thread that shows them at V-sync ("choreo").  Any of them *)
(* can see the codec throw; the codec is then recovered by the last of the *)
(* three threads to reach doCodecRecoveryIfRequired(), while the others    *)
(* wait in it on codecRecoveryMonitor.  A control thread (setHdrMode)      *)
(* asks for a restart too, and two more threads tear everything down.      *)
(*                                                                         *)
(* Granularity.  One action is what a thread does between two points where *)
(* another one can interfere: every access to the atomic codecRecoveryType *)
(* is a step of its own, a block under codecRecoveryMonitor is split where *)
(* a thread that does not take the monitor can be seen.                    *)
(*                                                                         *)
(* Left out: statistics, logging, decoder selection, SPS rewriting and the *)
(* baseline SPS replay, AV1 (which has no CSD to submit).                  *)
(* CR_RECOVERY_TYPE_FLUSH is left out because no statement of the class    *)
(* ever stores it, so its compare-and-set calls always fail.               *)
(***************************************************************************)
EXTENDS Naturals, Sequences

CONSTANTS
    HasChoreographer,  \* prefs.framePacing == FRAME_PACING_BALANCED
    FusedIdr,          \* fusedIdrFrame: the codec takes CSD and IDR in one buffer
    SlowStart,         \* start() may outlast the renderer's first dequeueOutputBuffer
    CrMaxTries,        \* CR_MAX_TRIES
    Stoppers,          \* who calls prepareForStop: "ui" surfaceDestroyed, "net" stop()
    MaxFaults,         \* bound: exceptions the codec throws outside a recovery
    MaxHdrChanges      \* bound: changes of the HDR metadata

ASSUME DecoderAssumption ==
    /\ HasChoreographer \in BOOLEAN
    /\ FusedIdr \in BOOLEAN
    /\ SlowStart \in BOOLEAN
    /\ CrMaxTries \in Nat \ {0}
    /\ {"net"} \subseteq Stoppers /\ Stoppers \subseteq {"ui", "net"}
    /\ MaxFaults \in Nat
    /\ MaxHdrChanges \in Nat

VARIABLES
    recoveryType,      \* codecRecoveryType
    quiescedFlags,     \* codecRecoveryThreadQuiescedFlags, as a set of threads
    attempts,          \* codecRecoveryAttempts
    initialException,  \* whether initialException was recorded
    pc,                \* where each codec thread is
    after,             \* where it goes on when doCodecRecoveryIfRequired returns
    wanted,            \* the recovery type its handleDecoderException asks for
    nextInput,         \* nextInputBufferIndex / nextInputBuffer
    outputQueue,       \* outputBufferQueue
    codec,             \* videoDecoder: "ok", "null" or "released"
    fed,               \* what the running codec was given since it was configured
    csd,               \* vpsBuffers, spsBuffers and ppsBuffers hold this IDR's CSD
    submittedCsd,      \* submittedCsd
    frame,             \* the type of the frame being submitted
    idrWanted,         \* the native side drops every frame until the next IDR
    hdr,               \* currentHdrMetadata, as a version
    configuredHdr,     \* the version the codec was configured with
    hdrPc,             \* where setHdrMode is
    stopping,          \* stopping
    interrupted,       \* the renderer thread's interrupt status
    quit,              \* the choreographer looper was told to quit
    stopper,           \* where the two callers of prepareForStop are
    crash,             \* why the process died, or "no"
    faults             \* exceptions thrown so far (bound)

recoveryVars == <<recoveryType, quiescedFlags, attempts, initialException>>
threadVars   == <<pc, after, wanted>>
bufferVars   == <<nextInput, outputQueue>>
codecVars    == <<codec, fed, csd, submittedCsd, configuredHdr>>
frameVars    == <<frame, idrWanted>>
hdrVars      == <<hdr, hdrPc>>
stopVars     == <<stopping, interrupted, quit, stopper>>
envVars      == <<crash, faults>>
vars == <<recoveryVars, threadVars, bufferVars, codecVars, frameVars, hdrVars,
          stopVars, envVars>>

NONE    == 0           \* CR_RECOVERY_TYPE_NONE
RESTART == 2           \* CR_RECOVERY_TYPE_RESTART
RESET   == 3           \* CR_RECOVERY_TYPE_RESET

Threads  == {"input", "render", "choreo"}   \* CR_FLAG_ALL
QueueLimit == 2                             \* OUTPUT_BUFFER_QUEUE_LIMIT

\* doCodecRecoveryIfRequired as the final thread to quiesce, under the monitor
FixPcs == {"fix", "attempt", "recreate", "commit"}
\* handleDecoderException and doCodecRecoveryIfRequired, for any thread
RecoveryPcs == {"exc", "cas", "casReset", "casGet", "rec", "mon", "wait"} \cup FixPcs
FetchPcs  == {"preCsd", "postCsd", "prePic", "postPic"}
QueuePcs  == {"queueCsd", "queuePic"}
InputPcs  == {"idle", "csdDone", "hung", "fail"} \cup FetchPcs \cup QueuePcs
RenderPcs == {"loop", "deq", "take", "dead"}
ChoreoPcs == {"absent", "unborn", "idle", "release", "dead"}

\* The steps in which a thread holds or calls into the MediaCodec
CodecPcs == FetchPcs \cup QueuePcs \cup {"deq", "take", "release"}

MonitorFree == \A t \in Threads : pc[t] \notin FixPcs
\* choreographerHandlerThread == null
ChoreographerNull == pc["choreo"] \in {"absent", "unborn"}

Goto(t, label) == pc' = [pc EXCEPT ![t] = label]

\* A call of doCodecRecoveryIfRequired that goes on at ret when it returns false
CallRecovery(t, ret) ==
    /\ pc' = [pc EXCEPT ![t] = "rec"]
    /\ after' = [after EXCEPT ![t] = ret]

\* What after and wanted hold while they are of no use
Home == [input |-> "fail", render |-> "loop", choreo |-> "idle"]

\* Mutant: the input thread does not look at the result
ReturnUnchecked(t, recovered) ==
    /\ pc' = [pc EXCEPT ![t] = after[t]]
    /\ after' = [after EXCEPT ![t] = Home[t]]

\* doCodecRecoveryIfRequired returns: t goes on at after[t], but the input thread
\* looks at the result and fails on true
Return(t, recovered) ==
    /\ pc' = [pc EXCEPT ![t] = IF recovered /\ t = "input" THEN "fail" ELSE after[t]]
    /\ after' = [after EXCEPT ![t] = Home[t]]

-----------------------------------------------------------------------------
(***************************************************************************)
(* The state after start(): the codec is configured and the renderer runs. *)
(* The choreographer thread is started next, by the same call.             *)
(***************************************************************************)
Init ==
    /\ recoveryType = NONE
    /\ quiescedFlags = {}
    /\ attempts = 0
    /\ initialException = FALSE
    /\ pc = [t \in Threads |->
                CASE t = "input"  -> "idle"
                  [] t = "render" -> "loop"
                  [] t = "choreo" -> IF HasChoreographer THEN "unborn" ELSE "absent"]
    /\ after = Home
    /\ wanted = [t \in Threads |-> RESET]
    /\ nextInput = "none"
    /\ outputQueue = <<>>
    /\ codec = "ok"
    /\ fed = "empty"
    /\ csd = FALSE
    /\ submittedCsd = FALSE
    /\ frame = "IDR"
    /\ idrWanted = TRUE
    /\ hdr = 0
    /\ configuredHdr = 0
    /\ hdrPc = "idle"
    /\ stopping = FALSE
    /\ interrupted = FALSE
    /\ quit = FALSE
    /\ stopper = [s \in Stoppers |-> "none"]
    /\ crash = "no"
    /\ faults = 0

\* startChoreographerThread
StartChoreographer ==
    /\ pc["choreo"] = "unborn"
    /\ Goto("choreo", "idle")
    /\ UNCHANGED <<recoveryVars, after, wanted, bufferVars, codecVars, frameVars,
                   hdrVars, stopVars, envVars>>

-----------------------------------------------------------------------------
(***************************************************************************)
(* handleDecoderException.  Thread t caught an exception of the codec and  *)
(* will go on at after[t] (a queued or fetched buffer is given up: "fail").*)
(***************************************************************************)
Throw(t, ret) ==
    /\ faults < MaxFaults
    /\ faults' = faults + 1
    /\ pc' = [pc EXCEPT ![t] = "exc"]
    /\ after' = [after EXCEPT ![t] = ret]

\* The input thread leaks its buffer unless the exception was transient
DropInput(t) == nextInput' = IF t = "input" THEN "none" ELSE nextInput

\* "Eat decoder exceptions if we're in the process of stopping"
ExceptionWhileStopping(t) ==
    /\ pc[t] = "exc"
    /\ stopping
    /\ Goto(t, "rec")
    /\ DropInput(t)
    /\ UNCHANGED <<recoveryVars, after, wanted, outputQueue, codecVars, frameVars,
                   hdrVars, stopVars, envVars>>

\* CodecException.isTransient(): let it go and keep the buffer
TransientException(t) ==
    /\ pc[t] = "exc"
    /\ ~stopping
    /\ Goto(t, "rec")
    /\ UNCHANGED <<recoveryVars, after, wanted, bufferVars, codecVars, frameVars,
                   hdrVars, stopVars, envVars>>

\* Mutant: no limit on the attempts
DemandUnlimited(t) ==
    /\ pc[t] = "exc"
    /\ ~stopping
    /\ \E want \in {RESTART, RESET} : wanted' = [wanted EXCEPT ![t] = want]
    /\ Goto(t, "cas")
    /\ DropInput(t)
    /\ UNCHANGED <<recoveryVars, after, outputQueue, codecVars, frameVars,
                   hdrVars, stopVars, envVars>>

\* A recoverable CodecException asks for a restart, any other for a reset
DemandRecovery(t) ==
    /\ pc[t] = "exc"
    /\ ~stopping
    /\ attempts < CrMaxTries
    /\ \E want \in {RESTART, RESET} : wanted' = [wanted EXCEPT ![t] = want]
    /\ Goto(t, "cas")
    /\ DropInput(t)
    /\ UNCHANGED <<recoveryVars, after, outputQueue, codecVars, frameVars,
                   hdrVars, stopVars, envVars>>

\* No recovery is left: record the first exception, die of it if exceptions
\* still come EXCEPTION_REPORT_DELAY_MS later
ExhaustedException(t) ==
    /\ pc[t] = "exc"
    /\ ~stopping
    /\ attempts >= CrMaxTries
    /\ DropInput(t)
    /\ initialException' = (initialException \/ recoveryType = NONE)
    /\ \/ /\ Goto(t, "rec")
          /\ UNCHANGED crash
       \/ /\ recoveryType = NONE /\ initialException
          /\ crash' = "persistent"
          /\ UNCHANGED pc
    /\ UNCHANGED <<recoveryType, quiescedFlags, attempts, after, wanted, outputQueue,
                   codecVars, frameVars, hdrVars, stopVars, faults>>

\* The recovery t wants is on record
Requested(t) ==
    /\ Goto(t, "rec")
    /\ wanted' = [wanted EXCEPT ![t] = RESET]

\* compareAndSet(CR_RECOVERY_TYPE_NONE, wanted)
CasFromNone(t) ==
    /\ pc[t] = "cas"
    /\ \/ /\ recoveryType = NONE
          /\ recoveryType' = wanted[t]
          /\ Requested(t)
       \/ /\ recoveryType # NONE
          /\ UNCHANGED recoveryType
          /\ Goto(t, IF wanted[t] = RESET THEN "casReset" ELSE "casGet")
          /\ UNCHANGED wanted
    /\ UNCHANGED <<quiescedFlags, attempts, initialException, after, bufferVars,
                   codecVars, frameVars, hdrVars, stopVars, envVars>>

\* compareAndSet(CR_RECOVERY_TYPE_RESTART, CR_RECOVERY_TYPE_RESET)
CasFromRestart(t) ==
    /\ pc[t] = "casReset"
    /\ \/ /\ recoveryType = RESTART
          /\ recoveryType' = RESET
          /\ Requested(t)
       \/ /\ recoveryType # RESTART
          /\ UNCHANGED recoveryType
          /\ Goto(t, "casGet")
          /\ UNCHANGED wanted
    /\ UNCHANGED <<quiescedFlags, attempts, initialException, after, bufferVars,
                   codecVars, frameVars, hdrVars, stopVars, envVars>>

\* The final get(): nothing weaker than what is wanted may be left
CheckRecoveryType(t) ==
    /\ pc[t] = "casGet"
    /\ \/ /\ recoveryType >= wanted[t]
          /\ Requested(t)
          /\ UNCHANGED crash
       \/ /\ recoveryType < wanted[t]
          /\ crash' = "unexpected"
          /\ UNCHANGED <<pc, wanted>>
    /\ UNCHANGED <<recoveryVars, after, bufferVars, codecVars, frameVars,
                   hdrVars, stopVars, faults>>

HandleException(t) ==
    \/ ExceptionWhileStopping(t) \/ TransientException(t) \/ DemandRecovery(t)
    \/ ExhaustedException(t) \/ CasFromNone(t) \/ CasFromRestart(t)
    \/ CheckRecoveryType(t)

-----------------------------------------------------------------------------
(***************************************************************************)
(* doCodecRecoveryIfRequired                                               *)
(***************************************************************************)

\* codecRecoveryType.get() == CR_RECOVERY_TYPE_NONE: the common case
CheckRecovery(t) ==
    /\ pc[t] = "rec"
    /\ \/ recoveryType = NONE /\ Return(t, FALSE)
       \/ recoveryType # NONE /\ Goto(t, "mon") /\ UNCHANGED after
    /\ UNCHANGED <<recoveryVars, wanted, bufferVars, codecVars, frameVars,
                   hdrVars, stopVars, envVars>>

\* Mutant: the choreographer thread counts as quiesced even if there is one
QuiesceWithoutChoreographer(t) ==
    /\ pc[t] = "mon"
    /\ MonitorFree
    /\ quiescedFlags' = quiescedFlags \cup {t, "choreo"}
    /\ \/ quiescedFlags' = Threads /\ Goto(t, "fix") /\ UNCHANGED after
       \/ quiescedFlags' # Threads /\ recoveryType # NONE /\ Goto(t, "wait") /\ UNCHANGED after
       \/ quiescedFlags' # Threads /\ recoveryType = NONE /\ Return(t, TRUE)
    /\ UNCHANGED <<recoveryType, attempts, initialException, wanted, bufferVars,
                   codecVars, frameVars, hdrVars, stopVars, envVars>>

\* Enter the monitor and quiesce; the last thread to do so recovers the codec
Quiesce(t) ==
    /\ pc[t] = "mon"
    /\ MonitorFree
    /\ quiescedFlags' = quiescedFlags \cup {t}
                        \cup (IF ChoreographerNull THEN {"choreo"} ELSE {})
    /\ \/ quiescedFlags' = Threads /\ Goto(t, "fix") /\ UNCHANGED after
       \/ quiescedFlags' # Threads /\ recoveryType # NONE /\ Goto(t, "wait") /\ UNCHANGED after
       \/ quiescedFlags' # Threads /\ recoveryType = NONE /\ Return(t, TRUE)
    /\ UNCHANGED <<recoveryType, attempts, initialException, wanted, bufferVars,
                   codecVars, frameVars, hdrVars, stopVars, envVars>>

\* codecRecoveryMonitor.wait(1000) returns, notified or not, and the loop ends
WakeUp(t) ==
    /\ pc[t] = "wait"
    /\ MonitorFree
    /\ recoveryType = NONE
    /\ Return(t, TRUE)
    /\ UNCHANGED <<recoveryVars, wanted, bufferVars, codecVars, frameVars,
                   hdrVars, stopVars, envVars>>

\* wait() throws InterruptedException in the renderer thread, which stays
\* interrupted and leaves the loop
WakeInterrupted ==
    /\ pc["render"] = "wait"
    /\ MonitorFree
    /\ interrupted
    /\ Return("render", TRUE)
    /\ UNCHANGED <<recoveryVars, wanted, bufferVars, codecVars, frameVars,
                   hdrVars, stopVars, envVars>>

\* Mutant: the frames queued for the choreographer are kept
BeginKeepingFrames(t) ==
    /\ pc[t] = "fix"
    /\ nextInput' = "none"
    /\ attempts' = IF recoveryType # NONE THEN attempts + 1 ELSE attempts
    /\ Goto(t, "attempt")
    /\ UNCHANGED <<recoveryType, quiescedFlags, initialException, after, wanted,
                   outputQueue, codecVars, frameVars, hdrVars, stopVars, envVars>>
\* Mutant: the input buffer kept for the next frame is not given up
BeginKeepingInput(t) ==
    /\ pc[t] = "fix"
    /\ outputQueue' = <<>>
    /\ attempts' = IF recoveryType # NONE THEN attempts + 1 ELSE attempts
    /\ Goto(t, "attempt")
    /\ UNCHANGED <<recoveryType, quiescedFlags, initialException, after, wanted,
                   nextInput, codecVars, frameVars, hdrVars, stopVars, envVars>>

\* "Input and output buffers are invalidated by stop() and reset()"
BeginRecovery(t) ==
    /\ pc[t] = "fix"
    /\ nextInput' = "none"
    /\ outputQueue' = <<>>
    /\ attempts' = IF recoveryType # NONE THEN attempts + 1 ELSE attempts
    /\ Goto(t, "attempt")
    /\ UNCHANGED <<recoveryType, quiescedFlags, initialException, after, wanted,
                   codecVars, frameVars, hdrVars, stopVars, envVars>>

\* configureAndStartDecoder: every buffer of the codec's earlier life is stale
\* now, the CSD must be submitted again, and the HDR metadata is read
ConfigureDecoder ==
    /\ codec' = "ok"
    /\ configuredHdr' = hdr
    /\ submittedCsd' = FALSE
    /\ csd' = FALSE
    /\ fed' = "empty"
    /\ nextInput' = IF nextInput = "none" THEN "none" ELSE "stale"
    /\ outputQueue' = [i \in DOMAIN outputQueue |-> "stale"]

\* Wake all quiesced threads and leave the monitor
FinishRecovery(t) ==
    /\ quiescedFlags' = {}
    /\ Return(t, TRUE)

\* An IllegalArgumentException: "Our Surface is probably invalid, so just stop"
SurfaceInvalid(t) ==
    /\ stopping' = TRUE
    /\ recoveryType' = NONE
    /\ FinishRecovery(t)

\* videoDecoder.stop() and configureAndStartDecoder()
RestartDecoder(t) ==
    /\ pc[t] = "attempt"
    /\ recoveryType = RESTART
    /\ \/ /\ ConfigureDecoder
          /\ Goto(t, "commit")
          /\ UNCHANGED <<recoveryType, quiescedFlags, after, stopping>>
       \/ /\ SurfaceInvalid(t)
          /\ UNCHANGED <<bufferVars, codecVars>>
       \/ \* IllegalStateException: use a bigger hammer
          /\ recoveryType' = RESET
          /\ UNCHANGED <<quiescedFlags, pc, after, bufferVars, codecVars, stopping>>
    /\ UNCHANGED <<attempts, initialException, wanted, frameVars, hdrVars,
                   interrupted, quit, stopper, envVars>>

\* videoDecoder.reset() and configureAndStartDecoder()
ResetDecoder(t) ==
    /\ pc[t] = "attempt"
    /\ recoveryType = RESET
    /\ \/ /\ ConfigureDecoder
          /\ Goto(t, "commit")
          /\ UNCHANGED <<recoveryType, quiescedFlags, after, stopping>>
       \/ /\ SurfaceInvalid(t)
          /\ UNCHANGED <<bufferVars, codecVars>>
       \/ /\ Goto(t, "recreate")
          /\ UNCHANGED <<recoveryType, quiescedFlags, after, bufferVars, codecVars, stopping>>
    /\ UNCHANGED <<attempts, initialException, wanted, frameVars, hdrVars,
                   interrupted, quit, stopper, envVars>>

\* videoDecoder.release() and initializeDecoder(true); tryConfigureDecoder leaves
\* videoDecoder null when it fails
RecreateDecoder(t) ==
    /\ pc[t] = "recreate"
    /\ \/ /\ ConfigureDecoder
          /\ Goto(t, "commit")
          /\ UNCHANGED <<recoveryType, quiescedFlags, after, stopping, crash>>
       \/ /\ SurfaceInvalid(t)
          /\ codec' = "null"
          /\ UNCHANGED <<bufferVars, fed, csd, submittedCsd, configuredHdr, crash>>
       \/ /\ codec' = "null"
          /\ crash' = "unrecoverable"
          /\ UNCHANGED <<recoveryType, quiescedFlags, pc, after, bufferVars, fed, csd,
                         submittedCsd, configuredHdr, stopping>>
    /\ UNCHANGED <<attempts, initialException, wanted, frameVars, hdrVars,
                   interrupted, quit, stopper, faults>>

\* The recovery was called off before it began
NothingToRecover(t) ==
    /\ pc[t] = "attempt"
    /\ recoveryType = NONE
    /\ FinishRecovery(t)
    /\ UNCHANGED <<recoveryType, attempts, initialException, wanted, bufferVars,
                   codecVars, frameVars, hdrVars, stopVars, envVars>>

\* codecRecoveryType.set(CR_RECOVERY_TYPE_NONE), whatever it has become
CommitRecovery(t) ==
    /\ pc[t] = "commit"
    /\ recoveryType' = NONE
    /\ FinishRecovery(t)
    /\ UNCHANGED <<attempts, initialException, wanted, bufferVars, codecVars,
                   frameVars, hdrVars, stopVars, envVars>>

Recover(t) ==
    \/ CheckRecovery(t) \/ Quiesce(t) \/ WakeUp(t) \/ BeginRecovery(t)
    \/ RestartDecoder(t) \/ ResetDecoder(t) \/ RecreateDecoder(t)
    \/ NothingToRecover(t) \/ CommitRecovery(t)

-----------------------------------------------------------------------------
(***************************************************************************)
(* The input thread: BridgeDrSubmitDecodeUnit and submitDecodeUnit         *)
(***************************************************************************)

\* The next frame of the stream.  The native side delivers an IDR frame, CSD
\* units first, after it was asked for one; submitDecodeUnit batches the CSD
\* and, on the picture, submits it first if this codec was not given any yet.
NextFrame ==
    /\ pc["input"] = "idle"
    /\ pc["choreo"] # "unborn"
    /\ ~stopping
    /\ \E type \in {"IDR", "P"} :
          /\ idrWanted => type = "IDR"
          /\ frame' = type
          /\ csd' = (csd \/ type = "IDR")
          /\ Goto("input", IF type = "IDR" /\ (~submittedCsd \/ ~FusedIdr)
                           THEN "preCsd" ELSE "prePic")
    /\ idrWanted' = FALSE
    /\ UNCHANGED <<recoveryVars, after, wanted, bufferVars, codec, fed, submittedCsd,
                   configuredHdr, hdrVars, stopVars, envVars>>

\* Where fetchNextInputBuffer leads when it returns true
AfterFetch(label) ==
    CASE label = "preCsd"  -> "queueCsd"
      [] label = "postCsd" -> "csdDone"
      [] label = "prePic"  -> "queuePic"
      [] label = "postPic" -> "idle"

\* fetchNextInputBuffer: an input buffer is already there
FetchCached ==
    /\ pc["input"] \in FetchPcs
    /\ nextInput # "none"
    /\ Goto("input", AfterFetch(pc["input"]))
    /\ UNCHANGED <<recoveryVars, after, wanted, bufferVars, codecVars, frameVars,
                   hdrVars, stopVars, envVars>>

\* fetchNextInputBuffer: poll dequeueInputBuffer until it gives one, it throws, or
\* the decoder stops; then offer to recover.  getInputBuffer may return null too
FetchFromCodec ==
    /\ pc["input"] \in FetchPcs
    /\ nextInput = "none"
    /\ \/ /\ nextInput' = "fresh"
          /\ CallRecovery("input", AfterFetch(pc["input"]))
          /\ UNCHANGED faults
       \/ /\ CallRecovery("input", "hung")
          /\ UNCHANGED <<nextInput, faults>>
       \/ /\ Throw("input", "fail")
          /\ UNCHANGED nextInput
    /\ UNCHANGED <<recoveryVars, wanted, outputQueue, codecVars, frameVars, hdrVars,
                   stopVars, crash>>

\* There is no buffer; if that took five seconds, report a hung decoder
NoInputBuffer ==
    /\ pc["input"] = "hung"
    /\ \/ /\ Goto("input", "fail")
          /\ UNCHANGED crash
       \/ /\ ~initialException
          /\ crash' = "hung"
          /\ UNCHANGED pc
    /\ UNCHANGED <<recoveryVars, after, wanted, bufferVars, codecVars, frameVars,
                   hdrVars, stopVars, faults>>

\* What the codec has got once the buffer of this step is queued: an IDR picture
\* needs the CSD before it or, fused, with it
Feed ==
    IF pc["input"] = "queueCsd"
    THEN IF csd /\ fed = "empty" THEN "csd" ELSE fed
    ELSE IF frame = "IDR" /\ (fed # "empty" \/ (FusedIdr /\ csd)) THEN "decodable" ELSE fed

\* queueNextInputBuffer: hand the filled buffer to the codec, offer to recover
QueueInput ==
    /\ pc["input"] \in QueuePcs
    /\ \/ /\ nextInput' = "none"
          /\ fed' = Feed
          /\ CallRecovery("input", IF pc["input"] = "queueCsd" THEN "postCsd" ELSE "postPic")
          /\ UNCHANGED faults
       \/ /\ Throw("input", "fail")
          /\ UNCHANGED <<nextInput, fed>>
    /\ UNCHANGED <<recoveryVars, wanted, outputQueue, codec, csd, submittedCsd,
                   configuredHdr, frameVars, hdrVars, stopVars, crash>>

\* The CSD is in: remember it and go on with the picture
CsdSubmitted ==
    /\ pc["input"] = "csdDone"
    /\ submittedCsd' = TRUE
    /\ Goto("input", "prePic")
    /\ UNCHANGED <<recoveryVars, after, wanted, bufferVars, codec, fed, csd,
                   configuredHdr, frameVars, hdrVars, stopVars, envVars>>

\* Mutant: the lost frame is not reported
LoseFrame ==
    /\ pc["input"] = "fail"
    /\ Goto("input", "idle")
    /\ fed' = IF fed = "decodable" THEN "csd" ELSE fed
    /\ UNCHANGED <<recoveryVars, after, wanted, bufferVars, codec, csd, submittedCsd,
                   configuredHdr, frameVars, hdrVars, stopVars, envVars>>

\* submitDecodeUnit returns DR_NEED_IDR: this frame is lost, so the following
\* ones cannot be decoded and the native side waits for an IDR frame
NeedIdr ==
    /\ pc["input"] = "fail"
    /\ Goto("input", "idle")
    /\ idrWanted' = TRUE
    /\ fed' = IF fed = "decodable" THEN "csd" ELSE fed
    /\ UNCHANGED <<recoveryVars, after, wanted, bufferVars, codec, csd, submittedCsd,
                   configuredHdr, frame, hdrVars, stopVars, envVars>>

Input == \/ NextFrame \/ FetchCached \/ FetchFromCodec \/ NoInputBuffer
         \/ QueueInput \/ CsdSubmitted \/ NeedIdr

-----------------------------------------------------------------------------
(***************************************************************************)
(* The renderer thread: startRendererThread                                *)
(***************************************************************************)
RenderLoop ==
    /\ pc["render"] = "loop"
    /\ Goto("render", IF stopping THEN "dead" ELSE "deq")
    /\ UNCHANGED <<recoveryVars, after, wanted, bufferVars, codecVars, frameVars,
                   hdrVars, stopVars, envVars>>

\* Mutant: the renderer only offers to recover after an exception
DequeueWithoutRecovery ==
    /\ pc["render"] = "deq"
    /\ \/ Goto("render", "loop") /\ UNCHANGED <<after, faults>>
       \/ Throw("render", "loop")
    /\ UNCHANGED <<recoveryVars, wanted, bufferVars, codecVars, frameVars, hdrVars,
                   stopVars, crash>>

\* dequeueOutputBuffer: nothing, a frame, or an exception.  A frame is shown at
\* once unless the pacing is balanced; then it is queued for the choreographer,
\* after the oldest one is discarded if the queue is full
DequeueOutput ==
    /\ pc["render"] = "deq"
    /\ SlowStart \/ pc["choreo"] # "unborn"
    /\ \/ /\ CallRecovery("render", "loop")
          /\ UNCHANGED <<outputQueue, faults>>
       \/ /\ HasChoreographer /\ fed # "empty"
          /\ \/ /\ Len(outputQueue) = QueueLimit
                /\ Goto("render", "take")
                /\ UNCHANGED <<outputQueue, after>>
             \/ /\ Len(outputQueue) # QueueLimit
                /\ outputQueue' = Append(outputQueue, "fresh")
                /\ CallRecovery("render", "loop")
          /\ UNCHANGED faults
       \/ /\ Throw("render", "loop")
          /\ UNCHANGED outputQueue
    /\ UNCHANGED <<recoveryVars, wanted, nextInput, codecVars, frameVars, hdrVars,
                   stopVars, crash>>

\* outputBufferQueue.take(), then release the old frame and queue the new one.
\* take() blocks on an empty queue and throws in an interrupted thread
TakeOldest ==
    /\ pc["render"] = "take"
    /\ \/ /\ interrupted
          /\ interrupted' = FALSE
          /\ CallRecovery("render", "dead")
          /\ UNCHANGED <<outputQueue, faults>>
       \/ /\ ~interrupted /\ outputQueue # <<>>
          /\ outputQueue' = Append(Tail(outputQueue), "fresh")
          /\ CallRecovery("render", "loop")
          /\ UNCHANGED <<interrupted, faults>>
       \/ /\ ~interrupted /\ outputQueue # <<>>
          /\ outputQueue' = Tail(outputQueue)
          /\ Throw("render", "loop")
          /\ UNCHANGED interrupted
    /\ UNCHANGED <<recoveryVars, wanted, nextInput, codecVars, frameVars, hdrVars,
                   stopping, quit, stopper, crash>>

Render == RenderLoop \/ DequeueOutput \/ TakeOldest \/ WakeInterrupted

-----------------------------------------------------------------------------
(***************************************************************************)
(* The choreographer thread: doFrame and the looper                        *)
(***************************************************************************)

\* Poll a frame if one is due, otherwise only offer to recover
DoFrame ==
    /\ pc["choreo"] = "idle"
    /\ ~stopping
    /\ \/ /\ outputQueue # <<>>
          /\ outputQueue' = Tail(outputQueue)
          /\ Goto("choreo", "release")
          /\ UNCHANGED after
       \/ /\ CallRecovery("choreo", "idle")
          /\ UNCHANGED outputQueue
    /\ UNCHANGED <<recoveryVars, wanted, nextInput, codecVars, frameVars, hdrVars,
                   stopVars, envVars>>

\* releaseOutputBuffer, tried twice before the exception is handled
ReleaseFrame ==
    /\ pc["choreo"] = "release"
    /\ \/ CallRecovery("choreo", "idle") /\ UNCHANGED faults
       \/ Throw("choreo", "idle")
    /\ UNCHANGED <<recoveryVars, wanted, bufferVars, codecVars, frameVars, hdrVars,
                   stopVars, crash>>

\* The looper runs the quit message between two callbacks
QuitLooper ==
    /\ pc["choreo"] = "idle"
    /\ quit
    /\ Goto("choreo", "dead")
    /\ UNCHANGED <<recoveryVars, after, wanted, bufferVars, codecVars, frameVars,
                   hdrVars, stopVars, envVars>>

Choreo == StartChoreographer \/ DoFrame \/ ReleaseFrame \/ QuitLooper

-----------------------------------------------------------------------------
(***************************************************************************)
(* setHdrMode, on the control thread: it does not take the monitor         *)
(***************************************************************************)
SetHdrMetadata ==
    /\ hdrPc = "idle"
    /\ hdr < MaxHdrChanges
    /\ hdr' = hdr + 1
    /\ attempts' = 0
    /\ hdrPc' = "cas"
    /\ UNCHANGED <<recoveryType, quiescedFlags, initialException, threadVars, bufferVars,
                   codecVars, frameVars, stopVars, envVars>>

\* "Promote None/Flush to Restart and leave Reset alone"
PromoteToRestart ==
    /\ hdrPc = "cas"
    /\ recoveryType' = IF recoveryType = NONE THEN RESTART ELSE recoveryType
    /\ hdrPc' = "idle"
    /\ UNCHANGED <<quiescedFlags, attempts, initialException, threadVars, bufferVars,
                   codecVars, frameVars, hdr, stopVars, envVars>>

Hdr == SetHdrMetadata \/ PromoteToRestart

-----------------------------------------------------------------------------
(***************************************************************************)
(* prepareForStop, from surfaceDestroyed ("ui") and from stop() ("net");   *)
(* stop() goes on to join the threads, and cleanup() releases the codec.   *)
(***************************************************************************)
Step(s, from, to) ==
    /\ stopper[s] = from
    /\ stopper' = [stopper EXCEPT ![s] = to]

PrepareForStop(s) ==
    /\ Step(s, "none", "interrupt")
    /\ s = "net" => pc["choreo"] # "unborn"
    /\ stopping' = TRUE
    /\ UNCHANGED <<recoveryVars, threadVars, bufferVars, codecVars, frameVars, hdrVars,
                   interrupted, quit, envVars>>

\* Mutant: the renderer is not interrupted
SkipInterrupt(s) ==
    /\ Step(s, "interrupt", "clear")
    /\ UNCHANGED <<recoveryVars, threadVars, bufferVars, codecVars, frameVars, hdrVars,
                   stopping, interrupted, quit, envVars>>

InterruptRenderer(s) ==
    /\ Step(s, "interrupt", "clear")
    /\ interrupted' = (interrupted \/ pc["render"] # "dead")
    /\ UNCHANGED <<recoveryVars, threadVars, bufferVars, codecVars, frameVars, hdrVars,
                   stopping, quit, envVars>>

\* "Stop any active codec recovery operations"
CancelRecovery(s) ==
    /\ Step(s, "clear", "quit")
    /\ MonitorFree
    /\ recoveryType' = NONE
    /\ UNCHANGED <<quiescedFlags, attempts, initialException, threadVars, bufferVars,
                   codecVars, frameVars, hdrVars, stopping, interrupted, quit, envVars>>

PostQuit(s) ==
    /\ Step(s, "quit", IF s = "net" THEN "joinChoreo" ELSE "done")
    /\ quit' = (quit \/ ~ChoreographerNull)
    /\ UNCHANGED <<recoveryVars, threadVars, bufferVars, codecVars, frameVars, hdrVars,
                   stopping, interrupted, envVars>>

JoinChoreographer ==
    /\ Step("net", "joinChoreo", "joinRender")
    /\ pc["choreo"] \in {"absent", "dead"}
    /\ UNCHANGED <<recoveryVars, threadVars, bufferVars, codecVars, frameVars, hdrVars,
                   stopping, interrupted, quit, envVars>>

JoinRenderer ==
    /\ Step("net", "joinRender", "joined")
    /\ pc["render"] = "dead"
    /\ UNCHANGED <<recoveryVars, threadVars, bufferVars, codecVars, frameVars, hdrVars,
                   stopping, interrupted, quit, envVars>>

\* cleanup(), after the native side has joined the thread that submits frames
Cleanup ==
    /\ Step("net", "joined", "cleaned")
    /\ pc["input"] = "idle"
    /\ \/ codec = "ok" /\ codec' = "released" /\ UNCHANGED crash
       \/ codec # "ok" /\ crash' = "cleanup" /\ UNCHANGED codec
    /\ UNCHANGED <<recoveryVars, threadVars, bufferVars, fed, csd, submittedCsd,
                   configuredHdr, frameVars, hdrVars, stopping, interrupted, quit, faults>>

Stop(s) == PrepareForStop(s) \/ InterruptRenderer(s) \/ CancelRecovery(s) \/ PostQuit(s)
Teardown == JoinChoreographer \/ JoinRenderer \/ Cleanup

-----------------------------------------------------------------------------
Finished == crash # "no" \/ stopper["net"] = "cleaned"

\* The process died, or the decoder was cleaned up
Terminated == Finished /\ UNCHANGED vars

Next ==
    \/ /\ ~Finished
       /\ \/ \E t \in Threads : HandleException(t) \/ Recover(t)
          \/ Input \/ Render \/ Choreo \/ Hdr
          \/ (\E s \in Stoppers : Stop(s)) \/ Teardown
    \/ Terminated

Spec == Init /\ [][Next]_vars

\* Every thread is scheduled, frames keep coming, the codec answers every call, and
\* a stop that was begun goes on
FairSpec ==
    /\ Spec
    /\ \A t \in Threads : WF_vars(~Finished /\ (HandleException(t) \/ Recover(t)))
    /\ WF_vars(~Finished /\ Input)
    /\ WF_vars(~Finished /\ Render)
    /\ WF_vars(~Finished /\ Choreo)
    /\ WF_vars(~Finished /\ (InterruptRenderer("net") \/ CancelRecovery("net") \/ PostQuit("net")))
    /\ WF_vars(~Finished /\ Teardown)

-----------------------------------------------------------------------------
\* What outputBufferQueue may hold
Frames == {q \in Seq({"fresh", "stale"}) : Len(q) <= QueueLimit}

\* The places each thread can be at, and the values of the shared state; at most
\* OUTPUT_BUFFER_QUEUE_LIMIT frames are held back from the codec.
TypeOK ==
    /\ recoveryType \in {NONE, RESTART, RESET}
    /\ quiescedFlags \subseteq Threads
    /\ attempts \in Nat
    /\ initialException \in BOOLEAN
    /\ pc \in [Threads -> RecoveryPcs \cup InputPcs \cup RenderPcs \cup ChoreoPcs]
    /\ pc["input"] \in RecoveryPcs \cup InputPcs
    /\ pc["render"] \in RecoveryPcs \cup RenderPcs
    /\ pc["choreo"] \in RecoveryPcs \cup ChoreoPcs
    /\ after \in [Threads -> InputPcs \cup RenderPcs \cup ChoreoPcs]
    /\ after["input"] \in InputPcs
    /\ after["render"] \in {"loop", "dead"}
    /\ after["choreo"] = "idle"
    /\ wanted \in [Threads -> {RESTART, RESET}]
    /\ nextInput \in {"none", "fresh", "stale"}
    /\ outputQueue \in Frames
    /\ codec \in {"ok", "null", "released"}
    /\ fed \in {"empty", "csd", "decodable"}
    /\ csd \in BOOLEAN /\ submittedCsd \in BOOLEAN
    /\ frame \in {"IDR", "P"} /\ idrWanted \in BOOLEAN
    /\ hdr \in Nat /\ configuredHdr \in Nat
    /\ hdrPc \in {"idle", "cas"}
    /\ stopping \in BOOLEAN /\ interrupted \in BOOLEAN /\ quit \in BOOLEAN
    /\ stopper \in [Stoppers -> {"none", "interrupt", "clear", "quit", "done",
                                 "joinChoreo", "joinRender", "joined", "cleaned"}]
    /\ crash \in {"no", "persistent", "unexpected", "unrecoverable", "hung", "cleanup"}
    /\ faults \in Nat

\* While a thread stops, resets or recreates the codec no other thread is between
\* two calls of it, and no other thread recovers it at the same time: what the
\* quiescence flags of doCodecRecoveryIfRequired are for.
RecoveryExclusive ==
    \A t, u \in Threads :
        pc[t] \in FixPcs /\ u # t => pc[u] \notin CodecPcs \cup FixPcs

\* No buffer of an earlier life of the codec survives its restart: neither the
\* input buffer kept for the next frame nor a frame waiting for the choreographer.
BuffersFresh ==
    /\ nextInput # "stale"
    /\ \A i \in DOMAIN outputQueue : outputQueue[i] # "stale"

\* The codec is never handed a picture it cannot decode: an IDR picture has the
\* CSD before it or with it, and a P picture follows a decodable IDR picture of the
\* same life of the codec with no frame lost between them.
DecodableInput ==
    pc["input"] = "queuePic" =>
        IF frame = "P" THEN fed = "decodable" ELSE fed # "empty" \/ (FusedIdr /\ csd)

\* The abstract view of CodecLease: who uses, who owns, and what is out on lease
Users  == {t \in Threads : pc[t] \in CodecPcs}
Owner  == {t \in Threads : pc[t] \in FixPcs}
Leases == \/ nextInput # "none"
          \/ outputQueue # <<>>
          \/ pc["render"] = "take"
          \/ pc["choreo"] = "release"
Lease == INSTANCE CodecLease
         WITH users <- Users, owner <- Owner, leases <- Leases, primed <- (fed # "empty")

\* The recovery protocol implements the lease: nobody starts to use a codec that is
\* being recovered, and it is renewed by its only owner, with no buffer of it out.
LeaseSpec == Lease!Spec

\* Recovery does not go on for ever: besides the CR_MAX_TRIES attempts exceptions
\* can ask for, only a restart for new HDR metadata may follow.
AttemptsBounded == attempts <= CrMaxTries + 1

\* A thread that waits for a recovery counts as quiesced until it is released: the
\* flag of a waiter is only cleared when the waiters are woken to work again.
WaitersQuiesced ==
    \A t \in Threads : pc[t] = "wait" /\ recoveryType # NONE => t \in quiescedFlags

\* A recovery that was asked for is done, unless the decoder stops or dies first or a
\* thread is caught waiting for a recovery it no longer takes part in (WaitersQuiesced).
RecoveryCompletes ==
    recoveryType # NONE ~> (recoveryType = NONE \/ stopping \/ crash # "no" \/ ~WaitersQuiesced)

\* stop() does not wait for the renderer thread for ever, even if it waits for a
\* recovery that never comes.
RendererStops ==
    stopper["net"] = "joinRender" ~> (pc["render"] = "dead" \/ crash # "no")

=============================================================================
