-------------------------- MODULE ComputerManager --------------------------
(***************************************************************************)
(* The list of known computers and the threads that poll them:             *)
(*   app/src/main/java/com/limelight/computers/ComputerManagerService.java *)
(* with its main client app/src/main/java/com/limelight/PcView.java.       *)
(*                                                                         *)
(* The model follows one computer (one uuid).  It may have a row in the    *)
(* database, it may be listed by one PollingTuple object or, over time, by *)
(* several, and each tuple has at most one polling thread of its own.      *)
(* Threads that were replaced go on until they notice.  Around them act    *)
(* the main thread of the activity ("ui"), its pairing thread ("pair"),    *)
(* threads that add a computer found by mDNS or typed in (Adders), and the *)
(* callbacks of the network.                                               *)
(*                                                                         *)
(* Granularity.  A block synchronized on pollingTuples is one step: none   *)
(* of them waits for anything else, but for invalidateStateForComputer,    *)
(* which waits for the network lock of the tuple.  A poll is split where   *)
(* it touches what others change: the reference count of the database, the *)
(* count of active polls, the request itself, the row, the listener.       *)
(*                                                                         *)
(* Left out: the addresses (parallelPollPc asks all of them and takes the  *)
(* best answer: the computer answers or not), STUN, wake on LAN, the app   *)
(* list poller, and the shortcut activity with its own listener.           *)
(***************************************************************************)
EXTENDS Integers, FiniteSets

CONSTANTS
    Tuples,        \* PollingTuple objects
    Threads,       \* polling threads
    Adders,        \* calls of addComputerBlocking, each on a thread of its own
    NoThread,      \* a tuple's thread == null
    NoTuple,       \* a thread that never ran
    InitialTries,  \* INITIAL_POLL_TRIES
    OfflineTries,  \* OFFLINE_POLL_TRIES
    Roles,         \* bound: which of the optional actors take part, by choice
    Overlap,       \* the activity acts while its pairing thread runs
    MaxEvents      \* bound: what the user does, and changes of the host and the network

ASSUME ManagerAssumption ==
    /\ NoThread \notin Threads /\ NoTuple \notin Tuples
    /\ Tuples # {} /\ IsFiniteSet(Threads) /\ IsFiniteSet(Adders)
    /\ Threads \cap Adders = {} /\ {"ui", "pair"} \cap (Threads \cup Adders) = {}
    /\ InitialTries \in Nat /\ OfflineTries \in Nat
    /\ Roles \subseteq SUBSET {"add", "pair", "remove", "net", "destroy"}
    /\ Overlap \in BOOLEAN
    /\ MaxEvents \in Nat

VARIABLES
    row,            \* the computer's row: "none", "plain" or, with its certificate, "cert"
    dbRefCount,     \* dbRefCount
    dbOpen,         \* dbManager.close() was not called
    listed,         \* the tuples in pollingTuples
    thread,         \* PollingTuple.thread
    state,          \* PollingTuple.computer.state
    cert,           \* PollingTuple.computer.serverCert # null
    networkLock,    \* the tuples whose networkLock is held by a polling thread
    pollingActive,  \* pollingActive
    listener,       \* listener # null
    activePolls,    \* activePolls
    pc,             \* where each thread is
    tuple,          \* the tuple a polling thread was created for
    interrupted,    \* its interrupt status
    offlineCount,   \* its offlineCount
    tries,          \* pollTriesBeforeOffline of the poll it is in
    saved,          \* the row a poll is about to write
    pulled,         \* the certificate an adder pulled from the list # null
    shown,          \* the state the listener was told last
    running,        \* PcView.runningPolling
    foreground,     \* PcView.inForeground
    dialog,         \* a delete confirmation is displayed
    posted,         \* the pairing thread posted its end to the main thread
    hostUp,         \* the computer answers
    crash,          \* the process died of an exception
    roles, events

refVars == <<dbRefCount, dbOpen>>
dbVars == <<row, refVars>>
tupleVars == <<listed, thread, state, cert>>
pollVars == <<pollingActive, listener, activePolls>>
threadVars == <<tuple, interrupted, offlineCount, tries>>
viewVars == <<running, foreground, dialog, posted>>
envVars == <<hostUp, crash, roles, events>>
vars == <<dbVars, tupleVars, networkLock, pollVars, pc, threadVars, saved, pulled,
          shown, viewVars, envVars>>

States == {"ONLINE", "OFFLINE", "UNKNOWN"}
Rows == {"none", "plain", "cert"}
Actors == Threads \cup Adders \cup {"ui", "pair"}

Goto(a, label) == pc' = [pc EXCEPT ![a] = label]

\* pollingTuples is free: only invalidateStateForComputer waits while it has it
MonitorFree == pc["pair"] # "invLock"

\* Something happens that nobody has to wait for
Event == events < MaxEvents /\ events' = events + 1

\* releaseLocalDatabaseReference
ReleaseReference ==
    /\ dbRefCount' = dbRefCount - 1
    /\ dbOpen' = (dbOpen /\ dbRefCount # 1)

\* A thread object nobody refers to any more stands for the next one
FreeThread(t) == pc[t] = "done" /\ \A u \in Tuples : thread[u] # t
FreeTuple(u) == u \notin listed /\ \A t \in Threads : tuple[t] = u => pc[t] = "done"

-----------------------------------------------------------------------------
(***************************************************************************)
(* onCreate: the computer is in the database, and then in the list, or it  *)
(* is not known yet.  The activity is bound and about to start polling.    *)
(***************************************************************************)
Init ==
    /\ \E known \in BOOLEAN :
          /\ row = IF known THEN "plain" ELSE "none"
          /\ listed = IF known THEN {CHOOSE u \in Tuples : TRUE} ELSE {}
    /\ dbRefCount = 1
    /\ dbOpen = TRUE
    /\ thread = [u \in Tuples |-> NoThread]
    /\ state = [u \in Tuples |-> "UNKNOWN"]
    /\ cert = [u \in Tuples |-> FALSE]
    /\ networkLock = {}
    /\ pollingActive = FALSE
    /\ listener = FALSE
    /\ activePolls = 0
    /\ pc = [a \in Actors |-> CASE a \in Threads -> "done"
                                [] a \in Adders -> "new"
                                [] a = "ui" -> "start"
                                [] OTHER -> "idle"]
    /\ tuple = [t \in Threads |-> NoTuple]
    /\ interrupted = [t \in Threads |-> FALSE]
    /\ offlineCount = [t \in Threads |-> 0]
    /\ tries = [t \in Threads |-> 0]
    /\ saved = [a \in Threads \cup Adders |-> "none"]
    /\ pulled = [a \in Adders |-> FALSE]
    /\ shown = "UNKNOWN"
    /\ running = FALSE
    /\ foreground = TRUE
    /\ dialog = FALSE
    /\ posted = FALSE
    /\ hostUp \in BOOLEAN
    /\ crash = FALSE
    /\ roles \in Roles
    /\ events = 0

-----------------------------------------------------------------------------
(***************************************************************************)
(* The polling thread t: createPollingThread and runPoll(details, false)   *)
(***************************************************************************)

\* The thread ends: nothing of it is used again
EndThread(t) ==
    /\ Goto(t, "done")
    /\ tuple' = [tuple EXCEPT ![t] = NoTuple]
    /\ interrupted' = [interrupted EXCEPT ![t] = FALSE]
    /\ offlineCount' = [offlineCount EXCEPT ![t] = 0]

\* The loop's condition, and sleep() that ends at once in an interrupted thread
LoopCheck(t) ==
    /\ pc[t] = "loop"
    /\ IF interrupted[t] \/ ~pollingActive \/ thread[tuple[t]] # t
       THEN EndThread(t)
       ELSE Goto(t, "lock") /\ UNCHANGED <<tuple, interrupted, offlineCount>>
    /\ UNCHANGED <<dbVars, tupleVars, networkLock, pollVars, tries, saved, pulled, shown,
                   viewVars, envVars>>

\* A poll that returned false counts; the count only matters up to OFFLINE_POLL_TRIES
CountTry(t) ==
    offlineCount' = [offlineCount EXCEPT ![t] = IF @ < OfflineTries THEN @ + 1 ELSE @]

\* synchronized (tuple.networkLock), then getLocalDatabaseReference reads the count
LockNetwork(t) ==
    /\ pc[t] = "lock"
    /\ tuple[t] \notin networkLock
    /\ IF dbRefCount = 0
       THEN CountTry(t) /\ Goto(t, "loop") /\ UNCHANGED networkLock
       ELSE /\ networkLock' = networkLock \cup {tuple[t]}
            /\ Goto(t, "ref")
            /\ UNCHANGED offlineCount
    /\ UNCHANGED <<dbVars, tupleVars, pollVars, tuple, interrupted, tries, saved, pulled,
                   shown, viewVars, envVars>>

\* getLocalDatabaseReference increments the count, and the poll begins
BeginPoll(t) ==
    /\ pc[t] = "ref"
    /\ dbRefCount' = dbRefCount + 1
    /\ activePolls' = activePolls + 1
    /\ tries' = [tries EXCEPT ![t] =
                    IF state[tuple[t]] = "UNKNOWN" THEN InitialTries ELSE OfflineTries]
    /\ Goto(t, "poll")
    /\ UNCHANGED <<row, dbOpen, tupleVars, networkLock, pollingActive, listener, tuple,
                   interrupted, offlineCount, saved, pulled, shown, viewVars, envVars>>

\* runPoll returns result to the thread, which lets the network lock go
EndPoll(t, result) ==
    /\ ReleaseReference
    /\ networkLock' = networkLock \ {tuple[t]}
    /\ IF result THEN offlineCount' = [offlineCount EXCEPT ![t] = 0] ELSE CountTry(t)
    /\ Goto(t, "loop")

\* pollComputer: the computer answered
PollAnswered(t) ==
    /\ pc[t] = "poll"
    /\ hostUp
    /\ activePolls' = activePolls - 1
    /\ state' = [state EXCEPT ![tuple[t]] = "ONLINE"]
    /\ tries' = [tries EXCEPT ![t] = 0]
    /\ Goto(t, "read")
    /\ UNCHANGED <<dbVars, listed, thread, cert, networkLock, pollingActive, listener,
                   tuple, interrupted, offlineCount, saved, pulled, shown, viewVars, envVars>>

\* Mutant: a poll that fails is not counted
PollFailedUncounted(t) ==
    /\ pc[t] = "poll"
    /\ ~hostUp
    /\ activePolls' = activePolls - 1
    /\ ReleaseReference
    /\ networkLock' = networkLock \ {tuple[t]}
    /\ Goto(t, "loop")
    /\ UNCHANGED <<row, tupleVars, pollingActive, listener, threadVars, saved, pulled,
                   shown, viewVars, envVars>>

\* It did not: not worth telling anybody until it has failed often enough
PollFailed(t) ==
    /\ pc[t] = "poll"
    /\ ~hostUp
    /\ activePolls' = activePolls - 1
    /\ IF offlineCount[t] < tries[t]
       THEN EndPoll(t, FALSE) /\ UNCHANGED state
       ELSE /\ state' = [state EXCEPT ![tuple[t]] = "OFFLINE"]
            /\ Goto(t, "read")
            /\ UNCHANGED <<refVars, networkLock, offlineCount>>
    /\ tries' = [tries EXCEPT ![t] = 0]
    /\ UNCHANGED <<row, listed, thread, cert, pollingActive, listener, tuple,
                   interrupted, saved, pulled, shown, viewVars, envVars>>

\* Mutant: the poll is only counted down when it is not interrupted
PollInterruptedCounted(t) ==
    /\ pc[t] = "poll"
    /\ interrupted[t]
    /\ ReleaseReference
    /\ networkLock' = networkLock \ {tuple[t]}
    /\ EndThread(t)
    /\ UNCHANGED <<row, tupleVars, pollVars, tries, saved, pulled, shown, viewVars,
                   envVars>>

\* InterruptedException in pollComputer ends the thread
PollInterrupted(t) ==
    /\ pc[t] = "poll"
    /\ interrupted[t]
    /\ activePolls' = activePolls - 1
    /\ ReleaseReference
    /\ networkLock' = networkLock \ {tuple[t]}
    /\ tries' = [tries EXCEPT ![t] = 0]
    /\ EndThread(t)
    /\ UNCHANGED <<row, tupleVars, pollingActive, listener, saved, pulled, shown,
                   viewVars, envVars>>

\* Mutant: the row keeps what it has
MergeNothing(existing, hasCert) == existing

\* existingComputer.update(details), as far as the row goes
Merge(existing, hasCert) == IF hasCert \/ existing = "cert" THEN "cert" ELSE "plain"

\* Mutant: "It's gone" and the reference is kept
ReadKeepingRef(t) ==
    /\ pc[t] = "read"
    /\ IF state[tuple[t]] = "ONLINE"
       THEN IF row = "none"
            THEN /\ networkLock' = networkLock \ {tuple[t]}
                 /\ CountTry(t)
                 /\ Goto(t, "loop")
                 /\ UNCHANGED <<refVars, saved>>
            ELSE /\ saved' = [saved EXCEPT ![t] = Merge(row, cert[tuple[t]])]
                 /\ Goto(t, "write")
                 /\ UNCHANGED <<refVars, networkLock, offlineCount>>
       ELSE /\ Goto(t, "notify")
            /\ UNCHANGED <<refVars, networkLock, offlineCount, saved>>
    /\ UNCHANGED <<row, tupleVars, pollVars, tuple, interrupted, tries, pulled, shown,
                   viewVars, envVars>>

\* Online: read the row, which "could have been removed after this was issued"
ReadRow(t) ==
    /\ pc[t] = "read"
    /\ state[tuple[t]] = "ONLINE" => dbOpen
    /\ IF state[tuple[t]] = "ONLINE"
       THEN IF row = "none"
            THEN EndPoll(t, FALSE) /\ UNCHANGED saved
            ELSE /\ saved' = [saved EXCEPT ![t] = Merge(row, cert[tuple[t]])]
                 /\ Goto(t, "write")
                 /\ UNCHANGED <<refVars, networkLock, offlineCount>>
       ELSE /\ Goto(t, "notify")
            /\ UNCHANGED <<refVars, networkLock, offlineCount, saved>>
    /\ UNCHANGED <<row, tupleVars, pollVars, tuple, interrupted, tries, pulled, shown,
                   viewVars, envVars>>

\* updateComputer inserts the row or replaces it
WriteRow(a) ==
    /\ pc[a] = "write"
    /\ dbOpen
    /\ row' = saved[a]
    /\ saved' = [saved EXCEPT ![a] = "none"]
    /\ Goto(a, "notify")
    /\ UNCHANGED <<refVars, tupleVars, networkLock, pollVars, threadVars,
                   pulled, shown, viewVars, envVars>>

\* Tell the listener, release the reference, return true
NotifyListener(t) ==
    /\ pc[t] = "notify"
    /\ shown' = IF listener THEN state[tuple[t]] ELSE shown
    /\ EndPoll(t, TRUE)
    /\ UNCHANGED <<row, tupleVars, pollVars, tuple, interrupted, tries, saved, pulled,
                   viewVars, envVars>>

Poller(t) ==
    \/ LoopCheck(t) \/ LockNetwork(t) \/ BeginPoll(t) \/ PollAnswered(t)
    \/ PollFailed(t) \/ PollInterrupted(t) \/ ReadRow(t) \/ WriteRow(t)
    \/ NotifyListener(t)

-----------------------------------------------------------------------------
(***************************************************************************)
(* addComputerBlocking, on thread a of the discovery or of the activity    *)
(* that adds computers by hand                                             *)
(***************************************************************************)
StartAdd(a) ==
    /\ pc[a] = "new"
    /\ "add" \in roles
    /\ Goto(a, "ask")
    /\ UNCHANGED <<dbVars, tupleVars, networkLock, pollVars, threadVars, saved, pulled,
                   shown, viewVars, envVars>>

\* The first pollComputer, which runPoll does not count; no answer or an interrupt
\* ends the attempt
FirstPoll(a) ==
    /\ pc[a] = "ask"
    /\ \/ hostUp /\ Goto(a, "pin")
       \/ Goto(a, "done")
    /\ UNCHANGED <<dbVars, tupleVars, networkLock, pollVars, threadVars, saved, pulled, shown,
                   viewVars, envVars>>

\* Take the pinned certificate of the listed computer; then runPoll(fakeDetails, true)
\* reads the reference count
PullCert(a) ==
    /\ pc[a] = "pin"
    /\ MonitorFree
    /\ pulled' = [pulled EXCEPT ![a] = \E u \in listed : cert[u]]
    /\ Goto(a, IF dbRefCount = 0 THEN "add" ELSE "ref")
    /\ UNCHANGED <<dbVars, tupleVars, networkLock, pollVars, threadVars, saved, shown,
                   viewVars, envVars>>

BeginAddPoll(a) ==
    /\ pc[a] = "ref"
    /\ dbRefCount' = dbRefCount + 1
    /\ activePolls' = activePolls + 1
    /\ Goto(a, "poll")
    /\ UNCHANGED <<row, dbOpen, tupleVars, networkLock, pollingActive, listener,
                   threadVars, saved, pulled, shown, viewVars, envVars>>

\* Answered, or the new computer is given up: OFFLINE after a failure, or interrupted
SecondPoll(a) ==
    /\ pc[a] = "poll"
    /\ activePolls' = activePolls - 1
    /\ \/ /\ hostUp
          /\ Goto(a, "read")
          /\ UNCHANGED <<refVars, pulled>>
       \/ /\ ReleaseReference
          /\ pulled' = [pulled EXCEPT ![a] = FALSE]
          /\ Goto(a, "done")
    /\ UNCHANGED <<row, tupleVars, networkLock, pollingActive, listener, threadVars,
                   saved, shown, viewVars, envVars>>

ReadNewRow(a) ==
    /\ pc[a] = "read"
    /\ dbOpen
    /\ saved' = [saved EXCEPT ![a] = Merge(row, pulled[a])]
    /\ Goto(a, "write")
    /\ UNCHANGED <<dbVars, tupleVars, networkLock, pollVars, threadVars, pulled, shown,
                   viewVars, envVars>>

NotifyAdded(a) ==
    /\ pc[a] = "notify"
    /\ shown' = IF listener THEN "ONLINE" ELSE shown
    /\ ReleaseReference
    /\ Goto(a, "add")
    /\ UNCHANGED <<row, tupleVars, networkLock, pollVars, threadVars, saved, pulled,
                   viewVars, envVars>>

\* createPollingThread for the tuples of us, one thread for each; thread a goes on at
\* label.  It does not matter which of the free threads stand for the new ones
CreateThreads(a, label, us) ==
    LET free == {t \in Threads : FreeThread(t)}
        assignments == {new \in [us -> free] : \A u, v \in us : u # v => new[u] # new[v]}
        new == CHOOSE f \in assignments : TRUE
        fresh == {new[u] : u \in us}
    IN  /\ assignments # {}
        /\ thread' = [u \in Tuples |-> IF u \in us THEN new[u] ELSE thread[u]]
        /\ tuple' = [t \in Threads |->
                       IF t \in fresh THEN CHOOSE u \in us : new[u] = t ELSE tuple[t]]
        /\ interrupted' = [t \in Threads |-> t \notin fresh /\ interrupted[t]]
        /\ offlineCount' = [t \in Threads |-> IF t \in fresh THEN 0 ELSE offlineCount[t]]
        /\ pc' = [b \in Actors |-> CASE b = a -> label
                                     [] b \in fresh -> "loop"
                                     [] OTHER -> pc[b]]
        /\ UNCHANGED tries

\* A PollingTuple that is not in use, if the bound leaves one: any will do
NewTuple == LET free == {u \in Tuples : FreeTuple(u)}
            IN  IF free = {} THEN {} ELSE {CHOOSE u \in free : TRUE}

\* The tuple addTuple works on: the listed one or a new one
AddTarget == IF listed # {} THEN listed ELSE NewTuple

\* Mutant: a listed computer gets another thread
AddAnotherThread(a) ==
    /\ pc[a] = "add"
    /\ MonitorFree
    /\ pulled' = [pulled EXCEPT ![a] = FALSE]
    /\ \E u \in AddTarget :
          /\ listed' = listed \cup {u}
          /\ state' = [state EXCEPT ![u] = "ONLINE"]
          /\ cert' = [cert EXCEPT ![u] = pulled[a] \/ (u \in listed /\ cert[u])]
          /\ CreateThreads(a, "done", IF pollingActive THEN {u} ELSE {})
    /\ UNCHANGED <<dbVars, networkLock, pollVars, saved, shown, viewVars, envVars>>

\* addTuple: update the listed computer or list a new one, and poll it
AddTuple(a) ==
    /\ pc[a] = "add"
    /\ MonitorFree
    /\ pulled' = [pulled EXCEPT ![a] = FALSE]
    /\ \E u \in AddTarget :
          /\ listed' = listed \cup {u}
          /\ state' = [state EXCEPT ![u] = "ONLINE"]
          /\ cert' = [cert EXCEPT ![u] = pulled[a] \/ (u \in listed /\ cert[u])]
          /\ CreateThreads(a, "done",
                 IF pollingActive /\ thread[u] = NoThread THEN {u} ELSE {})
    /\ UNCHANGED <<dbVars, networkLock, pollVars, saved, shown, viewVars, envVars>>

Adder(a) ==
    \/ FirstPoll(a) \/ PullCert(a) \/ BeginAddPoll(a) \/ SecondPoll(a)
    \/ ReadNewRow(a) \/ WriteRow(a) \/ NotifyAdded(a) \/ AddTuple(a)

\* A poll that read a reference count of one when it was given up uses a database
\* that is closed by now: SQLite throws
DatabaseClosed(a) ==
    /\ ~dbOpen
    /\ \/ pc[a] = "write"
       \/ pc[a] = "read" /\ (a \in Threads => state[tuple[a]] = "ONLINE")
    /\ crash' = TRUE
    /\ UNCHANGED <<dbVars, tupleVars, networkLock, pollVars, pc, threadVars, saved,
                   pulled, shown, viewVars, hostUp, roles, events>>

-----------------------------------------------------------------------------
(***************************************************************************)
(* startPolling and stopPolling, as startComputerUpdates and               *)
(* stopComputerUpdates of the activity call them on thread a               *)
(***************************************************************************)

\* "Only allow polling to start if we're bound to CMS, polling is not already
\* running, and our activity is in the foreground."
StartUpdates ==
    /\ pc["ui"] = "start"
    /\ Overlap \/ pc["pair"] = "idle"
    /\ Goto("ui", IF ~running /\ foreground THEN "setActive" ELSE "idle")
    /\ UNCHANGED <<dbVars, tupleVars, networkLock, pollVars, threadVars, saved, pulled,
                   shown, viewVars, envVars>>

SetActive ==
    /\ pc["ui"] = "setActive"
    /\ pollingActive' = TRUE
    /\ Goto("ui", "setListener")
    /\ UNCHANGED <<dbVars, tupleVars, networkLock, listener, activePolls, threadVars,
                   saved, pulled, shown, viewVars, envVars>>

SetListener ==
    /\ pc["ui"] = "setListener"
    /\ listener' = TRUE
    /\ Goto("ui", "startThreads")
    /\ UNCHANGED <<dbVars, tupleVars, networkLock, pollingActive, activePolls,
                   threadVars, saved, pulled, shown, viewVars, envVars>>

\* Report each computer, its state timed out or not, and poll it
StartThreads ==
    /\ pc["ui"] = "startThreads"
    /\ MonitorFree
    /\ \E expired \in SUBSET listed :
          /\ state' = [u \in Tuples |-> IF u \in expired THEN "UNKNOWN" ELSE state[u]]
          /\ shown' \in IF listed = {} THEN {shown} ELSE {state'[u] : u \in listed}
    /\ CreateThreads("ui", "idle", {u \in listed : thread[u] = NoThread})
    /\ running' = TRUE
    /\ UNCHANGED <<dbVars, listed, cert, networkLock, pollVars, saved, pulled,
                   foreground, dialog, posted, envVars>>

StartPolling == SetActive \/ SetListener \/ StartThreads

\* Where a thread goes on when it stopped the updates, or found none to stop
AfterStop(a) == IF a = "pair" THEN "pairing" ELSE IF foreground THEN "menu" ELSE "idle"

StopUpdates(a) ==
    /\ pc[a] = "stop"
    /\ Goto(a, IF running THEN "setInactive" ELSE AfterStop(a))
    /\ UNCHANGED <<dbVars, tupleVars, networkLock, pollVars, threadVars, saved, pulled,
                   shown, viewVars, envVars>>

SetInactive(a) ==
    /\ pc[a] = "setInactive"
    /\ pollingActive' = FALSE
    /\ Goto(a, "stopThreads")
    /\ UNCHANGED <<dbVars, tupleVars, networkLock, listener, activePolls, threadVars,
                   saved, pulled, shown, viewVars, envVars>>

\* Interrupt the threads of the tuples in us and forget them
StopThreadsOf(us) ==
    /\ interrupted' = [t \in Threads |->
                        interrupted[t] \/ (pc[t] # "done" /\ t \in {thread[u] : u \in us})]
    /\ thread' = [u \in Tuples |-> IF u \in us THEN NoThread ELSE thread[u]]

StopThreads(a) ==
    /\ pc[a] = "stopThreads"
    /\ MonitorFree
    /\ StopThreadsOf(listed)
    /\ Goto(a, "clearListener")
    /\ UNCHANGED <<dbVars, listed, state, cert, networkLock, pollVars, tuple,
                   offlineCount, tries, saved, pulled, shown, viewVars, envVars>>

\* The pairing thread goes on to waitForPollingStopped
ClearListener(a) ==
    /\ pc[a] = "clearListener"
    /\ listener' = FALSE
    /\ IF a = "pair"
       THEN Goto(a, "wait") /\ UNCHANGED running
       ELSE Goto(a, AfterStop(a)) /\ running' = FALSE
    /\ UNCHANGED <<dbVars, tupleVars, networkLock, pollingActive, activePolls,
                   threadVars, saved, pulled, shown, foreground, dialog, posted, envVars>>

StopPolling(a) == StopUpdates(a) \/ SetInactive(a) \/ StopThreads(a) \/ ClearListener(a)

-----------------------------------------------------------------------------
(***************************************************************************)
(* doPair on a thread of its own: the network part is one step             *)
(***************************************************************************)
WaitForPollingStopped ==
    /\ pc["pair"] = "wait"
    /\ activePolls = 0
    /\ running' = FALSE
    /\ Goto("pair", "pairing")
    /\ UNCHANGED <<dbVars, tupleVars, networkLock, pollVars, threadVars, saved, pulled,
                   shown, foreground, dialog, posted, envVars>>

PairingFailed ==
    /\ pc["pair"] = "pairing"
    /\ posted' = TRUE
    /\ Goto("pair", "idle")
    /\ UNCHANGED <<dbVars, tupleVars, networkLock, pollVars, threadVars, saved, pulled,
                   shown, running, foreground, dialog, envVars>>

\* "Pin this certificate for later HTTPS use": getComputer() is null when the
\* computer was removed meanwhile
Paired ==
    /\ pc["pair"] = "pairing"
    /\ MonitorFree
    /\ IF listed = {}
       THEN crash' = TRUE /\ UNCHANGED <<pc, cert>>
       ELSE /\ cert' = [u \in Tuples |-> u \in listed \/ cert[u]]
            /\ Goto("pair", "inv")
            /\ UNCHANGED crash
    /\ UNCHANGED <<dbVars, listed, thread, state, networkLock, pollVars, threadVars,
                   saved, pulled, shown, viewVars, hostUp, roles, events>>

\* invalidateStateForComputer enters pollingTuples
Invalidate ==
    /\ pc["pair"] = "inv"
    /\ Goto("pair", "invLock")
    /\ UNCHANGED <<dbVars, tupleVars, networkLock, pollVars, threadVars, saved, pulled,
                   shown, viewVars, envVars>>

\* "We need the network lock to prevent a concurrent poll from wiping this change out"
InvalidateLocked ==
    /\ pc["pair"] = "invLock"
    /\ networkLock \cap listed = {}
    /\ state' = [u \in Tuples |-> IF u \in listed THEN "UNKNOWN" ELSE state[u]]
    /\ posted' = TRUE
    /\ Goto("pair", "idle")
    /\ UNCHANGED <<dbVars, listed, thread, cert, networkLock, pollVars, threadVars,
                   saved, pulled, shown, running, foreground, dialog, envVars>>

Pair == StopPolling("pair") \/ WaitForPollingStopped \/ PairingFailed \/ Paired
        \/ Invalidate \/ InvalidateLocked

-----------------------------------------------------------------------------
(***************************************************************************)
(* The main thread.  The user's choices are bounded by MaxEvents; without     *)
(* Overlap the user waits for the pairing thread.                          *)
(***************************************************************************)
Choose(label) ==
    /\ Overlap \/ pc["pair"] = "idle"
    /\ Event
    /\ Goto("ui", label)
    /\ UNCHANGED <<dbVars, tupleVars, networkLock, pollVars, threadVars, saved, pulled,
                   shown, running, posted, hostUp, crash, roles>>

OnResume ==
    /\ pc["ui"] = "idle"
    /\ ~foreground
    /\ foreground' = TRUE
    /\ Choose("start")
    /\ UNCHANGED dialog

OnPause ==
    /\ pc["ui"] = "idle"
    /\ foreground
    /\ foreground' = FALSE
    /\ Choose("stop")
    /\ UNCHANGED dialog

OnCreateContextMenu ==
    /\ pc["ui"] = "idle"
    /\ foreground
    /\ listed # {}
    /\ Choose("stop")
    /\ UNCHANGED <<foreground, dialog>>

\* The menu is closed, with DELETE_ID chosen or without
OnContextMenuClosed ==
    /\ pc["ui"] = "menu"
    /\ dialog' \in {dialog, "remove" \in roles}
    /\ Goto("ui", "start")
    /\ UNCHANGED <<dbVars, tupleVars, networkLock, pollVars, threadVars, saved, pulled,
                   shown, running, foreground, posted, envVars>>

\* doPair, from the menu or by a touch
LaunchPairing ==
    /\ pc["ui"] \in {"menu", "idle"}
    /\ "pair" \in roles
    /\ foreground
    /\ pc["pair"] = "idle"
    /\ \E u \in listed : state[u] # "OFFLINE" /\ ~cert[u]
    /\ Event
    /\ pc' = [pc EXCEPT !["pair"] = "stop", !["ui"] = IF @ = "menu" THEN "start" ELSE @]
    /\ UNCHANGED <<dbVars, tupleVars, networkLock, pollVars, threadVars, saved, pulled,
                   shown, viewVars, hostUp, crash, roles>>

\* What the pairing thread posted: startComputerUpdates, or the list of applications
\* whose activity starts polling itself
RunPosted ==
    /\ pc["ui"] = "idle"
    /\ posted
    /\ posted' = FALSE
    /\ Goto("ui", "start")
    /\ UNCHANGED <<dbVars, tupleVars, networkLock, pollVars, threadVars, saved, pulled,
                   shown, running, foreground, dialog, envVars>>

\* The deletion is confirmed: take a reference and delete the row
DeleteRow ==
    /\ pc["ui"] = "idle"
    /\ dialog
    /\ dialog' = FALSE
    /\ dbRefCount' = dbRefCount + 1
    /\ row' = "none"
    /\ Goto("ui", "unlist")
    /\ UNCHANGED <<dbOpen, tupleVars, networkLock, pollVars, threadVars, saved, pulled,
                   shown, running, foreground, posted, envVars>>

\* "Remove the computer from the computer list", stop its thread, release the reference
RemoveTuple ==
    /\ pc["ui"] = "unlist"
    /\ MonitorFree
    /\ StopThreadsOf(listed)
    /\ listed' = {}
    /\ ReleaseReference
    /\ Goto("ui", "idle")
    /\ UNCHANGED <<row, state, cert, networkLock, pollVars, tuple, offlineCount, tries,
                   saved, pulled, shown, viewVars, envVars>>

\* onDestroy of the service, once its clients are gone
OnDestroy ==
    /\ pc["ui"] = "idle"
    /\ "destroy" \in roles
    /\ ~foreground /\ ~running
    /\ pc["pair"] = "idle"
    /\ ReleaseReference
    /\ Goto("ui", "gone")
    /\ UNCHANGED <<row, tupleVars, networkLock, pollVars, threadVars, saved, pulled, shown,
                   viewVars, envVars>>

\* What the main thread does once it has begun to
Ui == StartUpdates \/ StartPolling \/ StopPolling("ui") \/ OnContextMenuClosed
      \/ RunPosted \/ RemoveTuple
User == OnResume \/ OnPause \/ OnCreateContextMenu \/ LaunchPairing \/ DeleteRow
        \/ OnDestroy

-----------------------------------------------------------------------------
\* The computer begins or ceases to answer
HostChanges ==
    /\ Event
    /\ hostUp' = ~hostUp
    /\ UNCHANGED <<dbVars, tupleVars, networkLock, pollVars, pc, threadVars, saved, pulled,
                   shown, viewVars, crash, roles>>

\* onAvailable and onLost of the default network
NetworkChanges ==
    /\ "net" \in roles
    /\ Event
    /\ MonitorFree
    /\ \E s \in {"UNKNOWN", "OFFLINE"} :
          /\ state' = [u \in Tuples |-> IF u \in listed THEN s ELSE state[u]]
          /\ shown' = IF listener /\ listed # {} THEN s ELSE shown
    /\ UNCHANGED <<dbVars, listed, thread, cert, networkLock, pollVars, pc, threadVars,
                   saved, pulled, viewVars, hostUp, crash, roles>>

Next ==
    /\ ~crash
    /\ \/ \E t \in Threads : Poller(t) \/ DatabaseClosed(t)
       \/ \E a \in Adders : StartAdd(a) \/ Adder(a) \/ DatabaseClosed(a)
       \/ Ui \/ User \/ Pair \/ HostChanges \/ NetworkChanges

Spec == Init /\ [][Next]_vars

\* Every thread is scheduled, requests end (they have timeouts) and menus are closed;
\* the user, the host and the network need not do anything
FairSpec ==
    /\ Spec
    /\ \A t \in Threads : WF_vars(~crash /\ Poller(t))
    /\ \A a \in Adders : WF_vars(~crash /\ Adder(a))
    /\ WF_vars(~crash /\ Ui)
    /\ WF_vars(~crash /\ Pair)

-----------------------------------------------------------------------------
\* The shared state and the places each thread can be at; neither count of references
\* and polls is ever negative.
TypeOK ==
    /\ row \in Rows
    /\ dbRefCount \in Nat
    /\ dbOpen \in BOOLEAN
    /\ listed \subseteq Tuples
    /\ thread \in [Tuples -> Threads \cup {NoThread}]
    /\ state \in [Tuples -> States]
    /\ cert \in [Tuples -> BOOLEAN]
    /\ networkLock \subseteq Tuples
    /\ pollingActive \in BOOLEAN
    /\ listener \in BOOLEAN
    /\ activePolls \in Nat
    /\ tuple \in [Threads -> Tuples \cup {NoTuple}]
    /\ interrupted \in [Threads -> BOOLEAN]
    /\ offlineCount \in [Threads -> Nat]
    /\ tries \in [Threads -> Nat]
    /\ saved \in [Threads \cup Adders -> Rows]
    /\ pulled \in [Adders -> BOOLEAN]
    /\ shown \in States
    /\ running \in BOOLEAN
    /\ foreground \in BOOLEAN
    /\ dialog \in BOOLEAN
    /\ posted \in BOOLEAN
    /\ hostUp \in BOOLEAN
    /\ crash \in BOOLEAN
    /\ roles \in Roles
    /\ events \in Nat
    /\ DOMAIN pc = Actors
    /\ \A t \in Threads : pc[t] \in
          {"done", "loop", "lock", "ref", "poll", "read", "write", "notify"}
    /\ \A a \in Adders : pc[a] \in
          {"new", "done", "ask", "pin", "ref", "poll", "read", "write", "notify", "add"}
    /\ pc["pair"] \in {"idle", "stop", "setInactive", "stopThreads", "clearListener",
                       "wait", "pairing", "inv", "invLock"}
    /\ pc["ui"] \in {"idle", "start", "setActive", "setListener", "startThreads", "stop",
                     "setInactive", "stopThreads", "clearListener", "menu", "unlist", "gone"}

\* Who has a reference to the database: polls that began, the removal of a computer,
\* the service itself until it is destroyed
Referrers == {a \in Threads \cup Adders : pc[a] \in {"poll", "read", "write", "notify"}}
             \cup {a \in {"ui"} : pc[a] = "unlist"}
Polls == {a \in Threads \cup Adders : pc[a] = "poll"}

\* Every early return and every exception of runPoll gives back what it took: the
\* reference count of the database and the count of active polls that pairing waits
\* for are those of the polls under way.
CountsBalance ==
    /\ dbRefCount = Cardinality(Referrers) + (IF pc["ui"] = "gone" THEN 0 ELSE 1)
    /\ activePolls = Cardinality(Polls)

\* A computer is never listed twice, however it is found and found again.
UniqueTuple == Cardinality(listed) <= 1

\* No polling thread is lost: one that goes on without an interrupt is the thread of
\* a listed computer, so that stopping and removing reach all of them.
PollersOwned ==
    \A t \in Threads :
        pc[t] # "done" =>
            \/ interrupted[t]
            \/ tuple[t] \in listed /\ thread[tuple[t]] = t

\* While polling is active every listed computer has a thread that polls it, whether
\* it was listed before polling started, meanwhile or after.
EveryComputerPolled ==
    (pollingActive /\ pc["ui"] \notin {"setListener", "startThreads"}) =>
        \A u \in listed : thread[u] # NoThread /\ pc[thread[u]] # "done"

\* The tuples and their threads, with the types.
TuplesSound == TypeOK /\ UniqueTuple /\ PollersOwned /\ EveryComputerPolled

\* Once nothing changes any more the list and the screen tell the truth about a
\* computer that is polled: it answers or it does not.
StateConverges ==
    <>[](pollingActive /\ listed # {} /\ row # "none") =>
        \/ <>crash
        \/ \E s \in {"ONLINE", "OFFLINE"} :
              /\ <>[](shown = s /\ \A u \in listed : state[u] = s)
              /\ <>[](hostUp <=> s = "ONLINE")

\* The certificate of a paired computer reaches the database if it is polled long
\* enough, whatever older row an adding thread writes in between.
CertPersisted ==
    <>[](pollingActive /\ hostUp /\ row # "none" /\ \E u \in listed : cert[u]) =>
        <>(crash \/ [](row = "cert"))

\* The pairing thread does not wait for ever for polls to stop.
PairingProceeds == pc["pair"] = "wait" ~> (pc["pair"] = "pairing" \/ crash)

\* PcView: "Stop updates and wait while pairing".  Not so when the activity acts
\* meanwhile.
PairsUndisturbed == pc["pair"] = "pairing" => ~pollingActive

=============================================================================
