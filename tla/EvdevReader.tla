---------------------------- MODULE EvdevReader ----------------------------
(***************************************************************************)
(* The process that reads the input devices as root.                       *)
(*   app/src/main/jni/evdev_reader/evdev_reader.c                          *)
(*                                                                         *)
(* The main thread connects to the application, opens the mice and         *)
(* keyboards under /dev/input, starts a thread for each, and then obeys    *)
(* the two requests of the application: to take the devices for itself     *)
(* (EVIOCGRAB) or to give them back.  When no request came for a second it *)
(* looks for new devices again.  The threads read their device until it    *)
(* fails, take its entry off the list and free it.                         *)
(*                                                                         *)
(* DeviceListLock protects the list.  The flag `grabbing' is written under *)
(* the lock, but the threads read it without.                              *)
(*                                                                         *)
(* The kernel: a device belongs to at most one open file at a time, to     *)
(* grab it again fails with EBUSY whoever has it, a file of a device that  *)
(* was pulled out only returns errors.  malloc fails when the entries are  *)
(* used up; pthread_create fails like it.  Left out: what is read from a   *)
(* device, the failure of opendir, a short write to the socket.            *)
(***************************************************************************)
EXTENDS Naturals, Sequences, FiniteSets, SequencesExt

CONSTANTS
    Names,       \* the names in /dev/input
    Mice,        \* the names whose device is a mouse or keyboard and no gamepad
    MaxEntries,  \* bound: the entries malloc can give
    Worlds,      \* bound: the names that may occur together, and how often a
                 \* device is plugged or pulled out or the user asks for something
    None

Entries == 1 .. MaxEntries

ASSUME EvdevReaderAssumption ==
    /\ Mice \subseteq Names
    /\ Worlds \subseteq [names : SUBSET Names, events : Nat]
    /\ MaxEntries \in Nat
    /\ None \notin Names \cup Entries

VARIABLES
    world,       \* the one of Worlds
    plugged,     \* the names whose device is there
    events,      \* bound
    entry,       \* struct DeviceEntry of each allocated entry and the file it opened
    thread,      \* where the thread of each entry is
    list,        \* DeviceListHead and its successors
    locked,      \* the main thread holds DeviceListLock
    grabbing,
    mainPc,      \* where main() is
    todo,        \* the names readdir still returns
    cur,         \* the entry startPollForDevice has in its hands
    applied,     \* the entries the request in progress has been carried out on
    link,        \* the socket: "none", "open", "closed" by the application
    requests     \* what the application wrote and recv has not returned

kernelVars == <<world, plugged, events>>
listVars == <<entry, thread, list, locked>>
mainVars == <<mainPc, todo, cur, applied>>
linkVars == <<link, requests>>
readerVars == <<kernelVars, listVars, grabbing, mainVars, linkVars>>

\* open: the file is open; live: its device is still the one it was opened for;
\* grabbed: the device sends its events to this file alone
NoEntry == [name |-> None, open |-> FALSE, live |-> FALSE, grabbed |-> FALSE]

Allocated(e) == entry[e] # NoEntry
Listed == ToSet(list)
Grabbed(n) == \E e \in Entries : entry[e].name = n /\ entry[e].live /\ entry[e].grabbed
Running == mainPc \notin {"none", "launch", "gone"}

Event == events < world.events /\ events' = events + 1

ReaderInit ==
    /\ world \in Worlds /\ plugged \in SUBSET world.names /\ events = 0
    /\ entry = [e \in Entries |-> NoEntry]
    /\ thread = [e \in Entries |-> "none"]
    /\ list = <<>> /\ locked = FALSE
    /\ grabbing = TRUE
    /\ mainPc = "none" /\ todo = {} /\ cur = None /\ applied = {}
    /\ link = "none" /\ requests = <<>>

-----------------------------------------------------------------------------
(* The kernel *)

\* ioctl(fd, EVIOCGRAB, 1) and ioctl(fd, EVIOCGRAB, 0) on the file of an entry
CanGrab(e) == entry[e].open /\ entry[e].live /\ ~Grabbed(entry[e].name)
Ioctl(e, grab) ==
    IF grab THEN [entry[e] EXCEPT !.grabbed = @ \/ CanGrab(e)]
    ELSE [entry[e] EXCEPT !.grabbed = FALSE]

Plug(n) ==
    /\ Event /\ n \in world.names \ plugged
    /\ plugged' = plugged \cup {n}
    /\ UNCHANGED <<world, listVars, grabbing, mainVars, linkVars>>

\* The files that are open on it stay open, and are dead.
Unplug(n) ==
    /\ Event /\ n \in plugged
    /\ plugged' = plugged \ {n}
    /\ entry' = [e \in Entries |->
                   IF entry[e].name = n
                   THEN [entry[e] EXCEPT !.live = FALSE, !.grabbed = FALSE] ELSE entry[e]]
    /\ UNCHANGED <<world, thread, list, locked, grabbing, mainVars, linkVars>>

\* The kernel closes everything when the process ends
Exit ==
    /\ entry' = [e \in Entries |-> NoEntry]
    /\ thread' = [e \in Entries |-> "none"]
    /\ list' = <<>> /\ locked' = FALSE
    /\ mainPc' = "gone" /\ todo' = {} /\ cur' = None /\ applied' = {}
    /\ UNCHANGED <<kernelVars, grabbing, linkVars>>

-----------------------------------------------------------------------------
(* pollThreadFunc *)

\* `if (grabbing)', read without the lock
ThreadStart(e) ==
    /\ thread[e] = "start"
    /\ thread' = [thread EXCEPT ![e] = IF grabbing THEN "grab" ELSE "poll"]
    /\ UNCHANGED <<kernelVars, entry, list, locked, grabbing, mainVars, linkVars>>

ThreadGrab(e) ==
    /\ thread[e] = "grab"
    /\ entry' = [entry EXCEPT ![e] = Ioctl(e, TRUE)]
    /\ thread' = [thread EXCEPT ![e] = IF CanGrab(e) THEN "poll" ELSE "cleanup"]
    /\ UNCHANGED <<kernelVars, list, locked, grabbing, mainVars, linkVars>>

\* read or poll fails when the device is gone.  Mutant: the thread polls again.
ThreadReadAgain(e) ==
    /\ thread[e] = "poll" /\ ~entry[e].live
    /\ UNCHANGED readerVars
ThreadReadFails(e) ==
    /\ thread[e] = "poll" /\ ~entry[e].live
    /\ thread' = [thread EXCEPT ![e] = "cleanup"]
    /\ UNCHANGED <<kernelVars, entry, list, locked, grabbing, mainVars, linkVars>>

\* Takes the entry off the list, where the walk finds it, under the lock.  A list
\* that is empty is dereferenced: the process ends.
Place(e) == CHOOSE i \in 1 .. Len(list) : list[i] = e
ThreadUnlink(e) ==
    /\ thread[e] = "cleanup" /\ ~locked
    /\ thread' = [thread EXCEPT ![e] = "unlinked"]
    /\ list' = IF e \in Listed THEN RemoveAt(list, Place(e)) ELSE list
    /\ UNCHANGED <<kernelVars, entry, locked, grabbing, mainVars, linkVars>>

\* EVIOCGRAB 0, close, free: after the lock was released
ThreadFree(e) ==
    /\ thread[e] = "unlinked"
    /\ entry' = [entry EXCEPT ![e] = NoEntry]
    /\ thread' = [thread EXCEPT ![e] = "none"]
    /\ UNCHANGED <<kernelVars, list, locked, grabbing, mainVars, linkVars>>

ThreadStep(e) ==
    \/ ThreadStart(e) \/ ThreadGrab(e) \/ ThreadReadFails(e)
    \/ ThreadUnlink(e) \/ ThreadFree(e)

-----------------------------------------------------------------------------
(* startPollForDevice, in the three steps in which the world can change: all *)
(* of them hold the lock                                                     *)

\* The device is listed, cannot be opened, or no entry can be allocated
CannotOpen(n) ==
    \/ \E e \in Listed : entry[e].name = n
    \/ n \notin plugged
    \/ \A e \in Entries : Allocated(e)

SkipDevice(n) ==
    /\ mainPc = "scan" /\ n \in todo /\ ~locked
    /\ CannotOpen(n)
    /\ todo' = todo \ {n}
    /\ UNCHANGED <<kernelVars, listVars, grabbing, mainPc, cur, applied, linkVars>>

OpenDevice(n) ==
    /\ mainPc = "scan" /\ n \in todo /\ ~locked
    /\ ~CannotOpen(n)
    /\ locked' = TRUE
    /\ \E e \in Entries :
          /\ ~Allocated(e) /\ \A f \in Entries : f < e => Allocated(f)
          /\ cur' = e
          /\ entry' = [entry EXCEPT ![e] = [NoEntry EXCEPT !.name = n, !.open = TRUE, !.live = TRUE]]
    /\ todo' = todo \ {n}
    /\ mainPc' = "check"
    /\ UNCHANGED <<kernelVars, thread, list, grabbing, applied, linkVars>>

\* precheckDeviceForPolling: the bits are not initialised, so anything may be
\* found in them when the ioctl fails because the device is gone
Precheck(e) == IF entry[e].live THEN {entry[e].name \in Mice} ELSE BOOLEAN

RejectDevice ==
    /\ mainPc = "check" /\ FALSE \in Precheck(cur)
    /\ entry' = [entry EXCEPT ![cur] = NoEntry]
    /\ mainPc' = "scan" /\ cur' = None /\ locked' = FALSE
    /\ UNCHANGED <<kernelVars, thread, list, grabbing, todo, applied, linkVars>>

\* pthread_create: the thread may run before its entry is on the list.
\* Mutant: the lock is released first.
StartThreadUnlocked ==
    /\ mainPc = "check" /\ TRUE \in Precheck(cur)
    /\ thread' = [thread EXCEPT ![cur] = "start"]
    /\ mainPc' = "insert" /\ locked' = FALSE
    /\ UNCHANGED <<kernelVars, entry, list, grabbing, todo, cur, applied, linkVars>>
StartThread ==
    /\ mainPc = "check" /\ TRUE \in Precheck(cur)
    /\ thread' = [thread EXCEPT ![cur] = "start"]
    /\ mainPc' = "insert"
    /\ UNCHANGED <<kernelVars, entry, list, locked, grabbing, todo, cur, applied, linkVars>>

InsertDevice ==
    /\ mainPc = "insert"
    /\ list' = <<cur>> \o list
    /\ mainPc' = "scan" /\ cur' = None /\ locked' = FALSE
    /\ UNCHANGED <<kernelVars, entry, thread, grabbing, todo, applied, linkVars>>

\* enumerateDevices returns
ScanDone ==
    /\ mainPc = "scan" /\ todo = {}
    /\ mainPc' = "poll"
    /\ UNCHANGED <<kernelVars, listVars, grabbing, todo, cur, applied, linkVars>>

-----------------------------------------------------------------------------
(* main *)

\* No request for a second: enumerateDevices
Rescan ==
    /\ mainPc = "poll" /\ requests = <<>> /\ link = "open"
    /\ todo' = plugged /\ mainPc' = "scan"
    /\ UNCHANGED <<kernelVars, listVars, grabbing, cur, applied, linkVars>>

\* recv, the lock and the assignment to grabbing
Receive ==
    /\ mainPc = "poll" /\ requests # <<>> /\ ~locked
    /\ requests' = Tail(requests)
    /\ grabbing' = (Head(requests) = "regrab")
    /\ locked' = TRUE /\ applied' = {} /\ mainPc' = "apply"
    /\ UNCHANGED <<kernelVars, entry, thread, list, todo, cur, link>>

\* The walk along the list
ApplyNext ==
    /\ mainPc = "apply"
    /\ \E i \in 1 .. Len(list) :
          /\ list[i] \notin applied /\ \A j \in 1 .. i - 1 : list[j] \in applied
          /\ entry' = [entry EXCEPT ![list[i]] = Ioctl(list[i], grabbing)]
          /\ applied' = applied \cup {list[i]}
    /\ UNCHANGED <<kernelVars, thread, list, locked, grabbing, mainPc, todo, cur, linkVars>>

ApplyDone ==
    /\ mainPc = "apply" /\ Listed \subseteq applied
    /\ locked' = FALSE /\ applied' = {} /\ mainPc' = "poll"
    /\ UNCHANGED <<kernelVars, entry, thread, list, grabbing, todo, cur, linkVars>>

\* recv returns 0 or fails: main returns.  Mutant: it looks for devices again.
RescanClosed ==
    /\ mainPc = "poll" /\ link = "closed"
    /\ todo' = plugged /\ mainPc' = "scan"
    /\ UNCHANGED <<kernelVars, listVars, grabbing, cur, applied, linkVars>>
LinkLost ==
    /\ mainPc = "poll" /\ link = "closed"
    /\ Exit

MainStep ==
    \/ \E n \in Names : SkipDevice(n) \/ OpenDevice(n)
    \/ RejectDevice \/ StartThread \/ InsertDevice \/ ScanDone
    \/ Rescan \/ Receive \/ ApplyNext \/ ApplyDone \/ LinkLost

ReaderStep == MainStep \/ \E e \in Entries : ThreadStep(e)
KernelStep == \E n \in Names : Plug(n) \/ Unplug(n)

-----------------------------------------------------------------------------
(* What the application may do to the reader *)

\* su starts the program; the connection it makes is accepted or refused
Launch == /\ mainPc = "none" /\ mainPc' = "launch"
          /\ UNCHANGED <<kernelVars, listVars, grabbing, todo, cur, applied, linkVars>>
\* connectSocket, then the first enumerateDevices
Connect == /\ mainPc = "launch"
           /\ link' = "open" /\ todo' = plugged /\ mainPc' = "scan"
           /\ UNCHANGED <<kernelVars, listVars, grabbing, cur, applied, requests>>
\* connect fails, su is denied, or the process is killed
Quit == mainPc \notin {"none", "gone"} /\ Exit
Request(r) == /\ link = "open"
              /\ requests' = Append(requests, r)
              /\ UNCHANGED <<kernelVars, listVars, grabbing, mainVars, link>>
HangUp == /\ link = "open" /\ link' = "closed"
          /\ UNCHANGED <<kernelVars, listVars, grabbing, mainVars, requests>>
ClientStep == Launch \/ Connect \/ Quit \/ HangUp \/ \E r \in {"ungrab", "regrab"} : Request(r)

ReaderNext == ReaderStep \/ KernelStep \/ ClientStep
ReaderSpec == ReaderInit /\ [][ReaderNext]_readerVars
\* The lock is free while the main thread waits a second for a request
ReaderFairness ==
    /\ WF_readerVars(MainStep)
    /\ \A e \in Entries : WF_readerVars(ThreadStep(e)) /\ SF_readerVars(ThreadUnlink(e))
=============================================================================
