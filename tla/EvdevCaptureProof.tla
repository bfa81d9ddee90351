------------------------- MODULE EvdevCaptureProof -------------------------
(***************************************************************************)
(* Proofs about EvdevCapture, for any names, entries and bounds: the types *)
(* and the list of devices, which the threads of the reader shorten while  *)
(* its main thread walks it, adds to it and is told to end.                *)
(***************************************************************************)
EXTENDS EvdevCapture, TLAPS

-----------------------------------------------------------------------------
(* The linked list as a sequence *)

\* The places of a sequence without repetitions are the places of its elements.
LEMMA PlaceFound ==
    ASSUME NEW e \in Listed, list \in Seq(Entries)
    PROVE  Place(e) \in 1 .. Len(list) /\ list[Place(e)] = e
  <1>1. \E i \in 1 .. Len(list) : list[i] = e
    BY DEF Listed, ToSet
  <1> QED
    BY <1>1 DEF Place

\* What is left after one place is taken off.
LEMMA RemoveAtElements ==
    ASSUME NEW T, NEW s \in Seq(T), NEW i \in 1 .. Len(s)
    PROVE  /\ RemoveAt(s, i) \in Seq(T) /\ Len(RemoveAt(s, i)) = Len(s) - 1
           /\ \A j \in 1 .. Len(s) - 1 : RemoveAt(s, i)[j] = IF j < i THEN s[j] ELSE s[j + 1]
  <1> DEFINE a == SubSeq(s, 1, i - 1)
             b == SubSeq(s, i + 1, Len(s))
  <1>1. Len(s) \in Nat /\ i \in Nat /\ 1 <= i /\ i <= Len(s)
    OBVIOUS
  <1>2. a \in Seq(T) /\ Len(a) = i - 1 /\ \A j \in 1 .. i - 1 : a[j] = s[j]
    <2>1. \A j \in 1 .. i - 1 : j \in 1 .. Len(s)
      BY <1>1
    <2> QED
      BY <1>1, <2>1
  <1>3. b \in Seq(T) /\ Len(b) = Len(s) - i /\ \A j \in 1 .. Len(s) - i : b[j] = s[i + j]
    <2>1. \A j \in i + 1 .. Len(s) : j \in 1 .. Len(s)
      BY <1>1
    <2> QED
      BY <1>1, <2>1
  <1>4. RemoveAt(s, i) = a \o b
    BY DEF RemoveAt
  <1> HIDE DEF a, b
  <1>5. a \o b \in Seq(T) /\ Len(a \o b) = Len(s) - 1
    <2>1. ASSUME NEW u \in Seq(T), NEW v \in Seq(T)
          PROVE  u \o v \in Seq(T) /\ Len(u \o v) = Len(u) + Len(v)
      OBVIOUS
    <2>2. Len(a) + Len(b) = Len(s) - 1
      BY <1>1, <1>2, <1>3
    <2> QED
      BY <1>2, <1>3, <2>1, <2>2
  <1>6. ASSUME NEW j \in 1 .. Len(s) - 1
        PROVE  (a \o b)[j] = IF j < i THEN s[j] ELSE s[j + 1]
    <2>1. CASE j < i
      BY <1>1, <1>2, <1>3, <2>1
    <2>2. CASE ~(j < i)
      <3>1. j - (i - 1) \in 1 .. Len(s) - i /\ i + (j - (i - 1)) = j + 1
        BY <1>1, <2>2
      <3>2. (a \o b)[j] = b[j - (i - 1)]
        BY <1>1, <1>2, <1>3, <2>2
      <3> QED
        BY <1>3, <2>2, <3>1, <3>2
    <2> QED
      BY <2>1, <2>2
  <1> QED
    BY <1>4, <1>5, <1>6

\* Removing the place of an element removes that element and keeps the others.
LEMMA RemovedList ==
    ASSUME NEW e \in Listed, list \in Seq(Entries), IsInjective(list)
    PROVE  /\ RemoveAt(list, Place(e)) \in Seq(Entries)
           /\ ToSet(RemoveAt(list, Place(e))) = Listed \ {e}
           /\ IsInjective(RemoveAt(list, Place(e)))
  <1> DEFINE p == Place(e)
             r == RemoveAt(list, p)
             n == Len(list)
  <1>1. p \in 1 .. n /\ list[p] = e
    BY PlaceFound
  <1>2. n \in Nat /\ DOMAIN list = 1 .. n
    OBVIOUS
  <1>3. /\ r \in Seq(Entries) /\ Len(r) = n - 1
        /\ \A j \in 1 .. n - 1 : r[j] = IF j < p THEN list[j] ELSE list[j + 1]
    BY <1>1, RemoveAtElements
  <1>4. DOMAIN r = 1 .. n - 1
    BY <1>3
  <1>5. \A i, j \in 1 .. n : list[i] = list[j] => i = j
    BY <1>2 DEF IsInjective
  <1> HIDE DEF p, r, n
  <1>6. IsInjective(r)
    <2> SUFFICES ASSUME NEW i \in 1 .. n - 1, NEW j \in 1 .. n - 1, r[i] = r[j]
                 PROVE  i = j
      BY <1>4 DEF IsInjective
    <2> DEFINE at(k) == IF k < p THEN k ELSE k + 1
    <2>1. at(i) \in 1 .. n /\ at(j) \in 1 .. n
      BY <1>1, <1>2
    <2>2. r[i] = list[at(i)] /\ r[j] = list[at(j)]
      BY <1>3
    <2>3. at(i) = at(j)
      BY <1>5, <2>1, <2>2
    <2> QED
      BY <1>1, <1>2, <2>3
  <1>7. ToSet(r) = Listed \ {e}
    <2>1. ASSUME NEW j \in 1 .. n - 1 PROVE r[j] \in Listed \ {e}
      <3> DEFINE at == IF j < p THEN j ELSE j + 1
      <3>1. at \in 1 .. n /\ at # p
        BY <1>1, <1>2
      <3>2. r[j] = list[at]
        BY <1>3
      <3>3. list[at] # e
        BY <1>1, <1>5, <3>1
      <3> QED
        BY <1>2, <3>1, <3>2, <3>3 DEF Listed, ToSet
    <2>2. ASSUME NEW x \in Listed \ {e} PROVE \E j \in 1 .. n - 1 : r[j] = x
      <3>1. PICK i \in 1 .. n : list[i] = x
        BY <1>2 DEF Listed, ToSet
      <3>2. i # p
        BY <1>1, <3>1
      <3>3. CASE i < p
        BY <1>1, <1>2, <1>3, <3>1, <3>3
      <3>4. CASE i > p
        <4>1. i - 1 \in 1 .. n - 1 /\ ~(i - 1 < p) /\ (i - 1) + 1 = i
          BY <1>1, <1>2, <3>4
        <4> QED
          BY <1>3, <3>1, <4>1
      <3> QED
        BY <1>1, <1>2, <3>2, <3>3, <3>4
    <2> QED
      BY <1>4, <2>1, <2>2 DEF ToSet
  <1> QED
    BY <1>3, <1>6, <1>7 DEF p, r

\* A new entry goes to the head of the list.
LEMMA InsertedList ==
    ASSUME NEW e \in Entries, e \notin Listed, list \in Seq(Entries), IsInjective(list)
    PROVE  /\ <<e>> \o list \in Seq(Entries)
           /\ ToSet(<<e>> \o list) = Listed \cup {e}
           /\ IsInjective(<<e>> \o list)
  <1> DEFINE r == <<e>> \o list
             n == Len(list)
  <1>1. n \in Nat /\ DOMAIN list = 1 .. n
    OBVIOUS
  <1>2. /\ r \in Seq(Entries) /\ Len(r) = n + 1 /\ r[1] = e
        /\ \A i \in 2 .. n + 1 : r[i] = list[i - 1]
    OBVIOUS
  <1>3. DOMAIN r = 1 .. n + 1
    BY <1>2
  <1>4. \A i, j \in 1 .. n : list[i] = list[j] => i = j
    BY <1>1 DEF IsInjective
  <1>5. \A i \in 1 .. n : list[i] \in Listed /\ list[i] # e
    BY <1>1 DEF Listed, ToSet
  <1>6. \A x \in Listed : \E i \in 1 .. n : x = list[i]
    BY <1>1 DEF Listed, ToSet
  <1> HIDE DEF r, n
  <1>7. \A i \in 1 .. n + 1 : i = 1 \/ (i \in 2 .. n + 1 /\ i - 1 \in 1 .. n)
    BY <1>1
  <1>8. IsInjective(r)
    <2> SUFFICES ASSUME NEW i \in 1 .. n + 1, NEW j \in 1 .. n + 1, r[i] = r[j]
                 PROVE  i = j
      BY <1>3 DEF IsInjective
    <2>1. CASE i = 1 /\ j = 1
      BY <2>1
    <2>2. CASE (i = 1) # (j = 1)
      BY <1>2, <1>5, <1>7, <2>2
    <2>3. CASE i # 1 /\ j # 1
      <3>1. list[i - 1] = list[j - 1] /\ i - 1 \in 1 .. n /\ j - 1 \in 1 .. n
        BY <1>2, <1>7, <2>3
      <3>2. i - 1 = j - 1
        BY <1>4, <3>1
      <3> QED
        BY <1>1, <3>2
    <2> QED
      BY <2>1, <2>2, <2>3
  <1>9. ToSet(r) = Listed \cup {e}
    <2>1. \A i \in 1 .. n + 1 : r[i] \in Listed \cup {e}
      BY <1>2, <1>5, <1>7
    <2>2. ASSUME NEW x \in Listed PROVE \E i \in 1 .. n + 1 : r[i] = x
      <3>1. PICK i \in 1 .. n : x = list[i]
        BY <1>6
      <3>2. i + 1 \in 2 .. n + 1 /\ i + 1 \in 1 .. n + 1 /\ (i + 1) - 1 = i
        BY <1>1
      <3> QED
        BY <1>2, <3>1, <3>2
    <2>3. 1 \in 1 .. n + 1
      BY <1>1
    <2> QED
      BY <1>2, <1>3, <2>1, <2>2, <2>3 DEF ToSet
  <1> QED
    BY <1>2, <1>8, <1>9 DEF r

-----------------------------------------------------------------------------
(* Types *)

EntryType == [name : Names \cup {None}, open : BOOLEAN, live : BOOLEAN, grabbed : BOOLEAN]

\* The types of the kernel, of the process that reads the devices and of the socket.
ReaderTyped ==
    /\ world \in Worlds /\ plugged \subseteq world.names /\ events \in 0 .. world.events
    /\ entry \in [Entries -> EntryType]
    /\ thread \in [Entries -> {"none", "start", "grab", "poll", "cleanup", "unlinked"}]
    /\ list \in Seq(Entries) /\ locked \in BOOLEAN /\ grabbing \in BOOLEAN
    /\ mainPc \in {"none", "launch", "scan", "check", "insert", "poll", "apply", "gone"}
    /\ todo \subseteq Names /\ cur \in Entries \cup {None} /\ applied \subseteq Entries
    /\ cur # None <=> mainPc \in {"check", "insert"}
    /\ locked <=> mainPc \in {"check", "insert", "apply"}
    /\ link \in {"none", "open", "closed"} /\ requests \in Seq({"ungrab", "regrab"})

\* The types of the application.
CaptureTyped ==
    /\ activity \in {"running", "paused", "destroyed"}
    /\ {posted, connected, grabbedInput, cursorVisible, started, shutdown, evdevOut} \subseteq BOOLEAN
    /\ servSock \in {"null", "bound", "closed"} /\ evdevSock \in {"null", "open", "closed"}
    /\ su \in {"null", "up", "destroyed"}
    /\ handler \in {"new", "bind", "su", "accept", "sock", "streams", "loop", "read", "done"}
    /\ destroying \in {"no", "servSock", "sock", "su", "join", "returned"}

\* The type invariant in two parts.
LEMMA TypeParts == TypeOK <=> ReaderTyped /\ CaptureTyped
  BY DEF TypeOK, ReaderTyped, CaptureTyped, EntryType

\* The names of a world are names.
LEMMA WorldNames ==
    ASSUME ReaderTyped
    PROVE  world.names \subseteq Names /\ world.events \in Nat /\ plugged \subseteq Names
  BY EvdevReaderAssumption DEF ReaderTyped

\* What malloc gives and what it becomes when a device is opened.
LEMMA EntryValues ==
    /\ NoEntry \in EntryType /\ ~NoEntry.open /\ NoEntry.name = None
    /\ \A n \in Names :
          /\ [NoEntry EXCEPT !.name = n, !.open = TRUE, !.live = TRUE] \in EntryType
          /\ [NoEntry EXCEPT !.name = n, !.open = TRUE, !.live = TRUE].name = n
          /\ [NoEntry EXCEPT !.name = n, !.open = TRUE, !.live = TRUE].open
  <1>1. NoEntry \in EntryType /\ ~NoEntry.open /\ NoEntry.name = None
    BY DEF NoEntry, EntryType
  <1> QED
    BY <1>1 DEF EntryType

\* A request to the kernel changes nothing but who has the device.
LEMMA IoctlKeeps ==
    ASSUME ReaderTyped, NEW e \in Entries, NEW grab \in BOOLEAN
    PROVE  Ioctl(e, grab) \in EntryType /\ Ioctl(e, grab).name = entry[e].name
           /\ Ioctl(e, grab).open = entry[e].open
  <1>1. entry[e] \in EntryType
    BY DEF ReaderTyped
  <1>2. CanGrab(e) \in BOOLEAN
    BY <1>1 DEF CanGrab, EntryType
  <1>3. (entry[e].grabbed \/ CanGrab(e)) \in BOOLEAN
    OBVIOUS
  <1> HIDE DEF CanGrab
  <1> QED
    BY <1>1, <1>3 DEF Ioctl, EntryType

\* The end of the process.
LEMMA ExitTyped == ReaderTyped /\ Exit => ReaderTyped'
  <1> SUFFICES ASSUME ReaderTyped, Exit PROVE ReaderTyped'
    OBVIOUS
  <1>1. entry' \in [Entries -> EntryType]
    BY EntryValues DEF Exit
  <1>2. list' \in Seq(Entries)
    BY DEF Exit
  <1>3. thread' \in [Entries -> {"none", "start", "grab", "poll", "cleanup", "unlinked"}]
    BY DEF Exit
  <1> QED
    BY <1>1, <1>2, <1>3 DEF Exit, ReaderTyped, kernelVars, linkVars

\* What the threads of the devices do.
LEMMA ThreadTyped ==
    ASSUME ReaderTyped, IsInjective(list), NEW e \in Entries, ThreadStep(e)
    PROVE  ReaderTyped'
  <1> USE DEF kernelVars, listVars, mainVars, linkVars
  <1>1. CASE ThreadStart(e)
    BY <1>1 DEF ThreadStart, ReaderTyped
  <1>2. CASE ThreadGrab(e)
    <2>1. entry' \in [Entries -> EntryType]
      BY <1>2, IoctlKeeps DEF ThreadGrab, ReaderTyped
    <2> QED
      BY <1>2, <2>1 DEF ThreadGrab, ReaderTyped
  <1>3. CASE ThreadReadFails(e)
    BY <1>3 DEF ThreadReadFails, ReaderTyped
  <1>4. CASE ThreadUnlink(e)
    <2>1. list' \in Seq(Entries)
      BY <1>4, RemovedList DEF ThreadUnlink, ReaderTyped
    <2> QED
      BY <1>4, <2>1 DEF ThreadUnlink, ReaderTyped
  <1>5. CASE ThreadFree(e)
    <2>1. entry' \in [Entries -> EntryType]
      BY <1>5, EntryValues DEF ThreadFree, ReaderTyped
    <2> QED
      BY <1>5, <2>1 DEF ThreadFree, ReaderTyped
  <1> QED
    BY <1>1, <1>2, <1>3, <1>4, <1>5, ThreadStep(e) DEF ThreadStep

\* What the main thread does when it looks for devices.
LEMMA ScanTyped ==
    ASSUME ReaderTyped, IsInjective(list), cur \notin Listed,
           (\E n \in Names : SkipDevice(n) \/ OpenDevice(n)) \/ RejectDevice \/ StartThread \/ InsertDevice \/ ScanDone
    PROVE  ReaderTyped'
  <1> USE DEF kernelVars, listVars, mainVars, linkVars
  <1>1. ASSUME NEW n \in Names, SkipDevice(n) PROVE ReaderTyped'
    BY <1>1 DEF SkipDevice, ReaderTyped
  <1>2. ASSUME NEW n \in Names, OpenDevice(n) PROVE ReaderTyped'
    <2>1. PICK e \in Entries :
             /\ cur' = e
             /\ entry' = [entry EXCEPT ![e] = [NoEntry EXCEPT !.name = n, !.open = TRUE, !.live = TRUE]]
      BY <1>2 DEF OpenDevice
    <2>2. [NoEntry EXCEPT !.name = n, !.open = TRUE, !.live = TRUE] \in EntryType
      BY EntryValues
    <2>3. entry' \in [Entries -> EntryType]
      BY <2>1, <2>2 DEF ReaderTyped
    <2>4. cur' # None
      BY <2>1, EvdevReaderAssumption
    <2> QED
      BY <1>2, <2>1, <2>3, <2>4 DEF OpenDevice, ReaderTyped
  <1>3. CASE RejectDevice
    <2>1. entry' \in [Entries -> EntryType]
      BY <1>3, EntryValues DEF RejectDevice, ReaderTyped
    <2> QED
      BY <1>3, <2>1 DEF RejectDevice, ReaderTyped
  <1>4. CASE StartThread
    BY <1>4 DEF StartThread, ReaderTyped
  <1>5. CASE InsertDevice
    <2>1. list' \in Seq(Entries)
      BY <1>5, InsertedList DEF InsertDevice, ReaderTyped
    <2> QED
      BY <1>5, <2>1 DEF InsertDevice, ReaderTyped
  <1>6. CASE ScanDone
    BY <1>6 DEF ScanDone, ReaderTyped
  <1> QED
    BY <1>1, <1>2, <1>3, <1>4, <1>5, <1>6

\* What it does when it waits for requests and carries them out.
LEMMA RequestTyped ==
    ASSUME ReaderTyped, Rescan \/ Receive \/ ApplyNext \/ ApplyDone \/ LinkLost
    PROVE  ReaderTyped'
  <1> USE DEF kernelVars, listVars, mainVars, linkVars
  <1>1. CASE Rescan
    BY <1>1, WorldNames DEF Rescan, ReaderTyped
  <1>2. CASE Receive
    <2>1. requests' \in Seq({"ungrab", "regrab"})
      BY <1>2 DEF Receive, ReaderTyped
    <2>2. (Head(requests) = "regrab") \in BOOLEAN
      OBVIOUS
    <2>3. grabbing' \in BOOLEAN
      BY <1>2, <2>2 DEF Receive
    <2> QED
      BY <1>2, <2>1, <2>3 DEF Receive, ReaderTyped
  <1>3. CASE ApplyNext
    <2>1. PICK i \in 1 .. Len(list) :
             /\ entry' = [entry EXCEPT ![list[i]] = Ioctl(list[i], grabbing)]
             /\ applied' = applied \cup {list[i]}
      BY <1>3 DEF ApplyNext
    <2>2. list[i] \in Entries
      BY DEF ReaderTyped
    <2>3. entry' \in [Entries -> EntryType]
      BY <2>1, <2>2, IoctlKeeps DEF ReaderTyped
    <2> QED
      BY <1>3, <2>1, <2>2, <2>3 DEF ApplyNext, ReaderTyped
  <1>4. CASE ApplyDone
    BY <1>4 DEF ApplyDone, ReaderTyped
  <1>5. CASE LinkLost
    BY <1>5, ExitTyped DEF LinkLost
  <1> QED
    BY <1>1, <1>2, <1>3, <1>4, <1>5

\* What happens to the devices.
LEMMA KernelTyped == ReaderTyped /\ KernelStep => ReaderTyped'
  <1> SUFFICES ASSUME ReaderTyped, KernelStep PROVE ReaderTyped'
    OBVIOUS
  <1> USE DEF kernelVars, listVars, mainVars, linkVars
  <1>1. Event => events' \in 0 .. world.events
    BY WorldNames DEF Event, ReaderTyped
  <1>2. ASSUME NEW n \in Names, Plug(n) PROVE ReaderTyped'
    BY <1>1, <1>2 DEF Plug, ReaderTyped
  <1>3. ASSUME NEW n \in Names, Unplug(n) PROVE ReaderTyped'
    <2>1. entry' \in [Entries -> EntryType]
      <3>1. ASSUME NEW e \in Entries PROVE [entry[e] EXCEPT !.live = FALSE, !.grabbed = FALSE] \in EntryType
        BY DEF ReaderTyped, EntryType
      <3> QED
        BY <1>3, <3>1 DEF Unplug, ReaderTyped
    <2> QED
      BY <1>1, <1>3, <2>1 DEF Unplug, ReaderTyped
  <1> QED
    BY <1>2, <1>3 DEF KernelStep

-----------------------------------------------------------------------------
(* The list and the threads *)

\* A thread that was created and has not taken its entry off the list.
Busy == {"start", "grab", "poll", "cleanup"}

\* The entries on the list and those whose thread is busy are the same, but for
\* the entry the main thread has in its hands: it is on the list only after its
\* thread was created, and no listed entry has its name.  The file of an entry is
\* open as long as there is a thread for it.
ListInv ==
    /\ \A e \in Listed : thread[e] \in Busy
    /\ \A e \in Entries : thread[e] \in Busy => e \in Listed \/ (mainPc = "insert" /\ e = cur)
    /\ \A e \in Entries : thread[e] # "none" => entry[e].open
    /\ mainPc \in {"check", "insert"} =>
          entry[cur].open /\ cur \notin Listed /\ \A e \in Listed : entry[e].name # entry[cur].name
    /\ mainPc = "check" => thread[cur] = "none"
    /\ mainPc = "insert" => thread[cur] \in Busy
    /\ \A e, f \in Listed : entry[e].name = entry[f].name => e = f
    /\ IsInjective(list)

ReaderInv == ReaderTyped /\ ListInv

\* The list holds entries.
LEMMA ListedEntries == ReaderTyped => Listed \subseteq Entries
  BY DEF ReaderTyped, Listed, ToSet

\* Nothing is on the list, or allocated, when the process starts and when it ends.
LEMMA EmptyList ==
    ASSUME list = <<>>, thread = [e \in Entries |-> "none"], mainPc \notin {"check", "insert"}
    PROVE  ListInv
  <1>1. Listed = {} /\ IsInjective(list)
    BY DEF Listed, ToSet, IsInjective
  <1> QED
    BY <1>1 DEF ListInv, Busy

\* The end of the process.
LEMMA ExitKeeps == ReaderInv /\ Exit => ReaderInv'
  <1> SUFFICES ASSUME ReaderInv, Exit PROVE ReaderInv'
    OBVIOUS
  <1>1. (list = <<>>)' /\ (thread = [e \in Entries |-> "none"])' /\ (mainPc \notin {"check", "insert"})'
    BY DEF Exit
  <1>2. Listed' = {} /\ IsInjective(list')
    BY <1>1 DEF Listed, ToSet, IsInjective
  <1>3. ListInv'
    BY <1>1, <1>2 DEF ListInv, Busy
  <1> QED
    BY <1>3, ExitTyped DEF ReaderInv

\* A step that changes neither the list nor its threads, and opens and closes nothing.
LEMMA ListAside ==
    ASSUME ReaderTyped, ListInv, UNCHANGED <<thread, list, cur>>,
           \A e \in Entries : entry'[e].name = entry[e].name /\ entry'[e].open = entry[e].open,
           mainPc' = mainPc \/ (mainPc \notin {"check", "insert"} /\ mainPc' \notin {"check", "insert"})
    PROVE  ListInv'
  <1>1. Listed' = Listed /\ Listed \subseteq Entries
    BY ListedEntries DEF Listed
  <1>2. mainPc \in {"check", "insert"} => cur \in Entries
    BY DEF ReaderTyped
  <1> QED
    BY <1>1, <1>2 DEF ListInv

\* The threads: each takes its own entry off, under the lock, and frees it then.
LEMMA ThreadKeeps ==
    ASSUME ReaderInv, NEW e \in Entries, ThreadStep(e)
    PROVE  ReaderInv'
  <1> USE DEF kernelVars, listVars, mainVars, linkVars
  <1>1. ReaderTyped /\ ListInv /\ ReaderTyped' /\ Listed \subseteq Entries
    BY ThreadTyped, ListedEntries DEF ReaderInv, ListInv
  <1>2. mainPc' = mainPc /\ cur' = cur
    BY DEF ThreadStep, ThreadStart, ThreadGrab, ThreadReadFails, ThreadUnlink, ThreadFree
  <1>3. mainPc \in {"check", "insert"} => cur \in Entries
    BY <1>1 DEF ReaderTyped
  <1>4. CASE ThreadStart(e) \/ ThreadGrab(e) \/ ThreadReadFails(e)
    <2>1. list' = list /\ Listed' = Listed
      BY <1>4 DEF ThreadStart, ThreadGrab, ThreadReadFails, Listed
    <2>2. thread[e] \in Busy /\ \E l \in Busy : thread' = [thread EXCEPT ![e] = l]
      BY <1>4 DEF ThreadStart, ThreadGrab, ThreadReadFails, Busy
    <2>3. /\ thread'[e] \in Busy
          /\ \A f \in Entries : f # e => thread'[f] = thread[f]
      BY <1>1, <2>2 DEF ReaderTyped
    <2>4. \A f \in Entries : entry'[f].name = entry[f].name /\ entry'[f].open = entry[f].open
      <3>1. entry' = entry \/ entry' = [entry EXCEPT ![e] = Ioctl(e, TRUE)]
        BY <1>4 DEF ThreadStart, ThreadGrab, ThreadReadFails
      <3>2. Ioctl(e, TRUE).name = entry[e].name /\ Ioctl(e, TRUE).open = entry[e].open
        BY <1>1, IoctlKeeps
      <3>3. DOMAIN entry = Entries
        BY <1>1 DEF ReaderTyped
      <3> QED
        BY <3>1, <3>2, <3>3
    <2>5. "none" \notin Busy
      BY DEF Busy
    <2>6. \A f \in Entries : /\ thread'[f] \in Busy <=> thread[f] \in Busy
                             /\ thread'[f] = "none" <=> thread[f] = "none"
      BY <2>2, <2>3, <2>5
    <2>7. ListInv'
      BY <1>1, <1>2, <1>3, <2>1, <2>4, <2>6 DEF ListInv
    <2> QED
      BY <1>1, <2>7 DEF ReaderInv
  <1>5. CASE ThreadUnlink(e)
    <2>1. thread[e] = "cleanup" /\ mainPc \notin {"check", "insert"} /\ entry' = entry
      BY <1>1, <1>5 DEF ThreadUnlink, ReaderTyped
    <2>2. e \in Listed
      BY <1>1, <2>1 DEF ListInv, Busy
    <2>3. /\ thread'[e] = "unlinked" /\ \A f \in Entries : f # e => thread'[f] = thread[f]
          /\ list' = RemoveAt(list, Place(e))
      BY <1>1, <1>5, <2>2 DEF ThreadUnlink, ReaderTyped
    <2>4. Listed' = Listed \ {e} /\ IsInjective(list')
      BY <1>1, <2>2, <2>3, RemovedList DEF ListInv, ReaderTyped, Listed
    <2>5. "unlinked" \notin Busy
      BY DEF Busy
    <2>6. ListInv'
      BY <1>1, <1>2, <2>1, <2>3, <2>4, <2>5 DEF ListInv
    <2> QED
      BY <1>1, <2>6 DEF ReaderInv
  <1>6. CASE ThreadFree(e)
    <2>1. thread[e] = "unlinked" /\ thread' = [thread EXCEPT ![e] = "none"]
          /\ entry' = [entry EXCEPT ![e] = NoEntry] /\ list' = list /\ Listed' = Listed
      BY <1>6 DEF ThreadFree, Listed
    <2>2. "unlinked" \notin Busy /\ "none" \notin Busy
      BY DEF Busy
    <2>3. e \notin Listed /\ (mainPc \in {"check", "insert"} => e # cur)
      BY <1>1, <2>1, <2>2 DEF ListInv
    <2>4. /\ thread'[e] = "none"
          /\ \A f \in Entries : f # e => thread'[f] = thread[f] /\ entry'[f] = entry[f]
      BY <1>1, <2>1 DEF ReaderTyped
    <2>5. ListInv'
      BY <1>1, <1>2, <1>3, <2>1, <2>2, <2>3, <2>4 DEF ListInv
    <2> QED
      BY <1>1, <2>5 DEF ReaderInv
  <1> QED
    BY <1>4, <1>5, <1>6, ThreadStep(e) DEF ThreadStep

\* The main thread looks for devices: an entry goes through its hands, under the
\* lock, from the opening of the file to the head of the list.
LEMMA ScanKeeps ==
    ASSUME ReaderInv,
           (\E n \in Names : SkipDevice(n) \/ OpenDevice(n)) \/ RejectDevice \/ StartThread \/ InsertDevice \/ ScanDone
    PROVE  ReaderInv'
  <1> USE DEF kernelVars, listVars, mainVars, linkVars
  <1>1. ReaderTyped /\ ListInv /\ Listed \subseteq Entries
    BY ListedEntries DEF ReaderInv
  <1>2. cur \notin Listed
    BY <1>1, EvdevReaderAssumption DEF ListInv, ReaderTyped
  <1>3. ReaderTyped'
    BY <1>1, <1>2, ScanTyped DEF ListInv
  <1>4. "unlinked" \notin Busy /\ "none" \notin Busy /\ "start" \in Busy
    BY DEF Busy
  <1>5. mainPc \in {"check", "insert"} => cur \in Entries
    BY <1>1 DEF ReaderTyped
  <1>6. ASSUME NEW n \in Names, SkipDevice(n) PROVE ListInv'
    <2>1. UNCHANGED <<entry, thread, list, cur, mainPc>>
      BY <1>6 DEF SkipDevice
    <2> QED
      BY <1>1, <2>1, ListAside
  <1>7. ASSUME NEW n \in Names, OpenDevice(n) PROVE ListInv'
    <2>1. PICK e \in Entries :
             /\ ~Allocated(e) /\ cur' = e
             /\ entry' = [entry EXCEPT ![e] = [NoEntry EXCEPT !.name = n, !.open = TRUE, !.live = TRUE]]
      BY <1>7 DEF OpenDevice
    <2>2. /\ mainPc = "scan" /\ mainPc' = "check" /\ thread' = thread /\ list' = list /\ Listed' = Listed
          /\ \A f \in Listed : entry[f].name # n
      BY <1>7 DEF OpenDevice, CannotOpen, Listed
    <2>3. ~entry[e].open
      BY <2>1, EntryValues DEF Allocated
    <2>4. thread[e] = "none" /\ e \notin Listed
      BY <1>1, <1>4, <2>3 DEF ListInv
    <2>5. /\ entry'[e].name = n /\ entry'[e].open
          /\ \A f \in Entries : f # e => entry'[f] = entry[f]
      BY <1>1, <2>1, EntryValues DEF ReaderTyped
    <2>6. \A f \in Listed : entry'[f].name = entry[f].name
      BY <1>1, <2>4, <2>5
    <2> QED
      BY <1>1, <1>4, <2>1, <2>2, <2>4, <2>5, <2>6 DEF ListInv
  <1>8. ASSUME RejectDevice PROVE ListInv'
    <2>1. /\ mainPc = "check" /\ mainPc' = "scan" /\ thread' = thread /\ list' = list /\ Listed' = Listed
          /\ entry' = [entry EXCEPT ![cur] = NoEntry]
      BY <1>8 DEF RejectDevice, Listed
    <2>2. thread[cur] = "none" /\ cur \in Entries
      BY <1>1, <1>5, <2>1 DEF ListInv
    <2>3. \A f \in Entries : f # cur => entry'[f] = entry[f]
      BY <1>1, <2>1 DEF ReaderTyped
    <2> QED
      BY <1>1, <1>2, <1>4, <2>1, <2>2, <2>3 DEF ListInv
  <1>9. ASSUME StartThread PROVE ListInv'
    <2>1. /\ mainPc = "check" /\ mainPc' = "insert" /\ cur' = cur /\ list' = list /\ Listed' = Listed
          /\ entry' = entry /\ thread' = [thread EXCEPT ![cur] = "start"]
      BY <1>9 DEF StartThread, Listed
    <2>2. cur \in Entries
      BY <1>5, <2>1
    <2>3. thread'[cur] = "start" /\ \A f \in Entries : f # cur => thread'[f] = thread[f]
      BY <1>1, <2>1, <2>2 DEF ReaderTyped
    <2> QED
      BY <1>1, <1>2, <1>4, <2>1, <2>2, <2>3 DEF ListInv
  <1>10. ASSUME InsertDevice PROVE ListInv'
    <2>1. /\ mainPc = "insert" /\ mainPc' = "scan" /\ list' = <<cur>> \o list
          /\ entry' = entry /\ thread' = thread
      BY <1>10 DEF InsertDevice
    <2>2. cur \in Entries /\ thread[cur] \in Busy
      BY <1>1, <1>5, <2>1 DEF ListInv
    <2>3. Listed' = Listed \cup {cur} /\ IsInjective(list')
      BY <1>1, <1>2, <2>1, <2>2, InsertedList DEF ListInv, ReaderTyped, Listed
    <2>4. \A e \in Listed : entry[e].name # entry[cur].name
      BY <1>1, <2>1 DEF ListInv
    <2> QED
      BY <1>1, <2>1, <2>2, <2>3, <2>4 DEF ListInv
  <1>11. ASSUME ScanDone PROVE ListInv'
    <2>1. UNCHANGED <<entry, thread, list, cur>> /\ mainPc = "scan" /\ mainPc' = "poll"
      BY <1>11 DEF ScanDone
    <2> QED
      BY <1>1, <2>1, ListAside
  <1> QED
    BY <1>3, <1>6, <1>7, <1>8, <1>9, <1>10, <1>11 DEF ReaderInv

\* It waits for requests and carries them out; the walk opens and closes nothing.
LEMMA RequestKeeps ==
    ASSUME ReaderInv, Rescan \/ Receive \/ ApplyNext \/ ApplyDone \/ LinkLost
    PROVE  ReaderInv'
  <1> USE DEF kernelVars, listVars, mainVars, linkVars
  <1>1. ReaderTyped /\ ListInv /\ ReaderTyped'
    BY RequestTyped DEF ReaderInv
  <1>2. CASE Rescan \/ Receive \/ ApplyDone
    <2>1. UNCHANGED <<entry, thread, list, cur>> /\ mainPc \in {"poll", "apply"} /\ mainPc' \in {"scan", "apply", "poll"}
      BY <1>2 DEF Rescan, Receive, ApplyDone
    <2>2. ListInv'
      BY <1>1, <2>1, ListAside
    <2> QED
      BY <1>1, <2>2 DEF ReaderInv
  <1>3. CASE ApplyNext
    <2>1. PICK i \in 1 .. Len(list) : entry' = [entry EXCEPT ![list[i]] = Ioctl(list[i], grabbing)]
      BY <1>3 DEF ApplyNext
    <2>2. list[i] \in Entries /\ grabbing \in BOOLEAN
      BY <1>1 DEF ReaderTyped
    <2>3. \A e \in Entries : entry'[e].name = entry[e].name /\ entry'[e].open = entry[e].open
      BY <1>1, <2>1, <2>2, IoctlKeeps DEF ReaderTyped
    <2>4. UNCHANGED <<thread, list, cur, mainPc>>
      BY <1>3 DEF ApplyNext
    <2>5. ListInv'
      BY <1>1, <2>3, <2>4, ListAside
    <2> QED
      BY <1>1, <2>5 DEF ReaderInv
  <1>4. CASE LinkLost
    BY <1>4, ExitKeeps DEF LinkLost
  <1> QED
    BY <1>2, <1>3, <1>4

\* Devices come and go: the files that are open on them stay open.
LEMMA KernelKeeps == ReaderInv /\ KernelStep => ReaderInv'
  <1> SUFFICES ASSUME ReaderInv, KernelStep PROVE ReaderInv'
    OBVIOUS
  <1> USE DEF kernelVars, listVars, mainVars, linkVars
  <1>1. ReaderTyped /\ ListInv /\ ReaderTyped'
    BY KernelTyped DEF ReaderInv
  <1>2. UNCHANGED <<thread, list, cur, mainPc>>
    BY DEF KernelStep, Plug, Unplug
  <1>3. \A e \in Entries : entry'[e].name = entry[e].name /\ entry'[e].open = entry[e].open
    <2>1. ASSUME NEW n \in Names, Plug(n) PROVE entry' = entry
      BY <2>1 DEF Plug
    <2>2. ASSUME NEW n \in Names, Unplug(n), NEW e \in Entries
          PROVE  entry'[e].name = entry[e].name /\ entry'[e].open = entry[e].open
      <3>1. entry[e] \in EntryType
        BY <1>1 DEF ReaderTyped
      <3> QED
        BY <2>2, <3>1 DEF Unplug, EntryType
    <2> QED
      BY <2>1, <2>2 DEF KernelStep
  <1>4. ListInv'
    BY <1>1, <1>2, <1>3, ListAside
  <1> QED
    BY <1>1, <1>4 DEF ReaderInv

\* The application changes the process only through the socket and by starting it.
LEMMA ClientKeeps ==
    ASSUME ReaderInv, UNCHANGED <<world, plugged, entry, thread, list, locked, grabbing, mainPc, todo, cur, applied>>,
           events' = events \/ Event,
           link' \in {"none", "open", "closed"}, requests' \in Seq({"ungrab", "regrab"})
    PROVE  ReaderInv'
  <1>1. events' \in 0 .. world.events
    BY WorldNames DEF ReaderInv, ReaderTyped, Event
  <1>2. ReaderTyped'
    BY <1>1 DEF ReaderInv, ReaderTyped
  <1>3. ListInv'
    BY ListAside DEF ReaderInv
  <1> QED
    BY <1>2, <1>3 DEF ReaderInv

-----------------------------------------------------------------------------
(* The reader and the application together *)

\* The requests are sequences of requests.
LEMMA RequestSequences ==
    LET R == {"ungrab", "regrab"} IN
    /\ <<>> \in Seq(R) /\ \A r \in R : <<r>> \in Seq(R)
    /\ \A u, v \in Seq(R) : u \o v \in Seq(R)
  OBVIOUS

\* What a method of the provider writes to the socket.
LEMMA SendKeeps ==
    ASSUME ReaderInv, NEW reqs \in Seq({"ungrab", "regrab"}), Send(reqs), events' = events \/ Event
    PROVE  ReaderInv'
  <1> USE DEF listVars, mainVars
  <1>1. requests' \in Seq({"ungrab", "regrab"})
    <2>1. requests \in Seq({"ungrab", "regrab"})
      BY DEF ReaderInv, ReaderTyped
    <2>2. requests \o reqs \in Seq({"ungrab", "regrab"})
      BY <2>1
    <2> QED
      BY <2>1, <2>2 DEF Send
  <1>2. link' \in {"none", "open", "closed"}
    BY DEF Send, ReaderInv, ReaderTyped
  <1> QED
    BY <1>1, <1>2, ClientKeeps DEF Send

\* Grabbing and ungrabbing the input sends requests.
LEMMA GrabKeeps ==
    ASSUME ReaderInv, NEW grab \in BOOLEAN, SetInputGrabState(grab), events' = events \/ Event
    PROVE  ReaderInv'
  <1>1. PICK reqs \in {<<"regrab">> \o <<"ungrab">>, <<"regrab">> \o <<>>, <<"ungrab">>} : Send(reqs)
    BY DEF SetInputGrabState
  <1>2. reqs \in Seq({"ungrab", "regrab"})
    BY RequestSequences
  <1> QED
    BY <1>1, <1>2, SendKeeps

\* What the activity does.
LEMMA GameKeeps == ReaderInv /\ CaptureTyped /\ GameStep => ReaderInv'
  <1> SUFFICES ASSUME ReaderInv, CaptureTyped, GameStep PROVE ReaderInv'
    OBVIOUS
  <1> USE DEF readerVars, kernelVars, listVars, mainVars, linkVars
  <1>0. link \in {"none", "open", "closed"} /\ requests \in Seq({"ungrab", "regrab"})
    BY DEF ReaderInv, ReaderTyped
  <1>1. CASE ConnectionStarted \/ Destroy
    <2>1. UNCHANGED readerVars
      BY <1>1 DEF ConnectionStarted, Destroy
    <2> QED
      BY <1>0, <2>1, ClientKeeps
  <1>2. CASE PostedGrab
    BY <1>2, GrabKeeps DEF PostedGrab
  <1>3. CASE ToggleGrab
    <2>1. (~grabbedInput) \in BOOLEAN
      OBVIOUS
    <2> QED
      BY <1>3, <2>1, GrabKeeps DEF ToggleGrab
  <1>4. CASE ToggleCursor
    <2>1. PICK reqs \in {<<>> \o <<"regrab">>, <<>> \o <<"ungrab">>,
                        <<"regrab">> \o <<"regrab">>, <<"regrab">> \o <<"ungrab">>} : Send(reqs)
      BY <1>4 DEF ToggleCursor
    <2>2. reqs \in Seq({"ungrab", "regrab"})
      BY RequestSequences
    <2>3. Event
      BY <1>4 DEF ToggleCursor
    <2> QED
      BY <2>1, <2>2, <2>3, SendKeeps
  <1>5. CASE Pause
    BY <1>5, GrabKeeps DEF Pause
  <1> QED
    BY <1>1, <1>2, <1>3, <1>4, <1>5 DEF GameStep

\* Every step keeps what holds of the reader.
LEMMA ReaderKeeps == ReaderInv /\ CaptureTyped /\ [Next]_vars => ReaderInv'
  <1> SUFFICES ASSUME ReaderInv, CaptureTyped, [Next]_vars PROVE ReaderInv'
    OBVIOUS
  <1> USE DEF readerVars, kernelVars, listVars, mainVars, linkVars
  <1>0. link \in {"none", "open", "closed"} /\ requests \in Seq({"ungrab", "regrab"})
    BY DEF ReaderInv, ReaderTyped
  <1>1. ASSUME UNCHANGED readerVars PROVE ReaderInv'
    BY <1>0, <1>1, ClientKeeps
  <1>2. CASE DestroyStep
    <2>1. CASE CloseServSock \/ CloseSocket
      <3>1. UNCHANGED <<kernelVars, listVars, grabbing, mainVars, requests>> /\ link' \in {link, "closed"}
        BY <2>1 DEF CloseServSock, CloseSocket
      <3> QED
        BY <1>0, <3>1, ClientKeeps
    <2>2. CASE DestroySu
      BY <1>1, <2>2, ExitKeeps DEF DestroySu, Quit
    <2>3. CASE JoinReturns
      BY <1>1, <2>3 DEF JoinReturns
    <2> QED
      BY <1>2, <2>1, <2>2, <2>3 DEF DestroyStep
  \* The process that is started has opened nothing.
  <1>3. CASE StartSu \/ SuGranted
    <2>1. /\ UNCHANGED <<world, plugged, events, entry, thread, list, locked, grabbing, cur, applied, requests>>
          /\ mainPc \in {"none", "launch"} /\ mainPc' \in {"launch", "scan"}
          /\ todo' \in {todo, plugged} /\ link' \in {link, "open"}
      BY <1>3 DEF StartSu, SuGranted, Launch, Connect
    <2>2. ReaderTyped'
      BY <2>1, WorldNames DEF ReaderInv, ReaderTyped
    <2>3. ListInv'
      BY <2>1, ListAside DEF ReaderInv
    <2> QED
      BY <2>2, <2>3 DEF ReaderInv
  <1>4. CASE HandlerStep /\ ~StartSu
    BY <1>1, <1>4 DEF HandlerStep, Bind, NotRooted, Accept, AcceptFails, AssignSocket, AssignStreams,
                      LoopTest, ReadEvent, ReadFails
  <1>5. CASE SuDenied
    BY <1>5, ExitKeeps DEF SuDenied, Quit
  <1>6. CASE ReaderStep
    BY <1>6, ThreadKeeps, ScanKeeps, RequestKeeps DEF ReaderStep, MainStep
  <1>7. CASE KernelStep
    BY <1>7, KernelKeeps
  <1>8. CASE UNCHANGED vars
    BY <1>1, <1>8 DEF vars
  <1> QED
    BY <1>2, <1>3, <1>4, <1>5, <1>6, <1>7, <1>8, GameKeeps DEF Next

\* The types of the application.
LEMMA CaptureKeeps == CaptureTyped /\ [Next]_vars => CaptureTyped'
  <1> SUFFICES ASSUME CaptureTyped, [Next]_vars PROVE CaptureTyped'
    OBVIOUS
  <1> USE DEF captureVars, gameVars, sockVars
  <1>1. ASSUME UNCHANGED captureVars PROVE CaptureTyped'
    BY <1>1 DEF CaptureTyped
  <1>2. CASE HandlerStep
    <2>1. evdevOut' \in {evdevOut, TRUE} /\ UNCHANGED <<gameVars, started, shutdown, destroying>>
      BY <1>2 DEF HandlerStep, HandlerFrame, Bind, NotRooted, StartSu, Accept, AcceptFails, AssignSocket,
                  AssignStreams, LoopTest, ReadEvent, ReadFails
    <2>2. /\ handler' \in {"su", "accept", "sock", "streams", "loop", "read", "done"}
          /\ servSock' \in {servSock, "bound"} /\ evdevSock' \in {evdevSock, "open"} /\ su' \in {su, "up"}
      BY <1>2 DEF HandlerStep, Bind, NotRooted, StartSu, Accept, AcceptFails, AssignSocket,
                  AssignStreams, LoopTest, ReadEvent, ReadFails
    <2>3. {posted', connected', grabbedInput', cursorVisible', started', shutdown', evdevOut'} \subseteq BOOLEAN
      BY <2>1 DEF CaptureTyped
    <2>4. /\ activity' \in {"running", "paused", "destroyed"}
          /\ destroying' \in {"no", "servSock", "sock", "su", "join", "returned"}
      BY <2>1 DEF CaptureTyped
    <2>5. servSock' \in {"null", "bound", "closed"} /\ evdevSock' \in {"null", "open", "closed"} /\ su' \in {"null", "up", "destroyed"}
      BY <2>2 DEF CaptureTyped
    <2> QED
      BY <2>2, <2>3, <2>4, <2>5 DEF CaptureTyped
  <1>3. CASE DestroyStep
    BY <1>3 DEF DestroyStep, DestroyFrame, CloseServSock, CloseSocket, DestroySu, JoinReturns, CaptureTyped
  <1>4. ASSUME NEW grab \in BOOLEAN, SetInputGrabState(grab),
               activity' \in {activity, "paused"}, posted' \in BOOLEAN, UNCHANGED connected
        PROVE  CaptureTyped'
    BY <1>4 DEF SetInputGrabState, EnableCapture, CaptureTyped
  <1>5. CASE GameStep
    <2>1. CASE ConnectionStarted \/ Destroy
      BY <2>1 DEF ConnectionStarted, Destroy, CaptureTyped
    <2>2. CASE PostedGrab
      BY <1>4, <2>2 DEF PostedGrab
    <2>3. CASE ToggleGrab
      <3>1. (~grabbedInput) \in BOOLEAN /\ posted \in BOOLEAN
        BY DEF CaptureTyped
      <3> QED
        BY <1>4, <2>3, <3>1 DEF ToggleGrab
    <2>4. CASE ToggleCursor
      <3>1. (~cursorVisible) \in BOOLEAN
        OBVIOUS
      <3> QED
        BY <2>4, <3>1 DEF ToggleCursor, EnableCapture, CaptureTyped
    <2>5. CASE Pause
      <3>1. posted \in BOOLEAN
        BY DEF CaptureTyped
      <3> QED
        BY <1>4, <2>5, <3>1 DEF Pause
    <2> QED
      BY <1>5, <2>1, <2>2, <2>3, <2>4, <2>5 DEF GameStep
  <1>6. CASE SuGranted \/ SuDenied \/ UNCHANGED captureVars \/ UNCHANGED vars
    BY <1>1, <1>6 DEF SuGranted, SuDenied, vars
  <1> QED
    BY <1>2, <1>3, <1>5, <1>6 DEF Next

\* Initially nothing is listed.
LEMMA CaptureInit == Init => ReaderInv /\ CaptureTyped
  <1> SUFFICES ASSUME Init PROVE ReaderInv /\ CaptureTyped
    OBVIOUS
  <1>1. ReaderInit
    BY DEF Init
  <1>2. entry \in [Entries -> EntryType]
    BY <1>1, EntryValues DEF ReaderInit
  <1>3. world \in [names : SUBSET Names, events : Nat]
    BY <1>1, EvdevReaderAssumption DEF ReaderInit
  <1>4. events \in 0 .. world.events
    BY <1>1, <1>3 DEF ReaderInit
  <1>5. list \in Seq(Entries) /\ requests \in Seq({"ungrab", "regrab"})
    BY <1>1 DEF ReaderInit
  <1>6. ReaderTyped
    BY <1>1, <1>2, <1>4, <1>5 DEF ReaderInit, ReaderTyped
  <1>7. ListInv
    BY <1>1, EmptyList DEF ReaderInit
  <1>8. CaptureTyped
    BY DEF Init, CaptureTyped
  <1> QED
    BY <1>6, <1>7, <1>8 DEF ReaderInv

\* The list the main thread of the reader walks and hands to ioctl and strcmp is
\* sound, however its threads end, devices come and go and the application asks,
\* hangs up or kills it: its entries have not been freed and their files are open,
\* no name is in it twice, and a thread that takes the lock to remove its entry
\* finds it there.  All variables have their types.
THEOREM DevicesCorrect == Spec => []DevicesSound
  <1>1. ReaderInv /\ CaptureTyped => DevicesSound
    <2> SUFFICES ASSUME ReaderInv, CaptureTyped PROVE DevicesSound
      OBVIOUS
    <2>1. TypeOK
      BY TypeParts DEF ReaderInv
    <2>2. Listed \subseteq Entries
      BY ListedEntries DEF ReaderInv
    <2>3. \A e \in Listed : Allocated(e) /\ entry[e].open /\ thread[e] \notin {"none", "unlinked"}
      <3> SUFFICES ASSUME NEW e \in Listed
                   PROVE  Allocated(e) /\ entry[e].open /\ thread[e] \notin {"none", "unlinked"}
        OBVIOUS
      <3>1. thread[e] \in Busy /\ e \in Entries
        BY <2>2 DEF ReaderInv, ListInv
      <3>2. entry[e].open /\ thread[e] \notin {"none", "unlinked"}
        BY <3>1 DEF ReaderInv, ListInv, Busy
      <3> QED
        BY <3>2, EntryValues DEF Allocated
    <2>4. \A e \in Entries : thread[e] = "cleanup" /\ ~locked => e \in Listed
      BY DEF ReaderInv, ReaderTyped, ListInv, Busy
    <2>5. IsInjective(list) /\ \A e, f \in Listed : entry[e].name = entry[f].name => e = f
      BY DEF ReaderInv, ListInv
    <2> QED
      BY <2>1, <2>3, <2>4, <2>5 DEF DevicesSound, ListSound
  <1>2. ReaderInv /\ CaptureTyped /\ [Next]_vars => (ReaderInv /\ CaptureTyped)'
    BY ReaderKeeps, CaptureKeeps
  <1> QED
    BY <1>1, <1>2, CaptureInit, PTL DEF Spec

=============================================================================
