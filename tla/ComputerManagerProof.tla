----------------------- MODULE ComputerManagerProof -----------------------
(***************************************************************************)
(* Proofs about ComputerManager, for any threads, tuples, adders and       *)
(* bounds: the reference count of the database and the count of active     *)
(* polls, and the list of tuples with the threads that poll them.          *)
(***************************************************************************)
EXTENDS ComputerManager, FiniteSetTheorems, TLAPS

-----------------------------------------------------------------------------
(* Where the actors are *)

\* Where each actor can be.
LabelsOf(a) ==
    IF a \in Threads THEN {"done", "loop", "lock", "ref", "poll", "read", "write", "notify"}
    ELSE IF a \in Adders
         THEN {"new", "done", "ask", "pin", "ref", "poll", "read", "write", "notify", "add"}
    ELSE IF a = "pair"
         THEN {"idle", "stop", "setInactive", "stopThreads", "clearListener",
               "wait", "pairing", "inv", "invLock"}
    ELSE {"idle", "start", "setActive", "setListener", "startThreads", "stop",
          "setInactive", "stopThreads", "clearListener", "menu", "unlist", "gone"}

PcTyped == DOMAIN pc = Actors /\ \A a \in Actors : pc[a] \in LabelsOf(a)

\* The actors are different.
LEMMA ActorsDiffer ==
    /\ "ui" \in Actors /\ "pair" \in Actors /\ "ui" \notin Threads \cup Adders /\ "pair" \notin Threads \cup Adders
    /\ \A t \in Threads : t \in Actors /\ t # "ui" /\ t # "pair" /\ t \notin Adders
    /\ \A a \in Adders : a \in Actors /\ a # "ui" /\ a # "pair" /\ a \notin Threads
  BY ManagerAssumption DEF Actors

\* The same in the terms of the type invariant.
LEMMA PcTypes ==
    PcTyped <=>
        /\ DOMAIN pc = Actors
        /\ \A t \in Threads : pc[t] \in LabelsOf(t)
        /\ \A a \in Adders : pc[a] \in LabelsOf(a)
        /\ pc["pair"] \in LabelsOf("pair") /\ pc["ui"] \in LabelsOf("ui")
  BY ActorsDiffer DEF PcTyped, Actors

\* An actor that goes on stays where it can be, and moves nobody else.
LEMMA GotoTyped ==
    ASSUME PcTyped, NEW a \in Actors, NEW label \in LabelsOf(a), Goto(a, label)
    PROVE  PcTyped' /\ pc'[a] = label /\ \A b \in Actors \ {a} : pc'[b] = pc[b]
  BY DEF PcTyped, Goto

\* The threads of the tuples, and what each thread keeps.
ThreadsTyped ==
    /\ thread \in [Tuples -> Threads \cup {NoThread}]
    /\ tuple \in [Threads -> Tuples \cup {NoTuple}]
    /\ interrupted \in [Threads -> BOOLEAN]
    /\ offlineCount \in [Threads -> Nat]

\* CreateThreads gives each tuple of us a thread that was free, lets it begin,
\* and leaves the other threads and tuples alone.
Created(us) ==
    /\ \A u \in us : /\ thread'[u] \in Threads /\ FreeThread(thread'[u])
                     /\ tuple'[thread'[u]] = u /\ ~interrupted'[thread'[u]]
                     /\ pc'[thread'[u]] = "loop"
    /\ \A u \in Tuples \ us : thread'[u] = thread[u]
    /\ \A t \in Threads : (\A u \in us : thread'[u] # t) =>
          tuple'[t] = tuple[t] /\ interrupted'[t] = interrupted[t] /\ pc'[t] = pc[t]

LEMMA CreateSound ==
    ASSUME PcTyped, ThreadsTyped, NEW us \in SUBSET Tuples, NEW a \in Adders \cup {"ui"}, NEW label,
           CreateThreads(a, label, us)
    PROVE  /\ ThreadsTyped' /\ Created(us)
           /\ DOMAIN pc' = Actors /\ pc'[a] = label
           /\ \A b \in Actors \ (Threads \cup {a}) : pc'[b] = pc[b]
  <1> DEFINE free == {t \in Threads : FreeThread(t)}
             assignments == {new \in [us -> free] : \A u, v \in us : u # v => new[u] # new[v]}
             new == CHOOSE f \in assignments : TRUE
             fresh == {new[u] : u \in us}
  <1>1. /\ assignments # {}
        /\ thread' = [u \in Tuples |-> IF u \in us THEN new[u] ELSE thread[u]]
        /\ tuple' = [t \in Threads |->
                       IF t \in fresh THEN CHOOSE u \in us : new[u] = t ELSE tuple[t]]
        /\ interrupted' = [t \in Threads |-> t \notin fresh /\ interrupted[t]]
        /\ offlineCount' = [t \in Threads |-> IF t \in fresh THEN 0 ELSE offlineCount[t]]
        /\ pc' = [b \in Actors |-> CASE b = a -> label
                                     [] b \in fresh -> "loop"
                                     [] OTHER -> pc[b]]
    BY DEF CreateThreads
  <1>2. new \in assignments
    BY <1>1
  <1>3. \A u \in us : new[u] \in Threads /\ FreeThread(new[u])
    BY <1>2
  <1>4. \A u, v \in us : new[u] = new[v] => u = v
    BY <1>2
  <1> HIDE DEF new, assignments, free
  <1>5. fresh \subseteq Threads
    BY <1>3
  <1>6. ASSUME NEW u \in us
        PROVE  new[u] \in fresh /\ (CHOOSE v \in us : new[v] = new[u]) = u
    <2>1. \E v \in us : new[v] = new[u]
      OBVIOUS
    <2> QED
      BY <1>4, <2>1
  <1>7. a \in Actors /\ a \notin Threads
    BY ActorsDiffer DEF Actors
  <1> HIDE DEF fresh
  <1>8. /\ \A u \in us : thread'[u] = new[u]
        /\ \A u \in Tuples \ us : thread'[u] = thread[u]
        /\ thread' \in [Tuples -> Threads \cup {NoThread}]
    BY <1>1, <1>3 DEF ThreadsTyped
  <1>9. ASSUME NEW t \in fresh
        PROVE  tuple'[t] \in us /\ new[tuple'[t]] = t
    BY <1>1, <1>5, <1>9 DEF fresh
  <1>10. ASSUME NEW u \in us
         PROVE  /\ thread'[u] \in Threads /\ FreeThread(thread'[u])
                /\ tuple'[thread'[u]] = u /\ ~interrupted'[thread'[u]]
                /\ pc'[thread'[u]] = "loop"
    <2>1. new[u] \in Threads /\ FreeThread(new[u]) /\ new[u] \in fresh /\ new[u] \in Actors /\ new[u] # a
      BY <1>3, <1>6, <1>7 DEF Actors
    <2>2. tuple'[new[u]] = u
      BY <1>1, <1>6, <2>1
    <2>3. ~interrupted'[new[u]]
      BY <1>1, <2>1
    <2>4. pc'[new[u]] = "loop"
      BY <1>1, <2>1
    <2> QED
      BY <1>8, <2>1, <2>2, <2>3, <2>4
  <1>11. ASSUME NEW t \in Threads, \A u \in us : thread'[u] # t
         PROVE  tuple'[t] = tuple[t] /\ interrupted'[t] = interrupted[t] /\ pc'[t] = pc[t]
    <2>1. t \notin fresh /\ t # a /\ t \in Actors
      BY <1>7, <1>8, <1>11 DEF Actors, fresh
    <2>2. tuple'[t] = tuple[t]
      BY <1>1, <2>1
    <2>3. interrupted'[t] = interrupted[t]
      BY <1>1, <2>1 DEF ThreadsTyped
    <2>4. pc'[t] = pc[t]
      BY <1>1, <2>1
    <2> QED
      BY <2>2, <2>3, <2>4
  <1>12. DOMAIN pc' = Actors /\ pc'[a] = label /\ \A b \in Actors \ (Threads \cup {a}) : pc'[b] = pc[b]
    BY <1>1, <1>5, <1>7
  <1>13. tuple' \in [Threads -> Tuples \cup {NoTuple}]
    <2>1. \A t \in Threads : (IF t \in fresh THEN CHOOSE u \in us : new[u] = t ELSE tuple[t]) \in Tuples \cup {NoTuple}
      BY <1>1, <1>9 DEF ThreadsTyped
    <2> QED
      BY <1>1, <2>1
  <1>14. interrupted' \in [Threads -> BOOLEAN]
    <2>1. \A t \in Threads : (t \notin fresh /\ interrupted[t]) \in BOOLEAN
      OBVIOUS
    <2> QED
      BY <1>1, <2>1
  <1>15. offlineCount' \in [Threads -> Nat]
    BY <1>1 DEF ThreadsTyped
  <1> QED
    BY <1>8, <1>10, <1>11, <1>12, <1>13, <1>14, <1>15 DEF ThreadsTyped, Created

\* So the actors stay where they can be, and no thread that polls is disturbed.
LEMMA CreateTyped ==
    ASSUME PcTyped, ThreadsTyped, NEW us \in SUBSET Tuples,
           NEW a \in Adders \cup {"ui"}, NEW label \in LabelsOf(a),
           CreateThreads(a, label, us)
    PROVE  /\ PcTyped' /\ pc'[a] = label
           /\ \A b \in Actors \ {a} : pc'[b] = pc[b] \/ (b \in Threads /\ pc[b] = "done" /\ pc'[b] = "loop")
  <1>0. /\ Created(us) /\ DOMAIN pc' = Actors /\ pc'[a] = label
        /\ \A b \in Actors \ (Threads \cup {a}) : pc'[b] = pc[b]
    BY CreateSound
  <1>1. ASSUME NEW t \in Threads
        PROVE  pc'[t] = pc[t] \/ (pc[t] = "done" /\ pc'[t] = "loop")
    <2>1. CASE \A u \in us : thread'[u] # t
      BY <1>0, <2>1 DEF Created
    <2>2. CASE \E u \in us : thread'[u] = t
      BY <1>0, <2>2 DEF Created, FreeThread
    <2> QED
      BY <2>1, <2>2
  <1>3. a \notin Threads /\ a \in Actors
    BY ActorsDiffer DEF Actors
  <1>4. \A t \in Threads : pc'[t] \in LabelsOf(t)
    BY <1>1, ActorsDiffer DEF PcTyped, LabelsOf
  <1> QED
    BY <1>0, <1>1, <1>3, <1>4 DEF PcTyped
-----------------------------------------------------------------------------
(* The counts *)

\* Who has a reference, and who polls, at which place.
Holds(a, label) == IF a \in Threads \cup Adders THEN label \in {"poll", "read", "write", "notify"}
                   ELSE a = "ui" /\ label = "unlist"
Asks(a, label) == a \in Threads \cup Adders /\ label = "poll"

LEMMA FiniteActors == IsFiniteSet(Actors)
  <1>1. IsFiniteSet(Threads \cup Adders)
    BY ManagerAssumption, FS_Union
  <1>2. IsFiniteSet((Threads \cup Adders) \cup {"ui"})
    BY <1>1, FS_AddElement
  <1>3. IsFiniteSet(((Threads \cup Adders) \cup {"ui"}) \cup {"pair"})
    BY <1>2, FS_AddElement
  <1>4. Actors = ((Threads \cup Adders) \cup {"ui"}) \cup {"pair"}
    BY DEF Actors
  <1> QED
    BY <1>3, <1>4

\* A set that differs from another at most in a has the size one expects.
LEMMA OneMoves ==
    ASSUME NEW S \in SUBSET Actors, NEW T \in SUBSET Actors, NEW a \in Actors,
           \A b \in Actors \ {a} : b \in S <=> b \in T
    PROVE  /\ Cardinality(S) \in Nat /\ Cardinality(T) \in Nat
           /\ (a \in S <=> a \in T) => Cardinality(T) = Cardinality(S)
           /\ a \notin S /\ a \in T => Cardinality(T) = Cardinality(S) + 1
           /\ a \in S /\ a \notin T => Cardinality(T) = Cardinality(S) - 1
  <1>1. IsFiniteSet(S) /\ IsFiniteSet(T)
    BY FiniteActors, FS_Subset
  <1>2. Cardinality(S) \in Nat /\ Cardinality(T) \in Nat
    BY <1>1, FS_CardinalityType
  <1>3. ASSUME a \in S <=> a \in T PROVE Cardinality(T) = Cardinality(S)
    <2>1. S = T
      BY <1>3
    <2> QED
      BY <2>1
  <1>4. ASSUME a \notin S, a \in T PROVE Cardinality(T) = Cardinality(S) + 1
    <2>1. T = S \cup {a}
      BY <1>4
    <2> QED
      BY <1>1, <1>4, <2>1, FS_AddElement
  <1>5. ASSUME a \in S, a \notin T PROVE Cardinality(T) = Cardinality(S) - 1
    <2>1. T = S \ {a}
      BY <1>5
    <2> QED
      BY <1>1, <1>5, <2>1, FS_RemoveElement
  <1> QED
    BY <1>2, <1>3, <1>4, <1>5

\* The counts balance as long as each step counts what its actor does.
Counted(a) ==
    /\ pc[a] # "gone"
    /\ \A b \in Actors \ {a} :
          /\ Holds(b, pc'[b]) <=> Holds(b, pc[b])
          /\ Asks(b, pc'[b]) <=> Asks(b, pc[b])
          /\ b = "ui" => (pc'[b] = "gone" <=> pc[b] = "gone")
    /\ dbRefCount' = IF Holds(a, pc[a]) THEN IF Holds(a, pc'[a]) THEN dbRefCount ELSE dbRefCount - 1
                     ELSE IF Holds(a, pc'[a]) THEN dbRefCount + 1
                     ELSE IF pc'[a] = "gone" THEN dbRefCount - 1 ELSE dbRefCount
    /\ pc'[a] = "gone" => ~Holds(a, pc[a])
    /\ activePolls' = IF Asks(a, pc[a]) THEN IF Asks(a, pc'[a]) THEN activePolls ELSE activePolls - 1
                      ELSE IF Asks(a, pc'[a]) THEN activePolls + 1 ELSE activePolls

LEMMA CountsStep ==
    ASSUME PcTyped, PcTyped', CountsBalance, NEW a \in Actors, Counted(a)
    PROVE  CountsBalance' /\ dbRefCount' \in Nat /\ activePolls' \in Nat
  <1>1. /\ \A b \in Actors : b \in Referrers <=> Holds(b, pc[b])
        /\ \A b \in Actors : b \in Polls <=> Asks(b, pc[b])
    BY ActorsDiffer DEF Referrers, Polls, Holds, Asks, Actors
  <1>2. /\ \A b \in Actors : b \in Referrers' <=> Holds(b, pc'[b])
        /\ \A b \in Actors : b \in Polls' <=> Asks(b, pc'[b])
    BY ActorsDiffer DEF Referrers, Polls, Holds, Asks, Actors
  <1>3. /\ Referrers \in SUBSET Actors /\ Polls \in SUBSET Actors
        /\ Referrers' \in SUBSET Actors /\ Polls' \in SUBSET Actors
    BY DEF Referrers, Polls, Actors
  <1>4. /\ Cardinality(Polls) \in Nat /\ Cardinality(Polls') \in Nat
        /\ (Asks(a, pc[a]) <=> Asks(a, pc'[a])) => Cardinality(Polls') = Cardinality(Polls)
        /\ ~Asks(a, pc[a]) /\ Asks(a, pc'[a]) => Cardinality(Polls') = Cardinality(Polls) + 1
        /\ Asks(a, pc[a]) /\ ~Asks(a, pc'[a]) => Cardinality(Polls') = Cardinality(Polls) - 1
    <2>1. ASSUME NEW b \in Actors \ {a} PROVE b \in Polls <=> b \in Polls'
      <3>1. Asks(b, pc'[b]) <=> Asks(b, pc[b])
        BY Zenon DEF Counted
      <3> QED
        BY <1>1, <1>2, <3>1
    <2>2. /\ Cardinality(Polls) \in Nat /\ Cardinality(Polls') \in Nat
          /\ (a \in Polls <=> a \in Polls') => Cardinality(Polls') = Cardinality(Polls)
          /\ a \notin Polls /\ a \in Polls' => Cardinality(Polls') = Cardinality(Polls) + 1
          /\ a \in Polls /\ a \notin Polls' => Cardinality(Polls') = Cardinality(Polls) - 1
      BY <1>3, <2>1, OneMoves
    <2> QED
      BY <1>1, <1>2, <2>2
  <1>5. /\ Cardinality(Referrers) \in Nat /\ Cardinality(Referrers') \in Nat
        /\ (Holds(a, pc[a]) <=> Holds(a, pc'[a])) => Cardinality(Referrers') = Cardinality(Referrers)
        /\ ~Holds(a, pc[a]) /\ Holds(a, pc'[a]) => Cardinality(Referrers') = Cardinality(Referrers) + 1
        /\ Holds(a, pc[a]) /\ ~Holds(a, pc'[a]) => Cardinality(Referrers') = Cardinality(Referrers) - 1
    <2>1. ASSUME NEW b \in Actors \ {a} PROVE b \in Referrers <=> b \in Referrers'
      <3>1. Holds(b, pc'[b]) <=> Holds(b, pc[b])
        BY Zenon DEF Counted
      <3> QED
        BY <1>1, <1>2, <3>1
    <2>2. /\ Cardinality(Referrers) \in Nat /\ Cardinality(Referrers') \in Nat
          /\ (a \in Referrers <=> a \in Referrers') => Cardinality(Referrers') = Cardinality(Referrers)
          /\ a \notin Referrers /\ a \in Referrers' => Cardinality(Referrers') = Cardinality(Referrers) + 1
          /\ a \in Referrers /\ a \notin Referrers' => Cardinality(Referrers') = Cardinality(Referrers) - 1
      BY <1>3, <2>1, OneMoves
    <2> QED
      BY <1>1, <1>2, <2>2
  <1>6. activePolls' = Cardinality(Polls')
    BY <1>4 DEF Counted, CountsBalance
  <1>7. CASE a = "ui"
    <2>1. pc'["ui"] = "gone" => ~Holds(a, pc'[a])
      BY <1>7, ActorsDiffer DEF Holds
    <2>2. pc'["ui"] = "gone" => Holds(a, pc[a]) \/ dbRefCount' = dbRefCount - 1
      BY <1>7, <2>1 DEF Counted
    <2>3. Holds(a, pc[a]) => pc'["ui"] # "gone"
      BY <1>7 DEF Counted
    <2> QED
      BY <1>4, <1>5, <1>6, <1>7, <2>1, <2>2, <2>3 DEF Counted, CountsBalance
  <1>8. CASE a # "ui"
    <2>1. pc'[a] # "gone" /\ (pc'["ui"] = "gone" <=> pc["ui"] = "gone")
      <3>1. pc'[a] \in LabelsOf(a)
        BY DEF PcTyped
      <3>2. "gone" \notin LabelsOf(a)
        <4>1. CASE a \in Threads
          BY <4>1 DEF LabelsOf
        <4>2. CASE a \in Adders
          BY <4>2, ActorsDiffer DEF LabelsOf
        <4>3. CASE a = "pair"
          BY <4>3, ActorsDiffer DEF LabelsOf
        <4> QED
          BY <1>8, <4>1, <4>2, <4>3 DEF Actors
      <3> QED
        <4>1. pc'["ui"] = "gone" <=> pc["ui"] = "gone"
          BY <1>8, ActorsDiffer, Zenon DEF Counted
        <4> QED
          BY <3>1, <3>2, <4>1
    <2>2. dbRefCount' = Cardinality(Referrers') + (IF pc'["ui"] = "gone" THEN 0 ELSE 1)
      BY <1>5, <2>1 DEF Counted, CountsBalance
    <2> QED
      BY <1>4, <1>5, <1>6, <2>2 DEF CountsBalance
  <1> QED
    BY <1>7, <1>8
-----------------------------------------------------------------------------
(* Type correctness *)

\* All but the counts, the places of the actors, and the threads.
DataTyped ==
    /\ row \in Rows
    /\ dbOpen \in BOOLEAN
    /\ listed \subseteq Tuples
    /\ state \in [Tuples -> States]
    /\ cert \in [Tuples -> BOOLEAN]
    /\ networkLock \subseteq Tuples
    /\ pollingActive \in BOOLEAN
    /\ listener \in BOOLEAN
    /\ tries \in [Threads -> Nat]
    /\ saved \in [Threads \cup Adders -> Rows]
    /\ pulled \in [Adders -> BOOLEAN]
    /\ shown \in States
    /\ running \in BOOLEAN
    /\ foreground \in BOOLEAN
    /\ dialog \in BOOLEAN
    /\ posted \in BOOLEAN
    /\ hostUp \in BOOLEAN
    /\ crash \in BOOLEAN
    /\ roles \in Roles
    /\ events \in Nat

\* A thread that was started has a tuple.
TupleKnown == \A t \in Threads : pc[t] # "done" => tuple[t] \in Tuples

\* The type invariant in parts, with the counts.
TypeInv ==
    /\ PcTyped /\ ThreadsTyped /\ DataTyped /\ TupleKnown
    /\ CountsBalance /\ dbRefCount \in Nat /\ activePolls \in Nat

LEMMA TypeParts == TypeInv => TypeOK
  <1> SUFFICES ASSUME TypeInv PROVE TypeOK
    OBVIOUS
  <1>1. /\ \A t \in Threads : pc[t] \in {"done", "loop", "lock", "ref", "poll", "read", "write", "notify"}
        /\ \A a \in Adders : pc[a] \in
              {"new", "done", "ask", "pin", "ref", "poll", "read", "write", "notify", "add"}
        /\ pc["pair"] \in {"idle", "stop", "setInactive", "stopThreads", "clearListener",
                           "wait", "pairing", "inv", "invLock"}
        /\ pc["ui"] \in {"idle", "start", "setActive", "setListener", "startThreads", "stop",
                         "setInactive", "stopThreads", "clearListener", "menu", "unlist", "gone"}
        /\ DOMAIN pc = Actors
    BY ActorsDiffer DEF TypeInv, PcTyped, LabelsOf
  <1> QED
    BY <1>1 DEF TypeInv, DataTyped, ThreadsTyped, TypeOK

LEMMA TypeInit == Init => TypeInv
  <1> SUFFICES ASSUME Init PROVE TypeInv
    OBVIOUS
  <1>1. PcTyped
    BY ActorsDiffer DEF Init, PcTyped, LabelsOf, Actors
  <1>2. ThreadsTyped
    BY DEF Init, ThreadsTyped
  <1>3. DataTyped
    <2>1. listed \subseteq Tuples /\ row \in Rows
      BY ManagerAssumption DEF Init, Rows
    <2>2. /\ state \in [Tuples -> States] /\ cert \in [Tuples -> BOOLEAN]
          /\ tries \in [Threads -> Nat]
          /\ saved \in [Threads \cup Adders -> Rows] /\ pulled \in [Adders -> BOOLEAN] /\ shown \in States
      BY DEF Init, States, Rows
    <2> QED
      BY <2>1, <2>2 DEF Init, DataTyped
  <1>4. (\A t \in Threads : pc[t] = "done") /\ (\A a \in Adders : pc[a] = "new") /\ pc["ui"] = "start"
    BY ActorsDiffer DEF Init
  <1>5. Referrers = {} /\ Polls = {}
    BY <1>4 DEF Referrers, Polls
  <1>6. CountsBalance /\ dbRefCount = 1 /\ activePolls = 0
    BY <1>4, <1>5, FS_EmptySet DEF Init, CountsBalance
  <1> QED
    BY <1>1, <1>2, <1>3, <1>4, <1>6 DEF TypeInv, TupleKnown

\* A step of one actor a to label, which counts what it has to.
Moves(a, label) ==
    /\ Goto(a, label)
    /\ pc[a] # "gone"
    /\ dbRefCount' = IF Holds(a, pc[a]) THEN IF Holds(a, label) THEN dbRefCount ELSE dbRefCount - 1
                     ELSE IF Holds(a, label) THEN dbRefCount + 1
                     ELSE IF label = "gone" THEN dbRefCount - 1 ELSE dbRefCount
    /\ label = "gone" => ~Holds(a, pc[a])
    /\ activePolls' = IF Asks(a, pc[a]) THEN IF Asks(a, label) THEN activePolls ELSE activePolls - 1
                      ELSE IF Asks(a, label) THEN activePolls + 1 ELSE activePolls

LEMMA MovesSound ==
    ASSUME TypeInv, NEW a \in Actors, NEW label \in LabelsOf(a), Moves(a, label)
    PROVE  /\ PcTyped' /\ CountsBalance' /\ dbRefCount' \in Nat /\ activePolls' \in Nat
           /\ pc'[a] = label /\ \A b \in Actors \ {a} : pc'[b] = pc[b]
  <1>1. PcTyped' /\ pc'[a] = label /\ \A b \in Actors \ {a} : pc'[b] = pc[b]
    BY GotoTyped DEF TypeInv, Moves
  <1>2. Counted(a)
    BY <1>1 DEF Moves, Counted
  <1> QED
    BY <1>1, <1>2, CountsStep DEF TypeInv

\* Such a step keeps the tuples of the threads, if only a thread that ends loses
\* its own.
LEMMA MovesType ==
    ASSUME TypeInv, NEW a \in Actors, NEW label \in LabelsOf(a), Moves(a, label),
           a \in Threads => pc[a] # "done",
           \A t \in Threads : tuple'[t] = tuple[t] \/ (t = a /\ label = "done"),
           ThreadsTyped', DataTyped'
    PROVE  TypeInv'
  <1>1. \A t \in Threads : pc'[t] # "done" => pc[t] # "done" /\ tuple'[t] = tuple[t]
    BY MovesSound DEF Actors
  <1> QED
    BY <1>1, MovesSound DEF TypeInv, TupleKnown

\* A step of an adder or of the main thread that creates threads.
LEMMA CreateType ==
    ASSUME TypeInv, NEW us \in SUBSET Tuples, NEW a \in Adders \cup {"ui"}, NEW label \in LabelsOf(a),
           CreateThreads(a, label, us), UNCHANGED <<dbRefCount, activePolls>>,
           ~Holds(a, pc[a]), ~Holds(a, label), pc[a] # "gone", label # "gone",
           DataTyped'
    PROVE  TypeInv'
  <1>1. /\ PcTyped' /\ pc'[a] = label
        /\ \A b \in Actors \ {a} : pc'[b] = pc[b] \/ (b \in Threads /\ pc[b] = "done" /\ pc'[b] = "loop")
    BY CreateTyped DEF TypeInv
  <1>2. ThreadsTyped' /\ Created(us)
    BY CreateSound DEF TypeInv
  <1>3. a \in Actors
    BY DEF Actors
  <1>4. /\ \A b \in Threads : ~Holds(b, "done") /\ ~Holds(b, "loop") /\ ~Asks(b, "done") /\ ~Asks(b, "loop")
        /\ ~Asks(a, pc[a]) /\ ~Asks(a, label)
    BY DEF Holds, Asks
  <1>5. Counted(a)
    <2>1. ASSUME NEW b \in Actors \ {a}
          PROVE  /\ Holds(b, pc'[b]) <=> Holds(b, pc[b])
                 /\ Asks(b, pc'[b]) <=> Asks(b, pc[b])
                 /\ b = "ui" => (pc'[b] = "gone" <=> pc[b] = "gone")
      <3>1. CASE pc'[b] = pc[b]
        BY <3>1
      <3>2. CASE b \in Threads /\ pc[b] = "done" /\ pc'[b] = "loop"
        BY <1>4, <3>2, ActorsDiffer
      <3> QED
        BY <1>1, <3>1, <3>2
    <2> QED
      BY <1>1, <1>4, <2>1 DEF Counted
  <1>6. CountsBalance' /\ dbRefCount' \in Nat /\ activePolls' \in Nat
    BY <1>1, <1>3, <1>5, CountsStep DEF TypeInv
  <1>7. TupleKnown'
    <2> SUFFICES ASSUME NEW t \in Threads, pc'[t] # "done" PROVE tuple'[t] \in Tuples
      BY DEF TupleKnown
    <2>1. CASE \A u \in us : thread'[u] # t
      BY <1>2, <2>1 DEF Created, TypeInv, TupleKnown
    <2>2. CASE \E u \in us : thread'[u] = t
      BY <1>2, <2>2 DEF Created
    <2> QED
      BY <2>1, <2>2
  <1> QED
    BY <1>1, <1>2, <1>6, <1>7, DataTyped' DEF TypeInv

\* The steps of a polling thread.
LEMMA PollerType ==
    ASSUME TypeInv, NEW t \in Threads, Poller(t)
    PROVE  TypeInv'
  <1> USE DEF envVars, viewVars, threadVars, pollVars, tupleVars, dbVars, refVars
  <1>0. /\ t \in Actors /\ t # "ui" /\ t # "pair"
        /\ LabelsOf(t) = {"done", "loop", "lock", "ref", "poll", "read", "write", "notify"}
        /\ \A l : Holds(t, l) <=> l \in {"poll", "read", "write", "notify"}
        /\ \A l : Asks(t, l) <=> l = "poll"
    BY ActorsDiffer DEF LabelsOf, Holds, Asks
  <1>1. ASSUME NEW label \in LabelsOf(t), Moves(t, label), pc[t] # "done",
               tuple' = tuple \/ (label = "done" /\ tuple' = [tuple EXCEPT ![t] = NoTuple]),
               thread' = thread,
               interrupted' \in [Threads -> BOOLEAN], offlineCount' \in [Threads -> Nat],
               DataTyped'
        PROVE  TypeInv'
    <2>1. tuple' \in [Threads -> Tuples \cup {NoTuple}]
      BY <1>1 DEF TypeInv, ThreadsTyped
    <2>2. ThreadsTyped'
      BY <1>1, <2>1 DEF TypeInv, ThreadsTyped
    <2>3. \A s \in Threads : tuple'[s] = tuple[s] \/ (s = t /\ label = "done")
      BY <1>1 DEF TypeInv, ThreadsTyped
    <2> QED
      BY <1>0, <1>1, <2>2, <2>3, MovesType
  <1>2. interrupted' = [interrupted EXCEPT ![t] = FALSE] => interrupted' \in [Threads -> BOOLEAN]
    BY DEF TypeInv, ThreadsTyped
  <1>3. /\ offlineCount' = [offlineCount EXCEPT ![t] = 0] => offlineCount' \in [Threads -> Nat]
        /\ CountTry(t) => offlineCount' \in [Threads -> Nat]
    BY DEF TypeInv, ThreadsTyped, CountTry
  <1>4. interrupted \in [Threads -> BOOLEAN] /\ offlineCount \in [Threads -> Nat]
    BY DEF TypeInv, ThreadsTyped
  <1>5. pc[t] # "done" => tuple[t] \in Tuples
    BY DEF TypeInv, TupleKnown
  <1>6. CASE LoopCheck(t)
    <2>1. DataTyped'
      BY <1>6 DEF LoopCheck, TypeInv, DataTyped
    <2>2. CASE EndThread(t)
      <3>1. Moves(t, "done") /\ pc[t] = "loop" /\ thread' = thread
        BY <1>0, <1>6, <2>2 DEF LoopCheck, EndThread, Moves
      <3> QED
        BY <1>0, <1>1, <1>2, <1>3, <2>1, <2>2, <3>1 DEF EndThread
    <2>3. CASE ~EndThread(t)
      <3>1. /\ Moves(t, "lock") /\ pc[t] = "loop"
            /\ UNCHANGED <<thread, tuple, interrupted, offlineCount>>
        BY <1>0, <1>6, <2>3 DEF LoopCheck, Moves
      <3> QED
        BY <1>0, <1>1, <1>4, <2>1, <3>1
    <2> QED
      BY <2>2, <2>3
  <1>7. CASE LockNetwork(t)
    <2>1. networkLock' \subseteq Tuples
      BY <1>5, <1>7 DEF LockNetwork, TypeInv, DataTyped
    <2>2. DataTyped'
      BY <1>7, <2>1 DEF LockNetwork, TypeInv, DataTyped
    <2>3. \E label \in {"loop", "ref"} : Moves(t, label) /\ pc[t] = "lock"
      BY <1>0, <1>7 DEF LockNetwork, Moves
    <2>4. UNCHANGED <<thread, tuple, interrupted>> /\ offlineCount' \in [Threads -> Nat]
      BY <1>3, <1>4, <1>7 DEF LockNetwork
    <2> QED
      BY <1>0, <1>1, <1>4, <2>2, <2>3, <2>4
  <1>8. CASE BeginPoll(t)
    <2>1. tries' \in [Threads -> Nat]
      BY <1>8, ManagerAssumption DEF BeginPoll, TypeInv, DataTyped
    <2>2. DataTyped'
      BY <1>8, <2>1 DEF BeginPoll, TypeInv, DataTyped
    <2>3. Moves(t, "poll") /\ pc[t] = "ref" /\ UNCHANGED <<thread, tuple, interrupted, offlineCount>>
      BY <1>0, <1>8 DEF BeginPoll, Moves
    <2> QED
      BY <1>0, <1>1, <1>4, <2>2, <2>3
  <1>9. CASE PollAnswered(t)
    <2>1. tries' \in [Threads -> Nat] /\ state' \in [Tuples -> States]
      BY <1>9 DEF PollAnswered, TypeInv, DataTyped, States
    <2>2. DataTyped'
      BY <1>9, <2>1 DEF PollAnswered, TypeInv, DataTyped
    <2>3. Moves(t, "read") /\ pc[t] = "poll" /\ UNCHANGED <<thread, tuple, interrupted, offlineCount>>
      BY <1>0, <1>9 DEF PollAnswered, Moves
    <2> QED
      BY <1>0, <1>1, <1>4, <2>2, <2>3
  \* A poll gives back its reference when it ends.
  <1>10. ASSUME NEW result \in BOOLEAN, EndPoll(t, result),
                pc[t] \in {"poll", "read", "notify"},
                activePolls' = IF pc[t] = "poll" THEN activePolls - 1 ELSE activePolls
         PROVE  /\ Moves(t, "loop") /\ dbOpen' \in BOOLEAN /\ networkLock' \subseteq Tuples
                /\ offlineCount' \in [Threads -> Nat]
    <2>1. Goto(t, "loop") /\ dbRefCount' = dbRefCount - 1 /\ dbOpen' \in BOOLEAN
      BY <1>10 DEF EndPoll, ReleaseReference
    <2>2. networkLock' \subseteq Tuples
      BY <1>10 DEF EndPoll, TypeInv, DataTyped
    <2>3. offlineCount' \in [Threads -> Nat]
      BY <1>3, <1>10 DEF EndPoll
    <2>4. Moves(t, "loop")
      BY <1>0, <1>10, <2>1 DEF Moves
    <2> QED
      BY <2>1, <2>2, <2>3, <2>4
  <1>11. CASE PollFailed(t)
    <2>1. tries' \in [Threads -> Nat] /\ pc[t] = "poll" /\ UNCHANGED <<thread, tuple, interrupted>>
      BY <1>11 DEF PollFailed, TypeInv, DataTyped
    <2>2. CASE offlineCount[t] < tries[t]
      <3>1. EndPoll(t, FALSE) /\ UNCHANGED state
        BY <1>11, <2>2 DEF PollFailed
      <3>2. activePolls' = activePolls - 1
        BY <1>11 DEF PollFailed
      <3>3. /\ Moves(t, "loop") /\ dbOpen' \in BOOLEAN /\ networkLock' \subseteq Tuples
            /\ offlineCount' \in [Threads -> Nat]
        BY <1>10, <2>1, <3>1, <3>2
      <3>4. DataTyped'
        BY <1>11, <2>1, <3>1, <3>3 DEF PollFailed, TypeInv, DataTyped
      <3> QED
        BY <1>0, <1>1, <1>4, <2>1, <3>3, <3>4
    <2>3. CASE ~(offlineCount[t] < tries[t])
      <3>1. state' \in [Tuples -> States] /\ UNCHANGED <<refVars, networkLock, offlineCount>>
        BY <1>11, <2>3 DEF PollFailed, TypeInv, DataTyped, States
      <3>2. DataTyped'
        BY <1>11, <2>1, <3>1 DEF PollFailed, TypeInv, DataTyped
      <3>3. Moves(t, "read")
        BY <1>0, <1>11, <2>1, <2>3 DEF PollFailed, Moves
      <3> QED
        BY <1>0, <1>1, <1>4, <2>1, <3>1, <3>2, <3>3
    <2> QED
      BY <2>2, <2>3
  <1>12. CASE PollInterrupted(t)
    <2>1. tries' \in [Threads -> Nat] /\ dbOpen' \in BOOLEAN /\ networkLock' \subseteq Tuples
      BY <1>12 DEF PollInterrupted, ReleaseReference, TypeInv, DataTyped
    <2>2. DataTyped'
      BY <1>12, <2>1 DEF PollInterrupted, TypeInv, DataTyped
    <2>3. Moves(t, "done") /\ pc[t] = "poll" /\ thread' = thread /\ EndThread(t)
      BY <1>0, <1>12 DEF PollInterrupted, EndThread, ReleaseReference, Moves
    <2> QED
      BY <1>0, <1>1, <1>2, <1>3, <2>2, <2>3 DEF EndThread
  <1>13. CASE ReadRow(t)
    <2>1. pc[t] = "read" /\ UNCHANGED <<thread, tuple, interrupted, activePolls>>
      BY <1>13 DEF ReadRow
    <2>2. CASE EndPoll(t, FALSE) /\ UNCHANGED saved
      <3>1. /\ Moves(t, "loop") /\ dbOpen' \in BOOLEAN /\ networkLock' \subseteq Tuples
            /\ offlineCount' \in [Threads -> Nat]
        BY <1>10, <2>1, <2>2
      <3>2. DataTyped'
        BY <1>13, <2>2, <3>1 DEF ReadRow, TypeInv, DataTyped
      <3> QED
        BY <1>0, <1>1, <1>4, <2>1, <3>1, <3>2
    <2>3. CASE ~(EndPoll(t, FALSE) /\ UNCHANGED saved)
      <3>1. UNCHANGED <<refVars, networkLock, offlineCount>>
        BY <1>13, <2>3 DEF ReadRow
      <3>2. saved' \in [Threads \cup Adders -> Rows]
        BY <1>13, <2>3 DEF ReadRow, TypeInv, DataTyped, Merge, Rows
      <3>3. DataTyped'
        BY <1>13, <3>1, <3>2 DEF ReadRow, TypeInv, DataTyped
      <3>4. \E label \in {"write", "notify"} : Moves(t, label)
        BY <1>0, <1>13, <2>3, <3>1 DEF ReadRow, Moves
      <3> QED
        BY <1>0, <1>1, <1>4, <2>1, <3>1, <3>3, <3>4
    <2> QED
      BY <2>2, <2>3
  <1>14. CASE WriteRow(t)
    <2>1. row' \in Rows /\ saved' \in [Threads \cup Adders -> Rows]
      BY <1>14 DEF WriteRow, TypeInv, DataTyped, Rows
    <2>2. DataTyped'
      BY <1>14, <2>1 DEF WriteRow, TypeInv, DataTyped
    <2>3. Moves(t, "notify") /\ pc[t] = "write" /\ UNCHANGED <<thread, tuple, interrupted, offlineCount>>
      BY <1>0, <1>14 DEF WriteRow, Moves
    <2> QED
      BY <1>0, <1>1, <1>4, <2>2, <2>3
  <1>15. CASE NotifyListener(t)
    <2>1. pc[t] = "notify" /\ UNCHANGED <<thread, tuple, interrupted, activePolls>> /\ EndPoll(t, TRUE)
      BY <1>15 DEF NotifyListener
    <2>2. /\ Moves(t, "loop") /\ dbOpen' \in BOOLEAN /\ networkLock' \subseteq Tuples
          /\ offlineCount' \in [Threads -> Nat]
      BY <1>10, <2>1
    <2>3. shown' \in States
      BY <1>5, <1>15, <2>1 DEF NotifyListener, TypeInv, DataTyped
    <2>4. DataTyped'
      BY <1>15, <2>2, <2>3 DEF NotifyListener, TypeInv, DataTyped
    <2> QED
      BY <1>0, <1>1, <1>4, <2>1, <2>2, <2>4
  <1> QED
    BY <1>6, <1>7, <1>8, <1>9, <1>11, <1>12, <1>13, <1>14, <1>15, Poller(t) DEF Poller

\* A step of another actor that leaves the polling threads where they are.
LEMMA OtherType ==
    ASSUME TypeInv, NEW a \in Adders \cup {"ui", "pair"}, NEW label \in LabelsOf(a), Moves(a, label),
           UNCHANGED <<thread, threadVars>>, DataTyped'
    PROVE  TypeInv'
  <1>1. a \in Actors /\ a \notin Threads
    BY ActorsDiffer DEF Actors
  <1>2. ThreadsTyped'
    BY DEF threadVars, TypeInv, ThreadsTyped
  <1> QED
    BY <1>1, <1>2, MovesType DEF threadVars

LEMMA AdderType ==
    ASSUME TypeInv, NEW a \in Adders, StartAdd(a) \/ Adder(a)
    PROVE  TypeInv'
  <1> USE DEF envVars, viewVars, threadVars, pollVars, tupleVars, dbVars, refVars
  <1>0. /\ a \in Adders \cup {"ui", "pair"} /\ a # "ui"
        /\ LabelsOf(a) = {"new", "done", "ask", "pin", "ref", "poll", "read", "write", "notify", "add"}
        /\ \A l : Holds(a, l) <=> l \in {"poll", "read", "write", "notify"}
        /\ \A l : Asks(a, l) <=> l = "poll"
    BY ActorsDiffer DEF LabelsOf, Holds, Asks
  <1>1. CASE StartAdd(a)
    <2>1. DataTyped'
      BY <1>1 DEF StartAdd, TypeInv, DataTyped
    <2>2. Moves(a, "ask") /\ UNCHANGED <<thread, threadVars>>
      BY <1>0, <1>1 DEF StartAdd, Moves
    <2> QED
      BY <1>0, <2>1, <2>2, OtherType
  <1>2. CASE FirstPoll(a)
    <2>1. DataTyped'
      BY <1>2 DEF FirstPoll, TypeInv, DataTyped
    <2>2. (\E label \in {"pin", "done"} : Moves(a, label)) /\ UNCHANGED <<thread, threadVars>>
      BY <1>0, <1>2 DEF FirstPoll, Moves
    <2> QED
      BY <1>0, <2>1, <2>2, OtherType
  <1>3. CASE PullCert(a)
    <2>1. (\E u \in listed : cert[u]) \in BOOLEAN
      OBVIOUS
    <2>2. pulled' \in [Adders -> BOOLEAN]
      BY <1>3, <2>1 DEF PullCert, TypeInv, DataTyped
    <2>3. DataTyped'
      BY <1>3, <2>2 DEF PullCert, TypeInv, DataTyped
    <2>4. (\E label \in {"add", "ref"} : Moves(a, label)) /\ UNCHANGED <<thread, threadVars>>
      BY <1>0, <1>3 DEF PullCert, Moves
    <2> QED
      BY <1>0, <2>3, <2>4, OtherType
  <1>4. CASE BeginAddPoll(a)
    <2>1. DataTyped'
      BY <1>4 DEF BeginAddPoll, TypeInv, DataTyped
    <2>2. Moves(a, "poll") /\ UNCHANGED <<thread, threadVars>>
      BY <1>0, <1>4 DEF BeginAddPoll, Moves
    <2> QED
      BY <1>0, <2>1, <2>2, OtherType
  <1>5. CASE SecondPoll(a)
    <2>1. dbOpen' \in BOOLEAN /\ pulled' \in [Adders -> BOOLEAN]
      BY <1>5 DEF SecondPoll, ReleaseReference, TypeInv, DataTyped
    <2>2. DataTyped'
      BY <1>5, <2>1 DEF SecondPoll, TypeInv, DataTyped
    <2>3. (\E label \in {"read", "done"} : Moves(a, label)) /\ UNCHANGED <<thread, threadVars>>
      BY <1>0, <1>5 DEF SecondPoll, ReleaseReference, Moves
    <2> QED
      BY <1>0, <2>2, <2>3, OtherType
  <1>6. CASE ReadNewRow(a)
    <2>1. saved' \in [Threads \cup Adders -> Rows]
      BY <1>6 DEF ReadNewRow, TypeInv, DataTyped, Merge, Rows
    <2>2. DataTyped'
      BY <1>6, <2>1 DEF ReadNewRow, TypeInv, DataTyped
    <2>3. Moves(a, "write") /\ UNCHANGED <<thread, threadVars>>
      BY <1>0, <1>6 DEF ReadNewRow, Moves
    <2> QED
      BY <1>0, <2>2, <2>3, OtherType
  <1>7. CASE WriteRow(a)
    <2>1. row' \in Rows /\ saved' \in [Threads \cup Adders -> Rows]
      BY <1>7 DEF WriteRow, TypeInv, DataTyped, Rows
    <2>2. DataTyped'
      BY <1>7, <2>1 DEF WriteRow, TypeInv, DataTyped
    <2>3. Moves(a, "notify") /\ UNCHANGED <<thread, threadVars>>
      BY <1>0, <1>7 DEF WriteRow, Moves
    <2> QED
      BY <1>0, <2>2, <2>3, OtherType
  <1>8. CASE NotifyAdded(a)
    <2>1. dbOpen' \in BOOLEAN /\ shown' \in States
      BY <1>8 DEF NotifyAdded, ReleaseReference, TypeInv, DataTyped, States
    <2>2. DataTyped'
      BY <1>8, <2>1 DEF NotifyAdded, TypeInv, DataTyped
    <2>3. Moves(a, "add") /\ UNCHANGED <<thread, threadVars>>
      BY <1>0, <1>8 DEF NotifyAdded, ReleaseReference, Moves
    <2> QED
      BY <1>0, <2>2, <2>3, OtherType
  <1>9. CASE AddTuple(a)
    <2>1. PICK u \in AddTarget :
             /\ listed' = listed \cup {u}
             /\ state' = [state EXCEPT ![u] = "ONLINE"]
             /\ cert' = [cert EXCEPT ![u] = pulled[a] \/ (u \in listed /\ cert[u])]
             /\ CreateThreads(a, "done", IF pollingActive /\ thread[u] = NoThread THEN {u} ELSE {})
      BY <1>9 DEF AddTuple
    <2>2. u \in Tuples
      BY DEF AddTarget, NewTuple, TypeInv, DataTyped
    <2>3. (pulled[a] \/ (u \in listed /\ cert[u])) \in BOOLEAN
      BY <2>2 DEF TypeInv, DataTyped
    <2>4. /\ listed' \subseteq Tuples /\ state' \in [Tuples -> States] /\ cert' \in [Tuples -> BOOLEAN]
          /\ pulled' \in [Adders -> BOOLEAN]
      BY <1>9, <2>1, <2>2, <2>3 DEF AddTuple, TypeInv, DataTyped, States
    <2>5. tries' = tries
      BY <2>1 DEF CreateThreads
    <2>6. DataTyped'
      BY <1>9, <2>4, <2>5 DEF AddTuple, TypeInv, DataTyped
    <2>7. pc[a] = "add" /\ UNCHANGED <<dbRefCount, activePolls>>
      BY <1>9 DEF AddTuple
    <2>8. (IF pollingActive /\ thread[u] = NoThread THEN {u} ELSE {}) \in SUBSET Tuples
      BY <2>2
    <2> QED
      BY <1>0, <2>1, <2>6, <2>7, <2>8, CreateType
  <1> QED
    BY <1>1, <1>2, <1>3, <1>4, <1>5, <1>6, <1>7, <1>8, <1>9, StartAdd(a) \/ Adder(a) DEF Adder

\* Stopping the polls of some tuples interrupts their threads.
LEMMA StopType ==
    ASSUME TypeInv, NEW us \in SUBSET Tuples, StopThreadsOf(us),
           NEW a \in {"ui", "pair"}, NEW label \in LabelsOf(a), Moves(a, label),
           UNCHANGED <<tuple, offlineCount>>, DataTyped'
    PROVE  TypeInv'
  <1>1. \A t \in Threads : (interrupted[t] \/ (pc[t] # "done" /\ t \in {thread[u] : u \in us})) \in BOOLEAN
    BY DEF TypeInv, ThreadsTyped
  <1>2. interrupted' \in [Threads -> BOOLEAN]
    BY <1>1 DEF StopThreadsOf
  <1>3. ThreadsTyped'
    BY <1>2 DEF StopThreadsOf, TypeInv, ThreadsTyped
  <1>4. a \in Actors /\ a \notin Threads
    BY ActorsDiffer
  <1> QED
    BY <1>3, <1>4, MovesType

LEMMA UiLabels ==
    /\ LabelsOf("ui") = {"idle", "start", "setActive", "setListener", "startThreads", "stop",
                        "setInactive", "stopThreads", "clearListener", "menu", "unlist", "gone"}
    /\ LabelsOf("pair") = {"idle", "stop", "setInactive", "stopThreads", "clearListener",
                          "wait", "pairing", "inv", "invLock"}
    /\ \A l : (Holds("ui", l) <=> l = "unlist") /\ ~Holds("pair", l) /\ ~Asks("ui", l) /\ ~Asks("pair", l)
  BY ActorsDiffer DEF LabelsOf, Holds, Asks

\* The steps of stopPolling, on either thread.
LEMMA StopPollingType ==
    ASSUME TypeInv, NEW a \in {"ui", "pair"}, StopPolling(a)
    PROVE  TypeInv'
  <1> USE DEF envVars, viewVars, threadVars, pollVars, tupleVars, dbVars, refVars
  <1>1. AfterStop(a) \in LabelsOf(a) \ {"unlist", "gone"}
    BY UiLabels DEF AfterStop
  <1>2. CASE StopUpdates(a)
    <2>1. DataTyped'
      BY <1>2 DEF StopUpdates, TypeInv, DataTyped
    <2>2. /\ \E label \in {"setInactive", AfterStop(a)} : Moves(a, label)
          /\ UNCHANGED <<thread, threadVars>>
      BY <1>1, <1>2, UiLabels DEF StopUpdates, Moves
    <2> QED
      BY <1>1, <2>1, <2>2, OtherType, UiLabels
  <1>3. CASE SetInactive(a)
    <2>1. DataTyped'
      BY <1>3 DEF SetInactive, TypeInv, DataTyped
    <2>2. Moves(a, "stopThreads") /\ UNCHANGED <<thread, threadVars>>
      BY <1>3, UiLabels DEF SetInactive, Moves
    <2> QED
      BY <2>1, <2>2, OtherType, UiLabels
  <1>4. CASE StopThreads(a)
    <2>1. DataTyped'
      BY <1>4 DEF StopThreads, TypeInv, DataTyped
    <2>2. Moves(a, "clearListener") /\ UNCHANGED <<tuple, offlineCount>> /\ StopThreadsOf(listed)
      BY <1>4, UiLabels DEF StopThreads, Moves
    <2> QED
      BY <2>1, <2>2, StopType, UiLabels DEF TypeInv, DataTyped
  <1>5. CASE ClearListener(a)
    <2>1. DataTyped'
      BY <1>5 DEF ClearListener, TypeInv, DataTyped
    <2>2. /\ \E label \in {IF a = "pair" THEN "wait" ELSE AfterStop(a)} : Moves(a, label)
          /\ UNCHANGED <<thread, threadVars>>
      BY <1>1, <1>5, UiLabels DEF ClearListener, Moves
    <2> QED
      BY <1>1, <2>1, <2>2, OtherType, UiLabels
  <1> QED
    BY <1>2, <1>3, <1>4, <1>5, StopPolling(a) DEF StopPolling

\* The steps of the pairing thread.
LEMMA PairType ==
    ASSUME TypeInv, Pair
    PROVE  TypeInv'
  <1> USE DEF envVars, viewVars, threadVars, pollVars, tupleVars, dbVars, refVars
  <1>1. CASE StopPolling("pair")
    BY <1>1, StopPollingType
  <1>2. CASE WaitForPollingStopped
    <2>1. DataTyped'
      BY <1>2 DEF WaitForPollingStopped, TypeInv, DataTyped
    <2>2. Moves("pair", "pairing") /\ UNCHANGED <<thread, threadVars>>
      BY <1>2, UiLabels DEF WaitForPollingStopped, Moves
    <2> QED
      BY <2>1, <2>2, OtherType, UiLabels
  <1>3. CASE PairingFailed
    <2>1. DataTyped'
      BY <1>3 DEF PairingFailed, TypeInv, DataTyped
    <2>2. Moves("pair", "idle") /\ UNCHANGED <<thread, threadVars>>
      BY <1>3, UiLabels DEF PairingFailed, Moves
    <2> QED
      BY <2>1, <2>2, OtherType, UiLabels
  <1>4. CASE Paired
    <2>1. CASE listed = {}
      <3>1. UNCHANGED <<pc, cert>> /\ crash' = TRUE
        BY <1>4, <2>1 DEF Paired
      <3>2. DataTyped' /\ ThreadsTyped' /\ PcTyped' /\ TupleKnown'
        BY <1>4, <3>1 DEF Paired, TypeInv, DataTyped, ThreadsTyped, PcTyped, TupleKnown
      <3>3. CountsBalance' /\ UNCHANGED <<dbRefCount, activePolls>>
        BY <1>4, <3>1 DEF Paired, TypeInv, CountsBalance, Referrers, Polls
      <3> QED
        BY <3>2, <3>3 DEF TypeInv
    <2>2. CASE listed # {}
      <3>1. \A u \in Tuples : (u \in listed \/ cert[u]) \in BOOLEAN
        OBVIOUS
      <3>2. cert' \in [Tuples -> BOOLEAN] /\ crash' = crash
        BY <1>4, <2>2, <3>1 DEF Paired
      <3>3. DataTyped'
        BY <1>4, <3>2 DEF Paired, TypeInv, DataTyped
      <3>4. Moves("pair", "inv") /\ UNCHANGED <<thread, threadVars>>
        BY <1>4, <2>2, UiLabels DEF Paired, Moves
      <3> QED
        BY <3>3, <3>4, OtherType, UiLabels
    <2> QED
      BY <2>1, <2>2
  <1>5. CASE Invalidate
    <2>1. DataTyped'
      BY <1>5 DEF Invalidate, TypeInv, DataTyped
    <2>2. Moves("pair", "invLock") /\ UNCHANGED <<thread, threadVars>>
      BY <1>5, UiLabels DEF Invalidate, Moves
    <2> QED
      BY <2>1, <2>2, OtherType, UiLabels
  <1>6. CASE InvalidateLocked
    <2>1. state' \in [Tuples -> States]
      BY <1>6 DEF InvalidateLocked, TypeInv, DataTyped, States
    <2>2. DataTyped'
      BY <1>6, <2>1 DEF InvalidateLocked, TypeInv, DataTyped
    <2>3. Moves("pair", "idle") /\ UNCHANGED <<thread, threadVars>>
      BY <1>6, UiLabels DEF InvalidateLocked, Moves
    <2> QED
      BY <2>2, <2>3, OtherType, UiLabels
  <1> QED
    BY <1>1, <1>2, <1>3, <1>4, <1>5, <1>6, Pair DEF Pair

\* The steps of the main thread.
LEMMA UiType ==
    ASSUME TypeInv, Ui
    PROVE  TypeInv'
  <1> USE DEF envVars, viewVars, threadVars, pollVars, tupleVars, dbVars, refVars
  <1>1. CASE StartUpdates
    <2>1. DataTyped'
      BY <1>1 DEF StartUpdates, TypeInv, DataTyped
    <2>2. (\E label \in {"setActive", "idle"} : Moves("ui", label)) /\ UNCHANGED <<thread, threadVars>>
      BY <1>1, UiLabels DEF StartUpdates, Moves
    <2> QED
      BY <2>1, <2>2, OtherType, UiLabels
  <1>2. CASE SetActive
    <2>1. DataTyped'
      BY <1>2 DEF SetActive, TypeInv, DataTyped
    <2>2. Moves("ui", "setListener") /\ UNCHANGED <<thread, threadVars>>
      BY <1>2, UiLabels DEF SetActive, Moves
    <2> QED
      BY <2>1, <2>2, OtherType, UiLabels
  <1>3. CASE SetListener
    <2>1. DataTyped'
      BY <1>3 DEF SetListener, TypeInv, DataTyped
    <2>2. Moves("ui", "startThreads") /\ UNCHANGED <<thread, threadVars>>
      BY <1>3, UiLabels DEF SetListener, Moves
    <2> QED
      BY <2>1, <2>2, OtherType, UiLabels
  <1>4. CASE StartThreads
    <2>1. CreateThreads("ui", "idle", {u \in listed : thread[u] = NoThread}) /\ pc["ui"] = "startThreads"
      BY <1>4 DEF StartThreads
    <2>2. PICK expired \in SUBSET listed :
             /\ state' = [u \in Tuples |-> IF u \in expired THEN "UNKNOWN" ELSE state[u]]
             /\ shown' \in IF listed = {} THEN {shown} ELSE {state'[u] : u \in listed}
      BY <1>4 DEF StartThreads
    <2>3. state' \in [Tuples -> States]
      BY <2>2 DEF TypeInv, DataTyped, States
    <2>4. shown' \in States
      BY <2>2, <2>3 DEF TypeInv, DataTyped
    <2>5. tries' = tries
      BY <2>1 DEF CreateThreads
    <2>6. DataTyped'
      BY <1>4, <2>3, <2>4, <2>5 DEF StartThreads, TypeInv, DataTyped
    <2>7. UNCHANGED <<dbRefCount, activePolls>>
      BY <1>4 DEF StartThreads
    <2>8. {u \in listed : thread[u] = NoThread} \in SUBSET Tuples
      BY DEF TypeInv, DataTyped
    <2> QED
      BY <2>1, <2>6, <2>7, <2>8, UiLabels, CreateType
  <1>5. CASE StopPolling("ui")
    BY <1>5, StopPollingType
  <1>6. CASE OnContextMenuClosed
    <2>1. dialog' \in BOOLEAN
      <3>1. ("remove" \in roles) \in BOOLEAN
        OBVIOUS
      <3> QED
        BY <1>6, <3>1 DEF OnContextMenuClosed, TypeInv, DataTyped
    <2>2. DataTyped'
      BY <1>6, <2>1 DEF OnContextMenuClosed, TypeInv, DataTyped
    <2>3. Moves("ui", "start") /\ UNCHANGED <<thread, threadVars>>
      BY <1>6, UiLabels DEF OnContextMenuClosed, Moves
    <2> QED
      BY <2>2, <2>3, OtherType, UiLabels
  <1>7. CASE RunPosted
    <2>1. DataTyped'
      BY <1>7 DEF RunPosted, TypeInv, DataTyped
    <2>2. Moves("ui", "start") /\ UNCHANGED <<thread, threadVars>>
      BY <1>7, UiLabels DEF RunPosted, Moves
    <2> QED
      BY <2>1, <2>2, OtherType, UiLabels
  <1>8. CASE RemoveTuple
    <2>1. dbOpen' \in BOOLEAN
      BY <1>8 DEF RemoveTuple, ReleaseReference
    <2>2. DataTyped'
      BY <1>8, <2>1 DEF RemoveTuple, TypeInv, DataTyped
    <2>3. Moves("ui", "idle") /\ UNCHANGED <<tuple, offlineCount>> /\ StopThreadsOf(listed)
      BY <1>8, UiLabels DEF RemoveTuple, ReleaseReference, Moves
    <2> QED
      BY <2>2, <2>3, StopType, UiLabels DEF TypeInv, DataTyped
  <1> QED
    BY <1>1, <1>2, <1>3, <1>4, <1>5, <1>6, <1>7, <1>8, Ui DEF Ui, StartPolling

\* What the user does.
LEMMA UserType ==
    ASSUME TypeInv, User
    PROVE  TypeInv'
  <1> USE DEF envVars, viewVars, threadVars, pollVars, tupleVars, dbVars, refVars
  <1>1. Event => events' \in Nat
    BY DEF Event, TypeInv, DataTyped
  <1>2. CASE OnResume \/ OnPause \/ OnCreateContextMenu
    <2>1. foreground' \in BOOLEAN /\ dialog' = dialog
      BY <1>2 DEF OnResume, OnPause, OnCreateContextMenu, TypeInv, DataTyped
    <2>2. pc["ui"] = "idle" /\ \E label \in {"start", "stop"} : Choose(label)
      BY <1>2 DEF OnResume, OnPause, OnCreateContextMenu
    <2>3. DataTyped'
      BY <1>1, <2>1, <2>2 DEF Choose, TypeInv, DataTyped
    <2>4. (\E label \in {"start", "stop"} : Moves("ui", label)) /\ UNCHANGED <<thread, threadVars>>
      BY <2>2, UiLabels DEF Choose, Moves
    <2> QED
      BY <2>3, <2>4, OtherType, UiLabels
  <1>3. CASE LaunchPairing
    <2>1. DataTyped'
      BY <1>1, <1>3 DEF LaunchPairing, TypeInv, DataTyped
    <2>2. /\ pc["ui"] \in {"menu", "idle"}
          /\ pc' = [pc EXCEPT !["pair"] = "stop", !["ui"] = IF @ = "menu" THEN "start" ELSE @]
          /\ UNCHANGED <<dbRefCount, activePolls>>
      BY <1>3 DEF LaunchPairing
    <2>3. /\ DOMAIN pc' = Actors
          /\ pc'["pair"] = "stop" /\ pc'["ui"] \in {"start", "idle"}
          /\ \A b \in Actors \ {"pair", "ui"} : pc'[b] = pc[b]
      BY <2>2, ActorsDiffer DEF TypeInv, PcTyped
    <2>4. PcTyped'
      BY <2>3, UiLabels DEF TypeInv, PcTyped
    <2>5. Counted("pair")
      <3>1. \A b \in Actors \ {"pair"} :
               /\ Holds(b, pc'[b]) <=> Holds(b, pc[b])
               /\ Asks(b, pc'[b]) <=> Asks(b, pc[b])
               /\ b = "ui" => (pc'[b] = "gone" <=> pc[b] = "gone")
        <4> SUFFICES ASSUME NEW b \in Actors \ {"pair"}
                     PROVE  /\ Holds(b, pc'[b]) <=> Holds(b, pc[b])
                            /\ Asks(b, pc'[b]) <=> Asks(b, pc[b])
                            /\ b = "ui" => (pc'[b] = "gone" <=> pc[b] = "gone")
          OBVIOUS
        <4>1. CASE b = "ui"
          BY <2>2, <2>3, <4>1, UiLabels
        <4>2. CASE b # "ui"
          BY <2>3, <4>2
        <4> QED
          BY <4>1, <4>2
      <3>2. pc["pair"] # "gone"
        BY UiLabels, ActorsDiffer DEF TypeInv, PcTyped
      <3> QED
        BY <2>2, <2>3, <3>1, <3>2, UiLabels DEF Counted
    <2>6. CountsBalance' /\ dbRefCount' \in Nat /\ activePolls' \in Nat
      BY <2>4, <2>5, CountsStep, ActorsDiffer DEF TypeInv
    <2>7. ThreadsTyped'
      BY <1>3 DEF LaunchPairing, TypeInv, ThreadsTyped
    <2>8. TupleKnown'
      BY <1>3, <2>3, ActorsDiffer DEF LaunchPairing, TypeInv, TupleKnown
    <2> QED
      BY <2>1, <2>4, <2>6, <2>7, <2>8 DEF TypeInv
  <1>4. CASE DeleteRow
    <2>1. DataTyped'
      BY <1>4 DEF DeleteRow, TypeInv, DataTyped, Rows
    <2>2. Moves("ui", "unlist") /\ UNCHANGED <<thread, threadVars>>
      BY <1>4, UiLabels DEF DeleteRow, Moves
    <2> QED
      BY <2>1, <2>2, OtherType, UiLabels
  <1>5. CASE OnDestroy
    <2>1. dbOpen' \in BOOLEAN
      BY <1>5 DEF OnDestroy, ReleaseReference
    <2>2. DataTyped'
      BY <1>5, <2>1 DEF OnDestroy, TypeInv, DataTyped
    <2>3. Moves("ui", "gone") /\ UNCHANGED <<thread, threadVars>>
      BY <1>5, UiLabels DEF OnDestroy, ReleaseReference, Moves
    <2> QED
      BY <2>2, <2>3, OtherType, UiLabels
  <1> QED
    BY <1>2, <1>3, <1>4, <1>5, User DEF User

LEMMA TypeNext == TypeInv /\ [Next]_vars => TypeInv'
  <1> SUFFICES ASSUME TypeInv, [Next]_vars PROVE TypeInv'
    OBVIOUS
  <1> USE DEF envVars, viewVars, threadVars, pollVars, tupleVars, dbVars, refVars
  \* Nothing else changes the counts or the threads.
  <1>1. ASSUME UNCHANGED <<pc, dbRefCount, activePolls, thread, threadVars>>, DataTyped'
        PROVE  TypeInv'
    <2>1. ThreadsTyped' /\ PcTyped' /\ TupleKnown'
      BY <1>1 DEF TypeInv, ThreadsTyped, PcTyped, TupleKnown
    <2>2. CountsBalance'
      BY <1>1 DEF TypeInv, CountsBalance, Referrers, Polls
    <2> QED
      BY <1>1, <2>1, <2>2 DEF TypeInv
  <1>2. ASSUME NEW t \in Threads, Poller(t) PROVE TypeInv'
    BY <1>2, PollerType
  <1>3. ASSUME NEW a \in Adders, StartAdd(a) \/ Adder(a) PROVE TypeInv'
    BY <1>3, AdderType
  <1>4. ASSUME NEW a \in Threads \cup Adders, DatabaseClosed(a) PROVE TypeInv'
    <2>1. DataTyped'
      BY <1>4 DEF DatabaseClosed, TypeInv, DataTyped
    <2> QED
      BY <1>1, <1>4, <2>1 DEF DatabaseClosed
  <1>5. CASE HostChanges
    <2>1. (~hostUp) \in BOOLEAN /\ events' \in Nat
      BY <1>5 DEF HostChanges, Event, TypeInv, DataTyped
    <2>2. DataTyped'
      BY <1>5, <2>1 DEF HostChanges, TypeInv, DataTyped
    <2> QED
      BY <1>1, <1>5, <2>2 DEF HostChanges
  <1>6. CASE NetworkChanges
    <2>1. state' \in [Tuples -> States] /\ shown' \in States
      BY <1>6 DEF NetworkChanges, TypeInv, DataTyped, States
    <2>2. events' \in Nat
      BY <1>6 DEF NetworkChanges, Event, TypeInv, DataTyped
    <2>3. DataTyped'
      BY <1>6, <2>1, <2>2 DEF NetworkChanges, TypeInv, DataTyped
    <2> QED
      BY <1>1, <1>6, <2>3 DEF NetworkChanges
  <1>7. CASE UNCHANGED vars
    <2>1. DataTyped'
      BY <1>7 DEF vars, TypeInv, DataTyped
    <2> QED
      BY <1>1, <1>7, <2>1 DEF vars
  <1> QED
    BY <1>2, <1>3, <1>4, <1>5, <1>6, <1>7, UiType, UserType, PairType DEF Next

\* Every early return and every exception of a poll, whether a thread polls a
\* listed computer or an adder a new one, gives back what it took: the reference
\* count of the database and the count of active polls that pairing waits for are
\* those of the polls under way, and neither is ever negative.
THEOREM CountsCorrect == Spec => []CountsBalance
  <1>1. TypeInv => CountsBalance
    BY DEF TypeInv
  <1> QED
    BY <1>1, TypeInit, TypeNext, PTL DEF Spec
-----------------------------------------------------------------------------
(* The tuples and their threads *)

\* Who owns whom: the thread of a tuple that goes on polls that tuple and was not
\* told to stop, and whoever goes on without having been told to is the thread of
\* its tuple; what is not listed has no thread.
OwnInv ==
    /\ \A u, v \in listed : u = v
    /\ \A u \in Tuples \ listed : thread[u] = NoThread
    /\ \A u \in Tuples :
          thread[u] # NoThread /\ pc[thread[u]] # "done" => ~interrupted[thread[u]] /\ tuple[thread[u]] = u
    /\ PollersOwned

\* A thread of stopPolling is between clearing pollingActive and stopping the
\* threads: only then may the thread of a tuple be one that has ended.
Stopping == pc["ui"] = "stopThreads" \/ pc["pair"] = "stopThreads"

\* What the activity does to polling, as long as it waits for its pairing thread.
PollInv ==
    /\ pc["pair"] # "idle" => pc["ui"] \in {"idle", "start", "unlist"}
    /\ pc["ui"] \in {"setListener", "startThreads"} => pollingActive
    /\ Stopping => ~pollingActive
    /\ ~pollingActive /\ ~Stopping => \A u \in Tuples : thread[u] = NoThread
    /\ pollingActive => \A u \in Tuples : thread[u] # NoThread => pc[thread[u]] # "done"
    /\ pollingActive /\ pc["ui"] \notin {"setListener", "startThreads"} => \A u \in listed : thread[u] # NoThread

LEMMA ListInit == Init => OwnInv /\ PollInv
  <1> SUFFICES ASSUME Init PROVE OwnInv /\ PollInv
    OBVIOUS
  <1>1. /\ \A u, v \in listed : u = v
        /\ \A u \in Tuples : thread[u] = NoThread
        /\ pollingActive = FALSE
    BY DEF Init
  <1>2. (\A t \in Threads : pc[t] = "done") /\ pc["ui"] = "start" /\ pc["pair"] = "idle"
    BY ActorsDiffer DEF Init
  <1> QED
    BY <1>1, <1>2 DEF OwnInv, PollersOwned, PollInv, Stopping

\* Most steps leave the tuples and their threads alone,
Calm ==
    /\ UNCHANGED <<listed, thread, tuple, interrupted>>
    /\ \A t \in Threads : pc'[t] = "done" <=> pc[t] = "done"

\* and all but those of startPolling and stopPolling what these two go by.
Quiet == UNCHANGED <<listed, thread, pollingActive>> /\ pc'["ui"] = pc["ui"] /\ pc'["pair"] = pc["pair"]

LEMMA OwnCalm == TypeInv /\ OwnInv /\ Calm => OwnInv'
  <1> SUFFICES ASSUME TypeInv, OwnInv, Calm PROVE OwnInv'
    OBVIOUS
  <1>1. \A u \in Tuples : thread[u] # NoThread => thread[u] \in Threads
    BY DEF TypeInv, ThreadsTyped
  <1> QED
    BY <1>1 DEF OwnInv, PollersOwned, Calm

LEMMA PollCalm == TypeInv /\ PollInv /\ Calm /\ Quiet => PollInv'
  <1> SUFFICES ASSUME TypeInv, PollInv, Calm, Quiet PROVE PollInv'
    OBVIOUS
  <1>1. \A u \in Tuples : thread[u] # NoThread => thread[u] \in Threads
    BY DEF TypeInv, ThreadsTyped
  <1> QED
    BY <1>1 DEF PollInv, Stopping, Calm, Quiet

\* A thread ends when it was told to, is not its tuple's thread any more, or
\* polling is not active: no tuple loses its thread by that while it is.
LEMMA OwnEnd ==
    ASSUME TypeInv, OwnInv, NEW t \in Threads, pc[t] # "done", EndThread(t),
           UNCHANGED <<listed, thread, pollingActive>>,
           interrupted[t] \/ ~pollingActive \/ thread[tuple[t]] # t
    PROVE  OwnInv' /\ (PollInv => PollInv')
  <1>1. /\ pc'[t] = "done" /\ \A b \in Actors \ {t} : pc'[b] = pc[b]
        /\ \A s \in Threads \ {t} : tuple'[s] = tuple[s] /\ interrupted'[s] = interrupted[s]
    BY ActorsDiffer DEF EndThread, Goto, TypeInv, PcTyped, ThreadsTyped
  <1>2. \A u \in Tuples : thread[u] # NoThread => thread[u] \in Threads
    BY DEF TypeInv, ThreadsTyped
  <1>3. \A s \in Threads \ {t} : pc'[s] = pc[s]
    BY <1>1, ActorsDiffer
  <1>4. OwnInv'
    BY <1>1, <1>2, <1>3 DEF OwnInv, PollersOwned
  <1>5. ASSUME pollingActive PROVE \A u \in Tuples : thread[u] # t
    <2> SUFFICES ASSUME NEW u \in Tuples, thread[u] = t PROVE FALSE
      OBVIOUS
    <2>1. thread[u] # NoThread
      BY ManagerAssumption
    <2>2. ~interrupted[t] /\ tuple[t] = u
      BY <2>1 DEF OwnInv
    <2> QED
      BY <1>5, <2>2
  <1>6. ASSUME PollInv PROVE PollInv'
    <2>1. pc'["ui"] = pc["ui"] /\ pc'["pair"] = pc["pair"]
      BY <1>1, ActorsDiffer
    <2> QED
      BY <1>2, <1>3, <1>5, <1>6, <2>1 DEF PollInv, Stopping
  <1> QED
    BY <1>4, <1>6

\* Threads are created for listed tuples that have none.
LEMMA OwnCreate ==
    ASSUME TypeInv, OwnInv, NEW us \in SUBSET Tuples, Created(us), us \subseteq listed',
           \A u \in us : thread[u] = NoThread,
           listed \subseteq listed', listed' \subseteq Tuples, \A u, v \in listed' : u = v
    PROVE  OwnInv'
  <1>1. \A u \in Tuples : thread[u] # NoThread => thread[u] \in Threads
    BY DEF TypeInv, ThreadsTyped
  <1>2. \A u \in us : \A v \in Tuples : thread'[u] # thread[v]
    BY DEF Created, FreeThread
  <1>3. ASSUME NEW u \in Tuples, thread'[u] # NoThread, pc'[thread'[u]] # "done"
        PROVE  ~interrupted'[thread'[u]] /\ tuple'[thread'[u]] = u
    <2>1. CASE u \in us
      BY <2>1 DEF Created
    <2>2. CASE u \notin us
      <3>1. thread'[u] = thread[u] /\ thread[u] \in Threads
        BY <1>1, <1>3, <2>2 DEF Created
      <3>2. \A v \in us : thread'[v] # thread[u]
        BY <1>2
      <3>3. /\ tuple'[thread[u]] = tuple[thread[u]] /\ interrupted'[thread[u]] = interrupted[thread[u]]
            /\ pc'[thread[u]] = pc[thread[u]]
        BY <3>1, <3>2 DEF Created
      <3> QED
        BY <1>3, <3>1, <3>3 DEF OwnInv
    <2> QED
      BY <2>1, <2>2
  <1>4. ASSUME NEW t \in Threads, pc'[t] # "done", ~interrupted'[t]
        PROVE  tuple'[t] \in listed' /\ thread'[tuple'[t]] = t
    <2>1. CASE \E u \in us : thread'[u] = t
      BY <2>1 DEF Created
    <2>2. CASE \A u \in us : thread'[u] # t
      <3>1. tuple'[t] = tuple[t] /\ interrupted'[t] = interrupted[t] /\ pc'[t] = pc[t]
        BY <2>2 DEF Created
      <3>2. tuple[t] \in listed /\ thread[tuple[t]] = t
        BY <1>4, <3>1 DEF OwnInv, PollersOwned
      <3>3. tuple[t] \notin us /\ tuple[t] \in Tuples
        BY <3>2, ManagerAssumption
      <3> QED
        BY <3>1, <3>2, <3>3 DEF Created
    <2> QED
      BY <2>1, <2>2
  <1>5. \A u \in Tuples \ listed' : thread'[u] = NoThread
    BY DEF Created, OwnInv
  <1> QED
    BY <1>3, <1>4, <1>5 DEF OwnInv, PollersOwned

\* Stopping the threads of what is listed reaches all that go on.
LEMMA OwnStop ==
    ASSUME TypeInv, OwnInv, StopThreadsOf(listed), listed' \in {listed, {}}, UNCHANGED tuple,
           \A t \in Threads : pc'[t] = pc[t]
    PROVE  OwnInv' /\ \A u \in Tuples : thread'[u] = NoThread
  <1>1. \A u \in Tuples : thread'[u] = NoThread
    BY DEF StopThreadsOf, OwnInv
  <1>2. ASSUME NEW t \in Threads, pc'[t] # "done" PROVE interrupted'[t]
    <2>1. interrupted[t] \/ (tuple[t] \in listed /\ thread[tuple[t]] = t)
      BY <1>2 DEF OwnInv, PollersOwned
    <2> QED
      BY <1>2, <2>1 DEF StopThreadsOf
  <1>3. \A u, v \in listed' : u = v
    BY DEF OwnInv
  <1> QED
    BY <1>1, <1>2, <1>3 DEF OwnInv, PollersOwned

\* A step of the activity or of its pairing thread that leaves the threads alone.
LEMMA GotoCalm ==
    ASSUME TypeInv, NEW a \in {"ui", "pair"}, NEW label, Goto(a, label),
           UNCHANGED <<listed, thread, tuple, interrupted>>
    PROVE  /\ Calm /\ pc'[a] = label
           /\ \A b \in {"ui", "pair"} \ {a} : pc'[b] = pc[b]
           /\ \A t \in Threads : pc'[t] = pc[t]
  <1>1. a \in Actors /\ a \notin Threads /\ Threads \subseteq Actors /\ {"ui", "pair"} \subseteq Actors
    BY ActorsDiffer
  <1> QED
    BY <1>1 DEF Calm, Goto, TypeInv, PcTyped

\* A step of a polling thread or an adder that neither starts nor ends one.
LEMMA PollerCalm ==
    ASSUME TypeInv, NEW a \in Threads \cup Adders, NEW label, Goto(a, label),
           UNCHANGED <<listed, thread, tuple, interrupted, pollingActive>>,
           a \in Threads => pc[a] # "done" /\ label # "done"
    PROVE  Calm /\ Quiet
  <1>1. /\ a \in Actors /\ a # "ui" /\ a # "pair" /\ Threads \subseteq Actors
        /\ "ui" \in Actors /\ "pair" \in Actors
    BY ActorsDiffer
  <1>2. pc'[a] = label /\ \A b \in Actors \ {a} : pc'[b] = pc[b]
    BY <1>1 DEF Goto, TypeInv, PcTyped
  <1> QED
    BY <1>1, <1>2 DEF Calm, Quiet

\* The steps of a polling thread.
LEMMA PollerOwn ==
    ASSUME TypeInv, OwnInv, NEW t \in Threads, Poller(t)
    PROVE  OwnInv' /\ (PollInv => PollInv')
  <1> USE DEF envVars, viewVars, threadVars, pollVars, tupleVars, dbVars, refVars
  <1>1. CASE LoopCheck(t)
    <2>1. CASE interrupted[t] \/ ~pollingActive \/ thread[tuple[t]] # t
      <3>1. EndThread(t) /\ pc[t] # "done" /\ UNCHANGED <<listed, thread, pollingActive>>
        BY <1>1, <2>1 DEF LoopCheck
      <3> QED
        BY <2>1, <3>1, OwnEnd
    <2>2. CASE ~(interrupted[t] \/ ~pollingActive \/ thread[tuple[t]] # t)
      <3>1. Goto(t, "lock") /\ pc[t] # "done" /\ UNCHANGED <<listed, thread, tuple, interrupted, pollingActive>>
        BY <1>1, <2>2 DEF LoopCheck
      <3>2. Calm /\ Quiet
        BY <3>1, PollerCalm
      <3> QED
        BY <3>2, OwnCalm, PollCalm
    <2> QED
      BY <2>1, <2>2
  <1>2. CASE PollInterrupted(t)
    <2>1. EndThread(t) /\ pc[t] # "done" /\ interrupted[t] /\ UNCHANGED <<listed, thread, pollingActive>>
      BY <1>2 DEF PollInterrupted
    <2> QED
      BY <2>1, OwnEnd
  <1>3. CASE LockNetwork(t) \/ BeginPoll(t) \/ PollAnswered(t) \/ PollFailed(t) \/ ReadRow(t)
             \/ WriteRow(t) \/ NotifyListener(t)
    <2>1. UNCHANGED <<listed, thread, tuple, interrupted, pollingActive>> /\ pc[t] # "done"
      BY <1>3 DEF LockNetwork, BeginPoll, PollAnswered, PollFailed, ReadRow, WriteRow, NotifyListener
    <2>2. \E label \in {"loop", "ref", "poll", "read", "write", "notify"} : Goto(t, label)
      BY <1>3 DEF LockNetwork, BeginPoll, PollAnswered, PollFailed, ReadRow, WriteRow, NotifyListener, EndPoll
    <2>3. Calm /\ Quiet
      BY <2>1, <2>2, PollerCalm
    <2> QED
      BY <2>3, OwnCalm, PollCalm
  <1> QED
    BY <1>1, <1>2, <1>3, Poller(t) DEF Poller

\* Creating threads while polling is active, for all listed tuples that have none.
LEMMA PollCreate ==
    ASSUME TypeInv, PollInv, NEW us \in SUBSET Tuples, Created(us),
           \A u \in us : thread[u] = NoThread,
           ~pollingActive => us = {}, pollingActive' = pollingActive, listed' \subseteq Tuples,
           pc'["pair"] = pc["pair"],
           \/ /\ pc'["ui"] = pc["ui"]
              /\ \A u \in listed' : u \in listed \/ thread[u] # NoThread \/ u \in us \/ ~pollingActive
           \/ /\ pc["ui"] = "startThreads" /\ pc'["ui"] = "idle"
              /\ \A u \in listed' : thread[u] # NoThread \/ u \in us
    PROVE  PollInv'
  <1>1. \A u \in Tuples : thread[u] # NoThread => thread[u] \in Threads
    BY DEF TypeInv, ThreadsTyped
  <1>2. ASSUME NEW u \in Tuples, thread'[u] # NoThread, pollingActive PROVE pc'[thread'[u]] # "done"
    <2>1. CASE u \in us
      BY <2>1 DEF Created
    <2>2. CASE u \notin us
      <3>1. thread'[u] = thread[u] /\ thread[u] \in Threads
        BY <1>1, <1>2, <2>2 DEF Created
      <3>2. \A v \in us : thread'[v] # thread[u]
        BY DEF Created, FreeThread
      <3>3. pc'[thread[u]] = pc[thread[u]]
        BY <3>1, <3>2 DEF Created
      <3> QED
        BY <1>2, <3>1, <3>3 DEF PollInv
    <2> QED
      BY <2>1, <2>2
  <1>3. Stopping' <=> Stopping
    BY DEF Stopping
  <1>4. ASSUME ~pollingActive, ~Stopping PROVE \A u \in Tuples : thread'[u] = NoThread
    BY <1>4 DEF Created, PollInv
  <1>5. ASSUME pollingActive, pc'["ui"] \notin {"setListener", "startThreads"}, NEW u \in listed'
        PROVE  thread'[u] # NoThread
    <2>1. CASE u \in us
      BY <2>1, ManagerAssumption DEF Created
    <2>2. CASE u \notin us
      BY <1>5, <2>2 DEF Created, PollInv
    <2> QED
      BY <2>1, <2>2
  <1> QED
    BY <1>2, <1>3, <1>4, <1>5 DEF PollInv

\* Stopping the threads: polling was made inactive before.
LEMMA PollStop ==
    ASSUME TypeInv, PollInv, \A u \in Tuples : thread'[u] = NoThread, listed' \subseteq Tuples,
           pollingActive' = pollingActive,
           \/ /\ pc["ui"] = "stopThreads" /\ pc'["ui"] = "clearListener" /\ pc'["pair"] = pc["pair"]
           \/ /\ pc["pair"] = "stopThreads" /\ pc'["pair"] = "clearListener" /\ pc'["ui"] = pc["ui"]
           \/ /\ pc["ui"] = "unlist" /\ pc'["ui"] = "idle" /\ pc'["pair"] = pc["pair"] /\ listed' = {}
    PROVE  PollInv'
  BY DEF PollInv, Stopping

\* Leaving the threads alone while polling stays what it is.
LEMMA PollMove ==
    ASSUME TypeInv, PollInv, Calm, pollingActive' = pollingActive,
           pc'["pair"] # "idle" => pc'["ui"] \in {"idle", "start", "unlist"},
           pc'["ui"] \in {"setListener", "startThreads"} <=> pc["ui"] \in {"setListener", "startThreads"},
           Stopping' <=> Stopping
    PROVE  PollInv'
  <1>1. \A u \in Tuples : thread[u] # NoThread => thread[u] \in Threads
    BY DEF TypeInv, ThreadsTyped
  <1> QED
    BY <1>1 DEF PollInv, Calm

\* The steps of stopPolling, on either thread.
LEMMA StopPollingOwn ==
    ASSUME TypeInv, OwnInv, NEW a \in {"ui", "pair"}, StopPolling(a)
    PROVE  OwnInv' /\ (PollInv => PollInv')
  <1> USE DEF envVars, viewVars, threadVars, pollVars, tupleVars, dbVars, refVars
  <1>1. a = "pair" => AfterStop(a) = "pairing"
    BY DEF AfterStop
  <1>2. a = "ui" => AfterStop(a) \in {"menu", "idle"}
    BY DEF AfterStop
  <1>3. CASE StopUpdates(a) \/ ClearListener(a)
    <2>1. UNCHANGED <<listed, thread, tuple, interrupted, pollingActive>> /\ pc[a] \in {"stop", "clearListener"}
      BY <1>3 DEF StopUpdates, ClearListener
    <2>2. PICK label \in IF a = "pair" THEN {"setInactive", "wait", "pairing"} ELSE {"setInactive", "menu", "idle"} :
             Goto(a, label)
      BY <1>1, <1>2, <1>3 DEF StopUpdates, ClearListener
    <2>3. Calm /\ pc'[a] = label /\ \A b \in {"ui", "pair"} \ {a} : pc'[b] = pc[b]
      BY <2>1, <2>2, GotoCalm
    <2>4. Stopping' <=> Stopping
      BY <2>1, <2>2, <2>3 DEF Stopping
    <2>5. PollInv => PollInv'
      <3> SUFFICES ASSUME PollInv PROVE PollInv'
        OBVIOUS
      <3>1. pc'["pair"] # "idle" => pc'["ui"] \in {"idle", "start", "unlist"}
        BY <2>1, <2>2, <2>3 DEF PollInv
      <3>2. pc'["ui"] \in {"setListener", "startThreads"} <=> pc["ui"] \in {"setListener", "startThreads"}
        BY <2>1, <2>2, <2>3
      <3> QED
        BY <2>1, <2>3, <2>4, <3>1, <3>2, PollMove
    <2> QED
      BY <2>3, <2>5, OwnCalm
  <1>4. CASE SetInactive(a)
    <2>1. /\ UNCHANGED <<listed, thread, tuple, interrupted>> /\ pollingActive' = FALSE
          /\ pc[a] = "setInactive" /\ Goto(a, "stopThreads")
      BY <1>4 DEF SetInactive
    <2>2. Calm /\ pc'[a] = "stopThreads" /\ \A b \in {"ui", "pair"} \ {a} : pc'[b] = pc[b]
      BY <2>1, GotoCalm
    <2>3. PollInv => PollInv'
      BY <2>1, <2>2 DEF PollInv, Stopping
    <2> QED
      BY <2>2, <2>3, OwnCalm
  <1>5. CASE StopThreads(a)
    <2>1. /\ UNCHANGED <<listed, tuple, pollingActive>> /\ StopThreadsOf(listed)
          /\ pc[a] = "stopThreads" /\ Goto(a, "clearListener")
      BY <1>5 DEF StopThreads
    <2>2. a \in Actors /\ a \notin Threads /\ Threads \subseteq Actors /\ {"ui", "pair"} \subseteq Actors
      BY ActorsDiffer
    <2>3. pc'[a] = "clearListener" /\ \A b \in Actors \ {a} : pc'[b] = pc[b]
      BY <2>1, <2>2 DEF Goto, TypeInv, PcTyped
    <2>4. OwnInv' /\ \A u \in Tuples : thread'[u] = NoThread
      BY <2>1, <2>2, <2>3, OwnStop
    <2>5. listed' \subseteq Tuples
      BY <2>1 DEF TypeInv, DataTyped
    <2> QED
      BY <2>1, <2>2, <2>3, <2>4, <2>5, PollStop
  <1> QED
    BY <1>3, <1>4, <1>5, StopPolling(a) DEF StopPolling

\* The steps of the pairing thread.
LEMMA PairOwn ==
    ASSUME TypeInv, OwnInv, Pair
    PROVE  OwnInv' /\ (PollInv => PollInv')
  <1> USE DEF envVars, viewVars, threadVars, pollVars, tupleVars, dbVars, refVars
  <1>1. CASE StopPolling("pair")
    BY <1>1, StopPollingOwn
  <1>2. CASE Paired /\ listed = {}
    <2>1. Calm /\ Quiet
      BY <1>2 DEF Paired, Calm, Quiet
    <2> QED
      BY <2>1, OwnCalm, PollCalm
  <1>3. CASE WaitForPollingStopped \/ PairingFailed \/ (Paired /\ listed # {}) \/ Invalidate \/ InvalidateLocked
    <2>1. /\ UNCHANGED <<listed, thread, tuple, interrupted, pollingActive>>
          /\ pc["pair"] \in {"wait", "pairing", "inv", "invLock"}
      BY <1>3 DEF WaitForPollingStopped, PairingFailed, Paired, Invalidate, InvalidateLocked
    <2>2. PICK label \in {"pairing", "idle", "inv", "invLock"} : Goto("pair", label)
      BY <1>3 DEF WaitForPollingStopped, PairingFailed, Paired, Invalidate, InvalidateLocked
    <2>3. Calm /\ pc'["pair"] = label /\ pc'["ui"] = pc["ui"]
      BY <2>1, <2>2, GotoCalm
    <2>4. Stopping' <=> Stopping
      BY <2>1, <2>2, <2>3 DEF Stopping
    <2>5. PollInv => (pc'["pair"] # "idle" => pc'["ui"] \in {"idle", "start", "unlist"})
      BY <2>1, <2>3 DEF PollInv
    <2> QED
      BY <2>1, <2>3, <2>4, <2>5, OwnCalm, PollMove
  <1> QED
    BY <1>1, <1>2, <1>3, Pair DEF Pair

\* An adder that lists a computer creates the thread of its tuple, if it has none.
LEMMA AdderOwn ==
    ASSUME TypeInv, OwnInv, NEW a \in Adders, StartAdd(a) \/ Adder(a)
    PROVE  OwnInv' /\ (PollInv => PollInv')
  <1> USE DEF envVars, viewVars, threadVars, pollVars, tupleVars, dbVars, refVars
  <1>1. CASE AddTuple(a)
    <2>1. PICK u \in AddTarget :
             /\ listed' = listed \cup {u}
             /\ CreateThreads(a, "done", IF pollingActive /\ thread[u] = NoThread THEN {u} ELSE {})
      BY <1>1 DEF AddTuple
    <2> DEFINE us == IF pollingActive /\ thread[u] = NoThread THEN {u} ELSE {}
    <2>2. u \in Tuples /\ listed \subseteq Tuples /\ (listed = {} \/ u \in listed)
      BY DEF AddTarget, NewTuple, TypeInv, DataTyped
    <2>3. us \in SUBSET Tuples /\ us \subseteq listed' /\ \A v \in us : thread[v] = NoThread
      BY <2>1, <2>2
    <2>4. listed \subseteq listed' /\ listed' \subseteq Tuples /\ \A v, w \in listed' : v = w
      BY <2>1, <2>2 DEF OwnInv
    <2>5. pollingActive' = pollingActive
      BY <1>1 DEF AddTuple
    <2>6. ~pollingActive => us = {}
      OBVIOUS
    <2>7. \A v \in listed' : v \in listed \/ thread[v] # NoThread \/ v \in us \/ ~pollingActive
      BY <2>1
    <2>8. CreateThreads(a, "done", us)
      BY <2>1
    <2> HIDE DEF us
    <2>9. Created(us) /\ \A b \in Actors \ (Threads \cup {a}) : pc'[b] = pc[b]
      BY <2>3, <2>8, CreateSound DEF TypeInv
    <2>10. pc'["ui"] = pc["ui"] /\ pc'["pair"] = pc["pair"]
      BY <2>9, ActorsDiffer
    <2>11. OwnInv'
      BY <2>3, <2>4, <2>9, OwnCreate
    <2>12. PollInv => PollInv'
      BY <2>3, <2>4, <2>5, <2>6, <2>7, <2>9, <2>10, PollCreate
    <2> QED
      BY <2>11, <2>12
  <1>2. CASE StartAdd(a) \/ FirstPoll(a) \/ PullCert(a) \/ BeginAddPoll(a) \/ SecondPoll(a)
             \/ ReadNewRow(a) \/ WriteRow(a) \/ NotifyAdded(a)
    <2>1. UNCHANGED <<listed, thread, tuple, interrupted, pollingActive>>
      BY <1>2 DEF StartAdd, FirstPoll, PullCert, BeginAddPoll, SecondPoll, ReadNewRow, WriteRow, NotifyAdded
    <2>2. \E label : Goto(a, label)
      BY <1>2 DEF StartAdd, FirstPoll, PullCert, BeginAddPoll, SecondPoll, ReadNewRow, WriteRow, NotifyAdded
    <2>3. a \notin Threads
      BY ActorsDiffer
    <2>4. Calm /\ Quiet
      BY <2>1, <2>2, <2>3, PollerCalm
    <2> QED
      BY <2>4, OwnCalm, PollCalm
  <1> QED
    BY <1>1, <1>2, StartAdd(a) \/ Adder(a) DEF Adder

\* The steps of the main thread, which waits for the pairing thread.
LEMMA UiOwn ==
    ASSUME TypeInv, OwnInv, Ui
    PROVE  OwnInv' /\ (~Overlap /\ PollInv => PollInv')
  <1> USE DEF envVars, viewVars, threadVars, pollVars, tupleVars, dbVars, refVars
  <1>1. CASE StopPolling("ui")
    BY <1>1, StopPollingOwn
  <1>2. CASE StartUpdates
    <2>1. UNCHANGED <<listed, thread, tuple, interrupted, pollingActive>> /\ pc["ui"] = "start"
      BY <1>2 DEF StartUpdates
    <2>2. PICK label \in {"setActive", "idle"} : Goto("ui", label)
      BY <1>2 DEF StartUpdates
    <2>3. Calm /\ pc'["ui"] = label /\ pc'["pair"] = pc["pair"]
      BY <2>1, <2>2, GotoCalm
    <2>4. Stopping' <=> Stopping
      BY <2>1, <2>2, <2>3 DEF Stopping
    <2>5. ~Overlap => pc["pair"] = "idle"
      BY <1>2 DEF StartUpdates
    <2> QED
      BY <2>1, <2>3, <2>4, <2>5, OwnCalm, PollMove
  <1>3. CASE SetActive
    <2>1. /\ UNCHANGED <<listed, thread, tuple, interrupted>> /\ pollingActive' = TRUE
          /\ pc["ui"] = "setActive" /\ Goto("ui", "setListener")
      BY <1>3 DEF SetActive
    <2>2. Calm /\ pc'["ui"] = "setListener" /\ pc'["pair"] = pc["pair"]
      BY <2>1, GotoCalm
    <2>3. ASSUME PollInv PROVE PollInv'
      <3>1. pc["pair"] = "idle" /\ ~Stopping
        BY <2>1, <2>3 DEF PollInv, Stopping
      <3>2. \A u \in Tuples : thread[u] # NoThread => pc[thread[u]] # "done" /\ thread[u] \in Threads
        BY <2>3, <3>1 DEF PollInv, TypeInv, ThreadsTyped
      <3> QED
        BY <2>1, <2>2, <3>1, <3>2 DEF PollInv, Stopping, Calm
    <2> QED
      BY <2>2, <2>3, OwnCalm
  <1>4. CASE SetListener
    <2>1. /\ UNCHANGED <<listed, thread, tuple, interrupted, pollingActive>>
          /\ pc["ui"] = "setListener" /\ Goto("ui", "startThreads")
      BY <1>4 DEF SetListener
    <2>2. Calm /\ pc'["ui"] = "startThreads" /\ pc'["pair"] = pc["pair"]
      BY <2>1, GotoCalm
    <2>3. Stopping' <=> Stopping
      BY <2>1, <2>2 DEF Stopping
    <2>4. PollInv => pc["pair"] = "idle"
      BY <2>1 DEF PollInv
    <2> QED
      BY <2>1, <2>2, <2>3, <2>4, OwnCalm, PollMove
  <1>5. CASE StartThreads
    <2> DEFINE us == {u \in listed : thread[u] = NoThread}
    <2>1. /\ UNCHANGED <<listed, pollingActive>> /\ pc["ui"] = "startThreads"
          /\ CreateThreads("ui", "idle", us)
      BY <1>5 DEF StartThreads
    <2>2. /\ us \in SUBSET Tuples /\ us \subseteq listed' /\ (\A u \in us : thread[u] = NoThread)
          /\ listed \subseteq listed' /\ listed' \subseteq Tuples
      BY <2>1 DEF TypeInv, DataTyped
    <2>3. \A u, v \in listed' : u = v
      BY <2>1 DEF OwnInv
    <2>4. \A u \in listed' : thread[u] # NoThread \/ u \in us
      BY <2>1
    <2> HIDE DEF us
    <2>5. Created(us) /\ pc'["ui"] = "idle" /\ \A b \in Actors \ (Threads \cup {"ui"}) : pc'[b] = pc[b]
      BY <2>1, <2>2, CreateSound DEF TypeInv
    <2>6. pc'["pair"] = pc["pair"]
      BY <2>5, ActorsDiffer
    <2>7. OwnInv'
      BY <2>2, <2>3, <2>5, OwnCreate
    <2>8. ASSUME PollInv PROVE PollInv'
      <3>1. pollingActive
        BY <2>1, <2>8 DEF PollInv
      <3> QED
        BY <2>1, <2>2, <2>4, <2>5, <2>6, <2>8, <3>1, PollCreate
    <2> QED
      BY <2>7, <2>8
  <1>6. CASE OnContextMenuClosed
    <2>1. UNCHANGED <<listed, thread, tuple, interrupted, pollingActive>> /\ pc["ui"] = "menu" /\ Goto("ui", "start")
      BY <1>6 DEF OnContextMenuClosed
    <2>2. Calm /\ pc'["ui"] = "start" /\ pc'["pair"] = pc["pair"]
      BY <2>1, GotoCalm
    <2>3. Stopping' <=> Stopping
      BY <2>1, <2>2 DEF Stopping
    <2> QED
      BY <2>1, <2>2, <2>3, OwnCalm, PollMove
  <1>7. CASE RunPosted
    <2>1. UNCHANGED <<listed, thread, tuple, interrupted, pollingActive>> /\ pc["ui"] = "idle" /\ Goto("ui", "start")
      BY <1>7 DEF RunPosted
    <2>2. Calm /\ pc'["ui"] = "start" /\ pc'["pair"] = pc["pair"]
      BY <2>1, GotoCalm
    <2>3. Stopping' <=> Stopping
      BY <2>1, <2>2 DEF Stopping
    <2> QED
      BY <2>1, <2>2, <2>3, OwnCalm, PollMove
  <1>8. CASE RemoveTuple
    <2>1. /\ UNCHANGED <<tuple, pollingActive>> /\ listed' = {} /\ StopThreadsOf(listed)
          /\ pc["ui"] = "unlist" /\ Goto("ui", "idle")
      BY <1>8 DEF RemoveTuple
    <2>2. "ui" \in Actors \ Threads /\ "pair" \in Actors /\ Threads \subseteq Actors
      BY ActorsDiffer
    <2>3. pc'["ui"] = "idle" /\ \A b \in Actors \ {"ui"} : pc'[b] = pc[b]
      BY <2>1, <2>2 DEF Goto, TypeInv, PcTyped
    <2>4. OwnInv' /\ \A u \in Tuples : thread'[u] = NoThread
      BY <2>1, <2>2, <2>3, OwnStop
    <2> QED
      BY <2>1, <2>2, <2>3, <2>4, PollStop
  <1> QED
    BY <1>1, <1>2, <1>3, <1>4, <1>5, <1>6, <1>7, <1>8, Ui DEF Ui, StartPolling

\* What the user does.
LEMMA UserOwn ==
    ASSUME TypeInv, OwnInv, User
    PROVE  OwnInv' /\ (~Overlap /\ PollInv => PollInv')
  <1> USE DEF envVars, viewVars, threadVars, pollVars, tupleVars, dbVars, refVars
  <1>1. CASE OnResume \/ OnPause \/ OnCreateContextMenu
    <2>1. PICK label \in {"start", "stop"} : Choose(label) /\ pc["ui"] = "idle"
      BY <1>1 DEF OnResume, OnPause, OnCreateContextMenu
    <2>2. /\ UNCHANGED <<listed, thread, tuple, interrupted, pollingActive>> /\ Goto("ui", label)
          /\ ~Overlap => pc["pair"] = "idle"
      BY <2>1 DEF Choose
    <2>3. Calm /\ pc'["ui"] = label /\ pc'["pair"] = pc["pair"]
      BY <2>2, GotoCalm
    <2>4. Stopping' <=> Stopping
      BY <2>1, <2>3 DEF Stopping
    <2> QED
      BY <2>1, <2>2, <2>3, <2>4, OwnCalm, PollMove
  <1>2. CASE LaunchPairing
    <2>1. /\ UNCHANGED <<listed, thread, tuple, interrupted, pollingActive>>
          /\ pc["ui"] \in {"menu", "idle"} /\ pc["pair"] = "idle"
          /\ pc' = [pc EXCEPT !["pair"] = "stop", !["ui"] = IF @ = "menu" THEN "start" ELSE @]
      BY <1>2 DEF LaunchPairing
    <2>2. /\ pc'["pair"] = "stop" /\ pc'["ui"] \in {"start", "idle"}
          /\ \A t \in Threads : pc'[t] = pc[t]
      BY <2>1, ActorsDiffer DEF TypeInv, PcTyped
    <2>3. Calm
      BY <2>1, <2>2 DEF Calm
    <2>4. Stopping' <=> Stopping
      BY <2>1, <2>2 DEF Stopping
    <2> QED
      BY <2>1, <2>2, <2>3, <2>4, OwnCalm, PollMove
  <1>3. CASE DeleteRow \/ OnDestroy
    <2>1. /\ UNCHANGED <<listed, thread, tuple, interrupted, pollingActive>> /\ pc["ui"] = "idle"
          /\ \/ Goto("ui", "unlist")
             \/ Goto("ui", "gone") /\ pc["pair"] = "idle"
      BY <1>3 DEF DeleteRow, OnDestroy
    <2>2. PICK label \in {"unlist", "gone"} : Goto("ui", label) /\ (label = "gone" => pc["pair"] = "idle")
      BY <2>1
    <2>3. Calm /\ pc'["ui"] = label /\ pc'["pair"] = pc["pair"]
      BY <2>1, <2>2, GotoCalm
    <2>4. Stopping' <=> Stopping
      BY <2>1, <2>2, <2>3 DEF Stopping
    <2> QED
      BY <2>1, <2>2, <2>3, <2>4, OwnCalm, PollMove
  <1> QED
    BY <1>1, <1>2, <1>3, User DEF User

\* Every step.
LEMMA OwnNext ==
    ASSUME TypeInv, OwnInv, [Next]_vars
    PROVE  OwnInv' /\ (~Overlap /\ PollInv => PollInv')
  <1> USE DEF envVars, viewVars, threadVars, pollVars, tupleVars, dbVars, refVars
  <1>1. ASSUME NEW t \in Threads, Poller(t) PROVE OwnInv' /\ (PollInv => PollInv')
    BY <1>1, PollerOwn
  <1>2. ASSUME NEW a \in Adders, StartAdd(a) \/ Adder(a) PROVE OwnInv' /\ (PollInv => PollInv')
    BY <1>2, AdderOwn
  <1>3. CASE HostChanges \/ NetworkChanges \/ (\E a \in Threads \cup Adders : DatabaseClosed(a)) \/ UNCHANGED vars
    <2>1. UNCHANGED <<listed, thread, tuple, interrupted, pollingActive, pc>>
      BY <1>3 DEF HostChanges, NetworkChanges, DatabaseClosed, vars
    <2>2. Calm /\ Quiet
      BY <2>1 DEF Calm, Quiet
    <2> QED
      BY <2>2, OwnCalm, PollCalm
  <1> QED
    BY <1>1, <1>2, <1>3, UiOwn, UserOwn, PairOwn DEF Next

\* Whatever the activity, its pairing thread, the adders and the threads that were
\* replaced do: a computer is never listed twice, and no polling thread is lost:
\* one that goes on without an interrupt is the thread of a listed computer.
THEOREM ThreadsOwned == Spec => [](UniqueTuple /\ PollersOwned)
  <1>1. TypeInv /\ OwnInv => UniqueTuple /\ PollersOwned
    <2> SUFFICES ASSUME TypeInv, OwnInv PROVE UniqueTuple
      BY DEF OwnInv
    <2>1. CASE listed = {}
      BY <2>1, FS_EmptySet DEF UniqueTuple
    <2>2. CASE listed # {}
      <3>1. PICK u \in listed : listed = {u}
        BY <2>2 DEF OwnInv
      <3> QED
        BY <3>1, FS_Singleton DEF UniqueTuple
    <2> QED
      BY <2>1, <2>2
  <1>2. Init => TypeInv /\ OwnInv
    BY TypeInit, ListInit
  <1>3. TypeInv /\ OwnInv /\ [Next]_vars => (TypeInv /\ OwnInv)'
    BY TypeNext, OwnNext
  <1> QED
    BY <1>1, <1>2, <1>3, PTL DEF Spec

\* When the activity waits for its pairing thread: the variables have their types,
\* a computer is never listed twice, no polling thread is lost, and while polling
\* is active every listed computer has a thread that polls it.
THEOREM ListSound == ~Overlap /\ Spec => []TuplesSound
  <1>1. TypeInv /\ OwnInv /\ PollInv => TypeOK /\ EveryComputerPolled
    <2> SUFFICES ASSUME TypeInv, OwnInv, PollInv PROVE EveryComputerPolled
      BY TypeParts
    <2>1. listed \subseteq Tuples
      BY DEF TypeInv, DataTyped
    <2> QED
      BY <2>1 DEF PollInv, EveryComputerPolled
  <1>2. Init => TypeInv /\ OwnInv /\ PollInv
    BY TypeInit, ListInit
  <1> SUFFICES ASSUME ~Overlap PROVE Spec => []TuplesSound
    OBVIOUS
  <1>3. TypeInv /\ OwnInv /\ PollInv /\ [Next]_vars => (TypeInv /\ OwnInv /\ PollInv)'
    BY TypeNext, OwnNext
  <1>4. UniqueTuple /\ PollersOwned /\ TypeOK /\ EveryComputerPolled => TuplesSound
    BY DEF TuplesSound
  <1> QED
    BY <1>1, <1>2, <1>3, <1>4, ThreadsOwned, PTL DEF Spec

\* The variables have their types, whoever acts.
THEOREM TypeCorrect == Spec => []TypeOK
  BY TypeInit, TypeNext, TypeParts, PTL DEF Spec
=============================================================================
