------------------------ MODULE HostRequestsProof ------------------------
(***************************************************************************)
(* Proofs about HostRequests, for any games, any number of installations   *)
(* of the host and of troubles: type correctness, the agreement of the two *)
(* sides when a pairing has ended, what a pinned certificate stands for,   *)
(* and that no game shown as running is quit unasked.                      *)
(***************************************************************************)
EXTENDS HostRequests, TLAPS

Hosts == [cert : 1 .. MaxCerts, lists : BOOLEAN, session : Sessions, rightPin : BOOLEAN,
          app : Apps \cup {NoApp}, owner : {"us", "other"}]

Results == {"NOT_PAIRED", "PAIRED", "PIN_WRONG", "FAILED", "ALREADY_IN_PROGRESS", "EXCEPTION"}

Orders == [pc : {"idle", "info", "launch", "resume", "cancel", "check"},
           app : Apps \cup {NoApp}, asked : BOOLEAN, cert : 0 .. host.cert]

\* The requests that come after the certificate was received.
Certified == {"clientchallenge", "serverchallengeresp", "clientpairingsecret", "pairchallenge"}

PairingTyped ==
    /\ pairing \in [pc : Requests \cup {"idle", "end"}, http : 0 .. host.cert, got : 0 .. host.cert,
                    result : Results]
    /\ pairing.pc \in Certified => pairing.got # 0 /\ pairing.http = pairing.got

OrdersTyped == orders \in [Threads -> Orders]

RestTyped ==
    /\ serverCert \in 0 .. host.cert
    /\ details \in [paired : BOOLEAN, app : Apps \cup {NoApp}]
    /\ lost \in BOOLEAN /\ shown \subseteq Threads \cup {"ui"} /\ troubles \in 0 .. MaxTroubles

\* The type invariant, in the parts the steps of the three actors change.
LEMMA TypeParts == TypeOK <=> host \in Hosts /\ PairingTyped /\ OrdersTyped /\ RestTyped
  <1>1. Requests \ {"state", "info", "getservercert", "pin", "unpair"} = Certified
    BY DEF Requests, Certified
  <1> QED
    BY <1>1 DEF TypeOK, Hosts, PairingTyped, OrdersTyped, RestTyped, Orders, Results

\* The same of the next state.
LEMMA TypePartsNext == (host \in Hosts /\ PairingTyped /\ OrdersTyped /\ RestTyped)' => TypeOK'
  <1>1. Requests \ {"state", "info", "getservercert", "pin", "unpair"} = Certified
    BY DEF Requests, Certified
  <1> QED
    BY <1>1 DEF TypeOK, Hosts, PairingTyped, OrdersTyped, RestTyped, Orders, Results
-----------------------------------------------------------------------------
(* What the steps of the three actors touch *)

\* The stages of the session that belong to an attempt of ours.
Waiting == host.session \notin {"none", "other"}

\* A request of the pairing thread changes the session and the pairing, and
\* nothing else of the host.  It pairs only from the last stage, which ends
\* the session; a session of ours begins only where there was none.
LEMMA ServedSound ==
    ASSUME TypeOK, NEW r \in Requests
    PROVE  /\ Served(r) \in Hosts
           /\ Served(r).cert = host.cert /\ Served(r).app = host.app
           /\ Served(r).rightPin = host.rightPin
           /\ Served(r).lists => host.lists \/ Served(r).session = "none"
           /\ Served(r).session \in {"none", host.session} \/ Waiting \/ r = "getservercert"
  <1> USE DEF TypeOK, Hosts, Sessions, Requests, Waiting
  <1>1. CASE r = "getservercert"
    BY <1>1 DEF Served
  <1>2. CASE r = "clientchallenge"
    BY <1>2 DEF Served
  <1>3. CASE r = "serverchallengeresp"
    BY <1>3 DEF Served
  <1>4. CASE r = "clientpairingsecret"
    BY <1>4 DEF Served
  <1>5. CASE r = "unpair"
    BY <1>5 DEF Served
  <1>6. CASE r \notin {"getservercert", "clientchallenge", "serverchallengeresp", "clientpairingsecret", "unpair"}
    BY <1>6 DEF Served
  <1> QED
    BY <1>1, <1>2, <1>3, <1>4, <1>5, <1>6

\* What happens at the host leaves the client alone.  A session of ours moves
\* from waiting for the PIN to having it, or ends; nobody is paired; and a new
\* installation has a certificate that no client knows.
LEMMA AtHostSound ==
    ASSUME TypeOK, AtHost
    PROVE  /\ host' \in Hosts /\ troubles' \in 0 .. MaxTroubles
           /\ shown' \in {shown, {}} /\ (host'.app # host.app => shown' = {})
           /\ UNCHANGED <<serverCert, details, pairing, orders, lost>>
           /\ host'.cert >= host.cert
           /\ host'.lists => host.lists /\ host'.cert = host.cert
           /\ \/ host'.session \in {host.session, "none"}
              \/ host.session = "none" /\ host'.session = "other"
              \/ host.session = "pin" /\ host'.session = "entered"
           /\ host.session # "pin" => host'.rightPin = host.rightPin
  <1> USE DEF Hosts, Sessions
  <1>1. /\ shown' \in {shown, {}} /\ (host'.app # host.app => shown' = {})
        /\ UNCHANGED <<serverCert, details, pairing, orders, lost>>
    BY DEF AtHost, Runs
  <1>. /\ host \in Hosts /\ troubles \in 0 .. MaxTroubles
       /\ MaxCerts \in Nat \ {0} /\ MaxTroubles \in Nat
    BY HostRequestsAssumption DEF TypeOK
  <1>t. Trouble => troubles' \in 0 .. MaxTroubles
    BY DEF Trouble
  <1> DEFINE Sound == /\ host' \in Hosts /\ troubles' \in 0 .. MaxTroubles
                      /\ host'.cert >= host.cert
                      /\ host'.lists => host.lists /\ host'.cert = host.cert
                      /\ \/ host'.session \in {host.session, "none"}
                         \/ host.session = "none" /\ host'.session = "other"
                         \/ host.session = "pin" /\ host'.session = "entered"
                      /\ host.session # "pin" => host'.rightPin = host.rightPin
  <1>2. ASSUME HostEvent PROVE Sound
    <2> troubles' \in 0 .. MaxTroubles
      BY <1>t, <1>2 DEF HostEvent
    <2>1. CASE host' = [host EXCEPT !.session = "none"]
      BY <2>1
    <2>2. CASE host.session = "none" /\ host' = [host EXCEPT !.session = "other"]
      <3>1. host' \in Hosts
        BY <2>2
      <3> QED
        BY <2>2, <3>1
    <2>3. CASE host.lists /\ host' = [host EXCEPT !.lists = FALSE]
      <3>1. host' \in Hosts
        BY <2>3
      <3> QED
        BY <2>3, <3>1
    <2>4. ASSUME NEW a \in Apps, NEW o \in {"us", "other"}, host' = [host EXCEPT !.app = a, !.owner = o]
          PROVE  Sound
      <3>1. host' \in Hosts
        BY <2>4
      <3> QED
        BY <2>4, <3>1
    <2>5. CASE host' = [host EXCEPT !.app = NoApp]
      BY <2>5
    <2>6. CASE /\ host.cert < MaxCerts
               /\ host' = [host EXCEPT !.cert = @ + 1, !.lists = FALSE, !.session = "none", !.app = NoApp]
      <3>1. host.cert + 1 \in 1 .. MaxCerts
        BY <2>6
      <3>2. host' \in Hosts
        BY <2>6, <3>1
      <3> QED
        BY <2>6, <3>1, <3>2
    <2> QED
      BY <1>2, <2>1, <2>2, <2>3, <2>4, <2>5, <2>6 DEF HostEvent
  <1>3. ASSUME NEW right \in BOOLEAN, EnterPin(right) PROVE Sound
    <2>1. troubles' \in 0 .. MaxTroubles
      BY <1>t, <1>3 DEF EnterPin
    <2>2. /\ host' = [host EXCEPT !.session = "entered", !.rightPin = right]
          /\ host.session = "pin"
      BY <1>3 DEF EnterPin
    <2>3. host' \in Hosts
      BY <2>2
    <2> QED
      BY <2>1, <2>2, <2>3
  <1> HIDE DEF Sound
  <1>4. Sound
    BY <1>2, <1>3 DEF AtHost
  <1> QED
    BY <1>1, <1>4 DEF Sound

\* A step of an order changes at the host what runs and whose it is, and of the
\* orders its own; if another game runs then, nothing is shown any more.
OrderStep(t) ==
    /\ host'.cert = host.cert /\ host'.lists = host.lists
    /\ host'.session = host.session /\ host'.rightPin = host.rightPin
    /\ shown' = IF host'.app = host.app THEN shown ELSE {}
    /\ \E pc \in {"idle", "launch", "resume", "cancel", "check"} : Order(t, pc)
    /\ UNCHANGED <<troubles, serverCert, details, pairing, lost>>

LEMMA PlaySound ==
    ASSUME TypeOK, NEW t \in Threads, Play(t)
    PROVE  host' \in Hosts /\ OrderStep(t)
  <1> USE DEF TypeOK, Hosts, OrderStep, orderFrame, Runs
  <1>1. CASE t = "start" /\ StartInfo
    <2> DEFINE pc == CASE ~Trusted(orders["start"].cert) -> "idle"
                       [] host.app = NoApp -> "launch"
                       [] host.app = orders["start"].app -> "resume"
                       [] OTHER -> "cancel"
    <2>1. pc \in {"idle", "launch", "resume", "cancel", "check"}
      OBVIOUS
    <2>2. Order(t, pc)
      BY <1>1 DEF StartInfo
    <2> HIDE DEF pc
    <2> QED
      BY <1>1, <2>1, <2>2 DEF StartInfo
  <1>2. CASE t = "start" /\ Launch
    <2>1. orders["start"].app \in Apps \cup {NoApp}
      BY DEF Threads
    <2> QED
      BY <1>2, <2>1 DEF Launch
  <1>3. CASE t = "start" /\ Resume
    BY <1>3 DEF Resume
  <1>4. CASE Cancel(t)
    BY <1>4 DEF Cancel
  <1>5. CASE CheckQuit(t)
    BY <1>5 DEF CheckQuit
  <1>6. CASE OrderFails(t)
    BY <1>6 DEF OrderFails
  <1> QED
    BY <1>1, <1>2, <1>3, <1>4, <1>5, <1>6 DEF Play
-----------------------------------------------------------------------------
(* Type correctness *)

LEMMA TypeInit == Init => TypeOK
  <1> SUFFICES ASSUME Init PROVE TypeOK
    OBVIOUS
  <1>1. host \in Hosts /\ host.cert = 1
    BY HostRequestsAssumption DEF Init, Hosts, Sessions
  <1>2. PairingTyped
    BY <1>1 DEF Init, PairingTyped, Idle, Requests, Results, Certified
  <1>3. OrdersTyped
    BY <1>1 DEF Init, OrdersTyped, Orders, NoOrder
  <1>4. RestTyped
    <2>1. details \in [paired : BOOLEAN, app : Apps \cup {NoApp}] /\ lost \in BOOLEAN
      BY DEF Init
    <2>2. serverCert \in 0 .. host.cert /\ troubles \in 0 .. MaxTroubles
      BY <1>1, HostRequestsAssumption DEF Init
    <2>3. shown \subseteq Threads \cup {"ui"}
      BY DEF Init
    <2> QED
      BY <2>1, <2>2, <2>3 DEF RestTyped
  <1> QED
    BY <1>1, <1>2, <1>3, <1>4, TypeParts

\* The orders stay typed while they are left alone, as the host never goes back
\* to an older certificate.
LEMMA OrdersKept ==
    ASSUME OrdersTyped, host \in Hosts, host' \in Hosts, host'.cert >= host.cert, UNCHANGED orders
    PROVE  OrdersTyped'
  BY DEF OrdersTyped, Orders, Hosts

LEMMA PairingKept ==
    ASSUME PairingTyped, host \in Hosts, host' \in Hosts, host'.cert >= host.cert, UNCHANGED pairing
    PROVE  PairingTyped'
  BY DEF PairingTyped, Hosts

\* The pairing stays typed when pair() goes on, gives up or ends.
LEMMA GoOnType ==
    ASSUME PairingTyped, host' \in Hosts, host'.cert = host.cert,
           \/ \E pc \in {"info", "getservercert", "pin"} : Proceed(pc)
           \/ pairing.pc \in Certified /\ \E pc \in Certified : Proceed(pc)
           \/ \E result \in Results : GiveUp(result) \/ Finish(result)
    PROVE  PairingTyped'
  <1> USE DEF PairingTyped, Requests, Certified
  <1>1. CASE \E pc \in {"info", "getservercert", "pin"} : Proceed(pc)
    BY <1>1 DEF Proceed
  <1>2. CASE pairing.pc \in Certified /\ \E pc \in Certified : Proceed(pc)
    BY <1>2 DEF Proceed
  <1>3. ASSUME NEW result \in Results, GiveUp(result) PROVE PairingTyped'
    BY <1>3 DEF GiveUp
  <1>4. ASSUME NEW result \in Results, Finish(result) PROVE PairingTyped'
    BY <1>4 DEF Finish
  <1> QED
    BY <1>1, <1>2, <1>3, <1>4

\* A step of the pairing thread keeps the pairing and the pinned certificate
\* typed, and the certificate that was received the one that is required.
LEMMA PairType ==
    ASSUME TypeOK, BeginPairing \/ Pair
    PROVE  TypeOK'
  <1> USE TypeParts, TypePartsNext
  <1>1. CASE BeginPairing
    <2>1. PairingTyped'
      <3>1. /\ pairing' = [pc |-> "state", http |-> serverCert, got |-> 0, result |-> "NOT_PAIRED"]
            /\ host' = host /\ serverCert \in 0 .. host.cert /\ host \in Hosts
        BY <1>1 DEF BeginPairing, hostVars, RestTyped, Idle
      <3>2. 0 \in 0 .. host.cert /\ host'.cert = host.cert
        BY <3>1, HostRequestsAssumption DEF Hosts
      <3> QED
        BY <3>1, <3>2 DEF PairingTyped, Requests, Certified, Results
    <2> QED
      BY <1>1, <2>1 DEF BeginPairing, hostVars, OrdersTyped, Orders, RestTyped
  <1>2. CASE EndPairing
    <2>1. lost' \in BOOLEAN /\ details' = [details EXCEPT !.paired = (pairing.result = "PAIRED")]
      BY <1>2 DEF EndPairing
    <2>2. details' \in [paired : BOOLEAN, app : Apps \cup {NoApp}]
      BY <2>1 DEF RestTyped
    <2>3. PairingTyped'
      BY <1>2 DEF EndPairing, hostVars, PairingTyped, Idle, Requests, Certified, Results, Hosts
    <2> QED
      BY <1>2, <2>1, <2>2, <2>3 DEF EndPairing, hostVars, OrdersTyped, Orders, RestTyped
  \* The requests leave everything but the host, the pairing and the pinned
  \* certificate alone.
  <1>3. ASSUME NEW r \in Requests, Request(r)
        PROVE  /\ host' \in Hosts /\ host'.cert = host.cert /\ OrdersTyped'
               /\ serverCert' \in 0 .. host.cert => RestTyped'
    <2>1. host' \in Hosts /\ host'.cert = host.cert
      BY <1>3, ServedSound DEF Request
    <2>2. OrdersTyped'
      BY <1>3, <2>1 DEF Request, OrdersTyped, Orders
    <2> QED
      BY <1>3, <2>1, <2>2 DEF Request, RestTyped
  <1>4. ASSUME NEW r \in Requests, Request(r), UNCHANGED serverCert, PairingTyped' PROVE TypeOK'
    BY <1>3, <1>4 DEF RestTyped
  <1>5. CASE GetPairState
    <2>1. PairingTyped'
      BY <1>3, <1>5, GoOnType DEF GetPairState, Results, Requests
    <2> QED
      BY <1>4, <1>5, <2>1 DEF GetPairState, Requests
  <1>6. CASE GetServerInfo
    <2>1. PairingTyped'
      BY <1>3, <1>6, GoOnType DEF GetServerInfo, Requests
    <2> QED
      BY <1>4, <1>6, <2>1 DEF GetServerInfo, Requests
  <1>7. CASE GetServerCert
    <2>1. PairingTyped'
      BY <1>3, <1>7, GoOnType DEF GetServerCert, Results, Requests
    <2> QED
      BY <1>4, <1>7, <2>1 DEF GetServerCert, Requests
  <1>8. CASE CertArrives
    <2>1. CASE host.session = "entered"
      <3>1. PairingTyped'
        <4>1. /\ pairing' = [pairing EXCEPT !.pc = "clientchallenge", !.got = host.cert, !.http = host.cert]
              /\ host'.cert = host.cert
          BY <1>3, <1>8, <2>1 DEF CertArrives, Requests
        <4>2. host.cert \in 0 .. host.cert /\ host.cert # 0
          BY HostRequestsAssumption DEF Hosts
        <4> QED
          BY <4>1, <4>2 DEF PairingTyped, Requests, Certified
      <3> QED
        BY <1>4, <1>8, <3>1 DEF CertArrives, Requests
    <2>2. CASE host.session # "entered"
      <3>1. PairingTyped'
        BY <1>3, <1>8, <2>2, GoOnType DEF CertArrives, Results, Requests
      <3> QED
        BY <1>4, <1>8, <3>1 DEF CertArrives, Requests
    <2> QED
      BY <2>1, <2>2
  <1>9. CASE ClientChallenge
    <2>1. PairingTyped'
      BY <1>3, <1>9, GoOnType DEF ClientChallenge, Request, Results, Requests, Certified
    <2> QED
      BY <1>4, <1>9, <2>1 DEF ClientChallenge, Requests
  <1>10. CASE ServerChallengeResp
    <2>1. PairingTyped'
      BY <1>3, <1>10, GoOnType DEF ServerChallengeResp, Request, Results, Requests, Certified
    <2> QED
      BY <1>4, <1>10, <2>1 DEF ServerChallengeResp, Requests
  <1>11. CASE ClientPairingSecret
    <2>1. PairingTyped'
      BY <1>3, <1>11, GoOnType DEF ClientPairingSecret, Request, Results, Requests, Certified
    <2> QED
      BY <1>4, <1>11, <2>1 DEF ClientPairingSecret, Requests
  <1>12. CASE PairChallenge
    <2>1. Request("pairchallenge") /\ "pairchallenge" \in Requests
      BY <1>12 DEF PairChallenge, Requests
    <2>2. PairingTyped'
      <3>1. \E result \in Results : GiveUp(result) \/ Finish(result)
        BY <1>12 DEF PairChallenge, Results
      <3> QED
        BY <1>3, <2>1, <3>1, GoOnType
    <2>3. serverCert' \in 0 .. host.cert
      BY <1>12 DEF PairChallenge, PairingTyped, RestTyped
    <2> QED
      BY <1>3, <2>1, <2>2, <2>3
  <1>13. CASE Unpair
    <2>1. PairingTyped'
      BY <1>3, <1>13, GoOnType DEF Unpair, PairingTyped, Requests
    <2> QED
      BY <1>4, <1>13, <2>1 DEF Unpair, Requests
  <1>14. CASE RequestFails
    <2>1. host' \in Hosts /\ host'.cert = host.cert
      BY <1>14, ServedSound DEF RequestFails
    <2>2. troubles' \in 0 .. MaxTroubles
      BY <1>14, HostRequestsAssumption DEF RequestFails, Trouble, RestTyped
    <2>3. PairingTyped'
      BY <1>14, <2>1, GoOnType DEF RequestFails, Results
    <2> QED
      BY <1>14, <2>1, <2>2, <2>3 DEF RequestFails, OrdersTyped, Orders, RestTyped
  <1> QED
    BY <1>1, <1>2, <1>5, <1>6, <1>7, <1>8, <1>9, <1>10, <1>11, <1>12, <1>13, <1>14 DEF Pair

\* An order that is given takes what is known of the host.
LEMMA GiveType ==
    ASSUME TypeOK, NEW t \in Threads,
           NEW order \in [pc : {"info", "cancel"}, app : Apps \cup {NoApp}, asked : BOOLEAN,
                          cert : {serverCert}],
           Give(t, order)
    PROVE  TypeOK'
  <1>1. shown' \subseteq Threads \cup {"ui"}
    BY DEF TypeOK, Give
  <1>2. order \in Orders
    BY DEF Orders, TypeOK
  <1>3. \A u \in Threads : orders'[u] \in {order, orders[u]}
    BY DEF TypeOK, Give
  <1>4. OrdersTyped'
    BY <1>2, <1>3, TypeParts DEF OrdersTyped, Orders, Give
  <1> QED
    BY <1>1, <1>4, TypeParts, TypePartsNext DEF Give, PairingTyped, RestTyped

LEMMA TypeNext == TypeOK /\ [Next]_vars => TypeOK'
  <1> SUFFICES ASSUME TypeOK, [Next]_vars PROVE TypeOK'
    OBVIOUS
  <1>1. CASE BeginPairing \/ Pair
    BY <1>1, PairType
  <1>2. CASE Poll
    <2>1. Trusted(serverCert) \in BOOLEAN
      BY DEF TypeOK, Trusted
    <2>2. details' \in [paired : BOOLEAN, app : Apps \cup {NoApp}]
      BY <1>2, <2>1 DEF Poll, TypeOK
    <2> QED
      BY <1>2, <2>2, TypeParts, TypePartsNext DEF Poll, PairingTyped, OrdersTyped, Orders, RestTyped
  <1>3. ASSUME NEW a \in Apps, Choose(a) PROVE TypeOK'
    <2>1. (details.app \notin {NoApp, a}) \in BOOLEAN
      OBVIOUS
    <2> QED
      BY <1>3, <2>1, GiveType DEF Choose, Threads
  <1>4. CASE ChooseQuit
    BY <1>4, GiveType DEF ChooseQuit, Threads
  <1>5. ASSUME NEW t \in Threads, Play(t) PROVE TypeOK'
    <2>1. host' \in Hosts /\ OrderStep(t)
      BY <1>5, PlaySound
    <2>2. PICK pc \in {"idle", "launch", "resume", "cancel", "check"} : Order(t, pc)
      BY <2>1 DEF OrderStep
    <2>3. orders' = [orders EXCEPT ![t] = IF pc = "idle" THEN NoOrder ELSE [orders[t] EXCEPT !.pc = pc]]
      BY <2>2 DEF Order
    <2>4. NoOrder \in Orders /\ [orders[t] EXCEPT !.pc = pc] \in Orders
      BY TypeParts DEF OrdersTyped, Orders, NoOrder, Hosts
    <2>5. orders' \in [Threads -> Orders]
      BY <2>3, <2>4, TypeParts DEF OrdersTyped
    <2>6. OrdersTyped'
      BY <2>1, <2>5 DEF OrdersTyped, Orders, OrderStep
    <2>7. shown' \subseteq Threads \cup {"ui"}
      BY <2>1 DEF OrderStep, TypeOK
    <2> QED
      BY <2>1, <2>6, <2>7, TypeParts, TypePartsNext DEF OrderStep, PairingTyped, RestTyped
  <1>6. CASE AtHost
    <2>1. host' \in Hosts /\ host'.cert >= host.cert /\ UNCHANGED <<orders, pairing>>
      BY <1>6, AtHostSound
    <2>2. PairingTyped' /\ OrdersTyped'
      BY <2>1, TypeParts, PairingKept, OrdersKept
    <2>3. RestTyped'
      BY <1>6, AtHostSound, TypeParts DEF RestTyped, Hosts
    <2> QED
      BY <2>1, <2>2, <2>3, TypeParts, TypePartsNext
  <1>7. CASE UNCHANGED vars
    BY <1>7, TypeParts, TypePartsNext DEF vars, hostVars, PairingTyped, OrdersTyped, Orders, RestTyped, Hosts
  <1> QED
    BY <1>1, <1>2, <1>3, <1>4, <1>5, <1>6, <1>7 DEF Next

\* Every variable keeps its type, no certificate is known to the client before
\* the host has it, and the one that pair() received is the one it requires
\* from then on.
THEOREM TypeCorrect == Spec => []TypeOK
  <1> QED
    BY TypeInit, TypeNext, PTL DEF Spec
-----------------------------------------------------------------------------
(* The two sides of a pairing *)

\* The two sides agree: no session of ours, and who is listed has the
\* certificate.
Settled == ~Waiting /\ (host.lists => serverCert = host.cert)

\* What holds between the two sides during a pairing.  A session of ours is
\* never open at a host that would take a request over HTTPS, so that an attempt
\* which finds itself paired leaves no session behind; the sides agree until
\* the session is asked for, unless an earlier request was lost; the PIN was the
\* right one and the session is over when the last request is sent; and they
\* agree again at the end, as the attempt was either carried through, or refused
\* before a session began, or taken back.
PairingInv ==
    /\ Waiting => ~Trusted(serverCert)
    /\ pairing.pc = "state" => pairing.http = serverCert
    /\ pairing.pc \in {"info", "getservercert", "pin"} => ~Trusted(serverCert)
    /\ pairing.pc \in {"idle", "state", "info", "getservercert"} /\ ~lost => Settled
    /\ pairing.pc = "pin" => host.session \notin {"challenged", "responded"} /\ (host.lists => lost)
    /\ pairing.pc = "pairchallenge" => ~Waiting /\ host.rightPin
    /\ pairing.pc = "end" /\ pairing.result # "EXCEPTION" /\ (pairing.result = "FAILED" => ~lost) => Settled

LEMMA PairingInit == Init => PairingInv
  BY DEF Init, PairingInv, Settled, Waiting, Idle

\* A step that leaves the sides and the pairing alone keeps what holds between
\* them.
LEMMA PairingAside ==
    ASSUME PairingInv, UNCHANGED <<serverCert, pairing, lost>>,
           host'.cert = host.cert, host'.lists = host.lists,
           host'.session = host.session, host'.rightPin = host.rightPin
    PROVE  PairingInv'
  BY DEF PairingInv, Settled, Waiting, Trusted

\* So does what happens at the host.
LEMMA PairingAtHost ==
    ASSUME TypeOK, PairingInv, AtHost
    PROVE  PairingInv'
  <1>1. /\ UNCHANGED <<serverCert, pairing, lost>>
        /\ host'.lists => host.lists /\ host'.cert = host.cert
        /\ \/ host'.session \in {host.session, "none"}
           \/ host.session = "none" /\ host'.session = "other"
           \/ host.session = "pin" /\ host'.session = "entered"
        /\ host.session # "pin" => host'.rightPin = host.rightPin
    BY AtHostSound
  <1>2. Waiting' => Waiting
    BY <1>1 DEF Waiting
  <1>3. Settled => Settled'
    BY <1>1, <1>2 DEF Settled
  <1>4. Trusted(serverCert)' => Trusted(serverCert)
    BY <1>1 DEF Trusted
  <1> QED
    BY <1>1, <1>2, <1>3, <1>4 DEF PairingInv, Waiting

\* An attempt that ends in a lost request owes the other side nothing, but it
\* leaves no session at a host that trusts us.
LEMMA PairingFails ==
    ASSUME TypeOK, PairingInv, RequestFails
    PROVE  PairingInv'
  <1>1. /\ pairing'.pc = "end" /\ pairing'.result = "EXCEPTION"
        /\ UNCHANGED <<serverCert, lost>>
    BY DEF RequestFails, Finish, TypeOK
  <1>2. host' = host \/ (host' = Served(pairing.pc) /\ pairing.pc \in Requests)
    BY DEF RequestFails
  <1>3. Waiting' => ~Trusted(serverCert)'
    <2>1. CASE host' = host
      BY <1>1, <2>1 DEF PairingInv, Waiting, Trusted
    <2>2. CASE host' = Served(pairing.pc) /\ pairing.pc \in Requests
      <3>1. /\ host'.cert = host.cert /\ (host'.lists => host.lists \/ host'.session = "none")
            /\ host'.session \in {"none", host.session} \/ Waiting \/ pairing.pc = "getservercert"
        BY <2>2, ServedSound
      <3> QED
        BY <1>1, <3>1 DEF PairingInv, Waiting, Trusted
    <2> QED
      BY <1>2, <2>1, <2>2
  <1> QED
    BY <1>1, <1>3 DEF PairingInv

\* Where pair() is after a request.
LEMMA PairGoesOn ==
    ASSUME TypeOK
    PROVE  /\ \A pc : Proceed(pc) => pairing'.pc = pc
           /\ \A result : GiveUp(result) => pairing'.pc = "unpair"
           /\ \A result : Finish(result) => pairing'.pc = "end" /\ pairing'.result = result
  BY DEF TypeOK, Proceed, GiveUp, Finish

\* The steps of the pairing thread.
LEMMA PairingStep ==
    ASSUME TypeOK, PairingInv, BeginPairing \/ Pair
    PROVE  PairingInv'
  <1> USE DEF PairingInv, Settled, Waiting, Trusted
  <1>1. CASE BeginPairing
    BY <1>1 DEF BeginPairing, hostVars, Idle
  <1>2. CASE EndPairing
    BY <1>2 DEF EndPairing, hostVars, Idle
  <1>3. CASE GetPairState
    <2>1. host' = host /\ UNCHANGED <<serverCert, lost>> /\ pairing.pc = "state"
      BY <1>3 DEF GetPairState, Request, Served
    <2>2. CASE Trusted(pairing.http)
      <3>1. pairing'.pc = "end"
        BY <1>3, <2>2, PairGoesOn DEF GetPairState
      <3> QED
        BY <2>1, <2>2, <3>1
    <2>3. CASE ~Trusted(pairing.http)
      <3>1. pairing'.pc = "info"
        BY <1>3, <2>3, PairGoesOn DEF GetPairState
      <3> QED
        BY <2>1, <2>3, <3>1
    <2> QED
      BY <2>2, <2>3
  <1>4. CASE GetServerInfo
    <2>1. host' = host /\ UNCHANGED <<serverCert, lost>> /\ pairing.pc = "info" /\ pairing'.pc = "getservercert"
      BY <1>4 DEF GetServerInfo, Request, Served, Proceed, TypeOK
    <2> QED
      BY <2>1
  <1>5. CASE GetServerCert
    <2>1. UNCHANGED <<serverCert, lost>> /\ pairing.pc = "getservercert"
      BY <1>5 DEF GetServerCert, Request
    <2>2. CASE host.session = "none"
      <3>1. pairing'.pc = "pin"
        BY <1>5, <2>2, PairGoesOn DEF GetServerCert
      <3>2. host'.cert = host.cert /\ host'.lists = host.lists /\ host'.session = "pin"
        BY <1>5, <2>2 DEF GetServerCert, Request, Served, TypeOK
      <3> QED
        BY <2>1, <3>1, <3>2
    <2>3. CASE host.session # "none"
      <3>1. pairing'.pc = "unpair" /\ host' = host
        BY <1>5, <2>3 DEF GetServerCert, Request, Served, GiveUp, TypeOK
      <3> QED
        BY <2>1, <3>1
    <2> QED
      BY <2>2, <2>3
  <1>6. CASE CertArrives
    <2>1. host' = host /\ UNCHANGED <<serverCert, lost>> /\ pairing.pc = "pin" /\ host.session # "pin"
      BY <1>6 DEF CertArrives, Request, Served
    <2>2. CASE host.session = "entered"
      <3>1. pairing'.pc = "clientchallenge"
        <4>1. /\ pairing' = [pairing EXCEPT !.pc = "clientchallenge", !.got = host.cert, !.http = host.cert]
              /\ pairing \in [pc : Requests \cup {"idle", "end"}, http : 0 .. host.cert, got : 0 .. host.cert,
                              result : Results]
          BY <1>6, <2>2, TypeParts DEF CertArrives, PairingTyped
        <4> QED
          BY <4>1
      <3> QED
        BY <2>1, <3>1
    <2>3. CASE host.session # "entered"
      <3>1. pairing'.pc = "end" /\ pairing'.result = "FAILED"
        BY <1>6, <2>3, PairGoesOn DEF CertArrives
      <3>2. host.session \in {"none", "other"}
        BY <2>1, <2>3 DEF TypeOK, Sessions
      <3> QED
        BY <2>1, <3>1, <3>2
    <2> QED
      BY <2>2, <2>3
  \* The session goes on, and the pairing with it, or it is taken back.
  <1>7. CASE ClientChallenge \/ ServerChallengeResp
    <2>1. /\ UNCHANGED <<serverCert, lost>>
          /\ pairing'.pc \in {"serverchallengeresp", "clientpairingsecret", "unpair"}
          /\ pairing.pc \in {"clientchallenge", "serverchallengeresp"}
          /\ host' = Served(pairing.pc)
      <3>1. CASE ClientChallenge
        BY <3>1, PairGoesOn DEF ClientChallenge, Request
      <3>2. CASE ServerChallengeResp
        BY <3>2, PairGoesOn DEF ServerChallengeResp, Request
      <3> QED
        BY <1>7, <3>1, <3>2
    <2>2. /\ host'.cert = host.cert /\ host'.lists = host.lists
          /\ host'.session \in {"none", host.session} \/ Waiting
      BY <2>1 DEF Served, TypeOK
    <2> QED
      BY <2>1, <2>2
  <1>8. CASE ClientPairingSecret
    <2>0. host' = Served(pairing.pc) /\ pairing.pc = "clientpairingsecret"
      BY <1>8 DEF ClientPairingSecret, Request
    <2>1. /\ UNCHANGED <<serverCert, lost>> /\ host'.cert = host.cert /\ host'.rightPin = host.rightPin
          /\ pairing'.pc \in {"pairchallenge", "unpair"}
          /\ pairing'.pc = "pairchallenge" => host.session = "responded" /\ host.rightPin
      BY <1>8, <2>0, PairGoesOn, ServedSound DEF ClientPairingSecret, Request, Requests
    <2>2. \/ host.session = "responded" /\ host'.session = "none"
          \/ host.session # "responded" /\ host' = host
      BY <1>8 DEF ClientPairingSecret, Request, Served, TypeOK
    <2> QED
      BY <2>1, <2>2
  <1>9. CASE PairChallenge
    <2>1. host' = host /\ UNCHANGED lost /\ pairing.pc = "pairchallenge"
      BY <1>9 DEF PairChallenge, Request, Served
    <2>2. CASE host.lists
      <3>1. pairing'.pc = "end" /\ serverCert' = host.cert
        <4>1. pairing.pc \in Certified /\ pairing.http = host.cert /\ serverCert' = pairing.got
          BY <1>9, <2>1, <2>2 DEF PairChallenge, Certified
        <4>2. serverCert' = host.cert
          BY <4>1, TypeParts DEF PairingTyped
        <4> QED
          BY <1>9, <2>2, <4>2, PairGoesOn DEF PairChallenge
      <3> QED
        BY <2>1, <3>1
    <2>3. CASE ~host.lists
      <3>1. pairing'.pc = "unpair" /\ UNCHANGED serverCert
        BY <1>9, <2>3, PairGoesOn DEF PairChallenge
      <3> QED
        BY <2>1, <3>1
    <2> QED
      BY <2>2, <2>3
  <1>10. CASE Unpair
    <2>1. /\ UNCHANGED <<serverCert, lost>> /\ pairing'.pc = "end"
          /\ host'.session = "none" /\ host'.lists = FALSE
      BY <1>10 DEF Unpair, Request, Served, Finish, TypeOK
    <2> QED
      BY <2>1
  <1>11. CASE RequestFails
    BY <1>11, PairingFails
  <1> QED
    BY <1>1, <1>2, <1>3, <1>4, <1>5, <1>6, <1>7, <1>8, <1>9, <1>10, <1>11 DEF Pair

LEMMA PairingNext == TypeOK /\ PairingInv /\ [Next]_vars => PairingInv'
  <1> SUFFICES ASSUME TypeOK, PairingInv, [Next]_vars PROVE PairingInv'
    OBVIOUS
  <1>1. CASE BeginPairing \/ Pair
    BY <1>1, PairingStep
  <1>2. CASE Poll
    BY <1>2, PairingAside DEF Poll
  <1>3. ASSUME NEW a \in Apps, Choose(a) PROVE PairingInv'
    BY <1>3, PairingAside DEF Choose, Give
  <1>4. CASE ChooseQuit
    BY <1>4, PairingAside DEF ChooseQuit, Give
  <1>5. ASSUME NEW t \in Threads, Play(t) PROVE PairingInv'
    BY <1>5, PlaySound, PairingAside DEF OrderStep
  <1>6. CASE AtHost
    BY <1>6, PairingAtHost
  <1>7. CASE UNCHANGED vars
    BY <1>7, PairingAside DEF vars, hostVars
  <1> QED
    BY <1>1, <1>2, <1>3, <1>4, <1>5, <1>6, <1>7 DEF Next

\* When a pairing is over, and no request of it failed, the host waits for
\* nothing from us, and if it lists us we have its certificate: each early return
\* of pair() either comes before the session or is preceded by unpair.
THEOREM SidesSettled == Spec => []Agreement
  <1>1. TypeOK /\ PairingInv => Agreement
    BY DEF PairingInv, Settled, Waiting, Agreement, SidesAgree
  <1> QED
    BY <1>1, TypeInit, TypeNext, PairingInit, PairingNext, PTL DEF Spec

\* The certificate that doPair stores is the one the host has, which has
\* accepted ours after the user entered the right PIN, whatever was reinstalled,
\* refused or tried again meanwhile.
THEOREM PinsTruly == Spec => PinnedTruly
  <1>1. TypeOK /\ PairingInv /\ [Next]_vars
           => (serverCert' # serverCert => serverCert' = host.cert /\ host.lists /\ host.rightPin)
    <2> SUFFICES ASSUME TypeOK, PairingInv, [Next]_vars, serverCert' # serverCert
                 PROVE  serverCert' = host.cert /\ host.lists /\ host.rightPin
      OBVIOUS
    <2>1. PairChallenge
      <3>1. ~AtHost
        BY AtHostSound
      <3>2. \A t \in Threads : ~Play(t)
        BY PlaySound DEF OrderStep
      <3> QED
        BY <3>1, <3>2
           DEF Next, Pair, vars, hostVars, BeginPairing, GetPairState, GetServerInfo, GetServerCert, CertArrives,
               ClientChallenge, ServerChallengeResp, ClientPairingSecret, Unpair, RequestFails, EndPairing,
               Poll, Choose, ChooseQuit, Give
    <2> QED
      BY <2>1 DEF PairChallenge, Request, PairingInv, TypeOK, Requests
  <1> QED
    BY <1>1, TypeInit, TypeNext, PairingInit, PairingNext, PTL DEF Spec, PinnedTruly
-----------------------------------------------------------------------------
(* What is quit *)

\* What the list shows is what runs, and an order that was given by it is
\* confirmed when it quits what was shown.
AskedInv ==
    /\ "ui" \in shown => details.app = host.app
    /\ "start" \in shown =>
          /\ orders["start"].pc # "idle" /\ host.app \notin {NoApp, orders["start"].app} => orders["start"].asked
          /\ orders["start"].pc = "cancel" => orders["start"].asked
    /\ orders["quit"].pc # "idle" => orders["quit"].asked

LEMMA AskedInit == Init => AskedInv
  BY DEF Init, AskedInv, NoOrder, Threads

\* A step that changes neither the orders nor what runs nor what was shown keeps
\* it.
LEMMA AskedAside ==
    ASSUME AskedInv, UNCHANGED <<orders, shown>>, details'.app = details.app, host'.app = host.app
    PROVE  AskedInv'
  BY DEF AskedInv

\* No order of the other thread is touched by one that is given.
LEMMA AskedGiven ==
    ASSUME TypeOK, AskedInv, NEW t \in Threads,
           NEW order, Give(t, order),
           t = "start" => order.pc = "info" /\ order.asked = (details.app \notin {NoApp, order.app}),
           t = "quit" => order.asked
    PROVE  AskedInv'
  <1>1. /\ UNCHANGED <<host, details>> /\ orders'[t] = order
        /\ \A u \in Threads \ {t} : orders'[u] = orders[u]
        /\ \A u \in Threads \cup {"ui"} : u \in shown' => IF u = t THEN "ui" \in shown ELSE u \in shown
    BY DEF Give, TypeOK, Threads
  <1>2. CASE t = "start"
    BY <1>1, <1>2 DEF AskedInv, Threads
  <1>3. CASE t = "quit"
    BY <1>1, <1>3 DEF AskedInv, Threads
  <1> QED
    BY <1>2, <1>3 DEF Threads

\* An order that is carried out: startApp asks to quit only what is neither
\* nothing nor the game it was given for.
LEMMA AskedPlay ==
    ASSUME TypeOK, AskedInv, NEW t \in Threads, Play(t)
    PROVE  AskedInv'
  <1>1. /\ shown' = IF host'.app = host.app THEN shown ELSE {}
        /\ UNCHANGED details
        /\ \A u \in Threads \ {t} : orders'[u] = orders[u]
        /\ orders'[t].pc = "idle" \/ (orders'[t].app = orders[t].app /\ orders'[t].asked = orders[t].asked)
        /\ orders'[t].pc # "idle" => orders[t].pc # "idle"
    <2>1. OrderStep(t)
      BY PlaySound
    <2>2. PICK pc \in {"idle", "launch", "resume", "cancel", "check"} : Order(t, pc)
      BY <2>1 DEF OrderStep
    <2>3. orders'[t] = (IF pc = "idle" THEN NoOrder ELSE [orders[t] EXCEPT !.pc = pc])
          /\ \A u \in Threads \ {t} : orders'[u] = orders[u]
      BY <2>2 DEF Order, TypeOK
    <2>4. orders[t].pc # "idle"
      BY DEF Play, StartInfo, Launch, Resume, Cancel, CheckQuit, OrderFails
    <2>5. orders'[t].pc = "idle" \/ (orders'[t].app = orders[t].app /\ orders'[t].asked = orders[t].asked)
      <3>1. orders[t] \in Orders
        BY TypeParts DEF OrdersTyped
      <3> QED
        <4>1. CASE pc = "idle"
          BY <2>3, <4>1 DEF NoOrder
        <4>2. CASE pc # "idle"
          BY <2>3, <3>1, <4>2 DEF Orders
        <4> QED
          BY <4>1, <4>2
    <2> QED
      BY <2>1, <2>3, <2>4, <2>5 DEF OrderStep
  \* Only startApp asks to quit, when it has just seen another game run.
  <1>2. orders'[t].pc = "cancel" => /\ t = "start" /\ host' = host
                                    /\ host.app \notin {NoApp, orders[t].app}
    <2>1. CASE t = "start" /\ StartInfo
      BY <2>1 DEF StartInfo, Order, TypeOK, NoOrder
    <2>2. CASE t = "start" /\ (Launch \/ Resume)
      BY <2>2 DEF Launch, Resume, Order, TypeOK, NoOrder
    <2>3. CASE Cancel(t)
      BY <2>3 DEF Cancel, Order, TypeOK
    <2>4. CASE CheckQuit(t)
      BY <2>4 DEF CheckQuit, Order, TypeOK, NoOrder
    <2>5. CASE OrderFails(t)
      BY <2>5 DEF OrderFails, Order, TypeOK, NoOrder
    <2> QED
      BY <2>1, <2>2, <2>3, <2>4, <2>5 DEF Play
  <1>3. CASE t = "start"
    BY <1>1, <1>2, <1>3 DEF AskedInv, Threads
  <1>4. CASE t = "quit"
    BY <1>1, <1>2, <1>4 DEF AskedInv, Threads
  <1> QED
    BY <1>3, <1>4 DEF Threads

LEMMA AskedNext == TypeOK /\ AskedInv /\ [Next]_vars => AskedInv'
  <1> SUFFICES ASSUME TypeOK, AskedInv, [Next]_vars PROVE AskedInv'
    OBVIOUS
  <1>1. CASE BeginPairing \/ Pair
    <2>1. UNCHANGED <<orders, shown>> /\ details'.app = details.app
      BY <1>1
         DEF TypeOK, hostVars, Pair, BeginPairing, GetPairState, GetServerInfo, GetServerCert, CertArrives,
             ClientChallenge, ServerChallengeResp, ClientPairingSecret, PairChallenge, Unpair,
             RequestFails, EndPairing, Request
    <2>2. host'.app = host.app
      <3>1. host' = host \/ (pairing.pc \in Requests /\ host' = Served(pairing.pc))
        <4>1. (\E r \in Requests : Request(r)) => pairing.pc \in Requests /\ host' = Served(pairing.pc)
          BY DEF Request
        <4>2. CASE BeginPairing \/ EndPairing
          BY <4>2 DEF BeginPairing, EndPairing, hostVars
        <4>3. CASE RequestFails
          BY <4>3 DEF RequestFails
        <4>4. CASE GetPairState \/ GetServerInfo \/ GetServerCert \/ CertArrives \/ ClientChallenge
          BY <4>1, <4>4 DEF GetPairState, GetServerInfo, GetServerCert, CertArrives, ClientChallenge, Requests
        <4>5. CASE ServerChallengeResp \/ ClientPairingSecret \/ PairChallenge \/ Unpair
          BY <4>1, <4>5 DEF ServerChallengeResp, ClientPairingSecret, PairChallenge, Unpair, Requests
        <4> QED
          BY <1>1, <4>2, <4>3, <4>4, <4>5 DEF Pair
      <3> QED
        BY <3>1, ServedSound
    <2> QED
      BY <2>1, <2>2, AskedAside
  <1>2. CASE Poll
    BY <1>2 DEF Poll, AskedInv
  <1>3. ASSUME NEW a \in Apps, Choose(a) PROVE AskedInv'
    BY <1>3, AskedGiven DEF Choose, Threads
  <1>4. CASE ChooseQuit
    BY <1>4, AskedGiven DEF ChooseQuit, Threads
  <1>5. ASSUME NEW t \in Threads, Play(t) PROVE AskedInv'
    BY <1>5, AskedPlay
  <1>6. CASE AtHost
    BY <1>6, AtHostSound DEF AskedInv
  <1>7. CASE UNCHANGED vars
    BY <1>7, AskedAside DEF vars, hostVars
  <1> QED
    BY <1>1, <1>2, <1>3, <1>4, <1>5, <1>6, <1>7 DEF Next

\* The game that the list or the menu showed as running is quit only by an order
\* the user confirmed, whatever was started, stopped or polled between the
\* click, the request that asks what runs, and the one that quits it.
THEOREM QuitsAsked == Spec => QuitAsked
  <1>1. AskedInv => \A t \in Threads : orders[t].pc = "cancel" /\ t \in shown => orders[t].asked
    BY DEF AskedInv, Threads
  <1>2. TypeOK /\ AskedInv /\ [Next]_vars =>
           \A t \in Threads : orders[t].pc = "cancel" /\ orders'[t].pc = "check" /\ host'.app # host.app /\ t \in shown =>
              orders[t].asked
    BY <1>1
  <1> QED
    BY <1>2, TypeInit, TypeNext, AskedInit, AskedNext, PTL DEF Spec, QuitAsked
=============================================================================
