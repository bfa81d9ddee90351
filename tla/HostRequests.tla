---------------------------- MODULE HostRequests ----------------------------
(***************************************************************************)
(* Pairing with a host, and starting and quitting its games.               *)
(*   nvstream/http/PairingManager.java, nvstream/http/NvHTTP.java          *)
(*   NvConnection.startApp, ServerHelper.doQuit, and the menus of AppView  *)
(*                                                                         *)
(* pair() is eight requests in a row.  Each may be answered "paired" or    *)
(* not, or end in an IOException, before or after the host carried it out. *)
(* The host keeps a session meanwhile, and the client has to end it when   *)
(* it gives up.  A game is started in up to four requests; what runs on    *)
(* the host may change between them and after the menu was built.          *)
(*                                                                         *)
(* The host is external: one pairing session at a time ("Attempting to     *)
(* pair while another device is pairing will cause GFE to give an empty    *)
(* cert"), for whichever client, as all have the same uniqueid; "unpair"   *)
(* ends the session and the pairing; a request over HTTPS needs the        *)
(* certificate of the host, and that the host knows ours.                  *)
(*                                                                         *)
(* Left out: the cryptography (a PIN is the right one or not, and the hash *)
(* and the signature say so), certificates issued by an authority, ports,  *)
(* the parameters of a stream.  When polling stops for a pairing and which *)
(* object gets the certificate is the subject of ComputerManager.          *)
(***************************************************************************)
EXTENDS Naturals

CONSTANTS
    Apps, NoApp,   \* the games of the host; none
    MaxCerts,      \* bound: how often the host is installed, plus 1
    MaxTroubles    \* bound: lost requests and answers, wrong PINs, refusals,
                   \* and what others do at the host

ASSUME HostRequestsAssumption ==
    /\ NoApp \notin Apps
    /\ MaxCerts \in Nat \ {0} /\ MaxTroubles \in Nat

VARIABLES
    host,       \* the host: cert, whether it lists us, the stage of the
                \* session, whether the PIN is the right one, what runs and whose it is
    serverCert, \* ComputerDetails.serverCert; 0 for null
    details,    \* what was polled: the pair state and runningGameId
    pairing,    \* the thread of doPair: pc, the certificates of NvHTTP and of
                \* PairingManager, the result of pair()
    orders,     \* the threads of startApp and doQuit
    lost,       \* history: a request failed since a pairing last ended without that
    shown,      \* history: where the game that runs now was shown: in the list ("ui"),
                \* and when the order of a thread was given
    troubles

hostVars == <<host, shown, troubles>>
vars == <<hostVars, serverCert, details, pairing, orders, lost>>

Threads == {"start", "quit"}
Sessions == {"none", "pin", "entered", "challenged", "responded", "other"}
Requests == {"state", "info", "getservercert", "pin", "clientchallenge", "serverchallengeresp",
             "clientpairingsecret", "pairchallenge", "unpair"}

Idle == [pc |-> "idle", http |-> 0, got |-> 0, result |-> "NOT_PAIRED"]
NoOrder == [pc |-> "idle", app |-> NoApp, asked |-> FALSE, cert |-> 0]

\* A request over HTTPS with the pinned certificate c.
Trusted(c) == c = host.cert /\ host.lists

Trouble == troubles < MaxTroubles /\ troubles' = troubles + 1
----------------------------------------------------------------------------
\* What the host does with a request of the pairing thread.
Served(request) ==
    CASE request = "getservercert" /\ host.session = "none" -> [host EXCEPT !.session = "pin"]
      [] request = "clientchallenge" /\ host.session = "entered" -> [host EXCEPT !.session = "challenged"]
      [] request = "serverchallengeresp" /\ host.session = "challenged" -> [host EXCEPT !.session = "responded"]
      [] request = "clientpairingsecret" /\ host.session = "responded" ->
            [host EXCEPT !.session = "none", !.lists = host.lists \/ host.rightPin]
      [] request = "unpair" -> [host EXCEPT !.session = "none", !.lists = FALSE]
      [] OTHER -> host

\* Next request, or the end with a result.
Proceed(pc) == pairing' = [pairing EXCEPT !.pc = pc]
GiveUp(result) == pairing' = [pairing EXCEPT !.pc = "unpair", !.result = result]
Finish(result) == pairing' = [pairing EXCEPT !.pc = "end", !.result = result]

Request(r) ==
    /\ pairing.pc = r
    /\ host' = Served(r)
    /\ UNCHANGED <<shown, troubles, details, orders, lost>>

\* doPair, when the host was not paired at the last poll
BeginPairing ==
    /\ pairing.pc = "idle" /\ ~details.paired
    /\ pairing' = [Idle EXCEPT !.pc = "state", !.http = serverCert]
    /\ UNCHANGED <<hostVars, serverCert, details, orders, lost>>

\* getServerInfo asks over HTTPS when a certificate is pinned, and over HTTP,
\* where nobody is paired, when that one does not match or the host does not
\* know us.
GetPairState ==
    /\ Request("state")
    /\ IF Trusted(pairing.http) THEN Finish("PAIRED") ELSE Proceed("info")
    /\ UNCHANGED serverCert

GetServerInfo ==
    /\ Request("info")
    /\ Proceed("getservercert")
    /\ UNCHANGED serverCert

\* (mutant: a null certificate is returned to the user, without unpair)
GetServerCertOnly ==
    /\ Request("getservercert")
    /\ IF host.session = "none" THEN Proceed("pin") ELSE Finish("ALREADY_IN_PROGRESS")
    /\ UNCHANGED serverCert

GetServerCert ==
    /\ Request("getservercert")
    /\ IF host.session = "none" THEN Proceed("pin") ELSE GiveUp("ALREADY_IN_PROGRESS")
    /\ UNCHANGED serverCert

\* (mutant: the certificate is pinned as soon as it is known)
CertArrivesPinned ==
    /\ Request("pin") /\ host.session # "pin"
    /\ IF host.session = "entered"
       THEN /\ pairing' = [pairing EXCEPT !.pc = "clientchallenge", !.got = host.cert, !.http = host.cert]
            /\ serverCert' = host.cert
       ELSE Finish("FAILED") /\ UNCHANGED serverCert

\* The answer comes when the user has entered the PIN at the host, or when
\* the host has ended the session; there is no read timeout.
CertArrives ==
    /\ Request("pin") /\ host.session # "pin"
    /\ IF host.session = "entered"
       THEN pairing' = [pairing EXCEPT !.pc = "clientchallenge", !.got = host.cert, !.http = host.cert]
       ELSE Finish("FAILED")
    /\ UNCHANGED serverCert

ClientChallenge ==
    /\ Request("clientchallenge")
    /\ IF host.session = "entered" THEN Proceed("serverchallengeresp") ELSE GiveUp("FAILED")
    /\ UNCHANGED serverCert

\* (mutant: a wrong PIN is reported without unpair)
ServerChallengeRespOnly ==
    /\ Request("serverchallengeresp")
    /\ CASE host.session # "challenged" \/ pairing.got # host.cert -> GiveUp("FAILED")
         [] ~host.rightPin -> Finish("PIN_WRONG")
         [] OTHER -> Proceed("clientpairingsecret")
    /\ UNCHANGED serverCert

\* The signature of the host's secret, then the hash that depends on the PIN.
ServerChallengeResp ==
    /\ Request("serverchallengeresp")
    /\ CASE host.session # "challenged" \/ pairing.got # host.cert -> GiveUp("FAILED")
         [] ~host.rightPin -> GiveUp("PIN_WRONG")
         [] OTHER -> Proceed("clientpairingsecret")
    /\ UNCHANGED serverCert

ClientPairingSecret ==
    /\ Request("clientpairingsecret")
    /\ IF host.session = "responded" /\ host.rightPin THEN Proceed("pairchallenge") ELSE GiveUp("FAILED")
    /\ UNCHANGED serverCert

\* Over HTTPS.  doPair pins the certificate as soon as pair() has returned.
PairChallenge ==
    /\ Request("pairchallenge")
    /\ pairing.http = host.cert
    /\ IF host.lists THEN Finish("PAIRED") /\ serverCert' = pairing.got
       ELSE GiveUp("FAILED") /\ UNCHANGED serverCert

Unpair ==
    /\ Request("unpair")
    /\ Finish(pairing.result)
    /\ UNCHANGED serverCert

\* An IOException leaves pair() at once, whether or not the host has carried
\* the request out.
RequestFails ==
    /\ pairing.pc \in Requests
    /\ \/ Trouble /\ host' \in {host, Served(pairing.pc)}
       \/ pairing.pc = "pairchallenge" /\ ~Trusted(pairing.http) /\ UNCHANGED <<host, troubles>>
    /\ Finish("EXCEPTION")
    /\ UNCHANGED <<shown, serverCert, details, orders, lost>>

\* Dialogs are closed; polling starts again with the state invalidated.
EndPairing ==
    /\ pairing.pc = "end"
    /\ pairing' = Idle
    /\ lost' = (pairing.result = "EXCEPTION" \/ (lost /\ pairing.result = "FAILED"))
    /\ details' = [details EXCEPT !.paired = (pairing.result = "PAIRED")]
    /\ UNCHANGED <<hostVars, serverCert, orders>>
----------------------------------------------------------------------------
\* getComputerDetails, while polling is not stopped for a pairing
Poll ==
    /\ pairing.pc = "idle"
    /\ details' = [paired |-> Trusted(serverCert), app |-> host.app]
    /\ shown' = shown \cup {"ui"}
    /\ UNCHANGED <<host, troubles, serverCert, pairing, orders, lost>>

\* An order is given by what the list shows.
Give(t, order) ==
    /\ details.paired /\ orders[t].pc = "idle"
    /\ orders' = [orders EXCEPT ![t] = order]
    /\ shown' = IF "ui" \in shown THEN shown \cup {t} ELSE shown \ {t}
    /\ UNCHANGED <<host, troubles, serverCert, details, pairing, lost>>

\* (mutant: a click starts the game whatever runs)
ChooseUnasked(a) == Give("start", [pc |-> "info", app |-> a, cert |-> serverCert, asked |-> FALSE])

\* The menu of a game in AppView: start, resume, or quit what runs and start,
\* which is confirmed first.
Choose(a) ==
    Give("start", [pc |-> "info", app |-> a, cert |-> serverCert, asked |-> details.app \notin {NoApp, a}])

\* Quit, in the menu of the game that runs; confirmed first
ChooseQuit ==
    /\ details.app # NoApp
    /\ Give("quit", [pc |-> "cancel", app |-> NoApp, cert |-> serverCert, asked |-> TRUE])

Order(t, pc) == orders' = [orders EXCEPT ![t] = IF pc = "idle" THEN NoOrder ELSE [@ EXCEPT !.pc = pc]]
Runs(app) == shown' = IF app = host.app THEN shown ELSE {}
orderFrame == UNCHANGED <<troubles, serverCert, details, pairing, lost>> /\ Runs(host'.app)

\* startApp asks what runs and whether we are paired.
StartInfo ==
    LET o == orders["start"]
    IN  /\ o.pc = "info"
        /\ Order("start", CASE ~Trusted(o.cert) -> "idle"
                            [] host.app = NoApp -> "launch"
                            [] host.app = o.app -> "resume"
                            [] OTHER -> "cancel")
        /\ UNCHANGED host
        /\ orderFrame

\* quitApp: the host quits what runs at that moment, unless another client
\* started it, and says nothing about it.
Cancel(t) ==
    /\ orders[t].pc = "cancel" /\ Trusted(orders[t].cert)
    /\ host' = IF host.owner = "us" THEN [host EXCEPT !.app = NoApp] ELSE host
    /\ Order(t, "check")
    /\ orderFrame

\* It asks again; error 599 if a game is still running.
CheckQuit(t) ==
    /\ orders[t].pc = "check"
    /\ Order(t, IF t = "start" /\ host.app = NoApp THEN "launch" ELSE "idle")
    /\ UNCHANGED host
    /\ orderFrame

\* The host refuses to launch a second game.
Launch ==
    /\ orders["start"].pc = "launch" /\ Trusted(orders["start"].cert)
    /\ host' = IF host.app = NoApp THEN [host EXCEPT !.app = orders["start"].app, !.owner = "us"] ELSE host
    /\ Order("start", "idle")
    /\ orderFrame

\* The host refuses with 470 a game that another client started.
Resume ==
    /\ orders["start"].pc = "resume" /\ Trusted(orders["start"].cert)
    /\ Order("start", "idle")
    /\ UNCHANGED host
    /\ orderFrame

\* The handshake or the request fails.
OrderFails(t) ==
    /\ orders[t].pc \in {"cancel", "launch", "resume"}
    /\ ~Trusted(orders[t].cert)
    /\ Order(t, "idle")
    /\ UNCHANGED host
    /\ orderFrame
----------------------------------------------------------------------------
\* The user at the host, other clients, and the host itself.
EnterPin(right) ==
    /\ host.session = "pin"
    /\ IF right THEN UNCHANGED troubles ELSE Trouble
    /\ host' = [host EXCEPT !.session = "entered", !.rightPin = right]

HostEvent ==
    /\ Trouble
    /\ \/ host.session # "none" /\ host' = [host EXCEPT !.session = "none"]
       \/ host.session = "none" /\ host' = [host EXCEPT !.session = "other"]
       \/ host.lists /\ host' = [host EXCEPT !.lists = FALSE]
       \/ \E a \in Apps, o \in {"us", "other"} :
             host.app = NoApp /\ host' = [host EXCEPT !.app = a, !.owner = o]
       \/ host.app # NoApp /\ host' = [host EXCEPT !.app = NoApp]
       \/ /\ host.cert < MaxCerts
          /\ host' = [host EXCEPT !.cert = @ + 1, !.lists = FALSE, !.session = "none", !.app = NoApp]

AtHost ==
    /\ HostEvent \/ \E right \in BOOLEAN : EnterPin(right)
    /\ Runs(host'.app)
    /\ UNCHANGED <<serverCert, details, pairing, orders, lost>>
----------------------------------------------------------------------------
Init ==
    /\ host = [cert |-> 1, lists |-> FALSE, session |-> "none", rightPin |-> FALSE, app |-> NoApp, owner |-> "other"]
    /\ serverCert = 0
    /\ details = [paired |-> FALSE, app |-> NoApp]
    /\ pairing = Idle
    /\ orders = [t \in Threads |-> NoOrder]
    /\ lost = FALSE /\ shown = {} /\ troubles = 0

Pair ==
    \/ GetPairState \/ GetServerInfo \/ GetServerCert \/ CertArrives \/ ClientChallenge
    \/ ServerChallengeResp \/ ClientPairingSecret \/ PairChallenge \/ Unpair
    \/ RequestFails \/ EndPairing

Play(t) ==
    \/ t = "start" /\ (StartInfo \/ Launch \/ Resume)
    \/ Cancel(t) \/ CheckQuit(t) \/ OrderFails(t)

Next ==
    \/ BeginPairing \/ Pair
    \/ Poll
    \/ \E a \in Apps : Choose(a)
    \/ ChooseQuit
    \/ \E t \in Threads : Play(t)
    \/ AtHost

\* The threads run and the host answers; polling goes on; the user keeps
\* trying and enters the PIN he is shown.
Fairness ==
    /\ WF_vars(BeginPairing) /\ WF_vars(Pair) /\ WF_vars(Poll)
    /\ \A t \in Threads : WF_vars(Play(t))
    /\ WF_vars(EnterPin(TRUE) /\ UNCHANGED <<shown, serverCert, details, pairing, orders, lost>>)

Spec == Init /\ [][Next]_vars /\ Fairness
----------------------------------------------------------------------------
\* The variables have their types, no certificate is known before the host has
\* it, and the one that was received is the one required from then on.
TypeOK ==
    /\ host \in [cert : 1 .. MaxCerts, lists : BOOLEAN, session : Sessions, rightPin : BOOLEAN,
                 app : Apps \cup {NoApp}, owner : {"us", "other"}]
    /\ serverCert \in 0 .. host.cert
    /\ details \in [paired : BOOLEAN, app : Apps \cup {NoApp}]
    /\ pairing \in [pc : Requests \cup {"idle", "end"}, http : 0 .. host.cert, got : 0 .. host.cert,
                    result : {"NOT_PAIRED", "PAIRED", "PIN_WRONG", "FAILED", "ALREADY_IN_PROGRESS", "EXCEPTION"}]
    /\ pairing.pc \in Requests \ {"state", "info", "getservercert", "pin", "unpair"} =>
          pairing.got # 0 /\ pairing.http = pairing.got
    /\ orders \in [Threads -> [pc : {"idle", "info", "launch", "resume", "cancel", "check"},
                               app : Apps \cup {NoApp}, asked : BOOLEAN, cert : 0 .. host.cert]]
    /\ lost \in BOOLEAN /\ shown \subseteq Threads \cup {"ui"} /\ troubles \in 0 .. MaxTroubles

\* A certificate is pinned only when the host has it, the user entered the
\* right PIN there and the host has accepted ours, whatever was reinstalled,
\* refused or retried on the way.  (pair, doPair)
PinnedTruly == [][serverCert' # serverCert => serverCert' = host.cert /\ host.lists /\ host.rightPin]_vars

\* When pairing is over, and no request of it failed, the two sides agree: the
\* host waits for nothing from us, and if it lists us we have its certificate.
\* (the calls of unpair)
SidesAgree ==
    pairing.pc = "idle" /\ ~lost =>
        /\ host.session \in {"none", "other"}
        /\ host.lists => serverCert = host.cert

\* The two sides, with the types.
Agreement == TypeOK /\ SidesAgree

\* Once nothing goes wrong any more, trying again pairs: a session the host
\* still holds for an attempt that was abandoned is in nobody's way for long.
\* (unpair after an empty certificate, setServerCert, the fall back to HTTP)
RetryPairs == <>[](Trusted(serverCert) /\ details.paired)

\* A game that the user was shown as running is quit only if he confirmed it.
\* (onCreateContextMenu, onItemClick, startApp; "Are you sure you want to quit
\* the running app?")
QuitAsked ==
    [][\A t \in Threads : orders[t].pc = "cancel" /\ orders'[t].pc = "check" /\ host'.app # host.app /\ t \in shown =>
          orders[t].asked]_vars
=============================================================================
