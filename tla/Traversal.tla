----------------------------- MODULE Traversal -----------------------------
(***************************************************************************)
(* The traversal client and the traversal server: a host registers and is  *)
(* given a code, a joiner asks the server for the host behind a code, the  *)
(* server asks the host to open its NAT and tells the joiner.  Datagrams   *)
(* are lost and overtake each other, both sides resend what has not been   *)
(* acknowledged and give up after a number of tries.                       *)
(***************************************************************************)
EXTENDS Naturals, Sequences, FiniteSets

CONSTANTS Host,     \* the client that runs a NetPlayServer
          Joiner,   \* clients that run a NetPlayClient
          None,
          Tries,    \* NUMBER_OF_TRIES: 5
          MaxFault, \* bound: losses, late answers and expired registrations
          MaxPing   \* bound: pings, and uses of the Retry button

ASSUME TriesAssumption == Tries \in Nat \ {0}
ASSUME BoundAssumption == {MaxFault, MaxPing} \subseteq Nat
ASSUME NameAssumption == /\ Host \notin Joiner /\ None \notin Joiner \cup {Host} \cup Nat
                         /\ "server" \notin Joiner \cup {Host, None}
                         /\ None \notin {"ServerForgotAboutUs", "ResendTimeout"}

Client == Joiner \cup {Host}
Code == Nat

VARIABLES
  net,       \* datagrams on their way
  state,     \* m_State, "Off" while there is no TraversalClient
  reason,    \* m_FailureReason
  hostId,    \* m_HostId
  out,       \* m_OutgoingTraversalPackets
  sent,      \* requests each client has made so far
  pending,   \* m_PendingConnect
  connectId, \* m_ConnectRequestId
  connState, \* NetPlayClient::m_connection_state, "Gone" when the attempt is over
  spec,      \* m_host_spec, the code the user has typed
  registered,\* the server's connectedClients: who has the code, None when it has expired
  outgoing,  \* the server's outgoingPackets
  served,    \* packets the server has made so far
  lost,      \* datagrams the network has lost
  late,      \* timers that ran out while the answer was on its way
  evicted,   \* registrations that have expired
  pings,     \* pings sent
  retried,   \* uses of the Retry button
  given,     \* history: codes a client was told are its own
  punched,   \* history: <<host, client>> when the host has opened its NAT
  answers,   \* history: calls of OnConnectReady and OnConnectFailed
  readyAddr  \* history: the address OnConnectReady was called with

cvars == <<state, reason, hostId, out, sent, pending, connectId, connState, spec>>
svars == <<registered, outgoing, served>>
bvars == <<lost, late, evicted, pings, retried>>
hvars == <<given, punched, answers, readyAddr>>
vars == <<net, cvars, svars, bvars, hvars>>

Init ==
  /\ net = {}
  /\ state = [c \in Client |-> "Off"] /\ reason = [c \in Client |-> None]
  /\ hostId = [c \in Client |-> None]
  /\ out = [c \in Client |-> {}] /\ sent = [c \in Client |-> 0]
  /\ pending = [c \in Client |-> FALSE] /\ connectId = [c \in Client |-> None]
  /\ connState = [c \in Client |-> "Waiting"] /\ spec = [c \in Client |-> None]
  /\ registered = <<>>
  /\ outgoing = {} /\ served = 0
  /\ lost = 0 /\ late = 0 /\ evicted = 0 /\ pings = 0 /\ retried = 0
  /\ given = [c \in Client |-> {}] /\ punched = {}
  /\ answers = [c \in Client |-> 0] /\ readyAddr = [c \in Client |-> None]

-----------------------------------------------------------------------------
(* Datagrams.  A packet and its acknowledgement carry the same requestId.  *)

ToServer(c, type, id, code) == [to |-> "server", from |-> c, type |-> type, id |-> id, code |-> code]

Ack(to, from, id, ok) == [to |-> to, from |-> from, type |-> "Ack", id |-> id, ok |-> ok]

(* SendTraversalPacket: the packet is kept and sent for the first time. *)
Outgoing(c, type, code) == [type |-> type, id |-> <<c, sent[c] + 1>>, code |-> code, tries |-> 1]

SendTraversalPacket(c, type, code) ==
  /\ out' = [out EXCEPT ![c] = @ \cup {Outgoing(c, type, code)}]
  /\ sent' = [sent EXCEPT ![c] = @ + 1]

Datagram(c, o) == ToServer(c, o.type, o.id, o.code)

Faulty == lost + late + evicted < MaxFault

InFlight(o) == \E p \in net : p.id = o.id

(* The timer of a packet has run out: nothing is on its way any more, or   *)
(* the packet or its acknowledgement is late.                              *)
TimerExpired(o) ==
  \/ ~InFlight(o) /\ UNCHANGED late
  \/ InFlight(o) /\ Faulty /\ late' = late + 1

-----------------------------------------------------------------------------
(* The client. *)

(* ReconnectToServer: when the client is made, and by the Retry button. *)
ReconnectToServer(c) ==
  /\ state' = [state EXCEPT ![c] = "Connecting"]
  /\ SendTraversalPacket(c, "HelloFromClient", None)
  /\ net' = net \cup {Datagram(c, Outgoing(c, "HelloFromClient", None))}

HostStart ==
  /\ state[Host] = "Off"
  /\ ReconnectToServer(Host)
  /\ UNCHANGED <<reason, hostId, pending, connectId, connState, spec, svars, bvars, hvars>>

HostRetry ==
  /\ state[Host] = "Failure" /\ retried < MaxPing
  /\ ReconnectToServer(Host)
  /\ retried' = retried + 1
  /\ UNCHANGED <<reason, hostId, pending, connectId, connState, spec, svars, lost, late, evicted,
                 pings, hvars>>

(* The constructor of NetPlayClient, with the code the user was given. *)
Join(j, k) ==
  /\ state[j] = "Off" /\ connState[j] = "Waiting"
  /\ ReconnectToServer(j)
  /\ spec' = [spec EXCEPT ![j] = k]
  /\ connState' = [connState EXCEPT ![j] = "WaitingForTraversalClientConnection"]
  /\ UNCHANGED <<reason, hostId, pending, connectId, svars, bvars, hvars>>

(* The constructor leaves its loop when the attempt has failed or five     *)
(* seconds have passed; the client is destroyed with its socket.           *)
JoinEnds(j) ==
  /\ state[j] # "Off"
  /\ \/ connState[j] = "Failure" /\ UNCHANGED late
     \/ connState[j] # "Failure" /\ Faulty /\ late' = late + 1
  /\ connState' = [connState EXCEPT ![j] = "Gone"]
  /\ state' = [state EXCEPT ![j] = "Off"]
  /\ out' = [out EXCEPT ![j] = {}] /\ pending' = [pending EXCEPT ![j] = FALSE]
  /\ UNCHANGED <<net, reason, hostId, sent, connectId, spec, svars, lost, evicted, pings, retried,
                 hvars>>

(* OnFailure, with what NetPlayClient::OnTraversalStateChanged makes of it. *)
OnFailure(c, why) ==
  /\ state' = [state EXCEPT ![c] = "Failure"]
  /\ reason' = [reason EXCEPT ![c] = why]
  /\ connState' = [connState EXCEPT ![c] = IF c \in Joiner THEN "Failure" ELSE @]

(* Mutant: a packet is given up one try too early. *)
GivesUpEarly(o) == o.tries + 1 >= Tries

(* Mutant: one try too many. *)
GivesUpLate(o) == o.tries > Tries

GivesUp(o) == o.tries >= Tries

(* HandleResends. *)
ResendPacket(c, o) ==
  /\ state[c] # "Off" /\ o \in out[c] /\ TimerExpired(o) /\ ~GivesUp(o)
  /\ out' = [out EXCEPT ![c] = (@ \ {o}) \cup {[o EXCEPT !.tries = @ + 1]}]
  /\ net' = net \cup {Datagram(c, o)}
  /\ UNCHANGED <<state, reason, hostId, sent, pending, connectId, connState, spec, svars, lost,
                 evicted, pings, retried, hvars>>

ResendTimeout(c, o) ==
  /\ state[c] # "Off" /\ o \in out[c] /\ TimerExpired(o) /\ GivesUp(o)
  /\ OnFailure(c, "ResendTimeout")
  /\ out' = [out EXCEPT ![c] = {}]
  /\ UNCHANGED <<net, hostId, sent, pending, connectId, spec, svars, lost, evicted, pings, retried,
                 hvars>>

HandlePing(c) ==
  /\ state[c] = "Connected" /\ pings < MaxPing
  /\ SendTraversalPacket(c, "Ping", hostId[c])
  /\ net' = net \cup {Datagram(c, Outgoing(c, "Ping", hostId[c]))}
  /\ pings' = pings + 1
  /\ UNCHANGED <<state, reason, hostId, pending, connectId, connState, spec, svars, lost, late,
                 evicted, retried, hvars>>

(* HandleServerPacket, Ack.  A refusal is acted on whatever it answers. *)
OnAck(c, p) ==
  /\ p.type = "Ack"
  /\ net' = net \ {p}
  /\ IF p.ok
     THEN /\ out' = [out EXCEPT ![c] = {o \in @ : o.id # p.id}]
          /\ UNCHANGED <<state, reason, connState>>
     ELSE OnFailure(c, "ServerForgotAboutUs") /\ UNCHANGED out
  /\ UNCHANGED <<hostId, sent, pending, connectId, spec, hvars>>

(* What a client sends back for every other packet. *)
Acknowledge(c, p) == (net \ {p}) \cup {Ack("server", c, p.id, TRUE)}

(* A NetPlayClient that waits for this asks for its host at once. *)
OnHelloFromServer(c, p) ==
  /\ p.type = "HelloFromServer"
  /\ IF state[c] = "Connecting"
     THEN /\ hostId' = [hostId EXCEPT ![c] = p.code]
          /\ given' = [given EXCEPT ![c] = @ \cup {p.code}]
          /\ state' = [state EXCEPT ![c] = "Connected"]
          /\ IF connState[c] = "WaitingForTraversalClientConnection"
             THEN /\ connState' = [connState EXCEPT ![c] = "WaitingForTraversalClientConnectReady"]
                  /\ SendTraversalPacket(c, "ConnectPlease", spec[c])
                  /\ connectId' = [connectId EXCEPT ![c] = <<c, sent[c] + 1>>]
                  /\ pending' = [pending EXCEPT ![c] = TRUE]
                  /\ net' = Acknowledge(c, p)
                              \cup {Datagram(c, Outgoing(c, "ConnectPlease", spec[c]))}
             ELSE /\ net' = Acknowledge(c, p)
                  /\ UNCHANGED <<connState, out, sent, connectId, pending>>
     ELSE /\ net' = Acknowledge(c, p)
          /\ UNCHANGED <<hostId, given, state, connState, out, sent, connectId, pending>>
  /\ UNCHANGED <<reason, spec, punched, answers, readyAddr>>

OnPleaseSendPacket(c, p) ==
  /\ p.type = "PleaseSendPacket"
  /\ punched' = punched \cup {<<c, p.addr>>}
  /\ net' = Acknowledge(c, p)
  /\ UNCHANGED <<state, reason, hostId, out, sent, pending, connectId, connState, spec, given,
                 answers, readyAddr>>

(* Mutant: the answer is taken whether or not one is still awaited. *)
AwaitedAlways(c, p) == p.req = connectId[c]

Awaited(c, p) == pending[c] /\ p.req = connectId[c]

(* ConnectReady and ConnectFailed, with the callbacks of NetPlayClient. *)
OnConnectAnswer(c, p) ==
  /\ p.type \in {"ConnectReady", "ConnectFailed"}
  /\ net' = Acknowledge(c, p)
  /\ IF Awaited(c, p)
     THEN /\ pending' = [pending EXCEPT ![c] = FALSE]
          /\ answers' = [answers EXCEPT ![c] = @ + 1]
          /\ IF p.type = "ConnectFailed"
             THEN connState' = [connState EXCEPT ![c] = "Failure"] /\ UNCHANGED readyAddr
             ELSE /\ connState' = [connState EXCEPT ![c] =
                        IF @ = "WaitingForTraversalClientConnectReady" THEN "Connecting" ELSE @]
                  /\ readyAddr' = [readyAddr EXCEPT ![c] = p.addr]
     ELSE UNCHANGED <<pending, answers, connState, readyAddr>>
  /\ UNCHANGED <<state, reason, hostId, out, sent, connectId, spec, given, punched>>

HandleServerPacket(c, p) ==
  /\ p \in net /\ p.to = c /\ state[c] # "Off"
  /\ \/ OnAck(c, p) \/ OnHelloFromServer(c, p) \/ OnPleaseSendPacket(c, p)
     \/ OnConnectAnswer(c, p)
  /\ UNCHANGED <<svars, bvars>>

-----------------------------------------------------------------------------
(* The server.  ResendPackets runs after every packet, so what HandlePacket *)
(* has allocated is sent in the same step.                                  *)

Reply(type, dest, addr, req, code) ==
  [to |-> dest, from |-> "server", type |-> type, id |-> <<"server", served + 1>>,
   addr |-> addr, req |-> req, code |-> code]

Kept(packet, tries) == [packet |-> packet, id |-> packet.id, tries |-> tries]

(* Mutant: a reply is sent once and not kept. *)
AnswerOnce(p, ok, replies) ==
  /\ net' = (net \ {p}) \cup {Ack(p.from, "server", p.id, ok)} \cup replies
  /\ served' = served + Cardinality(replies)
  /\ UNCHANGED outgoing

(* HandlePacket ends with an acknowledgement to the sender. *)
Answer(p, ok, replies) ==
  /\ net' = (net \ {p}) \cup {Ack(p.from, "server", p.id, ok)} \cup replies
  /\ outgoing' = outgoing \cup {Kept(r, 1) : r \in replies}
  /\ served' = served + Cardinality(replies)

(* The ping carries the sender's code; an entry that has expired is gone. *)
ServerOnPing(p) ==
  /\ p.type = "Ping"
  /\ Answer(p, registered[p.code] # None, {})
  /\ UNCHANGED registered

(* A random code that nobody has: the next one, codes being 32 random bits. *)
ServerOnHello(p) ==
  /\ p.type = "HelloFromClient"
  /\ registered' = Append(registered, p.from)
  /\ Answer(p, TRUE, {Reply("HelloFromServer", p.from, p.from, None, Len(registered) + 1)})

(* Mutant: the joiner is told to connect without asking the host. *)
ServerOnConnectPleaseReady(p) ==
  /\ p.type = "ConnectPlease"
  /\ LET h == registered[p.code]
     IN  Answer(p, TRUE, {IF h = None THEN Reply("ConnectFailed", p.from, None, p.id, None)
                          ELSE Reply("ConnectReady", p.from, h, p.id, None)})
  /\ UNCHANGED registered

(* Mutant: a code that is not known refuses the request itself. *)
ServerOnConnectPleaseRefuses(p) ==
  /\ p.type = "ConnectPlease"
  /\ LET h == registered[p.code]
     IN  Answer(p, h # None,
                {IF h = None THEN Reply("ConnectFailed", p.from, None, p.id, None)
                 ELSE Reply("PleaseSendPacket", h, p.from, p.id, None)})
  /\ UNCHANGED registered

ServerOnConnectPlease(p) ==
  /\ p.type = "ConnectPlease"
  /\ LET h == registered[p.code]
     IN  Answer(p, TRUE, {IF h = None THEN Reply("ConnectFailed", p.from, None, p.id, None)
                          ELSE Reply("PleaseSendPacket", h, p.from, p.id, None)})
  /\ UNCHANGED registered

(* An acknowledged PleaseSendPacket becomes a ConnectReady; one that the   *)
(* server has given up meanwhile is no longer found.                       *)
ServerOnAck(p) ==
  /\ p.type = "Ack"
  /\ LET found == {o \in outgoing : o.id = p.id}
         ready == {Reply("ConnectReady", o.packet.addr, o.packet.to, o.packet.req, None) :
                     o \in {x \in found : x.packet.type = "PleaseSendPacket"}}
     IN  /\ outgoing' = (outgoing \ found) \cup {Kept(r, 1) : r \in ready}
         /\ net' = (net \ {p}) \cup ready
         /\ served' = served + Cardinality(ready)
  /\ UNCHANGED registered

HandlePacket(p) ==
  /\ p \in net /\ p.to = "server"
  /\ ServerOnAck(p) \/ ServerOnPing(p) \/ ServerOnHello(p) \/ ServerOnConnectPlease(p)
  /\ UNCHANGED <<cvars, bvars, hvars>>

(* ResendPackets.  It compares with the time of the last recvfrom, which a *)
(* timeout of select does not refresh: a packet that was sent before is    *)
(* sent again only in the round of a later datagram, from any client of    *)
(* the server, the ones this model leaves out included.                    *)
ServerResend(o) ==
  /\ o \in outgoing /\ TimerExpired(o) /\ ~GivesUp(o)
  /\ outgoing' = (outgoing \ {o}) \cup {[o EXCEPT !.tries = @ + 1]}
  /\ net' = net \cup {o.packet}
  /\ UNCHANGED <<cvars, registered, served, lost, evicted, pings, retried, hvars>>

(* The failure is allocated last and sent when ResendPackets runs again. *)
ServerGivesUp(o) ==
  /\ o \in outgoing /\ TimerExpired(o) /\ GivesUp(o)
  /\ LET failure == IF o.packet.type = "PleaseSendPacket"
                    THEN {Reply("ConnectFailed", o.packet.addr, None, o.packet.req, None)}
                    ELSE {}
     IN  /\ outgoing' = (outgoing \ {o}) \cup {Kept(r, 0) : r \in failure}
         /\ served' = served + Cardinality(failure)
  /\ UNCHANGED <<net, cvars, registered, lost, evicted, pings, retried, hvars>>

(* An entry is dropped 30 s after the last ping for it: the client has     *)
(* stalled or is gone.                                                     *)
Evict(k) ==
  /\ registered[k] # None /\ Faulty
  /\ registered' = [registered EXCEPT ![k] = None]
  /\ evicted' = evicted + 1
  /\ UNCHANGED <<net, cvars, outgoing, served, lost, late, pings, retried, hvars>>

-----------------------------------------------------------------------------
(* The network. *)
Lose(p) ==
  /\ p \in net /\ Faulty
  /\ net' = net \ {p}
  /\ lost' = lost + 1
  /\ UNCHANGED <<cvars, svars, late, pings, evicted, retried, hvars>>

(* Nobody listens at the address of a client that is gone. *)
Undeliverable(p) ==
  /\ p \in net /\ p.to \in Joiner /\ connState[p.to] = "Gone"
  /\ net' = net \ {p}
  /\ UNCHANGED <<cvars, svars, bvars, hvars>>

Resends(c) == \E o \in out[c] : ResendPacket(c, o) \/ ResendTimeout(c, o)
Receives(c) == \E p \in net : HandleServerPacket(c, p)
ServerReceives == \E p \in net : HandlePacket(p)
ServerResends == \E o \in outgoing : ServerResend(o) \/ ServerGivesUp(o)

(* What was allocated last is due at once, by whatever clock.              *)
ServerSendsFirst == \E o \in outgoing : o.tries = 0 /\ ServerResend(o)

Next ==
  \/ HostStart \/ HostRetry
  \/ \E j \in Joiner : JoinEnds(j) \/ \E k \in given[Host] : Join(j, k)
  \/ \E c \in Client : Resends(c) \/ HandlePing(c) \/ Receives(c)
  \/ ServerReceives \/ ServerResends
  \/ \E k \in DOMAIN registered : Evict(k)
  \/ \E p \in net : Lose(p) \/ Undeliverable(p)

Spec == Init /\ [][Next]_vars

(* The threads run and the network delivers what it does not lose.  The    *)
(* server's timers are not in it: they do not move while nothing arrives.  *)
Fairness ==
  /\ \A c \in Client : WF_vars(Resends(c)) /\ WF_vars(Receives(c))
  /\ WF_vars(ServerReceives) /\ WF_vars(ServerSendsFirst)

FairSpec == Spec /\ Fairness

(* Datagrams of other clients keep coming, so that the server's clock and  *)
(* with it its timers go on.  Not a part of the specification.             *)
Busy == WF_vars(ServerResends)

-----------------------------------------------------------------------------
States == {"Off", "Connecting", "Connected", "Failure"}
ConnStates == {"Waiting", "WaitingForTraversalClientConnection",
               "WaitingForTraversalClientConnectReady", "Connecting", "Failure", "Gone"}

(* The types; no packet is tried more often than NUMBER_OF_TRIES.          *)
TypeOK ==
  /\ state \in [Client -> States]
  /\ reason \in [Client -> {None, "ServerForgotAboutUs", "ResendTimeout"}]
  /\ hostId \in [Client -> Code \cup {None}] /\ spec \in [Client -> Code \cup {None}]
  /\ connState \in [Client -> ConnStates]
  /\ pending \in [Client -> BOOLEAN]
  /\ registered \in Seq(Client \cup {None})
  /\ \A c \in Client : \A o \in out[c] : o.tries \in 1 .. Tries
  /\ \A o \in outgoing : o.tries \in 0 .. Tries
  /\ punched \subseteq Client \X Client /\ readyAddr \in [Client -> Client \cup {None}]

(* A joiner is told that the host is ready only when the host has opened   *)
(* its NAT towards this joiner, whatever was lost, resent or late          *)
(* (OnConnectReady, and the chain of PleaseSendPacket and its Ack).        *)
ReadyMeansPunched ==
  \A j \in Joiner : readyAddr[j] # None => <<readyAddr[j], j>> \in punched

(* An attempt to connect is answered at most once: a second ConnectReady,  *)
(* or a ConnectFailed of a repeated request, does not disturb a connection *)
(* that is already being made (m_PendingConnect).                          *)
AnsweredOnce == \A j \in Joiner : answers[j] <= 1

(* A client gives up because the server has forgotten it only when the     *)
(* server has dropped a code it had given to this client.                  *)
ForgottenIsTrue ==
  \A c \in Client : reason[c] = "ServerForgotAboutUs" =>
                      \E k \in given[c] : registered[k] # c

(* As long as fewer datagrams are lost than a packet is tried, no answer   *)
(* is late and no registration expires, the retries are enough: no client  *)
(* times out, and the server never finds that a host did not respond.      *)
DidntRespond(o) == o.packet.type = "ConnectFailed" /\ o.tries = 0

RetriesSuffice ==
  late = 0 /\ evicted = 0 /\ lost < Tries =>
    /\ \A c \in Client : reason[c] # "ResendTimeout"
    /\ ~\E o \in outgoing : DidntRespond(o)

(* At a server that other clients keep busy, a host that registers gets    *)
(* its code or is told that it failed, unless as many datagrams are lost   *)
(* as a packet is tried: the hello is not repeated once it is acknowledged,*)
(* so all depends on the reply being kept and resent.  An idle server does *)
(* not resend it, and the host then waits for ever.                        *)
HelloAnswered == Busy => ((state[Host] = "Connecting") ~> (state[Host] # "Connecting"))

=============================================================================
