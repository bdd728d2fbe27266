--------------------------- MODULE TraversalProofs ---------------------------
(***************************************************************************)
(* Proofs about the traversal client and server, for any number of         *)
(* joiners, any NUMBER_OF_TRIES and any bound on losses, pings and retries. *)
(*                                                                         *)
(* The inductive invariant TInv says where a packet can come from: a       *)
(* request carries a code that was given out, an id belongs to one packet, *)
(* an acknowledgement of a PleaseSendPacket exists only once the NAT is    *)
(* open.  The proof has two layers.  Effects describes what any step may   *)
(* do to the packets and to the clients, and is shown action by action;    *)
(* each part of TInv is then preserved by Effects alone.                   *)
(***************************************************************************)
EXTENDS Traversal, FiniteSetTheorems, TLAPS

(* The packets, by who sends them. *)
RequestTypes == {"HelloFromClient", "Ping", "ConnectPlease"}
ReplyTypes == {"HelloFromServer", "PleaseSendPacket", "ConnectReady", "ConnectFailed"}
MaybeCode == Code \cup {None}
RequestId == Client \X Nat
ReplyId == {"server"} \X Nat

Requests == [to : {"server"}, from : Client, type : RequestTypes, id : RequestId, code : MaybeCode]
ReplyShape == [to : Client, from : {"server"}, type : ReplyTypes, id : ReplyId,
               addr : Client \cup {None}, req : RequestId \cup {None}, code : MaybeCode]
Replies == {r \in ReplyShape : /\ r.type = "HelloFromServer" => r.code \in Code
                               /\ r.type = "PleaseSendPacket" => r.req \in RequestId
                               /\ r.type \in {"PleaseSendPacket", "ConnectReady"} =>
                                    r.addr \in Client}
ServerAcks == [to : Client, from : {"server"}, type : {"Ack"}, id : RequestId, ok : BOOLEAN]
ClientAcks == [to : {"server"}, from : Client, type : {"Ack"}, id : ReplyId, ok : {TRUE}]

OutPackets == [type : RequestTypes, id : RequestId, code : MaybeCode, tries : 1 .. Tries]
OutReplies == [packet : Replies, id : ReplyId, tries : 0 .. Tries]

NetType == net \subseteq Requests \cup Replies \cup ServerAcks \cup ClientAcks

ClientType ==
  /\ state \in [Client -> States]
  /\ reason \in [Client -> {None, "ServerForgotAboutUs", "ResendTimeout"}]
  /\ hostId \in [Client -> MaybeCode] /\ spec \in [Client -> MaybeCode]
  /\ out \in [Client -> SUBSET OutPackets] /\ sent \in [Client -> Nat]
  /\ pending \in [Client -> BOOLEAN]
  /\ connectId \in [Client -> RequestId \cup {None}]
  /\ connState \in [Client -> ConnStates]

ServerType ==
  /\ registered \in Seq(Client \cup {None})
  /\ outgoing \subseteq OutReplies
  /\ served \in Nat
  /\ \A o \in outgoing : o.id = o.packet.id

HistoryType ==
  /\ lost \in Nat /\ late \in Nat /\ evicted \in Nat
  /\ given \in [Client -> SUBSET Nat] /\ punched \subseteq Client \X Client
  /\ answers \in [Client -> Nat] /\ readyAddr \in [Client -> Client \cup {None}]

Types == NetType /\ ClientType /\ ServerType /\ HistoryType

(* The code of a request is one the host or the sender was given, so the   *)
(* server has heard of it.                                                 *)
KnownCode(type, c, code) ==
  /\ type = "Ping" => code \in given[c]
  /\ type = "ConnectPlease" => code \in given[Host]

(* A code the server has given to c; it still is c's, or has expired. *)
OwnCode(k, c) == k \in DOMAIN registered /\ registered[k] \in {c, None}

(* Only a host is asked to open its NAT, and only a host is connected to. *)
GoodReply(r) ==
  /\ r.type = "HelloFromServer" => OwnCode(r.code, r.to)
  /\ r.type = "PleaseSendPacket" => r.to = Host
  /\ r.type = "ConnectReady" => r.addr = Host

Codes ==
  /\ \A p \in net : p.to = "server" /\ p.type # "Ack" => KnownCode(p.type, p.from, p.code)
  /\ \A c \in Client : \A o \in out[c] : KnownCode(o.type, c, o.code)
  /\ \A c \in Client : \A k \in given[c] : OwnCode(k, c)
  /\ \A p \in net : p.to # "server" /\ p.type # "Ack" => GoodReply(p)
  /\ \A o \in outgoing : GoodReply(o.packet)
  /\ \A c \in Client : state[c] = "Connected" => hostId[c] \in given[c]
  /\ \A c \in Client : connState[c] = "WaitingForTraversalClientConnection" =>
                         spec[c] \in given[Host]

(* The server refuses a client only when it has dropped one of its codes. *)
Forgotten(c) == \E k \in given[c] : registered[k] = None

Refusals ==
  /\ \A p \in net : p.to # "server" /\ p.type = "Ack" /\ ~p.ok => Forgotten(p.to)
  /\ \A c \in Client : reason[c] = "ServerForgotAboutUs" => Forgotten(c)
  /\ evicted = 0 => \A k \in DOMAIN registered : registered[k] # None

(* Replies are numbered in order, and a number stands for one reply.       *)
Ids ==
  /\ \A p \in net : p.id[1] = "server" => p.id[2] <= served
  /\ \A o \in outgoing : o.id[2] <= served
  /\ \A o \in outgoing : \A q \in outgoing : o.id = q.id => o.packet = q.packet
  /\ \A o \in outgoing : \A p \in net : p.to # "server" /\ p.type # "Ack" /\ p.id = o.id => p = o.packet

(* A ConnectReady, and the acknowledgement it is made from, exist only     *)
(* when the NAT is open.                                                   *)
Punched ==
  /\ \A p \in net : p.type = "ConnectReady" => <<p.addr, p.to>> \in punched
  /\ \A o \in outgoing : o.packet.type = "ConnectReady" => <<o.packet.addr, o.packet.to>> \in punched
  /\ \A o \in outgoing : \A p \in net :
       o.packet.type = "PleaseSendPacket" /\ p.to = "server" /\ p.id = o.id =>
         <<o.packet.to, o.packet.addr>> \in punched

(* Before the request is made nothing is awaited; the answer that is taken *)
(* is the last.                                                            *)
Asked == {"Waiting", "WaitingForTraversalClientConnection"}

Answered ==
  \A c \in Client : /\ answers[c] \in 0 .. 1
                    /\ pending[c] => answers[c] = 0
                    /\ connState[c] \in Asked => answers[c] = 0 /\ ~pending[c]

(* A request's number names its client; a client that is gone keeps none.  *)
Owners ==
  /\ \A p \in net : p.to = "server" /\ p.type # "Ack" => p.id[1] = p.from
  /\ \A p \in net : p.to # "server" /\ p.type = "Ack" => p.id[1] = p.to
  /\ \A c \in Client : \A o \in out[c] : o.id[1] = c
  /\ \A c \in Client : connState[c] = "Gone" => c \in Joiner /\ state[c] = "Off" /\ out[c] = {}

(* A packet that is kept was tried once for every loss, and once more when *)
(* it or its acknowledgement is on its way.                                *)
Tried ==
  late = 0 /\ evicted = 0 =>
    /\ \A c \in Client : \A o \in out[c] : o.tries <= lost + 1 /\ (InFlight(o) \/ o.tries <= lost)
    /\ \A o \in outgoing : o.packet.type = "PleaseSendPacket" =>
         o.tries <= lost + 1 /\ (InFlight(o) \/ o.tries <= lost)

TInv == /\ Types /\ Codes /\ Refusals /\ Ids /\ Punched /\ Answered /\ Owners /\ Tried
        /\ ReadyMeansPunched /\ RetriesSuffice

-----------------------------------------------------------------------------
(* What a packet is, from where it goes and from its type. *)
LEMMA PacketKinds ==
  ASSUME NetType, NEW p \in net
  PROVE  /\ p.to = "server" \/ p.to \in Client
         /\ p.to = "server" /\ p.type # "Ack" => p \in Requests
         /\ p.to = "server" /\ p.type = "Ack" => p \in ClientAcks
         /\ p.to # "server" /\ p.type # "Ack" => p \in Replies
         /\ p.to # "server" /\ p.type = "Ack" => p \in ServerAcks
  BY NameAssumption DEF NetType, Requests, Replies, ServerAcks, ClientAcks, RequestTypes,
                        ReplyTypes, ReplyShape, Client

(* What the constructors make. *)
LEMMA RequestType ==
  ASSUME ClientType, NEW c \in Client, NEW type \in RequestTypes, NEW code \in MaybeCode
  PROVE  /\ Outgoing(c, type, code) \in OutPackets
         /\ Outgoing(c, type, code).type = type
         /\ Outgoing(c, type, code).id = <<c, sent[c] + 1>>
         /\ Outgoing(c, type, code).code = code
         /\ Outgoing(c, type, code).tries = 1
  BY TriesAssumption DEF ClientType, Outgoing, OutPackets, RequestId

LEMMA DatagramType ==
  ASSUME NEW c \in Client, NEW o \in OutPackets
  PROVE  /\ Datagram(c, o) \in Requests
         /\ Datagram(c, o).to = "server" /\ Datagram(c, o).from = c
         /\ Datagram(c, o).type = o.type /\ Datagram(c, o).id = o.id
         /\ Datagram(c, o).code = o.code
  BY DEF Datagram, ToServer, OutPackets, Requests

LEMMA ReplyType ==
  ASSUME ServerType, NEW type \in ReplyTypes, NEW dest \in Client,
         NEW addr \in Client \cup {None}, NEW req \in RequestId \cup {None}, NEW code \in MaybeCode,
         type = "HelloFromServer" => code \in Code,
         type = "PleaseSendPacket" => req \in RequestId,
         type \in {"PleaseSendPacket", "ConnectReady"} => addr \in Client
  PROVE  LET r == Reply(type, dest, addr, req, code)
         IN  /\ r \in Replies
             /\ r.to = dest /\ r.type = type /\ r.id = <<"server", served + 1>>
             /\ r.addr = addr /\ r.req = req /\ r.code = code
  BY DEF Reply, Replies, ReplyShape, ReplyId, ServerType

LEMMA KeptType ==
  ASSUME NEW r \in Replies, NEW n \in 0 .. Tries
  PROVE  /\ Kept(r, n) \in OutReplies
         /\ Kept(r, n).packet = r /\ Kept(r, n).id = r.id /\ Kept(r, n).tries = n
  BY DEF Kept, OutReplies, Replies, ReplyShape

LEMMA ServerAckType ==
  ASSUME NEW c \in Client, NEW id \in RequestId, NEW ok \in BOOLEAN
  PROVE  LET a == Ack(c, "server", id, ok)
         IN  a \in ServerAcks /\ a.to = c /\ a.type = "Ack" /\ a.id = id /\ a.ok = ok
  BY DEF Ack, ServerAcks

LEMMA ClientAckType ==
  ASSUME NEW c \in Client, NEW id \in ReplyId
  PROVE  LET a == Ack("server", c, id, TRUE)
         IN  a \in ClientAcks /\ a.to = "server" /\ a.type = "Ack" /\ a.id = id
  BY DEF Ack, ClientAcks

-----------------------------------------------------------------------------
(* The types. *)

LEMMA ReconnectTypes ==
  ASSUME Types, NEW c \in Client, ReconnectToServer(c)
  PROVE  /\ NetType'
         /\ state' \in [Client -> States]
         /\ out' \in [Client -> SUBSET OutPackets] /\ sent' \in [Client -> Nat]
  <1> DEFINE o == Outgoing(c, "HelloFromClient", None)
  <1>1. o \in OutPackets
    BY RequestType DEF Types, RequestTypes, MaybeCode
  <1>2. Datagram(c, o) \in Requests
    BY <1>1, DatagramType
  <1>3. net' = net \cup {Datagram(c, o)}
    BY DEF ReconnectToServer
  <1>4. /\ state' = [state EXCEPT ![c] = "Connecting"]
        /\ out' = [out EXCEPT ![c] = @ \cup {o}]
        /\ sent' = [sent EXCEPT ![c] = @ + 1]
    BY DEF ReconnectToServer, SendTraversalPacket
  <1> HIDE DEF o
  <1>5. NetType'
    BY <1>2, <1>3 DEF Types, NetType
  <1> QED
    BY <1>1, <1>4, <1>5 DEF Types, ClientType, States

LEMMA ClientStartTypes ==
  ASSUME Types,
         \/ HostStart \/ HostRetry
         \/ \E j \in Joiner : JoinEnds(j) \/ \E k \in given[Host] : Join(j, k)
  PROVE  Types'
  <1>1. CASE HostStart
    BY <1>1, ReconnectTypes DEF HostStart, Types, ClientType, ServerType, HistoryType, svars, bvars,
                                hvars, Client
  <1>2. CASE HostRetry
    BY <1>2, ReconnectTypes DEF HostRetry, Types, ClientType, ServerType, HistoryType, svars, hvars,
                                Client
  <1>3. ASSUME NEW j \in Joiner, NEW k \in given[Host], Join(j, k)
        PROVE  Types'
    <2>1. j \in Client /\ Host \in Client
      BY DEF Client
    <2>2. k \in MaybeCode
      BY <2>1 DEF Types, HistoryType, MaybeCode, Code
    <2> QED
      BY <1>3, <2>1, <2>2, ReconnectTypes
         DEF Join, Types, ClientType, ServerType, HistoryType, ConnStates, svars, bvars, hvars
  <1>4. ASSUME NEW j \in Joiner, JoinEnds(j)
        PROVE  Types'
    <2>1. j \in Client
      BY DEF Client
    <2>2. late' \in Nat
      BY <1>4 DEF JoinEnds, Types, HistoryType
    <2> QED
      BY <1>4, <2>1, <2>2 DEF JoinEnds, Types, NetType, ClientType, ServerType, HistoryType,
                              States, ConnStates, svars, hvars
  <1> QED
    BY <1>1, <1>2, <1>3, <1>4

LEMMA TimerTypes ==
  ASSUME HistoryType, NEW o, TimerExpired(o)
  PROVE  late' \in Nat
  BY DEF TimerExpired, HistoryType

LEMMA ClientTimerTypes ==
  ASSUME Types, NEW c \in Client, Resends(c) \/ HandlePing(c)
  PROVE  Types'
  <1>1. ASSUME NEW o \in out[c], ResendPacket(c, o)
        PROVE  Types'
    <2>1. o \in OutPackets /\ o.tries < Tries
      BY <1>1, TriesAssumption DEF Types, ClientType, ResendPacket, GivesUp, OutPackets
    <2>2. [o EXCEPT !.tries = @ + 1] \in OutPackets
      BY <2>1, TriesAssumption DEF OutPackets
    <2>3. NetType'
      BY <1>1, <2>1, DatagramType DEF ResendPacket, Types, NetType
    <2>4. out' \in [Client -> SUBSET OutPackets]
      BY <1>1, <2>2 DEF ResendPacket, Types, ClientType
    <2>5. late' \in Nat
      BY <1>1, TimerTypes DEF ResendPacket, Types
    <2> QED
      BY <1>1, <2>3, <2>4, <2>5 DEF ResendPacket, Types, ClientType, ServerType, HistoryType,
                                    svars, hvars
  <1>2. ASSUME NEW o \in out[c], ResendTimeout(c, o)
        PROVE  Types'
    <2>1. late' \in Nat
      BY <1>2, TimerTypes DEF ResendTimeout, Types
    <2> QED
      BY <1>2, <2>1 DEF ResendTimeout, OnFailure, Types, NetType, ClientType, ServerType,
                        HistoryType, States, ConnStates, svars, hvars
  <1>3. CASE HandlePing(c)
    <2> DEFINE o == Outgoing(c, "Ping", hostId[c])
    <2>1. o \in OutPackets
      BY RequestType DEF Types, ClientType, RequestTypes
    <2>2. Datagram(c, o) \in Requests
      BY <2>1, DatagramType
    <2>3. /\ net' = net \cup {Datagram(c, o)}
          /\ out' = [out EXCEPT ![c] = @ \cup {o}]
          /\ sent' = [sent EXCEPT ![c] = @ + 1]
      BY <1>3 DEF HandlePing, SendTraversalPacket
    <2> HIDE DEF o
    <2> QED
      BY <1>3, <2>1, <2>2, <2>3 DEF HandlePing, Types, NetType, ClientType, ServerType, HistoryType,
                                    svars, hvars
  <1> QED
    BY <1>1, <1>2, <1>3 DEF Resends

LEMMA AcknowledgeTypes ==
  ASSUME Types, NEW c \in Client, NEW p \in net, p.to = c, p.type # "Ack"
  PROVE  /\ p \in Replies
         /\ Ack("server", c, p.id, TRUE) \in ClientAcks
         /\ Acknowledge(c, p) = (net \ {p}) \cup {Ack("server", c, p.id, TRUE)}
         /\ Acknowledge(c, p) \subseteq Requests \cup Replies \cup ServerAcks \cup ClientAcks
  <1>1. p \in Replies
    BY PacketKinds, NameAssumption DEF Types, Client
  <1>2. Ack("server", c, p.id, TRUE) \in ClientAcks
    BY <1>1, ClientAckType DEF Replies, ReplyShape
  <1> QED
    BY <1>1, <1>2 DEF Acknowledge, Types, NetType

LEMMA ClientReceiveTypes ==
  ASSUME Types, NEW c \in Client, Receives(c)
  PROVE  Types'
  <1>1. PICK p \in net : HandleServerPacket(c, p)
    BY DEF Receives
  <1>2. p.to = c /\ UNCHANGED <<svars, bvars>>
    BY <1>1 DEF HandleServerPacket
  <1>3. ServerType' /\ lost' \in Nat /\ late' \in Nat /\ evicted' \in Nat
    BY <1>2 DEF Types, ServerType, HistoryType, svars, bvars
  <1>4. CASE OnAck(c, p)
    BY <1>3, <1>4 DEF OnAck, OnFailure, Types, NetType, ClientType, HistoryType, States, ConnStates,
                      hvars
  <1>5. CASE OnHelloFromServer(c, p)
    <2> DEFINE o == Outgoing(c, "ConnectPlease", spec[c])
    <2>1. o \in OutPackets
      BY RequestType DEF Types, ClientType, RequestTypes
    <2>2. Datagram(c, o) \in Requests
      BY <2>1, DatagramType
    <2> HIDE DEF o
    <2>3. p.type = "HelloFromServer" /\ p \in Replies
      BY <1>2, <1>5, AcknowledgeTypes DEF OnHelloFromServer
    <2>4. NetType'
      <3>1. net' \subseteq Acknowledge(c, p) \cup {Datagram(c, o)}
        BY <1>5 DEF OnHelloFromServer, o
      <3> QED
        BY <1>2, <2>2, <2>3, <3>1, AcknowledgeTypes DEF NetType
    <2>5. out' \in [Client -> SUBSET OutPackets] /\ sent' \in [Client -> Nat]
      <3>1. \/ out' = [out EXCEPT ![c] = @ \cup {o}] /\ sent' = [sent EXCEPT ![c] = @ + 1]
            \/ UNCHANGED <<out, sent>>
        BY <1>5 DEF OnHelloFromServer, SendTraversalPacket, o
      <3> QED
        BY <2>1, <3>1 DEF Types, ClientType
    <2>6. p.code \in Code /\ p.code \in MaybeCode
      BY <2>3 DEF Replies, MaybeCode
    <2>7. given' \in [Client -> SUBSET Nat]
      <3>1. given' \in {given, [given EXCEPT ![c] = @ \cup {p.code}]}
        BY <1>5 DEF OnHelloFromServer
      <3> QED
        BY <2>6, <3>1 DEF Types, HistoryType, Code
    <2>8. connectId' \in [Client -> RequestId \cup {None}]
      BY <1>5 DEF OnHelloFromServer, Types, ClientType, RequestId
    <2>9. /\ hostId' \in [Client -> MaybeCode]
          /\ state' \in [Client -> States]
          /\ connState' \in [Client -> ConnStates]
          /\ pending' \in [Client -> BOOLEAN]
      BY <1>5, <2>6 DEF OnHelloFromServer, Types, ClientType, States, ConnStates
    <2>10. UNCHANGED <<reason, spec, punched, answers, readyAddr>>
      BY <1>5 DEF OnHelloFromServer
    <2> QED
      BY <1>3, <2>4, <2>5, <2>7, <2>8, <2>9, <2>10 DEF Types, ClientType, HistoryType
  <1>6. CASE OnPleaseSendPacket(c, p)
    <2>1. p \in Replies /\ NetType'
      BY <1>2, <1>6, AcknowledgeTypes DEF OnPleaseSendPacket, NetType
    <2> QED
      BY <1>3, <1>6, <2>1 DEF OnPleaseSendPacket, Types, ClientType, HistoryType, Replies, ReplyShape
  <1>7. CASE OnConnectAnswer(c, p)
    <2>1. p.type # "Ack"
      BY <1>7 DEF OnConnectAnswer
    <2>2. p \in Replies /\ NetType'
      BY <1>2, <1>7, <2>1, AcknowledgeTypes DEF OnConnectAnswer, NetType
    <2>3. p.addr \in Client \cup {None}
      BY <2>2 DEF Replies, ReplyShape
    <2>4. pending' \in [Client -> BOOLEAN] /\ connState' \in [Client -> ConnStates]
      BY <1>7 DEF OnConnectAnswer, Types, ClientType, ConnStates
    <2>5. answers' \in [Client -> Nat] /\ readyAddr' \in [Client -> Client \cup {None}]
      BY <1>7, <2>3 DEF OnConnectAnswer, Types, HistoryType
    <2>6. UNCHANGED <<state, reason, hostId, out, sent, connectId, spec, given, punched>>
      BY <1>7 DEF OnConnectAnswer
    <2> QED
      BY <1>3, <2>2, <2>4, <2>5, <2>6 DEF Types, ClientType, HistoryType
  <1> QED
    BY <1>1, <1>4, <1>5, <1>6, <1>7 DEF HandleServerPacket

LEMMA AtMostOne ==
  ASSUME NEW r, NEW R \in {{}, {r}}
  PROVE  Cardinality(R) = IF R = {} THEN 0 ELSE 1
  <1>1. CASE R = {}
    BY <1>1, FS_EmptySet
  <1>2. CASE R = {r}
    BY <1>2, FS_Singleton
  <1> QED
    BY <1>1, <1>2

(* What the server does with a packet that is not an acknowledgement: it   *)
(* sends at most one reply, with the next id, and keeps it.                *)
LEMMA AnswerTypes ==
  ASSUME Types, NEW p \in net, NEW ok \in BOOLEAN, NEW r \in Replies, NEW R \in {{}, {r}},
         p.to = "server", p.type # "Ack", Answer(p, ok, R),
         UNCHANGED <<cvars, bvars, hvars>>, registered' \in Seq(Client \cup {None})
  PROVE  Types'
  <1>1. p \in Requests
    BY PacketKinds DEF Types
  <1>2. Ack(p.from, "server", p.id, ok) \in ServerAcks
    BY <1>1, ServerAckType DEF Requests
  <1>3. NetType'
    BY <1>2 DEF Answer, Types, NetType
  <1>4. outgoing' = outgoing \cup {Kept(x, 1) : x \in R}
    BY DEF Answer
  <1>5. Kept(r, 1) \in OutReplies /\ Kept(r, 1).id = Kept(r, 1).packet.id
    BY KeptType, TriesAssumption
  <1>6. Cardinality(R) \in Nat
    <2>1. Cardinality(R) = IF R = {} THEN 0 ELSE 1
      BY AtMostOne, Zenon
    <2> QED
      BY <2>1
  <1>7. served' \in Nat
    BY <1>6 DEF Answer, Types, ServerType
  <1>8. ServerType'
    BY <1>4, <1>5, <1>7 DEF Types, ServerType
  <1> QED
    BY <1>3, <1>8 DEF Types, ClientType, HistoryType, cvars, bvars, hvars

(* A PleaseSendPacket that is acknowledged becomes one ConnectReady.       *)
LEMMA AckEffect ==
  ASSUME Types, Ids, NEW p \in net, ServerOnAck(p)
  PROVE  \E r \in Replies : \E R \in {{}, {r}} :
           /\ R # {} => /\ r.type = "ConnectReady" /\ r.id = <<"server", served + 1>>
                        /\ \E o \in outgoing : /\ o.id = p.id /\ o.packet.type = "PleaseSendPacket"
                                               /\ r.to = o.packet.addr /\ r.addr = o.packet.to
           /\ net' = (net \ {p}) \cup R
           /\ outgoing' = {o \in outgoing : o.id # p.id} \cup {Kept(x, 1) : x \in R}
           /\ served' = served + Cardinality(R)
  <1> DEFINE found == {o \in outgoing : o.id = p.id}
             asked == {x \in found : x.packet.type = "PleaseSendPacket"}
             Ready(o) == Reply("ConnectReady", o.packet.addr, o.packet.to, o.packet.req, None)
             R == {Ready(o) : o \in asked}
  <1>1. /\ outgoing' = (outgoing \ found) \cup {Kept(x, 1) : x \in R}
        /\ net' = (net \ {p}) \cup R
        /\ served' = served + Cardinality(R)
    BY DEF ServerOnAck
  <1>2. outgoing \ found = {o \in outgoing : o.id # p.id}
    OBVIOUS
  <1>3. ASSUME NEW o \in asked
        PROVE  /\ Ready(o) \in Replies /\ Ready(o).type = "ConnectReady"
               /\ Ready(o).id = <<"server", served + 1>>
               /\ Ready(o).to = o.packet.addr /\ Ready(o).addr = o.packet.to
    <2>1. o \in OutReplies /\ o.packet \in Replies
      BY DEF Types, ServerType, OutReplies
    <2>2. o.packet.addr \in Client /\ o.packet.to \in Client /\ o.packet.req \in RequestId
      BY <2>1 DEF Replies, ReplyShape
    <2> QED
      BY <2>2, ReplyType DEF Types, ReplyTypes, MaybeCode
  <1>4. CASE asked = {}
    <2>1. R = {}
      BY <1>4
    <2>2. \E r : r \in Replies
      <3>1. Reply("ConnectFailed", Host, None, None, None) \in Replies
        BY ReplyType DEF Types, ReplyTypes, MaybeCode, Client
      <3> QED
        BY <3>1
    <2> HIDE DEF R, found
    <2> QED
      BY <1>1, <1>2, <2>1, <2>2
  <1>5. CASE asked # {}
    <2>1. PICK o \in asked : TRUE
      BY <1>5
    <2>2. \A x \in asked : x.packet = o.packet
      BY <2>1 DEF Ids
    <2>3. R = {Ready(o)}
      BY <2>1, <2>2
    <2>4. o \in outgoing /\ o.id = p.id /\ o.packet.type = "PleaseSendPacket"
      BY <2>1
    <2>5. /\ Ready(o) \in Replies /\ Ready(o).type = "ConnectReady"
          /\ Ready(o).id = <<"server", served + 1>>
          /\ Ready(o).to = o.packet.addr /\ Ready(o).addr = o.packet.to
      BY <1>3, <2>1
    <2> HIDE DEF R, found, Ready
    <2> QED
      BY <1>1, <1>2, <2>3, <2>4, <2>5
  <1> QED
    BY <1>4, <1>5

LEMMA ServerReceiveTypes ==
  ASSUME Types, Codes, Ids, ServerReceives
  PROVE  Types'
  <1>1. PICK p \in net : HandlePacket(p)
    BY DEF ServerReceives
  <1>2. p.to = "server" /\ UNCHANGED <<cvars, bvars, hvars>>
    BY <1>1 DEF HandlePacket
  <1>3. CASE ServerOnAck(p)
    <2>1. PICK r \in Replies : \E R \in {{}, {r}} :
            /\ net' = (net \ {p}) \cup R
            /\ outgoing' = {o \in outgoing : o.id # p.id} \cup {Kept(x, 1) : x \in R}
            /\ served' = served + Cardinality(R)
      BY <1>3, AckEffect
    <2>2. PICK R \in {{}, {r}} :
            /\ net' = (net \ {p}) \cup R
            /\ outgoing' = {o \in outgoing : o.id # p.id} \cup {Kept(x, 1) : x \in R}
            /\ served' = served + Cardinality(R)
      BY <2>1
    <2>3. Cardinality(R) = IF R = {} THEN 0 ELSE 1
      BY AtMostOne, Zenon
    <2>4. Kept(r, 1) \in OutReplies /\ Kept(r, 1).id = Kept(r, 1).packet.id
      BY KeptType, TriesAssumption
    <2>5. NetType'
      BY <2>2 DEF Types, NetType
    <2>6. ServerType'
      BY <1>3, <2>2, <2>3, <2>4 DEF Types, ServerType, ServerOnAck
    <2> QED
      BY <1>2, <2>5, <2>6 DEF Types, ClientType, HistoryType, cvars, bvars, hvars
  <1>4. CASE ServerOnPing(p)
    <2>1. Reply("ConnectFailed", Host, None, None, None) \in Replies
      BY ReplyType DEF Types, ReplyTypes, MaybeCode, Client
    <2> QED
      BY <1>2, <1>4, <2>1, AnswerTypes DEF ServerOnPing, Types, ServerType
  <1>5. CASE ServerOnHello(p)
    <2>1. p \in Requests /\ p.from \in Client /\ Len(registered) + 1 \in Nat
      BY <1>2, <1>5, PacketKinds DEF Types, ServerType, ServerOnHello, Requests
    <2>2. Reply("HelloFromServer", p.from, p.from, None, Len(registered) + 1) \in Replies
      <3>1. /\ Len(registered) + 1 \in Code /\ Len(registered) + 1 \in MaybeCode
            /\ "HelloFromServer" \in ReplyTypes
        BY <2>1 DEF Code, MaybeCode, ReplyTypes
      <3> QED
        BY <2>1, <3>1, ReplyType DEF Types
    <2>3. registered' \in Seq(Client \cup {None})
      BY <1>5, <2>1 DEF ServerOnHello, Types, ServerType
    <2> QED
      BY <1>2, <1>5, <2>2, <2>3, AnswerTypes DEF ServerOnHello
  <1>6. CASE ServerOnConnectPlease(p)
    <2>1. p \in Requests /\ p.from \in Client /\ p.id \in RequestId
      BY <1>2, <1>6, PacketKinds DEF Types, ServerOnConnectPlease, Requests
    <2> DEFINE h == registered[p.code]
               r == IF h = None THEN Reply("ConnectFailed", p.from, None, p.id, None)
                    ELSE Reply("PleaseSendPacket", h, p.from, p.id, None)
    <2>2. h \in {Host, None}
      BY <1>2, <1>6 DEF Codes, KnownCode, OwnCode, ServerOnConnectPlease, Client
    <2>3. r \in Replies
      BY <2>1, <2>2, ReplyType DEF Types, ReplyTypes, MaybeCode, Client
    <2>4. Answer(p, TRUE, {r}) /\ UNCHANGED registered /\ p.type # "Ack"
      BY <1>6 DEF ServerOnConnectPlease
    <2> HIDE DEF r
    <2> QED
      BY <1>2, <2>3, <2>4, AnswerTypes DEF Types, ServerType
  <1> QED
    BY <1>1, <1>3, <1>4, <1>5, <1>6 DEF HandlePacket

LEMMA ServerTimerTypes ==
  ASSUME Types, ServerResends
  PROVE  Types'
  <1>1. PICK o \in outgoing : ServerResend(o) \/ ServerGivesUp(o)
    BY DEF ServerResends
  <1>2. o \in OutReplies /\ o.packet \in Replies /\ o.tries \in 0 .. Tries
    BY DEF Types, ServerType, OutReplies
  <1>3. late' \in Nat
    BY <1>1, TimerTypes DEF ServerResend, ServerGivesUp, Types
  <1>4. CASE ServerResend(o)
    <2> DEFINE x == [o EXCEPT !.tries = @ + 1]
    <2>1. x \in OutReplies /\ x.id = x.packet.id
      BY <1>2, <1>4, TriesAssumption DEF ServerResend, GivesUp, OutReplies, Types, ServerType
    <2>2. outgoing' = (outgoing \ {o}) \cup {x} /\ net' = net \cup {o.packet}
      BY <1>4 DEF ServerResend
    <2> HIDE DEF x
    <2>3. NetType'
      BY <1>2, <2>2 DEF Types, NetType
    <2>4. ServerType'
      BY <1>4, <2>1, <2>2 DEF ServerResend, Types, ServerType
    <2> QED
      BY <1>3, <1>4, <2>3, <2>4 DEF ServerResend, Types, ClientType, HistoryType, cvars, hvars
  <1>5. CASE ServerGivesUp(o)
    <2> DEFINE r == Reply("ConnectFailed", o.packet.addr, None, o.packet.req, None)
               R == IF o.packet.type = "PleaseSendPacket" THEN {r} ELSE {}
    <2>1. o.packet.type = "PleaseSendPacket" => r \in Replies
      <3>1. o.packet.type = "PleaseSendPacket" =>
              o.packet.addr \in Client /\ o.packet.req \in RequestId
        BY <1>2 DEF Replies
      <3>2. "ConnectFailed" \in ReplyTypes /\ None \in MaybeCode
        BY DEF ReplyTypes, MaybeCode
      <3> QED
        BY <3>1, <3>2, ReplyType DEF Types
    <2>2. /\ outgoing' = (outgoing \ {o}) \cup {Kept(x, 0) : x \in R}
          /\ served' = served + Cardinality(R)
      BY <1>5 DEF ServerGivesUp
    <2> HIDE DEF r
    <2>3. Cardinality(R) = IF R = {} THEN 0 ELSE 1
      BY AtMostOne, Zenon
    <2>4. \A x \in R : Kept(x, 0) \in OutReplies /\ Kept(x, 0).id = Kept(x, 0).packet.id
      BY <2>1, KeptType, TriesAssumption
    <2> HIDE DEF R
    <2>5. ServerType'
      BY <1>5, <2>2, <2>3, <2>4 DEF ServerGivesUp, Types, ServerType
    <2> QED
      BY <1>3, <1>5, <2>5 DEF ServerGivesUp, Types, NetType, ClientType, HistoryType, cvars, hvars
  <1> QED
    BY <1>1, <1>4, <1>5

LEMMA NetworkTypes ==
  ASSUME Types,
         \/ \E k \in DOMAIN registered : Evict(k)
         \/ \E p \in net : Lose(p) \/ Undeliverable(p)
         \/ UNCHANGED vars
  PROVE  Types'
  <1>1. ASSUME NEW k \in DOMAIN registered, Evict(k)
        PROVE  Types'
    <2>1. registered' \in Seq(Client \cup {None})
      BY <1>1 DEF Evict, Types, ServerType
    <2> QED
      BY <1>1, <2>1 DEF Evict, Types, NetType, ClientType, ServerType, HistoryType, cvars, hvars
  <1>2. ASSUME NEW p \in net, Lose(p)
        PROVE  Types'
    BY <1>2 DEF Lose, Types, NetType, ClientType, ServerType, HistoryType, cvars, svars, hvars
  <1>3. ASSUME NEW p \in net, Undeliverable(p)
        PROVE  Types'
    BY <1>3 DEF Undeliverable, Types, NetType, ClientType, ServerType, HistoryType, cvars, svars,
                bvars, hvars
  <1>4. CASE UNCHANGED vars
    BY <1>4 DEF vars, Types, NetType, ClientType, ServerType, HistoryType, cvars, svars, bvars,
                hvars
  <1> QED
    BY <1>1, <1>2, <1>3, <1>4

-----------------------------------------------------------------------------
(* What a step does, whichever it is.  The packets it may add to what is    *)
(* kept and to what is on its way are told apart by where they come from;   *)
(* the invariants then follow without looking at the actions again.         *)

Overdue(o) == ~InFlight(o) \/ late < late'

OnItsWay(id) == \E p \in net' : p.id = id

FreshOut(c, o) ==
  /\ o.id = <<c, sent[c] + 1>> /\ o.tries = 1 /\ OnItsWay(o.id)
  /\ \/ o.type = "HelloFromClient"
     \/ o.type = "Ping" /\ state[c] = "Connected" /\ o.code = hostId[c]
     \/ /\ o.type = "ConnectPlease" /\ o.code = spec[c]
        /\ connState[c] = "WaitingForTraversalClientConnection"

RetriedOut(c, o) ==
  \E q \in out[c] : /\ o.type = q.type /\ o.id = q.id /\ o.code = q.code
                    /\ o.tries = q.tries + 1 /\ OnItsWay(o.id) /\ Overdue(q)

OutEffect == \A c \in Client : \A o \in out'[c] : o \in out[c] \/ FreshOut(c, o) \/ RetriedOut(c, o)

FreshReply(r) ==
  /\ r.id = <<"server", served + 1>> /\ served' = served + 1
  /\ \/ r.type = "HelloFromServer" /\ r.code \in DOMAIN registered' /\ registered'[r.code] = r.to
     \/ /\ r.type = "PleaseSendPacket"
        /\ \E p \in net : /\ p.to = "server" /\ p.type = "ConnectPlease"
                          /\ r.to = registered[p.code] /\ r.to # None
     \/ /\ r.type = "ConnectReady"
        /\ \E o \in outgoing : \E p \in net :
             /\ o.packet.type = "PleaseSendPacket" /\ p.to = "server" /\ p.id = o.id
             /\ r.to = o.packet.addr /\ r.addr = o.packet.to
     \/ r.type = "ConnectFailed"

(* A reply is tried once when it is made; the failure that replaces a      *)
(* PleaseSendPacket is kept first and sent later.                          *)
FreshTries(o) ==
  \/ o.tries = 1 /\ OnItsWay(o.id)
  \/ /\ o.tries = 0 /\ o.packet.type = "ConnectFailed"
     /\ \E q \in outgoing : q.packet.type = "PleaseSendPacket" /\ q.tries >= Tries /\ Overdue(q)

RetriedReply(o) ==
  \E q \in outgoing : /\ o.packet = q.packet /\ o.id = q.id
                      /\ o.tries = q.tries + 1 /\ OnItsWay(o.id) /\ Overdue(q)

OutgoingEffect ==
  \E r : \A o \in outgoing' : \/ o \in outgoing
                              \/ RetriedReply(o)
                              \/ o.packet = r /\ FreshReply(r) /\ FreshTries(o)

SentRequest(p) ==
  \E c \in Client : \E o \in out'[c] : /\ p.to = "server" /\ p.from = c /\ p.type = o.type
                                       /\ p.id = o.id /\ p.code = o.code

SentReply(p) == \E o \in outgoing' : p = o.packet

SentServerAck(p) ==
  \E q \in net : /\ q.to = "server" /\ q.type # "Ack"
                 /\ p.to = q.from /\ p.type = "Ack" /\ p.id = q.id
                 /\ ~p.ok => q.type = "Ping" /\ registered[q.code] = None

SentClientAck(p) ==
  \E q \in net : /\ q.to \in Client /\ q.type # "Ack"
                 /\ p.to = "server" /\ p.type = "Ack" /\ p.id = q.id
                 /\ q.type = "PleaseSendPacket" => <<q.to, q.addr>> \in punched'

NetEffect ==
  \A p \in net' : p \in net \/ SentRequest(p) \/ SentReply(p) \/ SentServerAck(p) \/ SentClientAck(p)

(* What disappears was lost, is replaced by its acknowledgement, or nobody *)
(* waits for it any more.                                                  *)
Settled(id) ==
  /\ \A c \in Client : \A o \in out'[c] : o.id # id
  /\ \A o \in outgoing' : o.packet.type = "PleaseSendPacket" => o.id # id

FlightEffect == \A p \in net : OnItsWay(p.id) \/ lost' = lost + 1 \/ evicted' # 0 \/ Settled(p.id)

CountEffect ==
  /\ served <= served' /\ evicted <= evicted' /\ late <= late' /\ lost <= lost'
  /\ \A k \in DOMAIN registered : k \in DOMAIN registered' /\ registered'[k] \in {registered[k], None}
  /\ \A k \in DOMAIN registered' : registered'[k] = None =>
       evicted' # 0 \/ (k \in DOMAIN registered /\ registered[k] = None)
  /\ punched \subseteq punched'

(* The code, and why the client gave up. *)
CodeEffect ==
  \A c \in Client :
    /\ given[c] \subseteq given'[c]
    /\ \A k \in given'[c] : \/ k \in given[c]
                            \/ \E p \in net : p.to = c /\ p.type = "HelloFromServer" /\ p.code = k
    /\ state'[c] = "Connected" => \/ hostId'[c] \in given'[c]
                                  \/ state[c] = "Connected" /\ hostId'[c] = hostId[c]
    /\ \/ reason'[c] = reason[c]
       \/ /\ reason'[c] = "ServerForgotAboutUs"
          /\ \E p \in net : p.to = c /\ p.type = "Ack" /\ ~p.ok
       \/ /\ reason'[c] = "ResendTimeout"
          /\ \E o \in out[c] : o.tries >= Tries /\ Overdue(o)

(* The attempt to connect. *)
AttemptEffect ==
  \A c \in Client :
    /\ connState'[c] = "WaitingForTraversalClientConnection" =>
         \/ spec'[c] \in given[Host]
         \/ connState[c] = "WaitingForTraversalClientConnection" /\ spec'[c] = spec[c]
    /\ connState'[c] = "Gone" => /\ state'[c] = "Off" /\ out'[c] = {}
                                /\ (connState[c] = "Gone" \/ c \in Joiner)
    /\ connState'[c] \in Asked => connState[c] \in Asked
    /\ \/ answers'[c] = answers[c] /\ (pending'[c] => pending[c])
       \/ /\ answers'[c] = answers[c] /\ connState[c] \in Asked /\ connState'[c] \notin Asked
       \/ /\ answers'[c] = answers[c] + 1 /\ pending[c] /\ ~pending'[c]
    /\ \/ readyAddr'[c] = readyAddr[c]
       \/ \E p \in net : p.to = c /\ p.type = "ConnectReady" /\ p.addr = readyAddr'[c]

Effects == /\ NetEffect /\ OutEffect /\ OutgoingEffect /\ FlightEffect
           /\ CountEffect /\ CodeEffect /\ AttemptEffect

LEMMA SendEffect ==
  ASSUME Types, NEW c \in Client, NEW type \in RequestTypes, NEW code \in MaybeCode, NEW N,
         SendTraversalPacket(c, type, code),
         net' = N \cup {Datagram(c, Outgoing(c, type, code))},
         \/ type = "HelloFromClient"
         \/ type = "Ping" /\ state[c] = "Connected" /\ code = hostId[c]
         \/ /\ type = "ConnectPlease" /\ code = spec[c]
            /\ connState[c] = "WaitingForTraversalClientConnection"
  PROVE  /\ OutEffect
         /\ SentRequest(Datagram(c, Outgoing(c, type, code)))
         /\ \A d \in Client \ {c} : out'[d] = out[d]
  <1> DEFINE o == Outgoing(c, type, code)
             p == Datagram(c, o)
  <1>1. /\ o \in OutPackets /\ o.type = type /\ o.id = <<c, sent[c] + 1>> /\ o.code = code
        /\ o.tries = 1
    BY RequestType DEF Types
  <1>2. /\ p.to = "server" /\ p.from = c /\ p.type = o.type /\ p.id = o.id /\ p.code = o.code
    BY <1>1, DatagramType
  <1>3. out' = [out EXCEPT ![c] = @ \cup {o}]
    BY DEF SendTraversalPacket
  <1>4. p \in net'
    OBVIOUS
  <1> HIDE DEF p, o
  <1>5. out \in [Client -> SUBSET OutPackets]
    BY DEF Types, ClientType
  <1>6. o \in out'[c] /\ out'[c] = out[c] \cup {o} /\ \A d \in Client \ {c} : out'[d] = out[d]
    BY <1>3, <1>5
  <1>7. SentRequest(p)
    BY <1>2, <1>6 DEF SentRequest
  <1>8. OnItsWay(o.id)
    BY <1>2, <1>4 DEF OnItsWay
  <1>9. FreshOut(c, o)
    BY <1>1, <1>8 DEF FreshOut
  <1>10. OutEffect
    BY <1>6, <1>9 DEF OutEffect
  <1> QED
    BY <1>6, <1>7, <1>10 DEF o, p

(* What is not touched has no effect to explain. *)
LEMMA KeepsOut == ASSUME UNCHANGED out PROVE OutEffect
  BY DEF OutEffect

LEMMA KeepsOutgoing == ASSUME UNCHANGED outgoing PROVE OutgoingEffect
  BY DEF OutgoingEffect

LEMMA KeepsPackets ==
  ASSUME net \subseteq net'
  PROVE  FlightEffect
  BY DEF FlightEffect, OnItsWay

LEMMA KeepsCounts ==
  ASSUME Types, UNCHANGED <<registered, served, evicted>>, late' \in {late, late + 1},
         lost' \in {lost, lost + 1}, punched \subseteq punched'
  PROVE  CountEffect
  BY DEF CountEffect, Types, ServerType, HistoryType

LEMMA KeepsCodes ==
  ASSUME UNCHANGED <<state, reason, hostId, given>>
  PROVE  CodeEffect
  BY DEF CodeEffect

LEMMA KeepsAttempts ==
  ASSUME Owners, UNCHANGED <<state, connState, pending, spec, answers, readyAddr>>,
         \A c \in Client : state[c] = "Off" => out'[c] \subseteq out[c]
  PROVE  AttemptEffect
  BY DEF AttemptEffect, Owners

LEMMA TimerEffect ==
  ASSUME HistoryType, NEW o, TimerExpired(o)
  PROVE  late' \in {late, late + 1} /\ Overdue(o)
  BY DEF TimerExpired, Overdue, HistoryType

LEMMA ReconnectEffect ==
  ASSUME Types, NEW c \in Client, ReconnectToServer(c)
  PROVE  /\ NetEffect /\ OutEffect /\ FlightEffect
         /\ \A d \in Client \ {c} : out'[d] = out[d]
         /\ state' = [state EXCEPT ![c] = "Connecting"]
  <1> DEFINE p == Datagram(c, Outgoing(c, "HelloFromClient", None))
  <1>1. "HelloFromClient" \in RequestTypes /\ None \in MaybeCode
    BY DEF RequestTypes, MaybeCode
  <1>2. /\ SendTraversalPacket(c, "HelloFromClient", None) /\ net' = net \cup {p}
        /\ state' = [state EXCEPT ![c] = "Connecting"]
    BY DEF ReconnectToServer
  <1>3. OutEffect /\ SentRequest(p) /\ \A d \in Client \ {c} : out'[d] = out[d]
    BY <1>1, <1>2, SendEffect
  <1> HIDE DEF p
  <1>4. NetEffect
    BY <1>2, <1>3 DEF NetEffect
  <1>5. FlightEffect
    BY <1>2, KeepsPackets
  <1> QED
    BY <1>2, <1>3, <1>4, <1>5

LEMMA ClientStartEffects ==
  ASSUME Types, Owners,
         \/ HostStart \/ HostRetry
         \/ \E j \in Joiner : JoinEnds(j) \/ \E k \in given[Host] : Join(j, k)
  PROVE  Effects
  <1>1. Host \in Client /\ Joiner \subseteq Client /\ Host \notin Joiner
    BY NameAssumption DEF Client
  <1>2. CASE HostStart \/ HostRetry
    <2>1. ReconnectToServer(Host) /\ UNCHANGED <<svars, hvars, lost, late, evicted>>
      BY <1>2 DEF HostStart, HostRetry, bvars
    <2>2. UNCHANGED <<reason, hostId, pending, connectId, connState, spec>>
      BY <1>2 DEF HostStart, HostRetry
    <2>3. /\ NetEffect /\ OutEffect /\ FlightEffect
          /\ \A d \in Client \ {Host} : out'[d] = out[d]
          /\ state' = [state EXCEPT ![Host] = "Connecting"]
      BY <1>1, <2>1, ReconnectEffect
    <2>4. OutgoingEffect /\ CountEffect
      BY <2>1, KeepsOutgoing, KeepsCounts DEF svars, hvars
    <2>5. CodeEffect
      BY <2>1, <2>2, <2>3 DEF CodeEffect, Types, ClientType, hvars
    <2>6. \A c \in Client : connState'[c] = "Gone" =>
            c # Host /\ state'[c] = state[c] /\ out'[c] = out[c]
      BY <1>1, <2>2, <2>3 DEF Owners, Types, ClientType
    <2>7. AttemptEffect
      BY <2>1, <2>2, <2>6 DEF AttemptEffect, Owners, hvars
    <2> QED
      BY <2>3, <2>4, <2>5, <2>7 DEF Effects
  <1>3. ASSUME NEW j \in Joiner, NEW k \in given[Host], Join(j, k)
        PROVE  Effects
    <2>1. j \in Client /\ ReconnectToServer(j) /\ UNCHANGED <<svars, bvars, hvars>>
      BY <1>1, <1>3 DEF Join
    <2>2. /\ UNCHANGED <<reason, hostId, pending, connectId>>
          /\ spec' = [spec EXCEPT ![j] = k] /\ connState[j] = "Waiting"
          /\ connState' = [connState EXCEPT ![j] = "WaitingForTraversalClientConnection"]
      BY <1>3 DEF Join
    <2>3. /\ NetEffect /\ OutEffect /\ FlightEffect
          /\ \A d \in Client \ {j} : out'[d] = out[d]
          /\ state' = [state EXCEPT ![j] = "Connecting"]
      BY <2>1, ReconnectEffect
    <2>4. OutgoingEffect /\ CountEffect
      BY <2>1, KeepsOutgoing, KeepsCounts DEF svars, bvars, hvars
    <2>5. CodeEffect
      BY <2>1, <2>2, <2>3 DEF CodeEffect, Types, ClientType, hvars
    <2>6. \A c \in Client : connState'[c] = "Gone" =>
            state'[c] = state[c] /\ out'[c] = out[c] /\ connState[c] = "Gone"
      BY <2>1, <2>2, <2>3 DEF Types, ClientType
    <2>7. \A c \in Client : c # j => connState'[c] = connState[c] /\ spec'[c] = spec[c]
      BY <2>2 DEF Types, ClientType
    <2>8. spec'[j] = k /\ connState[j] \in Asked
      BY <2>1, <2>2 DEF Types, ClientType, Asked
    <2>9. AttemptEffect
      BY <2>1, <2>2, <2>6, <2>7, <2>8 DEF AttemptEffect, Owners, hvars
    <2> QED
      BY <2>3, <2>4, <2>5, <2>9 DEF Effects
  <1>4. ASSUME NEW j \in Joiner, JoinEnds(j)
        PROVE  Effects
    <2>1. /\ j \in Client /\ UNCHANGED <<net, reason, hostId, sent, connectId, spec, svars, lost,
                                         evicted, hvars>>
          /\ connState' = [connState EXCEPT ![j] = "Gone"]
          /\ state' = [state EXCEPT ![j] = "Off"]
          /\ out' = [out EXCEPT ![j] = {}] /\ pending' = [pending EXCEPT ![j] = FALSE]
      BY <1>1, <1>4 DEF JoinEnds
    <2>2. late' \in {late, late + 1}
      BY <1>4 DEF JoinEnds
    <2>3. NetEffect /\ FlightEffect /\ OutgoingEffect /\ CountEffect
      BY <2>1, <2>2, KeepsPackets, KeepsOutgoing, KeepsCounts DEF NetEffect, svars, hvars
    <2>4. OutEffect
      BY <2>1 DEF OutEffect, Types, ClientType
    <2>5. CodeEffect
      BY <2>1 DEF CodeEffect, Types, ClientType, hvars
    <2>6. /\ connState'[j] = "Gone" /\ state'[j] = "Off" /\ out'[j] = {} /\ ~pending'[j]
          /\ \A c \in Client \ {j} : /\ connState'[c] = connState[c] /\ state'[c] = state[c]
                                     /\ out'[c] = out[c] /\ pending'[c] = pending[c]
      BY <2>1 DEF Types, ClientType
    <2>7. AttemptEffect
      BY <2>1, <2>6 DEF AttemptEffect, Owners, hvars, Asked
    <2> QED
      BY <2>3, <2>4, <2>5, <2>7 DEF Effects
  <1> QED
    BY <1>2, <1>3, <1>4

LEMMA ClientTimerEffects ==
  ASSUME Types, Owners, NEW c \in Client, Resends(c) \/ HandlePing(c)
  PROVE  Effects
  <1>1. ASSUME NEW o \in out[c], ResendPacket(c, o)
        PROVE  Effects
    <2> DEFINE x == [o EXCEPT !.tries = @ + 1]
               p == Datagram(c, o)
    <2>1. /\ state[c] # "Off" /\ TimerExpired(o) /\ net' = net \cup {p}
          /\ out' = [out EXCEPT ![c] = (@ \ {o}) \cup {x}]
          /\ UNCHANGED <<state, reason, hostId, pending, connState, spec, svars, lost, evicted, hvars>>
      BY <1>1 DEF ResendPacket
    <2>2. o \in OutPackets
      BY DEF Types, ClientType
    <2>3. x.type = o.type /\ x.id = o.id /\ x.code = o.code /\ x.tries = o.tries + 1
      BY <2>2 DEF OutPackets
    <2>4. p.to = "server" /\ p.from = c /\ p.type = o.type /\ p.id = o.id /\ p.code = o.code
      BY <2>2, DatagramType
    <2> HIDE DEF x, p
    <2>5. /\ x \in out'[c] /\ out'[c] = (out[c] \ {o}) \cup {x}
          /\ \A d \in Client \ {c} : out'[d] = out[d]
      BY <2>1 DEF Types, ClientType
    <2>6. late' \in {late, late + 1} /\ Overdue(o)
      BY <2>1, TimerEffect DEF Types
    <2>7. SentRequest(p)
      BY <2>3, <2>4, <2>5 DEF SentRequest
    <2>8. OnItsWay(x.id)
      BY <2>1, <2>3, <2>4 DEF OnItsWay
    <2>9. RetriedOut(c, x)
      BY <2>3, <2>6, <2>8 DEF RetriedOut
    <2>10. OutEffect
      BY <2>5, <2>9 DEF OutEffect
    <2>11. NetEffect
      BY <2>1, <2>7 DEF NetEffect
    <2>12. FlightEffect /\ OutgoingEffect /\ CountEffect /\ CodeEffect
      BY <2>1, <2>6, KeepsPackets, KeepsOutgoing, KeepsCounts, KeepsCodes DEF svars, hvars
    <2>13. AttemptEffect
      BY <2>1, <2>5, KeepsAttempts DEF hvars
    <2> QED
      BY <2>10, <2>11, <2>12, <2>13 DEF Effects
  <1>2. ASSUME NEW o \in out[c], ResendTimeout(c, o)
        PROVE  Effects
    <2>1. /\ state[c] # "Off" /\ TimerExpired(o) /\ o.tries >= Tries
          /\ out' = [out EXCEPT ![c] = {}]
          /\ state' = [state EXCEPT ![c] = "Failure"]
          /\ reason' = [reason EXCEPT ![c] = "ResendTimeout"]
          /\ UNCHANGED <<net, hostId, pending, spec, svars, lost, evicted, hvars>>
      BY <1>2 DEF ResendTimeout, OnFailure, GivesUp
    <2>2. /\ \A d \in Client \ {c} : connState'[d] = connState[d]
          /\ connState'[c] \in {"Failure", connState[c]}
      BY <1>2 DEF ResendTimeout, OnFailure, Types, ClientType
    <2>3. late' \in {late, late + 1} /\ Overdue(o)
      BY <2>1, TimerEffect DEF Types
    <2>4. NetEffect /\ FlightEffect /\ OutgoingEffect /\ CountEffect
      BY <2>1, <2>3, KeepsPackets, KeepsOutgoing, KeepsCounts DEF NetEffect, svars, hvars
    <2>5. OutEffect
      BY <2>1 DEF OutEffect, Types, ClientType
    <2>6. /\ state'[c] = "Failure" /\ reason'[c] = "ResendTimeout" /\ out'[c] = {}
          /\ \A d \in Client \ {c} :
               state'[d] = state[d] /\ reason'[d] = reason[d] /\ out'[d] = out[d]
      BY <2>1 DEF Types, ClientType
    <2>7. CodeEffect
      BY <2>1, <2>3, <2>6 DEF CodeEffect, hvars
    <2>8. AttemptEffect
      BY <2>1, <2>2, <2>6 DEF AttemptEffect, Owners, hvars, Asked
    <2> QED
      BY <2>4, <2>5, <2>7, <2>8 DEF Effects
  <1>3. CASE HandlePing(c)
    <2> DEFINE p == Datagram(c, Outgoing(c, "Ping", hostId[c]))
    <2>1. /\ state[c] = "Connected" /\ net' = net \cup {p}
          /\ SendTraversalPacket(c, "Ping", hostId[c])
          /\ UNCHANGED <<state, reason, hostId, pending, connState, spec, svars, lost, late,
                         evicted, hvars>>
      BY <1>3 DEF HandlePing
    <2>2. "Ping" \in RequestTypes /\ hostId[c] \in MaybeCode
      BY DEF RequestTypes, Types, ClientType
    <2>3. OutEffect /\ SentRequest(p) /\ \A d \in Client \ {c} : out'[d] = out[d]
      BY <2>1, <2>2, SendEffect
    <2> HIDE DEF p
    <2>4. NetEffect
      BY <2>1, <2>3 DEF NetEffect
    <2>5. FlightEffect /\ OutgoingEffect /\ CountEffect /\ CodeEffect
      BY <2>1, KeepsPackets, KeepsOutgoing, KeepsCounts, KeepsCodes DEF svars, hvars
    <2>6. AttemptEffect
      BY <2>1, <2>3, KeepsAttempts DEF hvars
    <2> QED
      BY <2>3, <2>4, <2>5, <2>6 DEF Effects
  <1> QED
    BY <1>1, <1>2, <1>3 DEF Resends

LEMMA AcknowledgeEffect ==
  ASSUME Types, NEW c \in Client, NEW p \in net, p.to = c, p.type # "Ack",
         Acknowledge(c, p) \subseteq net',
         \A q \in net' \ Acknowledge(c, p) : SentRequest(q),
         p.type = "PleaseSendPacket" => <<c, p.addr>> \in punched'
  PROVE  NetEffect /\ FlightEffect
  <1> DEFINE a == Ack("server", c, p.id, TRUE)
  <1>1. p \in Replies /\ Acknowledge(c, p) = (net \ {p}) \cup {a}
    BY AcknowledgeTypes
  <1>2. a.to = "server" /\ a.type = "Ack" /\ a.id = p.id
    BY DEF Ack
  <1> HIDE DEF a
  <1>3. SentClientAck(a)
    BY <1>2 DEF SentClientAck
  <1>4. NetEffect
    BY <1>1, <1>3 DEF NetEffect
  <1>5. FlightEffect
    BY <1>1, <1>2 DEF FlightEffect, OnItsWay
  <1> QED
    BY <1>4, <1>5

(* As long as no registration has expired, the server refuses nothing. *)
LEMMA RefusalEffect ==
  ASSUME Types, Codes, Refusals, NEW p \in net, p.to # "server", p.type = "Ack", ~p.ok
  PROVE  evicted # 0
  <1>1. p.to \in Client
    BY PacketKinds DEF Types
  <1>2. PICK k \in given[p.to] : registered[k] = None
    BY DEF Refusals, Forgotten
  <1> QED
    BY <1>1, <1>2 DEF Codes, OwnCode, Refusals

LEMMA OnAckEffects ==
  ASSUME Types, Codes, Refusals, Owners, NEW c \in Client, NEW p \in net, p.to = c,
         state[c] # "Off", OnAck(c, p), UNCHANGED <<svars, bvars>>
  PROVE  Effects
  <1>1. /\ p.type = "Ack" /\ net' = net \ {p}
        /\ UNCHANGED <<hostId, pending, spec, hvars>>
    BY DEF OnAck
  <1>2. c # "server" /\ p \in ServerAcks
    BY <1>1, PacketKinds, NameAssumption DEF Types, Client
  <1>3. p.ok \in BOOLEAN
    BY <1>2 DEF ServerAcks
  <1>4. NetEffect /\ OutgoingEffect /\ CountEffect
    BY <1>1, KeepsOutgoing, KeepsCounts DEF NetEffect, svars, bvars, hvars
  <1>5. CASE p.ok
    <2>1. /\ out' = [out EXCEPT ![c] = {o \in @ : o.id # p.id}]
          /\ UNCHANGED <<state, reason, connState>>
      BY <1>5 DEF OnAck
    <2>2. /\ out'[c] = {o \in out[c] : o.id # p.id}
          /\ \A d \in Client \ {c} : out'[d] = out[d]
      BY <2>1 DEF Types, ClientType
    <2>3. OutEffect
      BY <2>2 DEF OutEffect
    <2>4. CodeEffect
      BY <1>1, <2>1, KeepsCodes DEF hvars
    <2>5. AttemptEffect
      BY <1>1, <2>1, <2>2, KeepsAttempts DEF hvars
    <2>6. p.id[1] = c
      BY <1>1, <1>2 DEF Owners
    <2>7. \A d \in Client : \A o \in out'[d] : o.id # p.id
      BY <2>2, <2>6 DEF Owners
    <2>8. \A o \in outgoing' : o.id # p.id
      <3>1. \A o \in outgoing : o.id[1] = "server"
        BY DEF Types, ServerType, OutReplies, ReplyId
      <3> QED
        BY <1>2, <2>6, <3>1 DEF svars
    <2>9. FlightEffect
      BY <1>1, <2>7, <2>8 DEF FlightEffect, OnItsWay, Settled
    <2> QED
      BY <1>4, <2>3, <2>4, <2>5, <2>9 DEF Effects
  <1>6. CASE ~p.ok
    <2>1. /\ state' = [state EXCEPT ![c] = "Failure"]
          /\ reason' = [reason EXCEPT ![c] = "ServerForgotAboutUs"]
          /\ UNCHANGED out
      BY <1>6 DEF OnAck, OnFailure
    <2>2. /\ \A d \in Client \ {c} : connState'[d] = connState[d]
          /\ connState'[c] \in {"Failure", connState[c]}
      BY <1>6 DEF OnAck, OnFailure, Types, ClientType
    <2>3. /\ state'[c] = "Failure" /\ reason'[c] = "ServerForgotAboutUs"
          /\ \A d \in Client \ {c} : state'[d] = state[d] /\ reason'[d] = reason[d]
      BY <2>1 DEF Types, ClientType
    <2>4. CodeEffect
      BY <1>1, <1>6, <2>3 DEF CodeEffect, hvars
    <2>5. AttemptEffect
      BY <1>1, <2>1, <2>2, <2>3 DEF AttemptEffect, Owners, hvars, Asked
    <2>6. FlightEffect
      BY <1>1, <1>2, <1>6, RefusalEffect DEF FlightEffect, bvars
    <2> QED
      BY <1>4, <2>1, <2>4, <2>5, <2>6, KeepsOut DEF Effects
  <1> QED
    BY <1>3, <1>5, <1>6

LEMMA OnHelloEffects ==
  ASSUME Types, Owners, NEW c \in Client, NEW p \in net, p.to = c,
         state[c] # "Off", OnHelloFromServer(c, p), UNCHANGED <<svars, bvars>>
  PROVE  Effects
  <1> DEFINE d == Datagram(c, Outgoing(c, "ConnectPlease", spec[c]))
             Waits == connState[c] = "WaitingForTraversalClientConnection"
  <1>1. p.type = "HelloFromServer" /\ UNCHANGED <<reason, spec, punched, answers, readyAddr>>
    BY DEF OnHelloFromServer
  <1>2. OutgoingEffect /\ CountEffect
    BY <1>1, KeepsOutgoing, KeepsCounts DEF svars, bvars
  <1>3. CASE state[c] # "Connecting"
    <2>1. net' = Acknowledge(c, p) /\ UNCHANGED <<hostId, given, state, connState, out, pending>>
      BY <1>3 DEF OnHelloFromServer
    <2>2. NetEffect /\ FlightEffect
      BY <1>1, <2>1, AcknowledgeEffect
    <2> QED
      BY <1>1, <1>2, <2>1, <2>2, KeepsOut, KeepsCodes, KeepsAttempts DEF Effects
  <1>4. CASE state[c] = "Connecting"
    <2>1. /\ hostId' = [hostId EXCEPT ![c] = p.code]
          /\ given' = [given EXCEPT ![c] = @ \cup {p.code}]
          /\ state' = [state EXCEPT ![c] = "Connected"]
      BY <1>4 DEF OnHelloFromServer
    <2>2. /\ hostId'[c] = p.code /\ given'[c] = given[c] \cup {p.code} /\ state'[c] = "Connected"
          /\ \A b \in Client \ {c} :
               hostId'[b] = hostId[b] /\ given'[b] = given[b] /\ state'[b] = state[b]
      BY <2>1 DEF Types, ClientType, HistoryType
    <2>3. CodeEffect
      BY <1>1, <2>2 DEF CodeEffect
    <2>4. CASE Waits
      <3>1. /\ connState' = [connState EXCEPT ![c] = "WaitingForTraversalClientConnectReady"]
            /\ SendTraversalPacket(c, "ConnectPlease", spec[c])
            /\ pending' = [pending EXCEPT ![c] = TRUE]
            /\ net' = Acknowledge(c, p) \cup {d}
        BY <1>4, <2>4 DEF OnHelloFromServer
      <3>2. "ConnectPlease" \in RequestTypes /\ spec[c] \in MaybeCode
        BY DEF RequestTypes, Types, ClientType
      <3>3. OutEffect /\ SentRequest(d) /\ \A b \in Client \ {c} : out'[b] = out[b]
        BY <2>4, <3>1, <3>2, SendEffect
      <3> HIDE DEF d
      <3>4. NetEffect /\ FlightEffect
        BY <1>1, <3>1, <3>3, AcknowledgeEffect
      <3>5. /\ connState'[c] = "WaitingForTraversalClientConnectReady"
            /\ \A b \in Client \ {c} : connState'[b] = connState[b] /\ pending'[b] = pending[b]
        BY <3>1 DEF Types, ClientType
      <3>6. AttemptEffect
        BY <1>1, <2>2, <2>4, <3>3, <3>5 DEF AttemptEffect, Owners, Asked
      <3> QED
        BY <1>2, <2>3, <3>3, <3>4, <3>6 DEF Effects
    <2>5. CASE ~Waits
      <3>1. net' = Acknowledge(c, p) /\ UNCHANGED <<connState, out, pending>>
        BY <1>4, <2>5 DEF OnHelloFromServer
      <3>2. NetEffect /\ FlightEffect
        BY <1>1, <3>1, AcknowledgeEffect
      <3>3. AttemptEffect
        BY <1>1, <2>2, <3>1 DEF AttemptEffect, Owners
      <3> QED
        BY <1>2, <2>3, <3>1, <3>2, <3>3, KeepsOut DEF Effects
    <2> QED
      BY <2>4, <2>5
  <1> QED
    BY <1>3, <1>4

LEMMA ClientReceiveEffects ==
  ASSUME Types, Codes, Refusals, Owners, NEW c \in Client, Receives(c)
  PROVE  Effects
  <1>1. PICK p \in net : HandleServerPacket(c, p)
    BY DEF Receives
  <1>2. p.to = c /\ state[c] # "Off" /\ UNCHANGED <<svars, bvars>>
    BY <1>1 DEF HandleServerPacket
  <1>3. CASE OnAck(c, p)
    BY <1>2, <1>3, OnAckEffects
  <1>4. CASE OnHelloFromServer(c, p)
    BY <1>2, <1>4, OnHelloEffects
  <1>5. CASE OnPleaseSendPacket(c, p)
    <2>1. /\ p.type = "PleaseSendPacket" /\ punched' = punched \cup {<<c, p.addr>>}
          /\ net' = Acknowledge(c, p)
          /\ UNCHANGED <<state, reason, hostId, out, sent, pending, connectId, connState, spec,
                         given, answers, readyAddr>>
      BY <1>5 DEF OnPleaseSendPacket
    <2>2. NetEffect /\ FlightEffect
      BY <1>2, <2>1, AcknowledgeEffect
    <2>3. CountEffect
      BY <1>2, <2>1, KeepsCounts DEF svars, bvars
    <2> QED
      BY <1>2, <2>1, <2>2, <2>3, KeepsOut, KeepsOutgoing, KeepsCodes, KeepsAttempts
         DEF Effects, svars
  <1>6. CASE OnConnectAnswer(c, p)
    <2>1. /\ p.type \in {"ConnectReady", "ConnectFailed"} /\ net' = Acknowledge(c, p)
          /\ UNCHANGED <<state, reason, hostId, out, sent, connectId, spec, given, punched>>
      BY <1>6 DEF OnConnectAnswer
    <2>2. NetEffect /\ FlightEffect
      BY <1>2, <2>1, AcknowledgeEffect
    <2>3. CountEffect
      BY <1>2, <2>1, KeepsCounts DEF svars, bvars
    <2>4. AttemptEffect
      <3>1. CASE ~Awaited(c, p)
        BY <1>6, <2>1, <3>1, KeepsAttempts DEF OnConnectAnswer
      <3>2. CASE Awaited(c, p)
        <4>1. pending[c] /\ pending' = [pending EXCEPT ![c] = FALSE]
          BY <1>6, <3>2 DEF OnConnectAnswer, Awaited
        <4>2. answers' = [answers EXCEPT ![c] = @ + 1]
          BY <1>6, <3>2 DEF OnConnectAnswer
        <4>3. /\ ~pending'[c] /\ answers'[c] = answers[c] + 1
              /\ \A d \in Client \ {c} : pending'[d] = pending[d] /\ answers'[d] = answers[d]
          BY <4>1, <4>2 DEF Types, ClientType, HistoryType
        <4>4. /\ connState'[c] \in {connState[c], "Connecting", "Failure"}
              /\ \A d \in Client \ {c} : connState'[d] = connState[d]
          BY <1>6, <3>2 DEF OnConnectAnswer, Types, ClientType
        <4>5. /\ \/ readyAddr'[c] = readyAddr[c]
                 \/ p.type = "ConnectReady" /\ readyAddr'[c] = p.addr
              /\ \A d \in Client \ {c} : readyAddr'[d] = readyAddr[d]
          <5>1. \/ readyAddr' = readyAddr
                \/ p.type # "ConnectFailed" /\ readyAddr' = [readyAddr EXCEPT ![c] = p.addr]
            BY <1>6, <3>2 DEF OnConnectAnswer
          <5>2. readyAddr \in [Client -> Client \cup {None}]
            BY DEF Types, HistoryType
          <5>3. CASE readyAddr' = readyAddr
            BY <5>3
          <5>4. CASE p.type # "ConnectFailed" /\ readyAddr' = [readyAddr EXCEPT ![c] = p.addr]
            <6>1. readyAddr'[c] = p.addr /\ \A d \in Client \ {c} : readyAddr'[d] = readyAddr[d]
              BY <5>2, <5>4
            <6> QED
              BY <2>1, <5>4, <6>1
          <5> QED
            BY <5>1, <5>3, <5>4
        <4> QED
          BY <1>2, <2>1, <4>1, <4>3, <4>4, <4>5 DEF AttemptEffect, Owners, Asked
      <3> QED
        BY <3>1, <3>2
    <2> QED
      BY <1>2, <2>1, <2>2, <2>3, <2>4, KeepsOut, KeepsOutgoing, KeepsCodes DEF Effects, svars
  <1> QED
    BY <1>1, <1>3, <1>4, <1>5, <1>6 DEF HandleServerPacket

(* What the server sends in answer to a request explains itself. *)
LEMMA AnswerEffects ==
  ASSUME Types, Owners, NEW p \in net, NEW ok \in BOOLEAN, NEW r \in Replies, NEW R \in {{}, {r}},
         p.to = "server", p.type # "Ack", Answer(p, ok, R),
         UNCHANGED <<cvars, bvars, hvars>>,
         ~ok => p.type = "Ping" /\ registered[p.code] = None,
         R = {r} => /\ r.id = <<"server", served + 1>>
                    /\ served' = served + 1 => FreshReply(r)
  PROVE  NetEffect /\ OutEffect /\ OutgoingEffect /\ FlightEffect /\ CodeEffect /\ AttemptEffect
  <1> DEFINE a == Ack(p.from, "server", p.id, ok)
  <1>1. a.to = p.from /\ a.type = "Ack" /\ a.id = p.id /\ a.ok = ok
    BY DEF Ack
  <1>2. /\ net' = (net \ {p}) \cup {a} \cup R
        /\ outgoing' = outgoing \cup {Kept(x, 1) : x \in R}
        /\ served' = served + Cardinality(R)
    BY DEF Answer
  <1> HIDE DEF a
  <1>3. SentServerAck(a)
    BY <1>1 DEF SentServerAck
  <1>4. FlightEffect
    BY <1>1, <1>2 DEF FlightEffect, OnItsWay
  <1>5. Kept(r, 1).packet = r /\ Kept(r, 1).id = r.id /\ Kept(r, 1).tries = 1
    BY KeptType, TriesAssumption
  <1>6. NetEffect
    <2>1. ASSUME NEW x \in R PROVE SentReply(x)
      BY <1>2, <1>5, <2>1 DEF SentReply
    <2> QED
      BY <1>2, <1>3, <2>1 DEF NetEffect
  <1>7. OutgoingEffect
    <2>1. CASE R = {}
      BY <1>2, <2>1 DEF OutgoingEffect
    <2>2. CASE R # {}
      <3>1. R = {r}
        BY <2>2
      <3>2. Cardinality(R) = 1
        BY <2>2, AtMostOne, Zenon
      <3>3. served' = served + 1
        BY <1>2, <3>2
      <3>4. FreshReply(r)
        BY <3>1, <3>3
      <3>5. FreshTries(Kept(r, 1))
        BY <1>2, <1>5, <3>1 DEF FreshTries, OnItsWay
      <3> QED
        BY <1>2, <1>5, <3>1, <3>4, <3>5 DEF OutgoingEffect
    <2> QED
      BY <2>1, <2>2
  <1> QED
    BY <1>4, <1>6, <1>7, KeepsOut, KeepsCodes, KeepsAttempts DEF cvars, hvars

LEMMA KeepsRegistered ==
  ASSUME Types, UNCHANGED <<registered, bvars, hvars>>, served <= served'
  PROVE  CountEffect
  BY DEF CountEffect, Types, ServerType, HistoryType, bvars, hvars

LEMMA ServesMore ==
  ASSUME Types, NEW r, NEW R \in {{}, {r}}, served' = served + Cardinality(R)
  PROVE  served <= served'
  <1>1. Cardinality(R) = IF R = {} THEN 0 ELSE 1
    BY AtMostOne, Zenon
  <1> QED
    BY <1>1 DEF Types, ServerType

LEMMA ServerReceiveEffects ==
  ASSUME Types, Codes, Ids, Owners, ServerReceives
  PROVE  Effects
  <1>1. PICK p \in net : HandlePacket(p)
    BY DEF ServerReceives
  <1>2. p.to = "server" /\ UNCHANGED <<cvars, bvars, hvars>>
    BY <1>1 DEF HandlePacket
  <1>3. CASE ServerOnAck(p)
    <2>1. PICK r \in Replies : \E R \in {{}, {r}} :
           /\ R # {} => /\ r.type = "ConnectReady" /\ r.id = <<"server", served + 1>>
                        /\ \E o \in outgoing : /\ o.id = p.id /\ o.packet.type = "PleaseSendPacket"
                                               /\ r.to = o.packet.addr /\ r.addr = o.packet.to
           /\ net' = (net \ {p}) \cup R
           /\ outgoing' = {o \in outgoing : o.id # p.id} \cup {Kept(x, 1) : x \in R}
           /\ served' = served + Cardinality(R)
      BY <1>3, AckEffect
    <2>2. PICK R \in {{}, {r}} :
           /\ R # {} => /\ r.type = "ConnectReady" /\ r.id = <<"server", served + 1>>
                        /\ \E o \in outgoing : /\ o.id = p.id /\ o.packet.type = "PleaseSendPacket"
                                               /\ r.to = o.packet.addr /\ r.addr = o.packet.to
           /\ net' = (net \ {p}) \cup R
           /\ outgoing' = {o \in outgoing : o.id # p.id} \cup {Kept(x, 1) : x \in R}
           /\ served' = served + Cardinality(R)
      BY <2>1
    <2>3. UNCHANGED registered /\ p.type = "Ack"
      BY <1>3 DEF ServerOnAck
    <2>4. CountEffect
      <3>1. served <= served'
        BY <2>2, ServesMore
      <3> QED
        BY <1>2, <2>3, <3>1, KeepsRegistered
    <2>5. Kept(r, 1).packet = r /\ Kept(r, 1).id = r.id /\ Kept(r, 1).tries = 1
      BY KeptType, TriesAssumption
    <2>6. NetEffect
      <3>1. ASSUME NEW x \in R PROVE SentReply(x)
        BY <2>2, <2>5, <3>1 DEF SentReply
      <3> QED
        BY <2>2, <3>1 DEF NetEffect
    <2>7. R # {} => FreshReply(r) /\ FreshTries(Kept(r, 1))
      <3>1. R # {} => served' = served + 1
        <4>1. Cardinality(R) = IF R = {} THEN 0 ELSE 1
          BY AtMostOne, Zenon
        <4> QED
          BY <2>2, <4>1
      <3> QED
        BY <1>2, <2>2, <2>5, <3>1 DEF FreshReply, FreshTries, OnItsWay
    <2>8. OutgoingEffect
      <3>1. \A o \in outgoing' : o \in outgoing \/ (R # {} /\ o = Kept(r, 1))
        BY <2>2
      <3> QED
        BY <2>5, <2>7, <3>1 DEF OutgoingEffect
    <2>9. FlightEffect
      <3>1. p \in ClientAcks
        BY <1>2, <2>3, PacketKinds DEF Types
      <3>2. p.id \in ReplyId
        BY <3>1 DEF ClientAcks
      <3>3. \A c \in Client : \A o \in out'[c] : o.id # p.id
        <4>1. \A c \in Client : \A o \in out[c] : o.id[1] = c
          BY DEF Owners
        <4>2. p.id[1] = "server" /\ "server" \notin Client
          BY <3>2, NameAssumption DEF ReplyId, Client
        <4>3. UNCHANGED out
          BY <1>2 DEF cvars
        <4> QED
          BY <4>1, <4>2, <4>3
      <3>4. \A o \in outgoing' : o.packet.type = "PleaseSendPacket" => o.id # p.id
        BY <2>2, <2>5
      <3>5. Settled(p.id)
        BY <3>3, <3>4 DEF Settled
      <3> QED
        BY <2>2, <3>5 DEF FlightEffect, OnItsWay
    <2>10. OutEffect /\ CodeEffect /\ AttemptEffect
      BY <1>2, KeepsOut, KeepsCodes, KeepsAttempts DEF cvars, hvars
    <2> QED
      BY <2>4, <2>6, <2>8, <2>9, <2>10 DEF Effects
  <1>4. CASE ServerOnPing(p)
    <2> DEFINE r == Reply("ConnectFailed", Host, None, None, None)
    <2>1. r \in Replies
      BY ReplyType DEF Types, ReplyTypes, MaybeCode, Client
    <2> HIDE DEF r
    <2>2. /\ Answer(p, registered[p.code] # None, {}) /\ UNCHANGED registered /\ p.type = "Ping"
      BY <1>4 DEF ServerOnPing
    <2>3. {} \in {{}, {r}} /\ {} # {r}
      OBVIOUS
    <2>4. NetEffect /\ OutEffect /\ OutgoingEffect /\ FlightEffect /\ CodeEffect /\ AttemptEffect
      BY <1>2, <2>1, <2>2, <2>3, AnswerEffects
    <2>5. served <= served'
      BY <2>2, <2>3, ServesMore DEF Answer
    <2> QED
      BY <1>2, <2>2, <2>4, <2>5, KeepsRegistered DEF Effects
  <1>5. CASE ServerOnHello(p)
    <2> DEFINE k == Len(registered) + 1
               r == Reply("HelloFromServer", p.from, p.from, None, k)
    <2>1. p \in Requests /\ p.from \in Client /\ k \in Nat
      BY <1>2, <1>5, PacketKinds DEF Types, ServerType, ServerOnHello, Requests
    <2>2. /\ r \in Replies /\ r.type = "HelloFromServer" /\ r.id = <<"server", served + 1>>
          /\ r.to = p.from /\ r.code = k
      <3>1. k \in Code /\ k \in MaybeCode /\ "HelloFromServer" \in ReplyTypes
        BY <2>1 DEF Code, MaybeCode, ReplyTypes
      <3>2. r \in Replies
        BY <2>1, <3>1, ReplyType DEF Types
      <3> QED
        BY <3>2 DEF Reply
    <2>3. /\ registered' = Append(registered, p.from) /\ Answer(p, TRUE, {r})
          /\ p.type = "HelloFromClient"
      BY <1>5 DEF ServerOnHello
    <2> HIDE DEF r
    <2>4. /\ k \in DOMAIN registered' /\ registered'[k] = p.from
          /\ \A i \in DOMAIN registered : i \in DOMAIN registered' /\ registered'[i] = registered[i]
          /\ \A i \in DOMAIN registered' : i = k \/ i \in DOMAIN registered
      BY <2>1, <2>3 DEF Types, ServerType
    <2>5. served' = served + 1 => FreshReply(r)
      BY <2>2, <2>4 DEF FreshReply
    <2>6. NetEffect /\ OutEffect /\ OutgoingEffect /\ FlightEffect /\ CodeEffect /\ AttemptEffect
      BY <1>2, <2>2, <2>3, <2>5, AnswerEffects
    <2>7. served <= served'
      BY <2>3, ServesMore DEF Answer
    <2>8. p.from # None
      BY <2>1, NameAssumption DEF Client
    <2>9. CountEffect
      BY <1>2, <2>4, <2>7, <2>8 DEF CountEffect, Types, HistoryType, bvars, hvars
    <2> QED
      BY <2>6, <2>9 DEF Effects
  <1>6. CASE ServerOnConnectPlease(p)
    <2> DEFINE h == registered[p.code]
               r == IF h = None THEN Reply("ConnectFailed", p.from, None, p.id, None)
                    ELSE Reply("PleaseSendPacket", h, p.from, p.id, None)
    <2>1. p \in Requests /\ p.from \in Client /\ p.id \in RequestId /\ p.type = "ConnectPlease"
      BY <1>2, <1>6, PacketKinds DEF Types, ServerOnConnectPlease, Requests
    <2>2. h \in {Host, None}
      BY <1>2, <2>1 DEF Codes, KnownCode, OwnCode, Client
    <2>3. /\ r \in Replies /\ r.id = <<"server", served + 1>>
          /\ \/ r.type = "ConnectFailed"
             \/ r.type = "PleaseSendPacket" /\ r.to = h /\ h # None
      <3>1. r \in Replies
        BY <2>1, <2>2, ReplyType DEF Types, ReplyTypes, MaybeCode, Client
      <3> QED
        BY <3>1 DEF Reply
    <2>4. Answer(p, TRUE, {r}) /\ UNCHANGED registered
      BY <1>6 DEF ServerOnConnectPlease
    <2> HIDE DEF r
    <2>5. served' = served + 1 => FreshReply(r)
      BY <1>2, <2>1, <2>3 DEF FreshReply
    <2>6. NetEffect /\ OutEffect /\ OutgoingEffect /\ FlightEffect /\ CodeEffect /\ AttemptEffect
      BY <1>2, <2>1, <2>3, <2>4, <2>5, AnswerEffects
    <2>7. served <= served'
      BY <2>4, ServesMore DEF Answer
    <2> QED
      BY <1>2, <2>4, <2>6, <2>7, KeepsRegistered DEF Effects
  <1> QED
    BY <1>1, <1>3, <1>4, <1>5, <1>6 DEF HandlePacket

LEMMA ServerTimerEffects ==
  ASSUME Types, Owners, ServerResends
  PROVE  Effects
  <1>1. PICK o \in outgoing : ServerResend(o) \/ ServerGivesUp(o)
    BY DEF ServerResends
  <1>2. /\ o \in OutReplies /\ o.packet \in Replies /\ o.id = o.packet.id
        /\ TimerExpired(o) /\ UNCHANGED <<cvars, registered, lost, evicted, hvars>>
    BY <1>1 DEF Types, ServerType, OutReplies, ServerResend, ServerGivesUp
  <1>3. late' \in {late, late + 1} /\ Overdue(o)
    BY <1>2, TimerEffect DEF Types
  <1>4. OutEffect /\ CodeEffect /\ AttemptEffect
    BY <1>2, KeepsOut, KeepsCodes, KeepsAttempts DEF cvars, hvars
  <1>5. CASE ServerResend(o)
    <2> DEFINE x == [o EXCEPT !.tries = @ + 1]
    <2>1. x.packet = o.packet /\ x.id = o.id /\ x.tries = o.tries + 1
      BY <1>2 DEF OutReplies
    <2>2. /\ outgoing' = (outgoing \ {o}) \cup {x} /\ net' = net \cup {o.packet}
          /\ UNCHANGED served
      BY <1>5 DEF ServerResend
    <2> HIDE DEF x
    <2>3. NetEffect
      BY <2>1, <2>2 DEF NetEffect, SentReply
    <2>4. FlightEffect
      BY <2>2, KeepsPackets
    <2>5. RetriedReply(x)
      BY <1>2, <1>3, <2>1, <2>2 DEF RetriedReply, OnItsWay
    <2>6. OutgoingEffect
      BY <2>2, <2>5 DEF OutgoingEffect
    <2>7. CountEffect
      BY <1>2, <1>3, <2>2, KeepsCounts DEF hvars
    <2> QED
      BY <1>4, <2>3, <2>4, <2>6, <2>7 DEF Effects
  <1>6. CASE ServerGivesUp(o)
    <2> DEFINE r == Reply("ConnectFailed", o.packet.addr, None, o.packet.req, None)
               R == IF o.packet.type = "PleaseSendPacket" THEN {r} ELSE {}
    <2>1. /\ outgoing' = (outgoing \ {o}) \cup {Kept(x, 0) : x \in R}
          /\ served' = served + Cardinality(R) /\ UNCHANGED net /\ o.tries >= Tries
      BY <1>6 DEF ServerGivesUp, GivesUp
    <2>2. r.type = "ConnectFailed" /\ r.id = <<"server", served + 1>>
      BY DEF Reply
    <2>3. Kept(r, 0).packet = r /\ Kept(r, 0).tries = 0
      BY DEF Kept
    <2> HIDE DEF r
    <2>4. NetEffect /\ FlightEffect
      BY <2>1, KeepsPackets DEF NetEffect
    <2>5. served <= served' /\ (R = {r} => served' = served + 1)
      <3>1. Cardinality(R) = IF R = {} THEN 0 ELSE 1
        BY AtMostOne, Zenon
      <3> QED
        BY <2>1, <3>1 DEF Types, ServerType
    <2>6. CountEffect
      BY <1>2, <1>3, <2>5 DEF CountEffect, Types, HistoryType, ServerType, hvars
    <2>7. OutgoingEffect
      <3>1. CASE o.packet.type # "PleaseSendPacket"
        BY <2>1, <3>1 DEF OutgoingEffect
      <3>2. CASE o.packet.type = "PleaseSendPacket"
        <4>1. outgoing' = (outgoing \ {o}) \cup {Kept(r, 0)}
          BY <2>1, <3>2
        <4>2. FreshReply(r)
          BY <2>2, <2>5, <3>2 DEF FreshReply
        <4>3. FreshTries(Kept(r, 0))
          BY <1>3, <2>1, <2>2, <2>3, <3>2 DEF FreshTries
        <4> QED
          BY <2>3, <4>1, <4>2, <4>3 DEF OutgoingEffect
      <3> QED
        BY <3>1, <3>2
    <2> QED
      BY <1>4, <2>4, <2>6, <2>7 DEF Effects
  <1> QED
    BY <1>1, <1>5, <1>6

LEMMA NetworkEffects ==
  ASSUME Types, Codes, Ids, Owners,
         \/ \E k \in DOMAIN registered : Evict(k)
         \/ \E p \in net : Lose(p) \/ Undeliverable(p)
         \/ UNCHANGED vars
  PROVE  Effects
  <1>1. UNCHANGED <<cvars, outgoing, served, late, hvars>>
    BY DEF Evict, Lose, Undeliverable, vars, svars, bvars
  <1>2. OutEffect /\ OutgoingEffect /\ CodeEffect /\ AttemptEffect
    BY <1>1, KeepsOut, KeepsOutgoing, KeepsCodes, KeepsAttempts DEF cvars, hvars
  <1>3. NetEffect
    BY DEF NetEffect, Evict, Lose, Undeliverable, vars
  <1>4. ASSUME NEW k \in DOMAIN registered, Evict(k)
        PROVE  FlightEffect /\ CountEffect
    <2>1. /\ UNCHANGED <<net, lost>> /\ evicted' = evicted + 1
          /\ registered' = [registered EXCEPT ![k] = None]
      BY <1>4 DEF Evict
    <2>2. DOMAIN registered' = DOMAIN registered
      BY <2>1
    <2>3. \A i \in DOMAIN registered : registered'[i] \in {registered[i], None}
      BY <2>1
    <2>4. evicted' # 0 /\ evicted <= evicted' /\ served <= served /\ late <= late /\ lost <= lost
      BY <2>1 DEF Types, HistoryType, ServerType
    <2> QED
      BY <1>1, <2>1, <2>2, <2>3, <2>4, KeepsPackets DEF CountEffect, hvars
  <1>5. ASSUME NEW p \in net, Lose(p)
        PROVE  FlightEffect /\ CountEffect
    BY <1>1, <1>5, KeepsCounts DEF Lose, FlightEffect, svars, hvars
  <1>6. ASSUME NEW p \in net, Undeliverable(p)
        PROVE  FlightEffect /\ CountEffect
    <2>1. /\ p.to \in Joiner /\ connState[p.to] = "Gone" /\ net' = net \ {p}
          /\ UNCHANGED <<svars, bvars>>
      BY <1>6 DEF Undeliverable
    <2>2. p.to \in Client /\ p.to # "server" /\ p.to # Host
      BY <2>1, NameAssumption DEF Client
    <2>3. \A c \in Client : \A o \in out'[c] : o.id # p.id
      <3>1. UNCHANGED out
        BY <1>1 DEF cvars
      <3>2. CASE p.type = "Ack"
        BY <2>1, <2>2, <3>1, <3>2 DEF Owners
      <3>3. CASE p.type # "Ack"
        <4>1. p \in Replies
          BY <2>2, <3>3, PacketKinds DEF Types
        <4>2. p.id[1] = "server"
          BY <4>1 DEF Replies, ReplyShape, ReplyId
        <4>3. "server" \notin Client
          BY NameAssumption DEF Client
        <4> QED
          BY <3>1, <4>2, <4>3 DEF Owners
      <3> QED
        BY <3>2, <3>3
    <2>4. \A o \in outgoing' : o.packet.type = "PleaseSendPacket" => o.id # p.id
      <3>1. CASE p.type = "Ack"
        <4>1. p.id[1] # "server"
          BY <2>2, <3>1 DEF Owners
        <4>2. \A o \in outgoing : o.id[1] = "server"
          BY DEF Types, ServerType, OutReplies, ReplyId
        <4> QED
          BY <1>1, <4>1, <4>2
      <3>2. CASE p.type # "Ack"
        BY <1>1, <2>2, <3>2 DEF Ids, Codes, GoodReply
      <3> QED
        BY <3>1, <3>2
    <2>5. FlightEffect
      BY <2>1, <2>3, <2>4 DEF FlightEffect, OnItsWay, Settled
    <2> QED
      BY <1>1, <2>1, <2>5, KeepsCounts DEF svars, bvars, hvars
  <1>7. CASE UNCHANGED vars
    <2>1. UNCHANGED <<net, registered, served, evicted, late, lost, punched>>
      BY <1>7 DEF vars, svars, bvars, hvars
    <2>2. /\ net \subseteq net' /\ punched \subseteq punched' /\ late' \in {late, late + 1}
          /\ lost' \in {lost, lost + 1}
      BY <2>1
    <2>3. CountEffect
      BY <2>1, <2>2, KeepsCounts
    <2> QED
      BY <1>2, <1>3, <2>2, <2>3, KeepsPackets DEF Effects
  <1> QED
    BY <1>2, <1>3, <1>4, <1>5, <1>6, <1>7 DEF Effects

LEMMA StepEffects ==
  ASSUME TInv, [Next]_vars
  PROVE  Types' /\ Effects
  <1>1. Types'
    BY ClientStartTypes, ClientTimerTypes, ClientReceiveTypes, ServerReceiveTypes, ServerTimerTypes,
       NetworkTypes DEF TInv, Next
  <1>2. Effects
    BY ClientStartEffects, ClientTimerEffects, ClientReceiveEffects, ServerReceiveEffects,
       ServerTimerEffects, NetworkEffects DEF TInv, Next
  <1> QED
    BY <1>1, <1>2

-----------------------------------------------------------------------------
(* The invariants, from what a step does. *)

LEMMA KeepsOwnCode ==
  ASSUME CountEffect, NEW k, NEW c, OwnCode(k, c)
  PROVE  OwnCode(k, c)'
  BY DEF CountEffect, OwnCode

LEMMA KeepsKnownCode ==
  ASSUME CodeEffect, NEW type, NEW c \in Client, NEW code, KnownCode(type, c, code)
  PROVE  KnownCode(type, c, code)'
  BY DEF CodeEffect, KnownCode, Client

LEMMA KeepsGoodReply ==
  ASSUME CountEffect, NEW r, GoodReply(r)
  PROVE  GoodReply(r)'
  BY KeepsOwnCode DEF GoodReply

LEMMA IdsStep ==
  ASSUME Types, Ids, Effects, Types'
  PROVE  Ids'
  <1>1. "server" \notin Client
    BY NameAssumption DEF Client
  <1>2. PICK r : \A o \in outgoing' : \/ o \in outgoing
                                      \/ RetriedReply(o)
                                      \/ o.packet = r /\ FreshReply(r) /\ FreshTries(o)
    BY DEF Effects, OutgoingEffect
  <1>3. \A o \in outgoing' : o.id = o.packet.id
    BY DEF Types, ServerType
  <1>4. ASSUME NEW o \in outgoing'
        PROVE  \/ \E q \in outgoing : q.packet = o.packet /\ q.id = o.id
               \/ /\ o.packet = r /\ r.id = <<"server", served + 1>> /\ served' = served + 1
    BY <1>2 DEF RetriedReply, FreshReply
  <1>5. served \in Nat /\ served' \in Nat /\ served <= served'
    BY DEF Types, ServerType, Effects, CountEffect
  <1>6. ASSUME NEW o \in outgoing PROVE o.id[2] \in Nat /\ o.id[2] <= served
    BY DEF Ids, Types, ServerType, OutReplies, ReplyId
  <1>7. \A o \in outgoing' : o.id[2] <= served'
    <2> SUFFICES ASSUME NEW o \in outgoing' PROVE o.id[2] <= served'
      OBVIOUS
    <2>1. CASE \E q \in outgoing : q.packet = o.packet /\ q.id = o.id
      BY <1>5, <1>6, <2>1
    <2>2. CASE o.packet = r /\ r.id = <<"server", served + 1>> /\ served' = served + 1
      BY <1>3, <1>5, <2>2
    <2> QED
      BY <1>4, <2>1, <2>2
  <1>8. \A o, q \in outgoing' : o.id = q.id => o.packet = q.packet
    <2> SUFFICES ASSUME NEW o \in outgoing', NEW q \in outgoing', o.id = q.id
                 PROVE  o.packet = q.packet
      OBVIOUS
    <2>1. \A x \in outgoing : x.id # <<"server", served + 1>>
      BY <1>5, <1>6
    <2> QED
      BY <1>3, <1>4, <2>1 DEF Ids
  <1>9. \A p \in net : p.id[1] = "server" => p.id[2] \in Nat /\ p.id[2] <= served
    BY <1>1 DEF Ids, Types, NetType, Requests, Replies, ReplyShape, ServerAcks, ClientAcks,
                RequestId, ReplyId
  <1>10. \A p \in net' : p.id[1] = "server" => p.id[2] <= served'
    <2> SUFFICES ASSUME NEW p \in net', p.id[1] = "server" PROVE p.id[2] <= served'
      OBVIOUS
    <2>1. CASE p \in net
      BY <1>5, <1>9, <2>1
    <2>2. CASE SentRequest(p)
      BY <1>1, <2>2 DEF SentRequest, Types, ClientType, OutPackets, RequestId
    <2>3. CASE SentReply(p)
      BY <1>3, <1>7, <2>3 DEF SentReply
    <2>4. CASE SentServerAck(p) \/ SentClientAck(p)
      <3>1. PICK q \in net : p.id = q.id
        BY <2>4 DEF SentServerAck, SentClientAck
      <3> QED
        BY <1>5, <1>9, <3>1
    <2> QED
      BY <2>1, <2>2, <2>3, <2>4 DEF Effects, NetEffect
  <1>11. ASSUME NEW o \in outgoing', NEW p \in net', p.to # "server", p.type # "Ack", p.id = o.id
         PROVE  p = o.packet
    <2>1. CASE p \in net
      <3>1. p.id # <<"server", served + 1>>
        BY <1>5, <1>9, <2>1
      <3> QED
        BY <1>3, <1>4, <1>11, <2>1, <3>1 DEF Ids
    <2>2. CASE SentReply(p)
      BY <1>3, <1>8, <1>11, <2>2 DEF SentReply
    <2> QED
      BY <1>11, <2>1, <2>2 DEF Effects, NetEffect, SentRequest, SentServerAck, SentClientAck
  <1> QED
    BY <1>7, <1>8, <1>10, <1>11 DEF Ids

LEMMA CodesStep ==
  ASSUME Types, Codes, Effects, Types'
  PROVE  Codes'
  <1>1. "server" \notin Client /\ Host \in Client
    BY NameAssumption DEF Client
  <1>2. CountEffect /\ CodeEffect
    BY DEF Effects
  <1>3. \A c \in Client : \A k \in given'[c] : OwnCode(k, c)'
    <2> SUFFICES ASSUME NEW c \in Client, NEW k \in given'[c] PROVE OwnCode(k, c)'
      OBVIOUS
    <2>1. OwnCode(k, c)
      BY <1>1, <1>2 DEF Codes, CodeEffect, GoodReply
    <2> QED
      BY <1>2, <2>1, KeepsOwnCode
  <1>4. \A c \in Client : \A o \in out'[c] : KnownCode(o.type, c, o.code)'
    <2> SUFFICES ASSUME NEW c \in Client, NEW o \in out'[c] PROVE KnownCode(o.type, c, o.code)'
      OBVIOUS
    <2>1. KnownCode(o.type, c, o.code)
      <3>1. CASE o \in out[c] \/ RetriedOut(c, o)
        BY <3>1 DEF Codes, RetriedOut
      <3>2. CASE FreshOut(c, o)
        BY <3>2 DEF Codes, FreshOut, KnownCode
      <3> QED
        BY <3>1, <3>2 DEF Effects, OutEffect
    <2> QED
      BY <1>2, <2>1, KeepsKnownCode
  <1>5. \A o \in outgoing' : GoodReply(o.packet)'
    <2>1. PICK r : \A o \in outgoing' : \/ o \in outgoing
                                        \/ RetriedReply(o)
                                        \/ o.packet = r /\ FreshReply(r) /\ FreshTries(o)
      BY DEF Effects, OutgoingEffect
    <2>2. FreshReply(r) => GoodReply(r)'
      <3>1. CASE r.type = "HelloFromServer" /\ r.code \in DOMAIN registered' /\ registered'[r.code] = r.to
        BY <3>1 DEF GoodReply, OwnCode
      <3>2. ASSUME r.type = "PleaseSendPacket", NEW p \in net, p.to = "server",
                   p.type = "ConnectPlease", r.to = registered[p.code], r.to # None
            PROVE  GoodReply(r)'
        BY <3>2 DEF GoodReply, Codes, KnownCode, OwnCode, Client
      <3>3. ASSUME r.type = "ConnectReady", NEW o \in outgoing,
                   o.packet.type = "PleaseSendPacket", r.addr = o.packet.to
            PROVE  GoodReply(r)'
        BY <3>3 DEF GoodReply, Codes
      <3>4. CASE r.type = "ConnectFailed"
        BY <3>4 DEF GoodReply
      <3> QED
        BY <3>1, <3>2, <3>3, <3>4 DEF FreshReply
    <2>3. \A o \in outgoing : GoodReply(o.packet)'
      BY <1>2, KeepsGoodReply DEF Codes
    <2> QED
      BY <2>1, <2>2, <2>3 DEF RetriedReply
  <1>6. ASSUME NEW p \in net', p.to = "server", p.type # "Ack"
        PROVE  KnownCode(p.type, p.from, p.code)'
    <2>1. CASE p \in net
      <3>1. p.from \in Client
        BY <1>6, <2>1, PacketKinds DEF Types, Requests
      <3>2. KnownCode(p.type, p.from, p.code)
        BY <1>6, <2>1 DEF Codes
      <3> QED
        BY <1>2, <3>1, <3>2, KeepsKnownCode
    <2>2. CASE SentRequest(p)
      BY <1>4, <2>2 DEF SentRequest
    <2>3. CASE SentReply(p)
      BY <1>1, <1>6, <2>3 DEF SentReply, Types, ServerType, OutReplies, Replies, ReplyShape
    <2> QED
      BY <1>6, <2>1, <2>2, <2>3 DEF Effects, NetEffect, SentServerAck, SentClientAck
  <1>7. ASSUME NEW p \in net', p.to # "server", p.type # "Ack"
        PROVE  GoodReply(p)'
    <2>1. CASE p \in net
      BY <1>2, <1>7, <2>1, KeepsGoodReply DEF Codes
    <2>2. CASE SentReply(p)
      BY <1>5, <2>2 DEF SentReply
    <2> QED
      BY <1>7, <2>1, <2>2 DEF Effects, NetEffect, SentRequest, SentServerAck, SentClientAck
  <1>8. \A c \in Client : state'[c] = "Connected" => hostId'[c] \in given'[c]
    BY <1>2 DEF Codes, CodeEffect
  <1>9. \A c \in Client : connState'[c] = "WaitingForTraversalClientConnection" =>
                            spec'[c] \in given'[Host]
    BY <1>1, <1>2 DEF Codes, CodeEffect, Effects, AttemptEffect
  <1> QED
    BY <1>3, <1>4, <1>5, <1>6, <1>7, <1>8, <1>9 DEF Codes

LEMMA RefusalsStep ==
  ASSUME Types, Codes, Refusals, Effects, Types'
  PROVE  Refusals'
  <1>1. "server" \notin Client
    BY NameAssumption DEF Client
  <1>2. ASSUME NEW c \in Client, Forgotten(c)
        PROVE  Forgotten(c)'
    <2>1. PICK k \in given[c] : registered[k] = None
      BY <1>2 DEF Forgotten
    <2>2. k \in DOMAIN registered
      BY <2>1 DEF Codes, OwnCode
    <2>3. registered'[k] = None /\ k \in given'[c]
      BY <2>1, <2>2 DEF Effects, CountEffect, CodeEffect
    <2> QED
      BY <2>3 DEF Forgotten
  <1>3. ASSUME NEW p \in net', p.to # "server", p.type = "Ack", ~p.ok
        PROVE  Forgotten(p.to)'
    <2>1. CASE p \in net
      <3>1. p.to \in Client /\ Forgotten(p.to)
        BY <1>3, <2>1, PacketKinds DEF Types, Refusals
      <3> QED
        BY <1>2, <3>1
    <2>2. CASE SentServerAck(p)
      <3>1. PICK q \in net : /\ q.to = "server" /\ q.type = "Ping" /\ p.to = q.from
                             /\ registered[q.code] = None
        BY <1>3, <2>2 DEF SentServerAck
      <3>2. q.from \in Client
        BY <3>1, PacketKinds DEF Types, Requests
      <3>3. Forgotten(q.from)
        BY <3>1 DEF Codes, KnownCode, Forgotten
      <3> QED
        BY <1>2, <3>1, <3>2, <3>3
    <2>3. CASE SentReply(p)
      BY <1>3, <2>3 DEF SentReply, Types, ServerType, OutReplies, Replies, ReplyShape, ReplyTypes
    <2> QED
      BY <1>3, <2>1, <2>2, <2>3 DEF Effects, NetEffect, SentRequest, SentClientAck
  <1>4. ASSUME NEW c \in Client, reason'[c] = "ServerForgotAboutUs"
        PROVE  Forgotten(c)'
    <2>1. Forgotten(c)
      BY <1>1, <1>4 DEF Effects, CodeEffect, Refusals
    <2> QED
      BY <1>2, <2>1
  <1>5. ASSUME evicted' = 0
        PROVE  \A k \in DOMAIN registered' : registered'[k] # None
    <2>1. evicted = 0
      BY <1>5 DEF Effects, CountEffect, Types, HistoryType
    <2> QED
      BY <1>5, <2>1 DEF Effects, CountEffect, Refusals
  <1> QED
    BY <1>3, <1>4, <1>5 DEF Refusals

LEMMA PunchedStep ==
  ASSUME Types, Ids, Punched, ReadyMeansPunched, Effects, Types', Ids'
  PROVE  Punched' /\ ReadyMeansPunched'
  <1>1. "server" \notin Client /\ Joiner \subseteq Client
    BY NameAssumption DEF Client
  <1>2. punched \subseteq punched'
    BY DEF Effects, CountEffect
  <1>3. PICK r : \A o \in outgoing' : \/ o \in outgoing
                                      \/ RetriedReply(o)
                                      \/ o.packet = r /\ FreshReply(r) /\ FreshTries(o)
    BY DEF Effects, OutgoingEffect
  <1>4. FreshReply(r) /\ r.type = "ConnectReady" => <<r.addr, r.to>> \in punched
    BY DEF FreshReply, Punched
  <1>5. \A o \in outgoing' : o.packet.type = "ConnectReady" => <<o.packet.addr, o.packet.to>> \in punched'
    BY <1>2, <1>3, <1>4 DEF Punched, RetriedReply
  <1>6. ASSUME NEW p \in net', p.type = "ConnectReady"
        PROVE  <<p.addr, p.to>> \in punched'
    <2>1. CASE p \in net
      BY <1>2, <1>6, <2>1 DEF Punched
    <2>2. CASE SentReply(p)
      BY <1>5, <1>6, <2>2 DEF SentReply
    <2>3. CASE SentRequest(p)
      BY <1>6, <2>3 DEF SentRequest, Types, ClientType, OutPackets, RequestTypes
    <2> QED
      BY <1>6, <2>1, <2>2, <2>3 DEF Effects, NetEffect, SentServerAck, SentClientAck
  <1>7. ASSUME NEW o \in outgoing', NEW p \in net',
               o.packet.type = "PleaseSendPacket", p.to = "server", p.id = o.id
        PROVE  <<o.packet.to, o.packet.addr>> \in punched'
    <2>1. o.id = o.packet.id /\ o.id[1] = "server"
      BY DEF Types, ServerType, OutReplies, ReplyId
    <2>2. CASE p \in net
      <3>1. p.id[2] <= served /\ served \in Nat
        BY <1>7, <2>1, <2>2 DEF Ids, Types, ServerType
      <3>2. o.id # <<"server", served + 1>>
        BY <1>7, <3>1
      <3>3. PICK q \in outgoing : q.packet = o.packet /\ q.id = o.id
        BY <1>3, <2>1, <3>2 DEF RetriedReply, FreshReply
      <3> QED
        BY <1>2, <1>7, <2>2, <3>3 DEF Punched
    <2>3. CASE SentRequest(p)
      BY <1>1, <1>7, <2>1, <2>3 DEF SentRequest, Types, ClientType, OutPackets, RequestId
    <2>4. CASE SentReply(p)
      BY <1>1, <1>7, <2>4 DEF SentReply, Types, ServerType, OutReplies, Replies, ReplyShape
    <2>5. CASE SentServerAck(p)
      BY <1>1, <1>7, <2>5, PacketKinds DEF SentServerAck, Types, Requests
    <2>6. CASE SentClientAck(p)
      <3>1. PICK q \in net : /\ q.to \in Client /\ q.type # "Ack" /\ p.id = q.id
                             /\ q.type = "PleaseSendPacket" => <<q.to, q.addr>> \in punched'
        BY <2>6 DEF SentClientAck
      <3>2. q.id[2] <= served /\ served \in Nat
        BY <1>7, <2>1, <3>1 DEF Ids, Types, ServerType
      <3>3. o.id # <<"server", served + 1>>
        BY <1>7, <3>1, <3>2
      <3>4. PICK x \in outgoing : x.packet = o.packet /\ x.id = o.id
        BY <1>3, <2>1, <3>3 DEF RetriedReply, FreshReply
      <3>5. q = o.packet
        BY <1>1, <1>7, <3>1, <3>4 DEF Ids
      <3> QED
        BY <1>7, <3>1, <3>5
    <2> QED
      BY <2>2, <2>3, <2>4, <2>5, <2>6 DEF Effects, NetEffect
  <1>8. ReadyMeansPunched'
    BY <1>1, <1>2 DEF ReadyMeansPunched, Effects, AttemptEffect, Punched
  <1> QED
    BY <1>5, <1>6, <1>7, <1>8 DEF Punched

LEMMA AnsweredStep ==
  ASSUME Types, Answered, Effects
  PROVE  Answered'
  <1> SUFFICES ASSUME NEW c \in Client
               PROVE  /\ answers'[c] \in 0 .. 1
                      /\ pending'[c] => answers'[c] = 0
                      /\ connState'[c] \in Asked => answers'[c] = 0 /\ ~pending'[c]
    BY DEF Answered
  <1>1. /\ answers[c] \in 0 .. 1
        /\ pending[c] => answers[c] = 0
        /\ connState[c] \in Asked => answers[c] = 0 /\ ~pending[c]
    BY DEF Answered
  <1>2. /\ connState'[c] \in Asked => connState[c] \in Asked
        /\ \/ answers'[c] = answers[c] /\ (pending'[c] => pending[c])
           \/ /\ answers'[c] = answers[c] /\ connState[c] \in Asked /\ connState'[c] \notin Asked
           \/ /\ answers'[c] = answers[c] + 1 /\ pending[c] /\ ~pending'[c]
    BY DEF Effects, AttemptEffect
  <1> QED
    BY <1>1, <1>2

LEMMA OwnersStep ==
  ASSUME Types, Owners, Effects, Types'
  PROVE  Owners'
  <1>1. "server" \notin Client
    BY NameAssumption DEF Client
  <1>2. \A c \in Client : \A o \in out'[c] : o.id[1] = c
    BY DEF Owners, Effects, OutEffect, FreshOut, RetriedOut
  <1>3. ASSUME NEW p \in net', p.to = "server", p.type # "Ack"
        PROVE  p.id[1] = p.from
    <2>1. CASE SentReply(p)
      BY <1>1, <1>3, <2>1 DEF SentReply, Types, ServerType, OutReplies, Replies, ReplyShape
    <2>2. CASE SentRequest(p)
      BY <1>2, <2>2 DEF SentRequest
    <2>3. CASE p \in net
      BY <1>3, <2>3 DEF Owners
    <2> QED
      BY <1>3, <2>1, <2>2, <2>3 DEF Effects, NetEffect, SentServerAck, SentClientAck
  <1>4. ASSUME NEW p \in net', p.to # "server", p.type = "Ack"
        PROVE  p.id[1] = p.to
    <2>1. CASE SentReply(p)
      BY <1>4, <2>1 DEF SentReply, Types, ServerType, OutReplies, Replies, ReplyShape, ReplyTypes
    <2> QED
      BY <1>4, <2>1 DEF Owners, Effects, NetEffect, SentRequest, SentServerAck, SentClientAck
  <1>5. \A c \in Client : connState'[c] = "Gone" => c \in Joiner /\ state'[c] = "Off" /\ out'[c] = {}
    BY DEF Owners, Effects, AttemptEffect
  <1> QED
    BY <1>2, <1>3, <1>4, <1>5 DEF Owners

LEMMA TriedStep ==
  ASSUME Types, Tried, RetriesSuffice, Effects, Types'
  PROVE  Tried' /\ RetriesSuffice'
  <1>1. /\ lost \in Nat /\ lost' \in Nat /\ late \in Nat /\ late' \in Nat
        /\ evicted \in Nat /\ evicted' \in Nat /\ lost <= lost' /\ late <= late'
        /\ evicted <= evicted'
    BY DEF Types, HistoryType, Effects, CountEffect
  <1>2. CASE ~(late' = 0 /\ evicted' = 0)
    BY <1>2 DEF Tried, RetriesSuffice
  <1>3. CASE late' = 0 /\ evicted' = 0
    <2>12. 1 <= lost' + 1
      <3>1. lost' \in Nat
        BY <1>1
      <3>2. \A n \in Nat : 1 <= n + 1
        OBVIOUS
      <3> QED
        BY <3>1, <3>2, Zenon
    <2>1. late = 0 /\ evicted = 0 /\ ~(late < late')
      BY <1>1, <1>3
    <2>2. \A c \in Client : \A o \in out[c] :
            o.tries \in Nat /\ o.tries <= lost + 1 /\ (InFlight(o) \/ o.tries <= lost)
      BY <2>1 DEF Tried, Types, ClientType, OutPackets
    <2>3. \A o \in outgoing : o.packet.type = "PleaseSendPacket" =>
            o.tries \in Nat /\ o.tries <= lost + 1 /\ (InFlight(o) \/ o.tries <= lost)
      BY <2>1 DEF Tried, Types, ServerType, OutReplies
    <2>4. ASSUME NEW o, Overdue(o) PROVE ~InFlight(o)
      BY <2>1, <2>4 DEF Overdue
    <2>5. ASSUME NEW o, o.tries \in Nat, o.tries <= lost + 1, InFlight(o) \/ o.tries <= lost,
                 ~Settled(o.id)
          PROVE  o.tries <= lost' + 1 /\ (InFlight(o)' \/ o.tries <= lost')
      <3>1. CASE o.tries <= lost
        BY <1>1, <2>5, <3>1
      <3>2. CASE InFlight(o)
        <4>1. OnItsWay(o.id) \/ lost' = lost + 1
          BY <1>3, <2>5, <3>2 DEF InFlight, Effects, FlightEffect
        <4>2. CASE OnItsWay(o.id)
          BY <1>1, <2>5, <4>2 DEF OnItsWay, InFlight
        <4>3. CASE lost' = lost + 1
          BY <1>1, <2>5, <4>3
        <4> QED
          BY <4>1, <4>2, <4>3
      <3> QED
        BY <2>5, <3>1, <3>2
    <2>6. ASSUME NEW c \in Client, NEW o \in out'[c]
          PROVE  o.tries <= lost' + 1 /\ (InFlight(o)' \/ o.tries <= lost')
      <3>1. CASE o \in out[c]
        <4>1. ~Settled(o.id)
          BY <2>6 DEF Settled
        <4> QED
          BY <2>2, <2>5, <3>1, <4>1
      <3>2. CASE FreshOut(c, o)
        <4>1. o.tries = 1 /\ OnItsWay(o.id)
          BY <3>2 DEF FreshOut
        <4>2. InFlight(o)'
          BY <4>1 DEF OnItsWay, InFlight
        <4> QED
          BY <2>12, <4>1, <4>2, Zenon
      <3>3. CASE RetriedOut(c, o)
        <4>1. PICK q \in out[c] : o.tries = q.tries + 1 /\ OnItsWay(o.id) /\ Overdue(q)
          BY <3>3 DEF RetriedOut
        <4>2. q.tries \in Nat /\ q.tries <= lost
          BY <2>2, <2>4, <4>1
        <4> QED
          BY <1>1, <4>1, <4>2 DEF OnItsWay, InFlight
      <3> QED
        BY <3>1, <3>2, <3>3 DEF Effects, OutEffect
    <2>7. PICK r : \A o \in outgoing' : \/ o \in outgoing
                                        \/ RetriedReply(o)
                                        \/ o.packet = r /\ FreshReply(r) /\ FreshTries(o)
      BY DEF Effects, OutgoingEffect
    <2>8. ASSUME NEW o \in outgoing', o.packet.type = "PleaseSendPacket"
          PROVE  o.tries <= lost' + 1 /\ (InFlight(o)' \/ o.tries <= lost')
      <3>1. CASE o \in outgoing
        <4>1. ~Settled(o.id)
          BY <2>8 DEF Settled
        <4> QED
          BY <2>3, <2>5, <2>8, <3>1, <4>1
      <3>2. CASE RetriedReply(o)
        <4>1. PICK q \in outgoing : /\ o.packet = q.packet /\ o.tries = q.tries + 1
                                    /\ OnItsWay(o.id) /\ Overdue(q)
          BY <3>2 DEF RetriedReply
        <4>2. q.tries \in Nat /\ q.tries <= lost
          BY <2>3, <2>4, <2>8, <4>1
        <4> QED
          BY <1>1, <4>1, <4>2 DEF OnItsWay, InFlight
      <3>3. CASE FreshTries(o)
        BY <1>1, <2>8, <3>3 DEF FreshTries, OnItsWay, InFlight
      <3> QED
        BY <2>7, <3>1, <3>2, <3>3
    <2>9. Tried'
      BY <2>6, <2>8 DEF Tried
    <2>10. ASSUME lost' < Tries
           PROVE  /\ \A c \in Client : reason'[c] # "ResendTimeout"
                  /\ ~\E o \in outgoing' : DidntRespond(o)
      <3>1. lost < Tries /\ Tries \in Nat
        BY <1>1, <2>10, TriesAssumption
      <3>2. ASSUME NEW q, q.tries \in Nat, InFlight(q) \/ q.tries <= lost, q.tries >= Tries, Overdue(q)
            PROVE  FALSE
        BY <1>1, <2>4, <3>1, <3>2
      <3>3. ASSUME NEW c \in Client PROVE reason'[c] # "ResendTimeout"
        <4>1. reason[c] # "ResendTimeout"
          BY <2>1, <3>1 DEF RetriesSuffice
        <4>2. ~\E o \in out[c] : o.tries >= Tries /\ Overdue(o)
          BY <2>2, <3>2
        <4> QED
          BY <4>1, <4>2 DEF Effects, CodeEffect
      <3>4. ASSUME NEW o \in outgoing', DidntRespond(o) PROVE FALSE
        <4>1. o.packet.type = "ConnectFailed" /\ o.tries = 0
          BY <3>4 DEF DidntRespond
        <4>2. CASE o \in outgoing
          BY <2>1, <3>1, <3>4, <4>2 DEF RetriesSuffice
        <4>3. CASE RetriedReply(o)
          BY <4>1, <4>3 DEF RetriedReply, Types, ServerType, OutReplies
        <4>4. CASE FreshTries(o)
          BY <2>3, <3>2, <4>1, <4>4 DEF FreshTries
        <4> QED
          BY <2>7, <4>2, <4>3, <4>4
      <3> QED
        BY <3>3, <3>4
    <2>11. RetriesSuffice'
      BY <2>10 DEF RetriesSuffice, DidntRespond
    <2> QED
      BY <2>9, <2>11
  <1> QED
    BY <1>2, <1>3

LEMMA TInvInit == Init => TInv
  <1> SUFFICES ASSUME Init PROVE TInv
    OBVIOUS
  <1>1. Types
    BY DEF Init, Types, NetType, ClientType, ServerType, HistoryType, States, ConnStates, MaybeCode
  <1>2. Codes /\ Refusals /\ Ids /\ Punched
    BY NameAssumption DEF Init, Codes, Refusals, Ids, Punched
  <1>3. Answered /\ Owners
    BY NameAssumption DEF Init, Answered, Owners
  <1>4. Tried
    BY DEF Init, Tried
  <1>5. RetriesSuffice
    BY NameAssumption DEF Init, RetriesSuffice
  <1>6. ReadyMeansPunched
    BY DEF Init, ReadyMeansPunched, Client
  <1> QED
    BY <1>1, <1>2, <1>3, <1>4, <1>5, <1>6 DEF TInv

LEMMA TInvStep == TInv /\ [Next]_vars => TInv'
  <1> SUFFICES ASSUME TInv, [Next]_vars PROVE TInv'
    OBVIOUS
  <1>1. Types' /\ Effects
    BY StepEffects
  <1>2. Ids'
    BY <1>1, IdsStep DEF TInv
  <1>3. Codes' /\ Refusals' /\ Answered' /\ Owners'
    BY <1>1, CodesStep, RefusalsStep, AnsweredStep, OwnersStep DEF TInv
  <1>4. Punched' /\ ReadyMeansPunched'
    BY <1>1, <1>2, PunchedStep DEF TInv
  <1>5. Tried' /\ RetriesSuffice'
    BY <1>1, TriedStep DEF TInv
  <1> QED
    BY <1>1, <1>2, <1>3, <1>4, <1>5 DEF TInv

LEMMA TInvInvariant == Spec => []TInv
  BY TInvInit, TInvStep, PTL DEF Spec

-----------------------------------------------------------------------------
(* Every variable of the clients and of the server has its type, and       *)
(* neither side tries a packet more often than NUMBER_OF_TRIES.            *)
THEOREM Typed == Spec => []TypeOK
  <1>1. TInv => TypeOK
    <2> SUFFICES ASSUME Types PROVE TypeOK
      BY DEF TInv
    <2>1. \A c \in Client : \A o \in out[c] : o.tries \in 1 .. Tries
      BY DEF Types, ClientType, OutPackets
    <2>2. \A o \in outgoing : o.tries \in 0 .. Tries
      BY DEF Types, ServerType, OutReplies
    <2> QED
      BY <2>1, <2>2 DEF Types, ClientType, ServerType, HistoryType, MaybeCode, TypeOK
  <1> QED
    BY <1>1, TInvInvariant, PTL

(* OnConnectReady is called only when the host has opened its NAT towards  *)
(* this joiner: a ConnectReady is made from the acknowledgement of a       *)
(* PleaseSendPacket, whatever was lost, resent or given up in between.     *)
THEOREM ReadyIsPunched == Spec => []ReadyMeansPunched
  <1>1. TInv => ReadyMeansPunched
    BY DEF TInv
  <1> QED
    BY <1>1, TInvInvariant, PTL

(* An attempt to connect is answered at most once, whatever the server     *)
(* sends again (m_PendingConnect).                                         *)
THEOREM OneAnswer == Spec => []AnsweredOnce
  <1>1. TInv => AnsweredOnce
    BY DEF TInv, Answered, AnsweredOnce, Client
  <1> QED
    BY <1>1, TInvInvariant, PTL

(* A client is told that the server has forgotten it only when the server  *)
(* has dropped a code it had given to this client.                         *)
THEOREM ForgottenOnlyWhenDropped == Spec => []ForgottenIsTrue
  <1>1. TInv => ForgottenIsTrue
    <2> SUFFICES ASSUME TInv, NEW c \in Client, reason[c] = "ServerForgotAboutUs"
                 PROVE  \E k \in given[c] : registered[k] # c
      BY DEF ForgottenIsTrue
    <2>1. PICK k \in given[c] : registered[k] = None
      BY DEF TInv, Refusals, Forgotten
    <2> QED
      BY <2>1, NameAssumption DEF Client
  <1> QED
    BY <1>1, TInvInvariant, PTL

(* When fewer datagrams are lost than a packet is tried, no answer is late *)
(* and no registration expires, no client times out and the server never   *)
(* reports that the host did not respond: for every NUMBER_OF_TRIES, any   *)
(* number of joiners, pings and uses of the Retry button.                  *)
THEOREM EnoughRetries == Spec => []RetriesSuffice
  <1>1. TInv => RetriesSuffice
    BY DEF TInv
  <1> QED
    BY <1>1, TInvInvariant, PTL

=============================================================================
