------------------------ MODULE NetPlaySessionProofs ------------------------
(***************************************************************************)
(* Who is in a session, for any number of guests, players, pads and        *)
(* events: the ids in the server's ENet peers, the lists of players and    *)
(* the pad maps of the clients, and the removal of those who give up.      *)
(*                                                                         *)
(* The ids come first (OwnerInv); everything else rests on SessionInv.     *)
(* Its heart is Becomes: what the messages on their way to a client say of *)
(* one id, or of the pad map, turns what the client holds into what the    *)
(* server holds.  That is the replay of the messages without a recursion:  *)
(* the last message that says anything decides.                            *)
(***************************************************************************)
EXTENDS NetPlaySession, FiniteSetTheorems, WellFoundedInduction, TLAPS

(* PeerOwnsPlayer is inductive together with the types of its variables.   *)
OwnerType ==
  /\ players \in [Pid -> Peer \cup {None}]
  /\ data \in [Peer -> 0 .. MaxPlayers]

OwnerInv == OwnerType /\ PeerOwnsPlayer

-----------------------------------------------------------------------------
(* A set of naturals with an element has a smallest one. *)
LEMMA SmallestType ==
  ASSUME NEW S \in SUBSET Nat, S # {}
  PROVE  Smallest(S) \in S /\ \A j \in S : Smallest(S) <= j
  <1> DEFINE R == {e \in Nat \X Nat : e[1] < e[2]}
  <1>1. IsWellFoundedOn(R, Nat)
    BY NatLessThanWellFounded, Zenon DEF OpToRel
  <1> HIDE DEF R
  <1>2. PICK i \in S : \A j \in S : <<j, i>> \notin R
    BY <1>1, WFMin
  <1>3. ASSUME NEW j \in S PROVE i <= j
    <2>1. i \in Nat /\ j \in Nat
      OBVIOUS
    <2>2. j < i => <<j, i>> \in R
      BY <2>1 DEF R
    <2>3. ~(j < i)
      BY <1>2, <2>2
    <2> QED
      BY <2>1, <2>3
  <1> QED
    BY <1>3 DEF Smallest

(* While there are fewer players than ids, the id a newcomer gets is one   *)
(* of the ids, and nobody has it.                                          *)
LEMMA FreeID ==
  ASSUME OwnerType, Cardinality(Used(players)) < MaxPlayers
  PROVE  FirstAvailableID \in Pid /\ players[FirstAvailableID] = None
  <1> DEFINE Free == {i \in 1 .. MaxPlayers + 1 : i \notin Used(players)}
  <1>1. MaxPlayers \in Nat /\ MaxPlayers > 0
    BY BoundAssumption
  <1>2. Used(players) # Pid
    <2>1. Cardinality(Pid) = MaxPlayers
      BY <1>1, FS_Interval DEF Pid
    <2> QED
      BY <2>1, <1>1
  <1>3. PICK k \in Pid : k \notin Used(players)
    BY <1>2 DEF Used
  <1>4. k \in Free /\ Free \in SUBSET Nat
    BY <1>1, <1>3 DEF Pid
  <1>5. FirstAvailableID \in Free /\ FirstAvailableID <= k
    BY <1>4, SmallestType DEF FirstAvailableID
  <1> QED
    BY <1>1, <1>3, <1>5 DEF Pid, Used

-----------------------------------------------------------------------------
LEMMA OwnerInit == Init => OwnerInv
  <1> SUFFICES ASSUME Init PROVE OwnerInv
    OBVIOUS
  <1>1. MaxPlayers \in Nat /\ 1 \in Pid /\ Host \in Peer /\ None \notin Peer
    BY BoundAssumption, NameAssumption DEF Pid, Peer
  <1> QED
    BY <1>1 DEF Init, OwnerInv, OwnerType, PeerOwnsPlayer, Nobody, Pid

(* A player takes a seat that was free, behind a peer that had none. *)
LEMMA OwnerJoins ==
  ASSUME OwnerInv, NEW p \in Peer, data[p] = 0, NEW m, OnConnect(p, m)
  PROVE  OwnerInv'
  <1>0. MaxPlayers \in Nat /\ None \notin Peer
    BY BoundAssumption, NameAssumption DEF Peer
  <1>1. CASE Acceptable(m)
    <2> DEFINE i == FirstAvailableID
    <2>1. i \in Pid /\ players[i] = None
      BY <1>1, FreeID DEF Acceptable, OwnerInv
    <2>2. data' = [data EXCEPT ![p] = i] /\ players' = [players EXCEPT ![i] = p]
      BY <1>1 DEF OnConnect
    <2> HIDE DEF i
    <2>3. OwnerType'
      BY <2>1, <2>2, <1>0 DEF OwnerInv, OwnerType, Pid
    <2>4. \A q \in Peer : data'[q] # 0 => players'[data'[q]] = q
      BY <2>1, <2>2, <1>0 DEF OwnerInv, OwnerType, PeerOwnsPlayer, Pid
    <2>5. \A j \in Pid : players'[j] # None => data'[players'[j]] = j
      BY <2>1, <2>2, <1>0 DEF OwnerInv, OwnerType, PeerOwnsPlayer, Pid
    <2> QED
      BY <2>3, <2>4, <2>5 DEF OwnerInv, PeerOwnsPlayer
  <1>2. CASE ~Acceptable(m)
    BY <1>2 DEF OnConnect, OwnerInv, OwnerType, PeerOwnsPlayer
  <1> QED
    BY <1>1, <1>2

(* A player leaves and the id goes out of the very peer it sat behind. *)
LEMMA OwnerLeaves ==
  ASSUME OwnerInv, NEW p \in Peer, data[p] # 0,
         OnDisconnect(p, data[p]), data' = [data EXCEPT ![p] = 0]
  PROVE  OwnerInv'
  <1>0. MaxPlayers \in Nat /\ None \notin Peer
    BY BoundAssumption, NameAssumption DEF Peer
  <1>1. data[p] \in Pid /\ players[data[p]] = p
    BY <1>0 DEF OwnerInv, OwnerType, PeerOwnsPlayer, Pid
  <1>2. players' = [players EXCEPT ![data[p]] = None]
    BY DEF OnDisconnect
  <1>3. OwnerType'
    BY <1>0, <1>1, <1>2 DEF OwnerInv, OwnerType
  <1>4. \A q \in Peer : data'[q] # 0 => players'[data'[q]] = q
    BY <1>0, <1>1, <1>2 DEF OwnerInv, OwnerType, PeerOwnsPlayer, Pid
  <1>5. \A j \in Pid : players'[j] # None => data'[players'[j]] = j
    BY <1>0, <1>1, <1>2 DEF OwnerInv, OwnerType, PeerOwnsPlayer, Pid
  <1> QED
    BY <1>3, <1>4, <1>5 DEF OwnerInv, PeerOwnsPlayer

(* Nothing else touches the players or the peers' data. *)
LEMMA OwnerKept ==
  ASSUME OwnerInv, UNCHANGED <<players, data>>
  PROVE  OwnerInv'
  BY DEF OwnerInv, OwnerType, PeerOwnsPlayer

LEMMA OwnerStep == OwnerInv /\ [Next]_vars => OwnerInv'
  <1> SUFFICES ASSUME OwnerInv, [Next]_vars PROVE OwnerInv'
    OBVIOUS
  <1>1. CASE Gui
    <2>1. UNCHANGED <<players, data>>
      BY <1>1 DEF Gui, RequestStartGame, OpenDialog, AssignMapping, BuildMapping,
                  SendMapping, KickPlayer, ChangeMapping, svars
    <2> QED
      BY <2>1, OwnerKept
  <1>2. CASE StartGame \/ StopGame
    BY <1>2, OwnerKept DEF StartGame, StopGame
  <1>3. ASSUME NEW p \in Peer, ServerOnInit(p)
        PROVE  OwnerInv'
    BY <1>3, OwnerJoins DEF ServerOnInit
  <1>4. ASSUME NEW p \in Peer, ServerOnBadPacket(p)
        PROVE  OwnerInv'
    BY <1>4, OwnerLeaves DEF ServerOnBadPacket
  <1>5. ASSUME NEW p \in Peer, ServerOnDisconnectEvent(p)
        PROVE  OwnerInv'
    <2>1. CASE data[p] # 0 /\ players[data[p]] # None
      <3>1. players[data[p]] = p
        BY <2>1 DEF OwnerInv, PeerOwnsPlayer
      <3> QED
        BY <1>5, <2>1, <3>1, OwnerLeaves DEF ServerOnDisconnectEvent
    <2>2. CASE ~(data[p] # 0 /\ players[data[p]] # None)
      BY <1>5, <2>2, OwnerKept DEF ServerOnDisconnectEvent, svars
    <2> QED
      BY <2>1, <2>2
  <1>6. ASSUME NEW p \in Peer,
               ClientOnNews(p) \/ ClientOnEnd(p) \/ Disconnect(p) \/ SendBad(p)
                 \/ LoseConnection(p)
        PROVE  OwnerInv'
    BY <1>6, OwnerKept
       DEF ClientOnNews, ClientOnEnd, Disconnect, SendBad, LoseConnection, svars
  <1>7. ASSUME NEW p \in Guest, Connect(p) \/ ComeBack(p)
        PROVE  OwnerInv'
    BY <1>7, OwnerKept DEF Connect, ComeBack, svars
  <1>8. CASE UNCHANGED vars
    BY <1>8, OwnerKept DEF vars, svars
  <1> QED
    BY <1>1, <1>2, <1>3, <1>4, <1>5, <1>6, <1>7, <1>8 DEF Next, Server

(* The id in a peer is always the id of the player behind that very peer:  *)
(* a receive event finds its player, and a late disconnect event throws    *)
(* nobody else out (the look-ups in NetPlayServer::ThreadFunc).            *)
THEOREM PeerOwnsPlayerCorrect == Spec => []PeerOwnsPlayer
  <1>1. Init => OwnerInv
    BY OwnerInit
  <1>2. OwnerInv /\ [Next]_vars => OwnerInv'
    BY OwnerStep
  <1>3. OwnerInv => PeerOwnsPlayer
    BY DEF OwnerInv
  <1> QED
    BY <1>1, <1>2, <1>3, PTL DEF Spec

-----------------------------------------------------------------------------
(* The invariant of the whole session, part by part. *)

(* The types of what is on its way and of what the dialog holds. *)
Table == [Pid -> Peer \cup {None}]
Map == [Pad -> 0 .. MaxPlayers]

NewsMessage ==
  {m \in [type : {"News"}, joined : Table, left : 0 .. MaxPlayers, map : Map \cup {None}] :
     m.left = 0 \/ m.joined = Nobody}
DownMessage == NewsMessage \cup {Refused, Disconnected}
UpMessage == [type : {"Init"}, fits : BOOLEAN] \cup {Disconnected, [type |-> "Bad"]}

Types ==
  /\ TypeOK
  /\ up \in [Peer -> Seq(UpMessage)] /\ down \in [Peer -> Seq(DownMessage)]
  /\ list \in Seq(0 .. MaxPlayers) /\ index \in [Pad -> 0 .. Len(list)]
  /\ raced \in BOOLEAN

(* The host is player 1 for good. *)
HostStays == data[Host] = 1 /\ client[Host] = "in" /\ up[Host] = <<>> /\ ~Closed(down, Host)

(* The first packet of a client is handled once, before anything is sent   *)
(* to it.                                                                  *)
FirstPacket(p) ==
  \A k \in 1 .. Len(up[p]) : up[p][k].type = "Init" =>
    /\ k = 1 /\ data[p] = 0
    /\ client[p] = "out" \/ (client[p] = "connecting" /\ down[p] = <<>>)

(* A client that has not begun is nobody; one that gave up is either       *)
(* nobody or has its disconnect event ahead.                               *)
NotThere(p) ==
  /\ client[p] = "off" => data[p] = 0 /\ up[p] = <<>> /\ down[p] = <<>>
  /\ client[p] = "out" => Closed(up, p) \/ (up[p] = <<>> /\ data[p] = 0)
  /\ client[p] \in {"off", "connecting"} => roster[p] = Nobody

(* A client without a player waits for its answer or is being thrown out. *)
Unseated(p) ==
  client[p] \in {"connecting", "in"} /\ data[p] = 0 =>
     Closed(down, p) \/ (client[p] = "connecting" /\ down[p] = <<>>)

Seats == \A p \in Peer : FirstPacket(p) /\ NotThere(p) /\ Unseated(p)

(* A client the server counts among its players and goes on sending to. *)
Served(p) == client[p] \in {"connecting", "in"} /\ data[p] # 0 /\ ~Closed(down, p)

(* The sets w say something or nothing, one after the other: after the     *)
(* last one, r has become v.                                               *)
Becomes(r, w, v) ==
  \/ v = r /\ \A k \in DOMAIN w : w[k] = {}
  \/ \E k \in DOMAIN w : w[k] = {v} /\ \A l \in DOMAIN w : l > k => w[l] = {}

AboutPlayer(m, i) == IF m.left = i THEN {None} ELSE {m.joined[i]} \ {None}
AboutMap(m) == {m.map} \ {None}

(* What is on its way to a client turns its list into the server's. *)
ListFollows(p) ==
  /\ \A k \in 1 .. Len(down[p]) : down[p][k] \in NewsMessage
  /\ \A i \in Pid :
       Becomes(roster[p][i], [k \in 1 .. Len(down[p]) |-> AboutPlayer(down[p][k], i)], players[i])

RosterFollows == \A p \in Peer : Served(p) => ListFollows(p)

(* And its pad map, while the host's dialog has not written one of its     *)
(* own that the client has not been sent yet.                              *)
PadsFollow(p) ==
  Becomes(cmap[p], [k \in 1 .. Len(down[p]) |-> AboutMap(down[p][k])], padMap)

MapFollows ==
  ~raced => \A p \in Peer :
    Served(p) /\ (gui \in {"idle", "dialog"} \/ (gui = "sending" /\ data[p] <= cursor)) =>
      PadsFollow(p)

(* A dialog that nothing has overtaken shows the players there are. *)
Dialog ==
  /\ gui # "sending" => cursor = 0
  /\ ~raced /\ gui = "sending" => copy = padMap
  /\ ~raced /\ gui = "dialog" =>
       /\ down[Host] = <<>>
       /\ \A k \in 1 .. Len(list) : list[k] \in Used(players)
       /\ \A q \in Pad : copy[q] # 0 => players[copy[q]] # None

SessionInv ==
  /\ OwnerInv /\ Types /\ HostStays /\ Seats
  /\ RosterFollows /\ MapFollows /\ Dialog /\ NoGhostPad

-----------------------------------------------------------------------------
(* The constants and the names of the messages apart from one another. *)
LEMMA Constants ==
  /\ MaxPlayers \in Nat /\ PadCount \in Nat /\ 1 \in Pid
  /\ Pid \subseteq 0 .. MaxPlayers /\ 0 \notin Pid /\ Pid \subseteq Nat /\ Pad \subseteq Nat
  /\ Host \in Peer /\ Host \notin Guest /\ Guest \subseteq Peer /\ None \notin Peer
  /\ None \notin Map /\ Nobody \in Table /\ NoPads \in Map
  BY BoundAssumption, NameAssumption DEF Pid, Pad, Peer, Map, Table, Nobody, NoPads

LEMMA MessageKinds ==
  /\ Refused # Disconnected /\ Refused.type = "Error" /\ Disconnected.type = "Disconnect"
  /\ \A m \in NewsMessage : m # Disconnected /\ m # Refused /\ m.type = "News"
  /\ \A m \in DownMessage : m.type = "News" => m \in NewsMessage
  /\ \A m \in UpMessage : m.type # "Init" \/ m # Disconnected
  /\ \A f \in BOOLEAN : [type |-> "Init", fits |-> f] \in UpMessage
  BY DEF Refused, Disconnected, NewsMessage, DownMessage, UpMessage

LEMMA NewsType ==
  ASSUME NEW t \in Table, NEW l \in 0 .. MaxPlayers, NEW f \in Map \cup {None},
         l = 0 \/ t = Nobody
  PROVE  /\ News(t, l, f) \in NewsMessage
         /\ News(t, l, f).joined = t /\ News(t, l, f).left = l /\ News(t, l, f).map = f
  BY DEF News, NewsMessage

(* A sequence is a function on its first numbers, and the other way round. *)
LEMMA SequenceIsFunction ==
  ASSUME NEW S, NEW s \in Seq(S)
  PROVE  DOMAIN s = 1 .. Len(s) /\ Len(s) \in Nat /\ \A k \in 1 .. Len(s) : s[k] \in S
  OBVIOUS

LEMMA FunctionIsSequence ==
  ASSUME NEW S, NEW n \in Nat, NEW s \in [1 .. n -> S]
  PROVE  s \in Seq(S) /\ Len(s) = n
  OBVIOUS

LEMMA TailIsShift ==
  ASSUME NEW S, NEW s \in Seq(S), s # <<>>
  PROVE  /\ Len(s) - 1 \in Nat /\ Len(Tail(s)) = Len(s) - 1 /\ Head(s) = s[1]
         /\ \A k \in 1 .. Len(s) - 1 : Tail(s)[k] = s[k + 1]
  <1>1. Len(s) \in Nat /\ Len(s) # 0
    OBVIOUS
  <1> QED
    BY <1>1

(* What is last when something is appended, and when the head is taken. *)
LEMMA ClosedAppend ==
  ASSUME NEW S, NEW s \in Seq(S), NEW m \in S
  PROVE  Append(s, m) # <<>> /\ Append(s, m)[Len(Append(s, m))] = m
  OBVIOUS

LEMMA ClosedTail ==
  ASSUME NEW S, NEW s \in Seq(S), s # <<>>, s[Len(s)] # Head(s)
  PROVE  Tail(s) # <<>> /\ Tail(s)[Len(Tail(s))] = s[Len(s)]
  <1>1. Len(s) \in Nat /\ Len(s) # 0 /\ Head(s) = s[1]
    OBVIOUS
  <1>2. Len(s) > 1
    BY <1>1
  <1>3. Tail(s) \in Seq(S) /\ Len(Tail(s)) = Len(s) - 1
    OBVIOUS
  <1>4. Tail(s)[Len(s) - 1] = s[Len(s)]
    BY <1>2
  <1>5. Tail(s) # <<>>
    <2>1. Len(Tail(s)) # 0
      BY <1>1, <1>2, <1>3
    <2>2. Len(<<>>) = 0
      OBVIOUS
    <2> QED
      BY <2>1, <2>2, Zenon
  <1> QED
    BY <1>3, <1>4, <1>5

(* One more word at the end. *)
LEMMA BecomesAppend ==
  ASSUME NEW n \in Nat, NEW w, NEW w2, NEW r, NEW v, NEW v2,
         DOMAIN w = 1 .. n, DOMAIN w2 = 1 .. n + 1,
         \A k \in 1 .. n : w2[k] = w[k],
         Becomes(r, w, v),
         w2[n + 1] = {v2} \/ (w2[n + 1] = {} /\ v2 = v)
  PROVE  Becomes(r, w2, v2)
  <1>1. CASE w2[n + 1] = {v2}
    BY <1>1 DEF Becomes
  <1>2. CASE w2[n + 1] = {} /\ v2 = v
    <2>1. CASE v = r /\ \A k \in DOMAIN w : w[k] = {}
      BY <1>2, <2>1 DEF Becomes
    <2>2. ASSUME NEW k \in DOMAIN w, w[k] = {v}, \A l \in DOMAIN w : l > k => w[l] = {}
          PROVE  Becomes(r, w2, v2)
      BY <1>2, <2>2 DEF Becomes
    <2> QED
      BY <2>1, <2>2 DEF Becomes
  <1> QED
    BY <1>1, <1>2

(* The last word decides, whatever came before it. *)
LEMMA BecomesLast ==
  ASSUME NEW n \in Nat, NEW w, NEW r, NEW v, DOMAIN w = 1 .. n + 1, w[n + 1] = {v}
  PROVE  Becomes(r, w, v)
  BY DEF Becomes

(* The first word is taken. *)
LEMMA BecomesTail ==
  ASSUME NEW n \in Nat, NEW w, NEW w2, NEW r, NEW r2, NEW v,
         DOMAIN w = 1 .. n + 1, DOMAIN w2 = 1 .. n,
         \A k \in 1 .. n : w2[k] = w[k + 1],
         Becomes(r, w, v),
         w[1] = {r2} \/ (w[1] = {} /\ r2 = r)
  PROVE  Becomes(r2, w2, v)
  <1>1. CASE v = r /\ \A k \in DOMAIN w : w[k] = {}
    <2>1. w[1] = {}
      BY <1>1
    <2>2. r2 = r
      BY <2>1
    <2>3. \A k \in 1 .. n : w2[k] = {}
      BY <1>1
    <2> QED
      BY <1>1, <2>2, <2>3 DEF Becomes
  <1>2. ASSUME NEW k \in DOMAIN w, w[k] = {v}, \A l \in DOMAIN w : l > k => w[l] = {}
        PROVE  Becomes(r2, w2, v)
    <2>1. CASE k = 1
      <3>1. r2 = v
        BY <1>2, <2>1
      <3>2. \A l \in 1 .. n : w2[l] = {}
        BY <1>2, <2>1
      <3> QED
        BY <3>1, <3>2 DEF Becomes
    <2>2. CASE k # 1
      <3>1. k - 1 \in 1 .. n /\ w2[k - 1] = {v}
        BY <1>2, <2>2
      <3>2. \A l \in 1 .. n : l > k - 1 => w2[l] = {}
        BY <1>2
      <3> QED
        BY <3>1, <3>2 DEF Becomes
    <2> QED
      BY <2>1, <2>2
  <1> QED
    BY <1>1, <1>2 DEF Becomes

(* Nothing is left to say. *)
LEMMA BecomesNow ==
  ASSUME NEW w, NEW r, NEW v, DOMAIN w = {}, Becomes(r, w, v)
  PROVE  v = r
  BY DEF Becomes

-----------------------------------------------------------------------------
(* The shape of the two handlers that change who is there. *)
Sent(q, m) ==
  IF data[q] # 0 /\ ~Closed(down, q) THEN Append(down[q], m) ELSE down[q]

Arrival(p, i, map) == News([Nobody EXCEPT ![i] = p], 0, map)

Joins(p, i, map) ==
  /\ i \in Pid /\ players[i] = None /\ map \in Map
  /\ \A q \in Pad : map[q] = padMap[q] \/ map[q] = i
  /\ data' = [data EXCEPT ![p] = i] /\ players' = [players EXCEPT ![i] = p]
  /\ padMap' = map
  /\ down' = [q \in Peer |-> IF q = p THEN <<Welcome(p, i, map)>>
                             ELSE Sent(q, Arrival(p, i, map))]
  /\ raced' = (raced \/ gui # "idle")

Closing(q) == IF Closed(down, q) THEN down[q] ELSE Append(down[q], Disconnected)

Leaves(p, i) ==
  /\ i \in Pid /\ players[i] = p /\ data[p] = i
  /\ data' = [data EXCEPT ![p] = 0] /\ players' = [players EXCEPT ![i] = None]
  /\ padMap' = Unmap(padMap, i)
  /\ phase' \in {phase, "idle"}
  /\ down' = [q \in Peer |-> IF q = p THEN Closing(p)
                             ELSE Sent(q, LeaveMessage(i, padMap))]
  /\ raced' = (raced \/ gui # "idle")

LEMMA AssignPadType ==
  ASSUME NEW m \in Map, NEW i \in Pid
  PROVE  /\ AssignPad(m, i) \in Map
         /\ \A q \in Pad : AssignPad(m, i)[q] = m[q] \/ AssignPad(m, i)[q] = i
  <1> DEFINE free == {q \in Pad : m[q] = 0}
  <1>1. CASE free = {}
    BY <1>1 DEF AssignPad
  <1>2. CASE free # {}
    <2>1. free \in SUBSET Nat
      BY Constants
    <2>2. Smallest(free) \in free
      BY <2>1, <1>2, SmallestType
    <2>3. Smallest(free) \in Pad
      BY <2>2
    <2>4. AssignPad(m, i) = [m EXCEPT ![Smallest(free)] = i]
      BY <1>2 DEF AssignPad
    <2>5. i \in 0 .. MaxPlayers
      BY Constants
    <2> HIDE DEF free
    <2> QED
      BY <2>3, <2>4, <2>5 DEF Map
  <1> QED
    BY <1>1, <1>2

(* A peer has a player exactly when its data are set. *)
LEMMA Seated ==
  ASSUME OwnerInv, NEW q \in Peer
  PROVE  (\E i \in Pid : players[i] = q) <=> data[q] # 0
  <1>1. data[q] # 0 => data[q] \in Pid
    BY Constants DEF OwnerInv, OwnerType, Pid
  <1> QED
    BY <1>1, Constants DEF OwnerInv, OwnerType, PeerOwnsPlayer

LEMMA JoinShape ==
  ASSUME OwnerInv, Types, NEW p \in Peer, data[p] = 0, NEW m, OnConnect(p, m), Acceptable(m)
  PROVE  \E i \in Pid, map \in Map : Joins(p, i, map)
  <1> DEFINE i == FirstAvailableID
             map == AssignPad(padMap, i)
  <1>1. i \in Pid /\ players[i] = None
    BY FreeID DEF Acceptable, OwnerInv
  <1>2. padMap \in Map
    BY DEF Types, TypeOK, Map
  <1>3. map \in Map /\ \A q \in Pad : map[q] = padMap[q] \/ map[q] = i
    BY <1>1, <1>2, AssignPadType
  <1>4. /\ data' = [data EXCEPT ![p] = i] /\ players' = [players EXCEPT ![i] = p]
        /\ padMap' = map /\ raced' = (raced \/ gui # "idle")
        /\ down' = [SendToClients(down, players, Arrival(p, i, map))
                      EXCEPT ![p] = <<Welcome(p, i, map)>>]
    BY DEF OnConnect, Disturbs, Arrival
  <1> HIDE DEF map, i
  <1>5. ASSUME NEW q \in Peer, q # p
        PROVE  SendToClients(down, players, Arrival(p, i, map))[q] = Sent(q, Arrival(p, i, map))
    BY Seated DEF SendToClients, Sent
  <1>6. down' = [q \in Peer |-> IF q = p THEN <<Welcome(p, i, map)>>
                                ELSE Sent(q, Arrival(p, i, map))]
    <2>1. down' = [q \in Peer |-> IF q = p THEN <<Welcome(p, i, map)>>
                      ELSE SendToClients(down, players, Arrival(p, i, map))[q]]
      BY <1>4 DEF SendToClients
    <2> QED
      BY <2>1, <1>5, Zenon
  <1>7. Joins(p, i, map)
    BY <1>1, <1>3, <1>4, <1>6 DEF Joins
  <1> QED
    BY <1>1, <1>3, <1>7

LEMMA LeaveShape ==
  ASSUME OwnerInv, Types, NEW p \in Peer, data[p] # 0, OnDisconnect(p, data[p]),
         data' = [data EXCEPT ![p] = 0]
  PROVE  \E i \in Pid : Leaves(p, i)
  <1> DEFINE i == data[p]
             left == [players EXCEPT ![i] = None]
             gone == [down EXCEPT ![p] = IF Closed(down, p) THEN @ ELSE Append(@, Disconnected)]
             news == LeaveMessage(i, padMap)
  <1>1. i \in Pid /\ players[i] = p /\ data[p] = i
    BY Constants DEF OwnerInv, OwnerType, PeerOwnsPlayer, Pid
  <1>2. /\ players' = left /\ padMap' = Unmap(padMap, i) /\ phase' \in {phase, "idle"}
        /\ raced' = (raced \/ gui # "idle") /\ down' = SendToClients(gone, left, news)
    BY DEF OnDisconnect, Disturbs
  <1>3. gone[p] = Closing(p) /\ \A q \in Peer : q # p => gone[q] = down[q]
    BY DEF Types, Closing
  <1>4. Closed(gone, p)
    <2>1. down[p] \in Seq(DownMessage) /\ Disconnected \in DownMessage
      BY DEF Types, DownMessage
    <2>2. CASE Closed(down, p)
      BY <2>2, <1>3 DEF Closing, Closed
    <2>3. CASE ~Closed(down, p)
      <3>1. gone[p] = Append(down[p], Disconnected)
        BY <2>3, <1>3 DEF Closing
      <3> QED
        BY <3>1, <2>1, ClosedAppend DEF Closed
    <2> QED
      BY <2>2, <2>3
  <1>5. ASSUME NEW q \in Peer, q # p
        PROVE  (\E j \in Pid : left[j] = q) <=> data[q] # 0
    <2>1. \A j \in Pid : left[j] = q <=> players[j] = q
      BY <1>1, <1>5, Constants DEF OwnerInv, OwnerType
    <2> QED
      BY <2>1, Seated
  <1> HIDE DEF i, left, gone, news
  <1>6. ASSUME NEW q \in Peer
        PROVE  SendToClients(gone, left, news)[q] = IF q = p THEN Closing(p) ELSE Sent(q, news)
    <2>1. CASE q = p
      BY <2>1, <1>3, <1>4 DEF SendToClients
    <2>2. CASE q # p
      <3>1. Closed(gone, q) <=> Closed(down, q)
        BY <2>2, <1>3 DEF Closed
      <3> QED
        BY <2>2, <3>1, <1>3, <1>5 DEF SendToClients, Sent
    <2> QED
      BY <2>1, <2>2
  <1>7. down' = [q \in Peer |-> IF q = p THEN Closing(p) ELSE Sent(q, news)]
    <2>1. down' = [q \in Peer |-> SendToClients(gone, left, news)[q]]
      BY <1>2 DEF SendToClients
    <2> QED
      BY <2>1, <1>6, Zenon
  <1>8. Leaves(p, i)
    BY <1>1, <1>2, <1>7 DEF Leaves, left, news
  <1> QED
    BY <1>1, <1>8

-----------------------------------------------------------------------------
(* Every step is one of these. *)
Joining(p) ==
  /\ up[p] # <<>> /\ Head(up[p]).type = "Init" /\ data[p] = 0
  /\ \E i \in Pid, map \in Map : Joins(p, i, map)
  /\ up' = [up EXCEPT ![p] = Tail(@)]
  /\ UNCHANGED <<phase, cvars, gvars, events>>

Refusing(p) ==
  /\ up[p] # <<>> /\ Head(up[p]).type = "Init" /\ data[p] = 0
  /\ down' = [down EXCEPT ![p] = <<Refused, Disconnected>>]
  /\ up' = [up EXCEPT ![p] = Tail(@)]
  /\ UNCHANGED <<svars, cvars, gvars, events, raced>>

Leaving(p) ==
  /\ up[p] # <<>>
  /\ \E i \in Pid : Leaves(p, i)
  /\ up' \in {[up EXCEPT ![p] = <<>>], [up EXCEPT ![p] = <<Disconnected>>]}
  /\ UNCHANGED <<cvars, gvars, events>>

Nothing(p) ==
  /\ up[p] # <<>> /\ data[p] = 0 /\ up' = [up EXCEPT ![p] = <<>>]
  /\ UNCHANGED <<svars, down, raced, cvars, gvars, events>>

(* The handlers of the server come down to those four. *)
LEMMA ServerShape ==
  ASSUME OwnerInv, Types, NEW p \in Peer, Server(p)
  PROVE  Joining(p) \/ Refusing(p) \/ Leaving(p) \/ Nothing(p)
  <1>1. CASE ServerOnInit(p)
    <2> DEFINE m == Head(up[p])
    <2>1. OnConnect(p, m) /\ data[p] = 0
      BY <1>1 DEF ServerOnInit
    <2>2. CASE Acceptable(m)
      <3>1. \E i \in Pid, map \in Map : Joins(p, i, map)
        BY <2>1, <2>2, JoinShape
      <3> QED
        BY <1>1, <3>1 DEF ServerOnInit, Joining
    <2>3. CASE ~Acceptable(m)
      BY <1>1, <2>3 DEF ServerOnInit, OnConnect, Refusing, svars
    <2> QED
      BY <2>2, <2>3
  <1>2. CASE ServerOnBadPacket(p)
    <2>1. \E i \in Pid : Leaves(p, i)
      BY <1>2, LeaveShape DEF ServerOnBadPacket
    <2> QED
      BY <1>2, <2>1 DEF ServerOnBadPacket, Leaving
  <1>3. CASE ServerOnDisconnectEvent(p)
    <2>1. CASE data[p] # 0
      <3>1. players[data[p]] = p /\ p # None
        BY <2>1, Constants DEF OwnerInv, PeerOwnsPlayer
      <3>2. OnDisconnect(p, data[p]) /\ data' = [data EXCEPT ![p] = 0]
        BY <1>3, <2>1, <3>1 DEF ServerOnDisconnectEvent
      <3>3. \E i \in Pid : Leaves(p, i)
        BY <2>1, <3>2, LeaveShape
      <3> QED
        BY <1>3, <3>3 DEF ServerOnDisconnectEvent, Leaving
    <2>2. CASE data[p] = 0
      BY <1>3, <2>2 DEF ServerOnDisconnectEvent, Nothing
    <2> QED
      BY <2>1, <2>2
  <1> QED
    BY <1>1, <1>2, <1>3 DEF Server

(* The mapping dialog's rows. *)
LEMMA OrderedType ==
  ASSUME NEW S \in SUBSET Pid
  PROVE  \E n \in Nat : Ordered(S) \in [1 .. n -> S]
  <1> DEFINE Enumerates(s, T) ==
               /\ s \in [1 .. Cardinality(T) -> T]
               /\ \A a, b \in 1 .. Cardinality(T) : a < b => s[a] < s[b]
             Bad == {n \in Nat : \E T \in SUBSET Pid :
                        Cardinality(T) = n /\ ~(\E s : Enumerates(s, T))}
  <1>0. \A T \in SUBSET Pid : IsFiniteSet(T) /\ Cardinality(T) \in Nat
    <2>1. IsFiniteSet(Pid)
      BY Constants, FS_Interval DEF Pid
    <2> QED
      BY <2>1, FS_Subset, FS_CardinalityType
  <1>1. Bad = {}
    <2> SUFFICES ASSUME Bad # {} PROVE FALSE
      OBVIOUS
    <2> DEFINE n == Smallest(Bad)
    <2>1. n \in Bad /\ \A j \in Bad : n <= j
      BY SmallestType
    <2>2. PICK T \in SUBSET Pid : Cardinality(T) = n /\ ~(\E s : Enumerates(s, T))
      BY <2>1
    <2> HIDE DEF n
    <2>3. T # {}
      <3> SUFFICES ASSUME T = {} PROVE FALSE
        OBVIOUS
      <3>1. Cardinality(T) = 0
        BY FS_EmptySet
      <3>2. Enumerates(<<>>, T)
        BY <3>1
      <3> QED
        BY <3>2, <2>2
    <2> DEFINE i == Smallest(T)
               R == T \ {i}
    <2>4. i \in T /\ \A j \in T : i <= j
      BY <2>3, Constants, SmallestType
    <2>5. R \in SUBSET Pid /\ Cardinality(R) = n - 1 /\ n \in Nat /\ n > 0
      <3>1. Cardinality(R) = Cardinality(T) - 1
        BY <2>4, <1>0, FS_RemoveElement
      <3>2. Cardinality(R) \in Nat
        BY <1>0
      <3> QED
        BY <3>1, <3>2, <2>2, <1>0
    <2>6. n - 1 \notin Bad
      BY <2>1, <2>5
    <2> HIDE DEF i
    <2>7. PICK t : Enumerates(t, R)
      <3> HIDE DEF R, Enumerates
      <3>1. n - 1 \in Nat
        BY <2>5
      <3>2. \A U \in SUBSET Pid : Cardinality(U) = n - 1 => \E s : Enumerates(s, U)
        BY <3>1, <2>6
      <3> QED
        BY <2>5, <3>2, Zenon
    <2>7a. /\ t \in [1 .. n - 1 -> R]
           /\ \A a, b \in 1 .. n - 1 : a < b => t[a] < t[b]
      BY <2>5, <2>7, Zenon
    <2> DEFINE s == [k \in 1 .. n |-> IF k = 1 THEN i ELSE t[k - 1]]
    <2>8. \A k \in 1 .. n : k # 1 => k - 1 \in 1 .. n - 1 /\ t[k - 1] \in R
      <3> HIDE DEF R
      <3> QED
        BY <2>5, <2>7a
    <2>9. s \in [1 .. Cardinality(T) -> T]
      BY <2>2, <2>4, <2>8
    <2>10. ASSUME NEW a \in 1 .. n, NEW b \in 1 .. n, a < b PROVE s[a] < s[b]
      <3>1. b # 1 /\ s[b] = t[b - 1] /\ t[b - 1] \in R /\ b - 1 \in 1 .. n - 1
        BY <2>5, <2>10, <2>8
      <3>2. CASE a = 1
        <4>1. s[a] = i /\ i \in Nat /\ t[b - 1] \in Nat /\ i <= t[b - 1] /\ t[b - 1] # i
          BY <3>1, <3>2, <2>4, Constants
        <4> QED
          BY <4>1, <3>1
      <3>3. CASE a # 1
        <4>1. a - 1 \in 1 .. n - 1 /\ a - 1 < b - 1 /\ s[a] = t[a - 1]
          BY <3>1, <3>3, <2>5, <2>10
        <4> QED
          BY <3>1, <4>1, <2>7a
      <3> QED
        BY <3>2, <3>3
    <2>11. Enumerates(s, T)
      BY <2>2, <2>9, <2>10
    <2> QED
      BY <2>11, <2>2
  <1>2. \E s : Enumerates(s, S)
    BY <1>0, <1>1
  <1>3. Ordered(S) \in [1 .. Cardinality(S) -> S]
    BY <1>2 DEF Ordered
  <1> QED
    BY <1>3, <1>0

-----------------------------------------------------------------------------
(* The types, shape by shape. *)
LEMMA LeaveMessageType ==
  ASSUME NEW m \in Map, NEW i \in Pid
  PROVE  /\ Unmap(m, i) \in Map /\ LeaveMessage(i, m) \in NewsMessage
         /\ LeaveMessage(i, m).joined = Nobody /\ LeaveMessage(i, m).left = i
         /\ LeaveMessage(i, m).map = IF \E q \in Pad : m[q] = i THEN Unmap(m, i) ELSE None
  <1>1. Unmap(m, i) \in Map
    BY Constants DEF Unmap, Map
  <1> DEFINE f == IF \E q \in Pad : m[q] = i THEN Unmap(m, i) ELSE None
  <1>2. f \in Map \cup {None} /\ i \in 0 .. MaxPlayers /\ LeaveMessage(i, m) = News(Nobody, i, f)
    BY <1>1, Constants DEF LeaveMessage
  <1> HIDE DEF f
  <1>3. News(Nobody, i, f) \in NewsMessage /\ News(Nobody, i, f).joined = Nobody
        /\ News(Nobody, i, f).left = i /\ News(Nobody, i, f).map = f
    BY <1>2, Constants, NewsType
  <1> QED
    BY <1>1, <1>2, <1>3 DEF f

LEMMA ArrivalType ==
  ASSUME NEW p \in Peer, NEW i \in Pid, NEW map \in Map
  PROVE  /\ Arrival(p, i, map) \in NewsMessage
         /\ Arrival(p, i, map).joined = [Nobody EXCEPT ![i] = p]
         /\ Arrival(p, i, map).left = 0 /\ Arrival(p, i, map).map = map
  <1>1. [Nobody EXCEPT ![i] = p] \in Table /\ 0 \in 0 .. MaxPlayers
    BY Constants DEF Table
  <1> QED
    BY <1>1, NewsType DEF Arrival

LEMMA WelcomeType ==
  ASSUME OwnerType, NEW p \in Peer, NEW i \in Pid, NEW map \in Map
  PROVE  /\ Welcome(p, i, map) \in NewsMessage
         /\ Welcome(p, i, map).joined = [players EXCEPT ![i] = p]
         /\ Welcome(p, i, map).left = 0 /\ Welcome(p, i, map).map = map
  <1>1. [players EXCEPT ![i] = p] \in Table /\ 0 \in 0 .. MaxPlayers
    BY Constants DEF Table, OwnerType
  <1> QED
    BY <1>1, NewsType DEF Welcome

LEMMA PadMappingType ==
  ASSUME NEW map \in Map
  PROVE  /\ PadMapping(map) \in NewsMessage
         /\ PadMapping(map).joined = Nobody
         /\ PadMapping(map).left = 0 /\ PadMapping(map).map = map
  <1>1. Nobody \in Table /\ 0 \in 0 .. MaxPlayers
    BY Constants
  <1> QED
    BY <1>1, NewsType DEF PadMapping

LEMMA SentType ==
  ASSUME Types, NEW q \in Peer, NEW m \in NewsMessage
  PROVE  Sent(q, m) \in Seq(DownMessage) /\ Closing(q) \in Seq(DownMessage)
  BY DEF Types, Sent, Closing, DownMessage

(* The types of what the connections carry, and of the rest. *)
Wires == up \in [Peer -> Seq(UpMessage)] /\ down \in [Peer -> Seq(DownMessage)]
Boxes == list \in Seq(0 .. MaxPlayers) /\ index \in [Pad -> 0 .. Len(list)] /\ raced \in BOOLEAN

LEMMA JoiningTypes ==
  ASSUME OwnerInv, Types, NEW p \in Peer, Joining(p)
  PROVE  Types'
  <1>1. PICK i \in Pid, map \in Map : Joins(p, i, map)
    BY DEF Joining
  <1>2. Arrival(p, i, map) \in NewsMessage /\ Welcome(p, i, map) \in NewsMessage
    BY ArrivalType, WelcomeType DEF OwnerInv
  <1>3. TypeOK'
    BY <1>1, Constants DEF Joining, Joins, Types, TypeOK, Map, cvars, gvars
  <1>4. down' \in [Peer -> Seq(DownMessage)]
    <2>1. <<Welcome(p, i, map)>> \in Seq(DownMessage)
      BY <1>2 DEF DownMessage
    <2>2. \A q \in Peer : Sent(q, Arrival(p, i, map)) \in Seq(DownMessage)
      BY <1>2, SentType
    <2> QED
      BY <1>1, <2>1, <2>2 DEF Joins
  <1>5. up' \in [Peer -> Seq(UpMessage)]
    BY DEF Joining, Types
  <1>6. Boxes'
    BY <1>1 DEF Joining, Joins, Types, gvars, Boxes
  <1> QED
    BY <1>3, <1>4, <1>5, <1>6 DEF Types, Boxes

LEMMA LeavingTypes ==
  ASSUME OwnerInv, Types, NEW p \in Peer, Leaving(p)
  PROVE  Types'
  <1>1. PICK i \in Pid : Leaves(p, i)
    BY DEF Leaving
  <1>2. LeaveMessage(i, padMap) \in NewsMessage /\ Unmap(padMap, i) \in Map
    BY LeaveMessageType DEF Types, TypeOK, Map
  <1>3. TypeOK'
    BY <1>1, <1>2, Constants DEF Leaving, Leaves, Types, TypeOK, Map, cvars, gvars
  <1>4. down' \in [Peer -> Seq(DownMessage)]
    <2>1. \A q \in Peer : /\ Sent(q, LeaveMessage(i, padMap)) \in Seq(DownMessage)
                          /\ Closing(q) \in Seq(DownMessage)
      BY <1>2, SentType
    <2> QED
      BY <1>1, <2>1 DEF Leaves
  <1>5. up' \in [Peer -> Seq(UpMessage)]
    <2>1. <<>> \in Seq(UpMessage) /\ <<Disconnected>> \in Seq(UpMessage)
      BY DEF UpMessage
    <2> QED
      BY <2>1 DEF Leaving, Types
  <1>6. Boxes'
    BY <1>1 DEF Leaving, Leaves, Types, gvars, Boxes
  <1> QED
    BY <1>3, <1>4, <1>5, <1>6 DEF Types, Boxes

LEMMA AloneTypes ==
  ASSUME Types, NEW p \in Peer,
         Refusing(p) \/ Nothing(p) \/ ClientOnEnd(p) \/ Disconnect(p) \/ SendBad(p)
           \/ LoseConnection(p) \/ Connect(p) \/ ComeBack(p)
  PROVE  Types'
  <1>1. /\ <<>> \in Seq(UpMessage) /\ <<Disconnected>> \in Seq(UpMessage)
        /\ Disconnected \in UpMessage /\ [type |-> "Bad"] \in UpMessage
        /\ \A f \in BOOLEAN : <<[type |-> "Init", fits |-> f]>> \in Seq(UpMessage)
    BY DEF UpMessage
  <1>2. /\ <<>> \in Seq(DownMessage) /\ <<Disconnected>> \in Seq(DownMessage)
        /\ <<Refused, Disconnected>> \in Seq(DownMessage)
    BY DEF DownMessage
  <1>3. up[p] \in Seq(UpMessage)
    BY DEF Types
  <1>4. up' \in [Peer -> Seq(UpMessage)]
    <2>1. \E u \in Seq(UpMessage) : up' = [up EXCEPT ![p] = u]
      <3>1. CASE UNCHANGED up
        <4>1. up' = [up EXCEPT ![p] = up[p]]
          BY <3>1 DEF Types
        <4> QED
          BY <4>1, <1>3
      <3>2. CASE Refusing(p) \/ Nothing(p)
        <4>1. up[p] # <<>> => Tail(up[p]) \in Seq(UpMessage)
          BY <1>3
        <4> QED
          BY <3>2, <4>1, <1>1 DEF Refusing, Nothing
      <3>3. CASE Disconnect(p)
        <4>1. Append(up[p], Disconnected) \in Seq(UpMessage)
          BY <1>1, <1>3
        <4> QED
          BY <3>3, <1>3, <4>1 DEF Disconnect
      <3>4. CASE SendBad(p)
        <4>1. Append(up[p], [type |-> "Bad"]) \in Seq(UpMessage)
          BY <1>1, <1>3
        <4> QED
          BY <3>4, <4>1 DEF SendBad
      <3>5. CASE LoseConnection(p) \/ Connect(p)
        BY <3>5, <1>1 DEF LoseConnection, Connect
      <3>6. CASE ClientOnEnd(p) \/ ComeBack(p)
        BY <3>6, <3>1 DEF ClientOnEnd, ComeBack
      <3> QED
        BY <3>2, <3>3, <3>4, <3>5, <3>6
    <2> QED
      BY <2>1 DEF Types
  <1>5. down' \in [Peer -> Seq(DownMessage)]
    BY <1>2 DEF Types, Refusing, Nothing, ClientOnEnd, Disconnect, SendBad, LoseConnection,
                Connect, ComeBack
  <1>6. Boxes'
    BY DEF Types, Boxes, Refusing, Nothing, ClientOnEnd, Disconnect, SendBad, LoseConnection,
           Connect, ComeBack, gvars
  <1>7. TypeOK'
    <2>1. UNCHANGED <<svars, gvars>>
      BY DEF Refusing, Nothing, ClientOnEnd, Disconnect, SendBad, LoseConnection, Connect,
             ComeBack, svars, gvars
    <2>2. client' \in [Peer -> {"off", "connecting", "in", "refused", "out"}]
      BY DEF Types, TypeOK, Refusing, Nothing, ClientOnEnd, Disconnect, SendBad,
             LoseConnection, Connect, ComeBack, cvars
    <2>3. roster' \in [Peer -> Table] /\ cmap' \in [Peer -> Map]
      <3>1. roster \in [Peer -> Table] /\ cmap \in [Peer -> Map]
        BY DEF Types, TypeOK, Table, Map
      <3>2. \/ UNCHANGED <<roster, cmap>>
            \/ /\ roster' = [roster EXCEPT ![p] = Nobody]
               /\ cmap' = [cmap EXCEPT ![p] = NoPads]
        BY DEF Refusing, Nothing, ClientOnEnd, Disconnect, SendBad, LoseConnection, Connect,
               ComeBack, cvars
      <3>3. Nobody \in Table /\ NoPads \in Map
        BY Constants
      <3> QED
        BY <3>1, <3>2, <3>3
    <2> QED
      BY <2>1, <2>2, <2>3 DEF Types, TypeOK, svars, gvars, Table, Map
  <1> QED
    BY <1>4, <1>5, <1>6, <1>7 DEF Types, Boxes

(* The list and the map of a client after a message. *)
LEMMA NewsShape ==
  ASSUME Types, NEW p \in Peer, ClientOnNews(p)
  PROVE  \E m \in NewsMessage :
           /\ down[p] # <<>> /\ m = Head(down[p]) /\ client[p] \in {"connecting", "in"}
           /\ roster' = [roster EXCEPT ![p] = [i \in Pid |->
                IF i = m.left THEN None ELSE IF m.joined[i] # None THEN m.joined[i]
                ELSE roster[p][i]]]
           /\ cmap' = [cmap EXCEPT ![p] = IF m.map = None THEN cmap[p] ELSE m.map]
           /\ client' = [client EXCEPT ![p] = "in"]
           /\ down' = [down EXCEPT ![p] = Tail(down[p])]
           /\ p # Host => list' = list
           /\ UNCHANGED <<svars, up, gui, index, copy, cursor, events, raced>>
  <1> DEFINE m == Head(down[p])
  <1>1. down[p] # <<>> /\ client[p] \in {"connecting", "in"} /\ m.type = "News"
    BY DEF ClientOnNews
  <1>2. m \in NewsMessage
    <2>1. m \in DownMessage
      BY <1>1 DEF Types
    <2> QED
      BY <2>1, <1>1, MessageKinds
  <1>3. m.left = 0 \/ m.joined = Nobody
    BY <1>2 DEF NewsMessage
  <1> HIDE DEF m
  <1> DEFINE heard == [i \in Pid |->
               CASE i = m.left -> None [] m.joined[i] # None -> m.joined[i]
                 [] OTHER -> roster[p][i]]
             after == [i \in Pid |->
               IF i = m.left THEN None ELSE IF m.joined[i] # None THEN m.joined[i]
               ELSE roster[p][i]]
  <1>4. roster' = [roster EXCEPT ![p] = heard]
    BY DEF ClientOnNews, m, Types, TypeOK
  <1>5. ASSUME NEW i \in Pid PROVE heard[i] = after[i]
    <2>1. i = m.left => m.joined[i] = None
      BY <1>3, Constants DEF Nobody
    <2> QED
      BY <2>1
  <1>6. roster' = [roster EXCEPT ![p] = after]
    <2>1. heard = after
      BY <1>5
    <2> QED
      BY <1>4, <2>1, Zenon
  <1>7. cmap' = [cmap EXCEPT ![p] = IF m.map = None THEN cmap[p] ELSE m.map]
    BY DEF ClientOnNews, m, Types, TypeOK
  <1>8. /\ client' = [client EXCEPT ![p] = "in"]
        /\ down' = [down EXCEPT ![p] = Tail(down[p])]
        /\ p # Host => list' = list
        /\ UNCHANGED <<svars, up, gui, index, copy, cursor, events, raced>>
    BY DEF ClientOnNews
  <1> QED
    BY <1>1, <1>2, <1>6, <1>7, <1>8 DEF m

LEMMA NewsTypes ==
  ASSUME Types, NEW p \in Peer, ClientOnNews(p)
  PROVE  Types'
  <1>1. PICK m \in NewsMessage :
           /\ down[p] # <<>> /\ m = Head(down[p]) /\ client[p] \in {"connecting", "in"}
           /\ roster' = [roster EXCEPT ![p] = [i \in Pid |->
                IF i = m.left THEN None ELSE IF m.joined[i] # None THEN m.joined[i]
                ELSE roster[p][i]]]
           /\ cmap' = [cmap EXCEPT ![p] = IF m.map = None THEN cmap[p] ELSE m.map]
           /\ client' = [client EXCEPT ![p] = "in"]
           /\ down' = [down EXCEPT ![p] = Tail(down[p])]
           /\ p # Host => list' = list
           /\ UNCHANGED <<svars, up, gui, index, copy, cursor, events, raced>>
    BY NewsShape
  <1>2. m.joined \in Table /\ m.map \in Map \cup {None} /\ m.left \in 0 .. MaxPlayers
    BY DEF NewsMessage
  <1>3. roster' \in [Peer -> Table] /\ cmap' \in [Peer -> Map]
    <2>1. roster \in [Peer -> Table] /\ cmap \in [Peer -> Map]
      BY DEF Types, TypeOK, Table, Map
    <2>2. [i \in Pid |-> IF i = m.left THEN None
             ELSE IF m.joined[i] # None THEN m.joined[i] ELSE roster[p][i]] \in Table
      BY <1>2, <2>1 DEF Table
    <2>3. (IF m.map = None THEN cmap[p] ELSE m.map) \in Map
      BY <1>2, <2>1
    <2> QED
      BY <1>1, <2>1, <2>2, <2>3
  <1>4. client' \in [Peer -> {"off", "connecting", "in", "refused", "out"}]
    BY <1>1 DEF Types, TypeOK
  <1>5. TypeOK'
    BY <1>1, <1>3, <1>4 DEF Types, TypeOK, Table, Map, svars
  <1>6. Wires'
    BY <1>1 DEF Types, Wires
  <1>7. Boxes'
    <2>1. list' = list \/ list' = [k \in DOMAIN list |-> IF list[k] = m.left THEN 0 ELSE list[k]]
      BY <1>1 DEF ClientOnNews
    <2>2. list' \in Seq(0 .. MaxPlayers) /\ Len(list') = Len(list)
      <3>1. CASE list' = list
        BY <3>1 DEF Types
      <3>2. CASE list' = [k \in DOMAIN list |-> IF list[k] = m.left THEN 0 ELSE list[k]]
        <4>0. list \in Seq(0 .. MaxPlayers)
          BY DEF Types
        <4>1. /\ DOMAIN list = 1 .. Len(list) /\ Len(list) \in Nat
              /\ \A k \in 1 .. Len(list) : list[k] \in 0 .. MaxPlayers
          BY <4>0, SequenceIsFunction
        <4>2. list' \in [1 .. Len(list) -> 0 .. MaxPlayers]
          BY <3>2, <4>1, Constants
        <4>3. list' \in Seq(0 .. MaxPlayers)
          BY <4>1, <4>2, FunctionIsSequence
        <4>4. Len(list') = Len(list)
          BY <4>1, <4>2, FunctionIsSequence
        <4> QED
          BY <4>3, <4>4
      <3> QED
        BY <2>1, <3>1, <3>2
    <2> QED
      BY <1>1, <2>2 DEF Types, Boxes
  <1> QED
    BY <1>5, <1>6, <1>7 DEF Types, Wires, Boxes

LEMMA KickTypes ==
  ASSUME OwnerInv, Types, NEW i \in Pid, KickPlayer(i)
  PROVE  Types'
  <1>1. <<Disconnected>> \in Seq(UpMessage) /\ Disconnected \in DownMessage
    BY DEF UpMessage, DownMessage
  <1>2. players[i] \in Peer
    BY DEF KickPlayer, OwnerInv, OwnerType
  <1>3. Wires'
    BY <1>1, <1>2 DEF Types, KickPlayer, Wires
  <1> QED
    BY <1>3 DEF Types, TypeOK, Wires, KickPlayer, svars, cvars, gvars

LEMMA GuiTypes ==
  ASSUME OwnerInv, Types, Gui \/ StartGame \/ StopGame
  PROVE  Types'
  <1>1. ASSUME NEW next \in {"pending", "running"}, RequestStartGame(next) PROVE Types'
    BY <1>1 DEF Types, TypeOK, RequestStartGame, cvars, gvars
  <1>2. CASE StartGame \/ StopGame
    BY <1>2 DEF Types, TypeOK, StartGame, StopGame, cvars, gvars
  <1>3. CASE OpenDialog
    <2>1. Used(roster[Host]) \in SUBSET Pid
      BY DEF Used
    <2>2. list' \in Seq(0 .. MaxPlayers)
      <3>1. PICK n \in Nat : list' \in [1 .. n -> Used(roster[Host])]
        BY <1>3, <2>1, OrderedType DEF OpenDialog
      <3>2. list' \in [1 .. n -> 0 .. MaxPlayers]
        BY <3>1, <2>1, Constants
      <3> QED
        BY <3>2, FunctionIsSequence
    <2>3. index' \in [Pad -> 0 .. Len(list')]
      <3>1. Len(list') \in Nat
        BY <2>2
      <3>2. \A q \in Pad : padMap[q] \in Nat
        BY Constants DEF Types, TypeOK
      <3> HIDE <2>2
      <3> QED
        BY <1>3, <3>1, <3>2 DEF OpenDialog
    <2>4. Wires' /\ raced' \in BOOLEAN
      BY <1>3 DEF Types, Wires, OpenDialog
    <2>5. TypeOK'
      BY <1>3 DEF Types, TypeOK, OpenDialog, svars, cvars
    <2> QED
      BY <2>2, <2>3, <2>4, <2>5 DEF Types, Wires
  <1>4. CASE AssignMapping
    <2>1. list' \in Seq(0 .. MaxPlayers) /\ Len(list') = 0 /\ index' = NoPads /\ copy' = NoPads
      BY <1>4 DEF AssignMapping
    <2>2. index' \in [Pad -> 0 .. Len(list')] /\ copy' \in [Pad -> 0 .. MaxPlayers]
      BY <2>1, Constants DEF NoPads, Map
    <2> QED
      BY <1>4, <2>1, <2>2 DEF Types, TypeOK, AssignMapping, cvars
  <1>5. CASE BuildMapping
    BY <1>5 DEF Types, TypeOK, BuildMapping, svars, cvars
  <1>6. CASE SendMapping
    <2> DEFINE rest == {i \in Used(players) : i > cursor}
    <2>1. CASE rest = {}
      <3>1. NoPads \in [Pad -> 0 .. MaxPlayers] /\ 0 \in 0 .. MaxPlayers
        BY Constants DEF Map
      <3>2. /\ cursor' = 0 /\ gui' = "idle" /\ copy' = NoPads
            /\ UNCHANGED <<down, svars, up, cvars, list, index, raced>>
        BY <1>6, <2>1 DEF SendMapping
      <3> QED
        BY <3>1, <3>2 DEF Types, TypeOK, svars, cvars
    <2>2. CASE rest # {}
      <3> DEFINE i == Smallest(rest)
      <3>1. i \in rest
        <4>1. rest \in SUBSET Nat
          BY Constants DEF Used
        <4> QED
          BY <4>1, <2>2, SmallestType
      <3>2. i \in Pid /\ players[i] \in Peer
        BY <3>1 DEF Used, OwnerInv, OwnerType
      <3>3. /\ cursor' = i /\ UNCHANGED <<gui, copy, svars, up, cvars, list, index, raced>>
            /\ down' = [down EXCEPT ![players[i]] =
                          IF Closed(down, players[i]) THEN @ ELSE Append(@, PadMapping(copy))]
        BY <1>6, <2>2 DEF SendMapping
      <3>4. PadMapping(copy) \in DownMessage
        BY PadMappingType DEF Types, TypeOK, Map, DownMessage
      <3> HIDE DEF i
      <3>5. down' \in [Peer -> Seq(DownMessage)]
        BY <3>2, <3>3, <3>4 DEF Types
      <3>6. cursor' \in 0 .. MaxPlayers
        BY <3>2, <3>3, Constants
      <3> QED
        BY <3>3, <3>5, <3>6 DEF Types, TypeOK, svars, cvars
    <2> QED
      BY <2>1, <2>2
  <1>7. ASSUME NEW i \in Pid, KickPlayer(i) PROVE Types'
    BY <1>7, KickTypes
  <1>8. ASSUME NEW q \in Pad, NEW k \in 0 .. Len(list), ChangeMapping(q, k) PROVE Types'
    <2>1. index' \in [Pad -> 0 .. Len(list)] /\ copy' \in [Pad -> 0 .. MaxPlayers]
      BY <1>8 DEF Types, ChangeMapping
    <2> QED
      BY <1>8, <2>1 DEF Types, TypeOK, ChangeMapping, svars, cvars
  <1> QED
    BY <1>1, <1>2, <1>3, <1>4, <1>5, <1>6, <1>7, <1>8 DEF Gui

-----------------------------------------------------------------------------
(* Who sits where. *)
LEMMA SeatKept ==
  ASSUME NEW q \in Peer, FirstPacket(q), NotThere(q), Unseated(q),
         up'[q] = up[q], client'[q] = client[q], roster'[q] = roster[q], data'[q] = data[q],
         data[q] = 0 => down'[q] = down[q]
  PROVE  FirstPacket(q)' /\ NotThere(q)' /\ Unseated(q)'
  <1>1. FirstPacket(q)'
    BY DEF FirstPacket
  <1>2. NotThere(q)'
    BY DEF NotThere, Closed
  <1>3. Unseated(q)'
    BY DEF Unseated, Closed
  <1> QED
    BY <1>1, <1>2, <1>3

LEMMA JoiningSeat ==
  ASSUME OwnerInv, Types, NEW p \in Peer, Joining(p) \/ Refusing(p),
         FirstPacket(p), NotThere(p), Unseated(p)
  PROVE  FirstPacket(p)' /\ NotThere(p)' /\ Unseated(p)'
  <1>1. /\ up[p] \in Seq(UpMessage) /\ up[p] # <<>> /\ Head(up[p]).type = "Init"
        /\ up'[p] = Tail(up[p]) /\ client'[p] = client[p] /\ roster'[p] = roster[p]
    BY DEF Joining, Refusing, Types, cvars
  <1>2. data'[p] # 0 \/ Closed(down, p)'
    <2>1. CASE Joining(p)
      BY <2>1, Constants DEF Joining, Joins, Types, TypeOK
    <2>2. CASE Refusing(p)
      <3>1. down'[p] = <<Refused, Disconnected>>
        BY <2>2 DEF Refusing, Types
      <3> QED
        BY <3>1 DEF Closed
    <2> QED
      BY <2>1, <2>2
  <1>3. FirstPacket(p)'
    <2>1. \A k \in 1 .. Len(Tail(up[p])) : k + 1 \in 1 .. Len(up[p]) /\ k + 1 # 1
                                          /\ Tail(up[p])[k] = up[p][k + 1]
      BY <1>1
    <2> QED
      BY <1>1, <2>1 DEF FirstPacket
  <1>4. NotThere(p)'
    <2>1. client[p] = "out" => Closed(up, p)'
      <3> SUFFICES ASSUME client[p] = "out" PROVE Closed(up, p)'
        OBVIOUS
      <3>1. up[p][Len(up[p])] = Disconnected
        BY <1>1 DEF NotThere, Closed
      <3>2. up[p][Len(up[p])] # Head(up[p])
        BY <1>1, <3>1, MessageKinds
      <3> QED
        BY <1>1, <3>1, <3>2, ClosedTail DEF Closed
    <2> QED
      BY <1>1, <2>1 DEF NotThere
  <1>5. Unseated(p)'
    BY <1>2 DEF Unseated
  <1> QED
    BY <1>3, <1>4, <1>5

LEMMA ClosingCloses ==
  ASSUME Types, NEW p \in Peer, down'[p] = Closing(p)
  PROVE  Closed(down, p)'
  <1>1. down[p] \in Seq(DownMessage) /\ Disconnected \in DownMessage
    BY DEF Types, DownMessage
  <1>2. Append(down[p], Disconnected) # <<>>
        /\ Append(down[p], Disconnected)[Len(Append(down[p], Disconnected))] = Disconnected
    BY <1>1, ClosedAppend
  <1> QED
    BY <1>2 DEF Closing, Closed

LEMMA LeavingSeat ==
  ASSUME OwnerInv, Types, NEW p \in Peer, Leaving(p) \/ Nothing(p),
         FirstPacket(p), NotThere(p), Unseated(p)
  PROVE  FirstPacket(p)' /\ NotThere(p)' /\ Unseated(p)'
  <1>1. /\ up[p] # <<>> /\ up'[p] \in {<<>>, <<Disconnected>>} /\ data'[p] = 0
        /\ client'[p] = client[p] /\ roster'[p] = roster[p]
    BY DEF Leaving, Leaves, Nothing, Types, TypeOK, cvars, svars
  <1>2. Closed(down, p)' \/ (down'[p] = down[p] /\ data[p] = 0)
    <2>1. CASE Leaving(p)
      <3>1. down'[p] = Closing(p)
        BY <2>1 DEF Leaving, Leaves
      <3> QED
        BY <3>1, ClosingCloses
    <2>2. CASE Nothing(p)
      BY <2>2 DEF Nothing
    <2> QED
      BY <2>1, <2>2
  <1>3. \A k \in 1 .. Len(up'[p]) : up'[p][k] = Disconnected
    BY <1>1
  <1>4. FirstPacket(p)'
    BY <1>3, MessageKinds DEF FirstPacket
  <1>5. up'[p] = <<>> \/ Closed(up, p)'
    BY <1>1 DEF Closed
  <1>6. NotThere(p)'
    BY <1>1, <1>5 DEF NotThere
  <1>7. Unseated(p)'
    BY <1>1, <1>2 DEF Unseated, Closed
  <1> QED
    BY <1>4, <1>6, <1>7

LEMMA NewsSeat ==
  ASSUME OwnerInv, Types, NEW p \in Peer, ClientOnNews(p) \/ ClientOnEnd(p),
         FirstPacket(p), NotThere(p), Unseated(p)
  PROVE  FirstPacket(p)' /\ NotThere(p)' /\ Unseated(p)'
  <1>1. /\ down[p] # <<>> /\ client[p] \in {"connecting", "in"} /\ up'[p] = up[p]
        /\ data'[p] = data[p] /\ client'[p] \in {"in", "refused"}
    BY DEF ClientOnNews, ClientOnEnd, Types, TypeOK, svars
  <1>2. \A k \in 1 .. Len(up[p]) : up[p][k].type # "Init"
    BY <1>1 DEF FirstPacket
  <1>3. FirstPacket(p)'
    BY <1>1, <1>2 DEF FirstPacket
  <1>4. NotThere(p)'
    BY <1>1 DEF NotThere
  <1>5. Unseated(p)'
    <2> SUFFICES ASSUME client'[p] = "in", data[p] = 0 PROVE Closed(down, p)'
      BY <1>1 DEF Unseated
    <2>1. ClientOnNews(p)
      BY DEF ClientOnEnd, Types, TypeOK
    <2>2. down[p][Len(down[p])] = Disconnected /\ Head(down[p]).type = "News"
      BY <1>1, <2>1 DEF Unseated, Closed, ClientOnNews
    <2>3. down[p][Len(down[p])] # Head(down[p]) /\ down[p] \in Seq(DownMessage)
      BY <2>2, MessageKinds DEF Types
    <2>4. down'[p] = Tail(down[p])
      BY <2>1 DEF ClientOnNews, Types
    <2> QED
      BY <1>1, <2>2, <2>3, <2>4, ClosedTail DEF Closed
  <1> QED
    BY <1>3, <1>4, <1>5

LEMMA DisconnectSeat ==
  ASSUME OwnerInv, Types, NEW p \in Peer, Disconnect(p) \/ SendBad(p),
         FirstPacket(p), NotThere(p), Unseated(p)
  PROVE  FirstPacket(p)' /\ NotThere(p)' /\ Unseated(p)'
  <1>0. up[p] \in Seq(UpMessage) /\ Disconnected \in UpMessage /\ [type |-> "Bad"] \in UpMessage
    BY DEF Types, UpMessage
  <1>1. CASE Disconnect(p)
    <2>1. /\ up'[p] = IF Closed(up, p) THEN up[p] ELSE Append(up[p], Disconnected)
          /\ client'[p] = "out" /\ data'[p] = data[p]
      BY <1>1 DEF Disconnect, Types, TypeOK, svars
    <2>2. Closed(up, p)'
      <3>1. Append(up[p], Disconnected) # <<>>
            /\ Append(up[p], Disconnected)[Len(Append(up[p], Disconnected))] = Disconnected
        BY <1>0, ClosedAppend
      <3> QED
        BY <2>1, <3>1 DEF Closed
    <2>3. \A k \in 1 .. Len(up'[p]) :
            up'[p][k] = Disconnected \/ (k \in 1 .. Len(up[p]) /\ up'[p][k] = up[p][k])
      BY <2>1, <1>0
    <2>4. FirstPacket(p)'
      BY <2>1, <2>3, MessageKinds DEF FirstPacket
    <2> QED
      BY <2>1, <2>2, <2>4 DEF NotThere, Unseated
  <1>2. CASE SendBad(p)
    <2>1. /\ up'[p] = Append(up[p], [type |-> "Bad"]) /\ client'[p] = "in" /\ client[p] = "in"
          /\ data'[p] = data[p] /\ down'[p] = down[p]
      BY <1>2 DEF SendBad, Types, TypeOK, svars, cvars
    <2>2. \A k \in 1 .. Len(up'[p]) :
            up'[p][k] = [type |-> "Bad"] \/ (k \in 1 .. Len(up[p]) /\ up'[p][k] = up[p][k])
      BY <2>1, <1>0
    <2>3. FirstPacket(p)'
      BY <2>1, <2>2 DEF FirstPacket
    <2> QED
      BY <2>1, <2>3 DEF NotThere, Unseated, Closed
  <1> QED
    BY <1>1, <1>2

LEMMA ConnectSeat ==
  ASSUME OwnerInv, Types, NEW p \in Peer, LoseConnection(p) \/ Connect(p) \/ ComeBack(p),
         FirstPacket(p), NotThere(p), Unseated(p)
  PROVE  FirstPacket(p)' /\ NotThere(p)' /\ Unseated(p)'
  <1>1. CASE LoseConnection(p)
    <2>1. /\ up'[p] = <<Disconnected>> /\ down'[p] = <<Disconnected>> /\ data'[p] = data[p]
          /\ client'[p] = client[p] /\ client[p] \in {"connecting", "in"}
          /\ roster'[p] = roster[p]
      BY <1>1 DEF LoseConnection, Types, TypeOK, svars, cvars
    <2>2. \A k \in 1 .. Len(up'[p]) : up'[p][k] = Disconnected
      BY <2>1
    <2>3. FirstPacket(p)'
      BY <2>2, MessageKinds DEF FirstPacket
    <2>4. Closed(down, p)'
      BY <2>1 DEF Closed
    <2> QED
      BY <2>1, <2>3, <2>4 DEF NotThere, Unseated
  <1>2. CASE Connect(p)
    <2>1. PICK f \in BOOLEAN : up' = [up EXCEPT ![p] = <<[type |-> "Init", fits |-> f]>>]
      BY <1>2 DEF Connect
    <2>2. /\ up'[p] = <<[type |-> "Init", fits |-> f]>> /\ client'[p] = "connecting"
          /\ client[p] = "off" /\ data'[p] = data[p] /\ down'[p] = down[p]
          /\ roster'[p] = roster[p]
      BY <1>2, <2>1 DEF Connect, Types, TypeOK, svars
    <2>3. data[p] = 0 /\ down[p] = <<>> /\ roster[p] = Nobody
      BY <2>2 DEF NotThere
    <2>4. \A k \in 1 .. Len(up'[p]) : k = 1
      BY <2>2
    <2> QED
      BY <2>2, <2>3, <2>4 DEF FirstPacket, NotThere, Unseated
  <1>3. CASE ComeBack(p)
    <2>1. /\ client[p] = "out" /\ up[p] = <<>> /\ up'[p] = <<>> /\ client'[p] = "off"
          /\ roster'[p] = Nobody /\ down'[p] = <<>> /\ data'[p] = data[p]
      BY <1>3 DEF ComeBack, Types, TypeOK, svars
    <2>2. data[p] = 0
      BY <2>1 DEF NotThere, Closed
    <2>3. Len(up'[p]) = 0
      BY <2>1
    <2> QED
      BY <2>1, <2>2, <2>3 DEF FirstPacket, NotThere, Unseated
  <1> QED
    BY <1>1, <1>2, <1>3

LEMMA KickSeat ==
  ASSUME OwnerInv, Types, NEW i \in Pid, KickPlayer(i), NEW p \in Peer, p = players[i],
         FirstPacket(p), NotThere(p), Unseated(p)
  PROVE  FirstPacket(p)' /\ NotThere(p)' /\ Unseated(p)'
  <1>1. /\ data[p] # 0 /\ data'[p] = data[p] /\ up'[p] = <<Disconnected>>
        /\ client'[p] = client[p] /\ roster'[p] = roster[p]
    BY Constants
       DEF KickPlayer, OwnerInv, OwnerType, PeerOwnsPlayer, Types, TypeOK, svars, cvars
  <1>2. \A k \in 1 .. Len(up'[p]) : up'[p][k] = Disconnected
    BY <1>1
  <1>3. FirstPacket(p)'
    BY <1>2, MessageKinds DEF FirstPacket
  <1>4. Closed(up, p)'
    BY <1>1 DEF Closed
  <1> QED
    BY <1>1, <1>3, <1>4 DEF NotThere, Unseated

(* A step that concerns one peer alone, one that changes who is there, a   *)
(* packet of the dialog, or nothing on the wire.                           *)
Kicking(p) == \E i \in Pid : players[i] = p /\ KickPlayer(i)

Single(p) ==
  \/ Refusing(p) \/ Nothing(p) \/ ClientOnNews(p) \/ ClientOnEnd(p) \/ Disconnect(p)
  \/ SendBad(p) \/ LoseConnection(p) \/ Kicking(p)
  \/ p \in Guest /\ (Connect(p) \/ ComeBack(p))

Quiet ==
  \/ \E next \in {"pending", "running"} : RequestStartGame(next)
  \/ \E q \in Pad : \E k \in 0 .. Len(list) : ChangeMapping(q, k)
  \/ OpenDialog \/ AssignMapping \/ BuildMapping \/ StartGame \/ StopGame \/ UNCHANGED vars

LEMMA StepShape ==
  ASSUME OwnerInv, Types, [Next]_vars
  PROVE  \/ \E p \in Peer : Single(p) \/ Joining(p) \/ Leaving(p)
         \/ SendMapping
         \/ Quiet
  <1>1. CASE Gui
    <2>1. ASSUME NEW i \in Pid, KickPlayer(i) PROVE \E p \in Peer : Single(p)
      <3>1. players[i] \in Peer
        BY <2>1 DEF KickPlayer, OwnerInv, OwnerType
      <3> QED
        BY <2>1, <3>1 DEF Single, Kicking
    <2> QED
      BY <1>1, <2>1 DEF Gui, Quiet
  <1>2. CASE StartGame \/ StopGame \/ UNCHANGED vars
    BY <1>2 DEF Quiet
  <1>3. ASSUME NEW p \in Peer, Server(p) PROVE Single(p) \/ Joining(p) \/ Leaving(p)
    BY <1>3, ServerShape DEF Single
  <1>4. ASSUME NEW p \in Peer, \/ ClientOnNews(p) \/ ClientOnEnd(p)
                               \/ Disconnect(p) \/ SendBad(p) \/ LoseConnection(p)
        PROVE  Single(p)
    BY <1>4 DEF Single
  <1>5. ASSUME NEW p \in Guest, Connect(p) \/ ComeBack(p) PROVE p \in Peer /\ Single(p)
    BY <1>5, Constants DEF Single
  <1> QED
    BY <1>1, <1>2, <1>3, <1>4, <1>5 DEF Next

LEMMA SingleKeeps ==
  ASSUME OwnerInv, Types, NEW p \in Peer, Single(p)
  PROVE  /\ UNCHANGED <<svars, raced, gui, copy, cursor, index>>
         /\ p # Host => UNCHANGED list
         /\ \A q \in Peer : q # p =>
              /\ up'[q] = up[q] /\ down'[q] = down[q] /\ client'[q] = client[q]
              /\ roster'[q] = roster[q] /\ cmap'[q] = cmap[q]
  <1>1. UNCHANGED <<svars, raced, gui, copy, cursor, index>> /\ (p # Host => UNCHANGED list)
    BY DEF Single, Refusing, Nothing, ClientOnNews, ClientOnEnd, Disconnect, SendBad,
           LoseConnection, Kicking, KickPlayer, Connect, ComeBack, svars, gvars
  <1>2. ASSUME NEW q \in Peer, q # p
        PROVE  up'[q] = up[q] /\ down'[q] = down[q]
    BY <1>2
       DEF Types, Single, Refusing, Nothing, ClientOnNews, ClientOnEnd, Disconnect, SendBad,
           LoseConnection, Kicking, KickPlayer, Connect, ComeBack
  <1>3. ASSUME NEW q \in Peer, q # p
        PROVE  client'[q] = client[q] /\ roster'[q] = roster[q] /\ cmap'[q] = cmap[q]
    BY <1>3
       DEF Types, TypeOK, Single, Refusing, Nothing, ClientOnNews, ClientOnEnd, Disconnect,
           SendBad, LoseConnection, Kicking, KickPlayer, Connect, ComeBack, cvars
  <1> QED
    BY <1>1, <1>2, <1>3

LEMMA SingleSeat ==
  ASSUME OwnerInv, Types, NEW p \in Peer, Single(p), FirstPacket(p), NotThere(p), Unseated(p)
  PROVE  FirstPacket(p)' /\ NotThere(p)' /\ Unseated(p)'
  <1>1. ASSUME NEW i \in Pid, players[i] = p, KickPlayer(i)
        PROVE  FirstPacket(p)' /\ NotThere(p)' /\ Unseated(p)'
    BY <1>1, KickSeat
  <1>2. CASE Refusing(p)
    BY <1>2, JoiningSeat
  <1>3. CASE Nothing(p)
    BY <1>3, LeavingSeat
  <1>4. CASE ClientOnNews(p) \/ ClientOnEnd(p)
    BY <1>4, NewsSeat
  <1>5. CASE Disconnect(p) \/ SendBad(p)
    BY <1>5, DisconnectSeat
  <1>6. CASE LoseConnection(p) \/ Connect(p) \/ ComeBack(p)
    BY <1>6, ConnectSeat
  <1> QED
    BY <1>1, <1>2, <1>3, <1>4, <1>5, <1>6 DEF Single, Kicking

(* What SendMapping does when a player is left to be sent to. *)
Sends(i) ==
  /\ i \in Pid /\ players[i] \in Peer /\ i > cursor
  /\ \A j \in Used(players) : j > cursor => i <= j
  /\ gui = "sending" /\ cursor' = i
  /\ down' = [down EXCEPT ![players[i]] = Sent(players[i], PadMapping(copy))]
  /\ UNCHANGED <<gui, copy, svars, up, cvars, list, index, events, raced>>

Ends ==
  /\ gui = "sending" /\ gui' = "idle" /\ cursor' = 0 /\ copy' = NoPads
  /\ \A j \in Used(players) : j <= cursor
  /\ UNCHANGED <<down, svars, up, cvars, list, index, events, raced>>

LEMMA SendShape ==
  ASSUME OwnerInv, Types, SendMapping
  PROVE  Ends \/ \E i \in Pid : Sends(i)
  <1> DEFINE rest == {i \in Used(players) : i > cursor}
  <1>1. cursor \in Nat /\ Used(players) \in SUBSET Pid /\ Used(players) \in SUBSET Nat
    <2>1. cursor \in 0 .. MaxPlayers /\ Used(players) \in SUBSET Pid
      BY DEF Types, TypeOK, Used
    <2>2. cursor \in Nat
      BY <2>1
    <2>3. Pid \subseteq Nat
      BY Constants
    <2> QED
      BY <2>1, <2>2, <2>3
  <1>2. CASE rest = {}
    <2>1. \A j \in Used(players) : j <= cursor
      BY <1>1, <1>2
    <2> QED
      BY <1>2, <2>1 DEF SendMapping, Ends
  <1>3. CASE rest # {}
    <2> DEFINE i == Smallest(rest)
    <2>1. i \in rest /\ \A j \in rest : i <= j
      BY <1>1, <1>3, SmallestType
    <2>2. i \in Pid /\ i > cursor /\ players[i] \in Peer /\ data[players[i]] # 0
      BY <2>1, Constants DEF Used, OwnerInv, OwnerType, PeerOwnsPlayer
    <2>3. /\ cursor' = i /\ gui = "sending"
          /\ UNCHANGED <<gui, copy, svars, up, cvars, list, index, events, raced>>
          /\ down' = [down EXCEPT ![players[i]] =
                        IF Closed(down, players[i]) THEN @ ELSE Append(@, PadMapping(copy))]
      BY <1>3 DEF SendMapping
    <2> HIDE DEF i
    <2>4. down' = [down EXCEPT ![players[i]] = Sent(players[i], PadMapping(copy))]
      BY <2>2, <2>3 DEF Sent
    <2>5. Sends(i)
      BY <2>1, <2>2, <2>3, <2>4 DEF Sends
    <2> QED
      BY <2>2, <2>5
  <1> QED
    BY <1>2, <1>3

LEMMA SeatsStep ==
  ASSUME OwnerInv, Types, Seats, [Next]_vars
  PROVE  Seats'
  <1> SUFFICES ASSUME NEW q \in Peer
               PROVE  FirstPacket(q)' /\ NotThere(q)' /\ Unseated(q)'
    BY DEF Seats
  <1>0. FirstPacket(q) /\ NotThere(q) /\ Unseated(q)
    BY DEF Seats
  <1>1. ASSUME NEW p \in Peer, Single(p) PROVE FirstPacket(q)' /\ NotThere(q)' /\ Unseated(q)'
    <2>1. CASE q = p
      BY <1>0, <1>1, <2>1, SingleSeat
    <2>2. CASE q # p
      <3>1. /\ up'[q] = up[q] /\ client'[q] = client[q] /\ roster'[q] = roster[q]
            /\ data'[q] = data[q] /\ down'[q] = down[q]
        BY <1>1, <2>2, SingleKeeps DEF svars
      <3> QED
        BY <1>0, <3>1, SeatKept
    <2> QED
      BY <2>1, <2>2
  <1>2. ASSUME NEW p \in Peer, Joining(p) \/ Leaving(p)
        PROVE  FirstPacket(q)' /\ NotThere(q)' /\ Unseated(q)'
    <2>1. CASE q = p
      BY <1>0, <1>2, <2>1, JoiningSeat, LeavingSeat
    <2>2. CASE q # p
      <3>1. /\ up'[q] = up[q] /\ client'[q] = client[q] /\ roster'[q] = roster[q]
            /\ data'[q] = data[q] /\ (data[q] = 0 => down'[q] = down[q])
        BY <1>2, <2>2 DEF Joining, Leaving, Joins, Leaves, Sent, Types, TypeOK, cvars
      <3> QED
        BY <1>0, <3>1, SeatKept
    <2> QED
      BY <2>1, <2>2
  <1>3. CASE SendMapping
    <2>1. ASSUME NEW i \in Pid, Sends(i)
          PROVE  /\ UNCHANGED <<up, client, roster, data>>
                 /\ data[q] = 0 => down'[q] = down[q]
      BY <2>1 DEF Sends, Sent, Types, svars, cvars
    <2>2. /\ UNCHANGED <<up, client, roster, data>>
          /\ data[q] = 0 => down'[q] = down[q]
      BY <1>3, <2>1, SendShape DEF Ends, svars, cvars
    <2> QED
      BY <1>0, <2>2, SeatKept
  <1>4. CASE Quiet
    <2>1. UNCHANGED <<up, client, roster, data, down>>
      BY <1>4 DEF Quiet, RequestStartGame, ChangeMapping, OpenDialog, AssignMapping,
                  BuildMapping, StartGame, StopGame, vars, svars, cvars
    <2> QED
      BY <1>0, <2>1, SeatKept
  <1> QED
    BY <1>1, <1>2, <1>3, <1>4, StepShape

-----------------------------------------------------------------------------
(* What a client has been sent and not handled. *)
LEMMA ListKept ==
  ASSUME NEW q \in Peer, ListFollows(q), down'[q] = down[q], roster'[q] = roster[q],
         players' = players
  PROVE  ListFollows(q)'
  BY DEF ListFollows, Becomes

LEMMA PadsKept ==
  ASSUME NEW q \in Peer, PadsFollow(q), down'[q] = down[q], cmap'[q] = cmap[q],
         padMap' = padMap
  PROVE  PadsFollow(q)'
  BY DEF PadsFollow, Becomes

LEMMA ListTold ==
  ASSUME Types, NEW q \in Peer, NEW m \in NewsMessage, ListFollows(q),
         down'[q] = Append(down[q], m), roster'[q] = roster[q],
         \A i \in Pid : \/ AboutPlayer(m, i) = {players'[i]}
                        \/ AboutPlayer(m, i) = {} /\ players'[i] = players[i]
  PROVE  ListFollows(q)'
  <1> DEFINE n == Len(down[q])
  <1>1. /\ down[q] \in Seq(DownMessage) /\ m \in DownMessage /\ n \in Nat
        /\ Len(down'[q]) = n + 1 /\ down'[q][n + 1] = m
        /\ \A k \in 1 .. n : down'[q][k] = down[q][k]
    BY DEF Types, DownMessage
  <1> HIDE DEF n
  <1>2. \A k \in 1 .. n + 1 : down'[q][k] \in NewsMessage
    BY <1>1 DEF ListFollows, n
  <1>3. ASSUME NEW i \in Pid
        PROVE  Becomes(roster'[q][i], [k \in 1 .. n + 1 |-> AboutPlayer(down'[q][k], i)],
                       players'[i])
    <2> DEFINE w == [k \in 1 .. n |-> AboutPlayer(down[q][k], i)]
               w2 == [k \in 1 .. n + 1 |-> AboutPlayer(down'[q][k], i)]
    <2>1. DOMAIN w = 1 .. n /\ DOMAIN w2 = 1 .. n + 1 /\ \A k \in 1 .. n : w2[k] = w[k]
      BY <1>1
    <2>2. Becomes(roster[q][i], w, players[i])
      BY DEF ListFollows, n
    <2>3. w2[n + 1] = AboutPlayer(m, i)
      BY <1>1
    <2>4. w2[n + 1] = {players'[i]} \/ (w2[n + 1] = {} /\ players'[i] = players[i])
      BY <2>3
    <2> HIDE DEF w, w2
    <2>5. Becomes(roster[q][i], w2, players'[i])
      BY <1>1, <2>1, <2>2, <2>4, BecomesAppend
    <2> QED
      BY <2>5 DEF w2
  <1>4. Len(down[q])' = n + 1
    BY <1>1
  <1> QED
    BY <1>2, <1>3, <1>4 DEF ListFollows

LEMMA PadsTold ==
  ASSUME Types, NEW q \in Peer, NEW m \in NewsMessage,
         down'[q] = Append(down[q], m), cmap'[q] = cmap[q],
         \/ AboutMap(m) = {padMap'}
         \/ AboutMap(m) = {} /\ padMap' = padMap /\ PadsFollow(q)
  PROVE  PadsFollow(q)'
  <1> DEFINE n == Len(down[q])
             w == [k \in 1 .. n |-> AboutMap(down[q][k])]
             w2 == [k \in 1 .. n + 1 |-> AboutMap(down'[q][k])]
  <1>1. /\ down[q] \in Seq(DownMessage) /\ m \in DownMessage /\ n \in Nat
        /\ Len(down'[q]) = n + 1 /\ down'[q][n + 1] = m
        /\ \A k \in 1 .. n : down'[q][k] = down[q][k]
    BY DEF Types, DownMessage
  <1>2. DOMAIN w = 1 .. n /\ DOMAIN w2 = 1 .. n + 1 /\ \A k \in 1 .. n : w2[k] = w[k]
    BY <1>1
  <1>3. w2[n + 1] = AboutMap(m)
    BY <1>1
  <1>4. PadsFollow(q) <=> Becomes(cmap[q], w, padMap)
    BY DEF PadsFollow
  <1>5. PadsFollow(q)' <=> Becomes(cmap'[q], w2, padMap')
    <2>1. Len(down[q])' = n + 1
      BY <1>1
    <2> QED
      BY <2>1 DEF PadsFollow
  <1> HIDE DEF n, w, w2
  <1>6. CASE AboutMap(m) = {padMap'}
    BY <1>1, <1>2, <1>3, <1>5, <1>6, BecomesLast
  <1>7. CASE AboutMap(m) = {} /\ padMap' = padMap /\ PadsFollow(q)
    <2>1. Becomes(cmap[q], w2, padMap')
      BY <1>1, <1>2, <1>3, <1>4, <1>7, BecomesAppend
    <2> QED
      BY <2>1, <1>5
  <1> QED
    BY <1>6, <1>7

(* A client applies the oldest message. *)
LEMMA ListHeard ==
  ASSUME Types, NEW q \in Peer, ClientOnNews(q), ListFollows(q)
  PROVE  ListFollows(q)'
  <1>1. PICK m \in NewsMessage :
           /\ down[q] # <<>> /\ m = Head(down[q])
           /\ roster' = [roster EXCEPT ![q] = [i \in Pid |->
                IF i = m.left THEN None ELSE IF m.joined[i] # None THEN m.joined[i]
                ELSE roster[q][i]]]
           /\ down' = [down EXCEPT ![q] = Tail(down[q])]
           /\ UNCHANGED svars
    BY NewsShape
  <1> DEFINE n == Len(down[q]) - 1
  <1>2. down[q] \in Seq(DownMessage) /\ down'[q] = Tail(down[q]) /\ players' = players
    BY <1>1 DEF Types, svars
  <1>3. /\ n \in Nat /\ Len(down[q]) = n + 1 /\ Len(down'[q]) = n /\ down[q][1] = m
        /\ \A k \in 1 .. n : down'[q][k] = down[q][k + 1]
    <2>1. /\ Len(down[q]) - 1 \in Nat /\ Len(Tail(down[q])) = Len(down[q]) - 1
          /\ Head(down[q]) = down[q][1]
          /\ \A k \in 1 .. Len(down[q]) - 1 : Tail(down[q])[k] = down[q][k + 1]
      BY <1>1, <1>2, TailIsShift
    <2>2. Len(down[q]) = (Len(down[q]) - 1) + 1
      BY <1>2
    <2> QED
      BY <1>1, <1>2, <2>1, <2>2, Zenon
  <1> HIDE DEF n
  <1>4. ASSUME NEW k \in 1 .. n PROVE down'[q][k] \in NewsMessage
    <2>1. k + 1 \in 1 .. Len(down[q]) /\ down'[q][k] = down[q][k + 1]
      BY <1>3
    <2> QED
      BY <2>1 DEF ListFollows
  <1>5. ASSUME NEW i \in Pid
        PROVE  Becomes(roster'[q][i], [k \in 1 .. n |-> AboutPlayer(down'[q][k], i)], players'[i])
    <2> DEFINE w == [k \in 1 .. n + 1 |-> AboutPlayer(down[q][k], i)]
               w2 == [k \in 1 .. n |-> AboutPlayer(down'[q][k], i)]
    <2>1. DOMAIN w = 1 .. n + 1 /\ DOMAIN w2 = 1 .. n /\ \A k \in 1 .. n : w2[k] = w[k + 1]
      <3>1. \A k \in 1 .. n : k + 1 \in 1 .. n + 1
        BY <1>3
      <3> QED
        BY <1>3, <3>1, Zenon
    <2>2. Becomes(roster[q][i], w, players[i])
      BY <1>3 DEF ListFollows
    <2>3. w[1] = AboutPlayer(m, i)
      BY <1>3
    <2>4. roster'[q][i] = IF i = m.left THEN None ELSE IF m.joined[i] # None THEN m.joined[i]
                          ELSE roster[q][i]
      BY <1>1 DEF Types, TypeOK
    <2> HIDE DEF w, w2
    <2>5. w[1] = {roster'[q][i]} \/ (w[1] = {} /\ roster'[q][i] = roster[q][i])
      <3>1. CASE i = m.left
        BY <2>3, <2>4, <3>1 DEF AboutPlayer
      <3>2. CASE i # m.left /\ m.joined[i] = None
        BY <2>3, <2>4, <3>2 DEF AboutPlayer
      <3>3. CASE i # m.left /\ m.joined[i] # None
        <4>1. w[1] = {m.joined[i]} \ {None} /\ roster'[q][i] = m.joined[i]
          BY <2>3, <2>4, <3>3 DEF AboutPlayer
        <4>2. {m.joined[i]} \ {None} = {m.joined[i]}
          BY <3>3
        <4> QED
          BY <4>1, <4>2
      <3> QED
        BY <3>1, <3>2, <3>3
    <2>6. Becomes(roster'[q][i], w2, players[i])
      BY <1>3, <2>1, <2>2, <2>5, BecomesTail
    <2> QED
      BY <2>6, <1>2 DEF w2
  <1>6. Len(down[q])' = n
    BY <1>3
  <1> QED
    BY <1>4, <1>5, <1>6 DEF ListFollows

LEMMA PadsHeard ==
  ASSUME Types, NEW q \in Peer, ClientOnNews(q), PadsFollow(q)
  PROVE  PadsFollow(q)'
  <1>1. PICK m \in NewsMessage :
           /\ down[q] # <<>> /\ m = Head(down[q])
           /\ cmap' = [cmap EXCEPT ![q] = IF m.map = None THEN cmap[q] ELSE m.map]
           /\ down' = [down EXCEPT ![q] = Tail(down[q])]
           /\ UNCHANGED svars
    BY NewsShape
  <1> DEFINE n == Len(down[q]) - 1
             w == [k \in 1 .. n + 1 |-> AboutMap(down[q][k])]
             w2 == [k \in 1 .. n |-> AboutMap(down'[q][k])]
  <1>2. down[q] \in Seq(DownMessage) /\ down'[q] = Tail(down[q]) /\ padMap' = padMap
    BY <1>1 DEF Types, svars
  <1>3. /\ n \in Nat /\ Len(down[q]) = n + 1 /\ Len(down'[q]) = n /\ down[q][1] = m
        /\ \A k \in 1 .. n : down'[q][k] = down[q][k + 1]
    <2>1. /\ Len(down[q]) - 1 \in Nat /\ Len(Tail(down[q])) = Len(down[q]) - 1
          /\ Head(down[q]) = down[q][1]
          /\ \A k \in 1 .. Len(down[q]) - 1 : Tail(down[q])[k] = down[q][k + 1]
      BY <1>1, <1>2, TailIsShift
    <2>2. Len(down[q]) = (Len(down[q]) - 1) + 1
      BY <1>2
    <2> QED
      BY <1>1, <1>2, <2>1, <2>2, Zenon
  <1>4. DOMAIN w = 1 .. n + 1 /\ DOMAIN w2 = 1 .. n /\ \A k \in 1 .. n : w2[k] = w[k + 1]
    BY <1>3
  <1>5. w[1] = AboutMap(m)
    BY <1>3
  <1>6. cmap'[q] = IF m.map = None THEN cmap[q] ELSE m.map
    BY <1>1 DEF Types, TypeOK
  <1>7. w[1] = {cmap'[q]} \/ (w[1] = {} /\ cmap'[q] = cmap[q])
    BY <1>5, <1>6 DEF AboutMap
  <1>8. Becomes(cmap[q], w, padMap)
    BY <1>3 DEF PadsFollow
  <1>9. PadsFollow(q)' <=> Becomes(cmap'[q], w2, padMap')
    <2>1. Len(down[q])' = n
      BY <1>3
    <2> QED
      BY <2>1 DEF PadsFollow
  <1> HIDE DEF n, w, w2
  <1>10. Becomes(cmap'[q], w2, padMap)
    BY <1>3, <1>4, <1>7, <1>8, BecomesTail
  <1> QED
    BY <1>2, <1>9, <1>10

LEMMA SingleServed ==
  ASSUME OwnerInv, Types, Seats, NEW p \in Peer, Single(p), Served(p)'
  PROVE  /\ Served(p)
         /\ \/ ClientOnNews(p)
            \/ down'[p] = down[p] /\ roster'[p] = roster[p] /\ cmap'[p] = cmap[p]
  <1>0. data' = data /\ client'[p] \in {"connecting", "in"} /\ data[p] # 0 /\ ~Closed(down, p)'
    BY SingleKeeps DEF Served, svars
  <1>1. CASE ClientOnNews(p)
    <2>1. PICK m \in NewsMessage :
            /\ down[p] # <<>> /\ m = Head(down[p]) /\ client[p] \in {"connecting", "in"}
            /\ down' = [down EXCEPT ![p] = Tail(down[p])]
      BY <1>1, NewsShape
    <2>2. ~Closed(down, p)
      <3> SUFFICES ASSUME Closed(down, p) PROVE FALSE
        OBVIOUS
      <3>1. down[p] \in Seq(DownMessage) /\ down'[p] = Tail(down[p])
        BY <2>1 DEF Types
      <3>2. down[p][Len(down[p])] = Disconnected /\ Disconnected # Head(down[p])
        BY <2>1, MessageKinds DEF Closed
      <3>3. Tail(down[p]) # <<>> /\ Tail(down[p])[Len(Tail(down[p]))] = Disconnected
        BY <2>1, <3>1, <3>2, ClosedTail
      <3> QED
        BY <1>0, <3>1, <3>3 DEF Closed
    <2> QED
      BY <1>0, <1>1, <2>1, <2>2 DEF Served
  <1>2. CASE SendBad(p)
    BY <1>0, <1>2 DEF SendBad, Served, Closed, cvars
  <1>3. CASE Refusing(p) \/ Nothing(p)
    BY <1>0, <1>3 DEF Refusing, Nothing
  <1>4. CASE ClientOnEnd(p) \/ Disconnect(p) \/ ComeBack(p)
    BY <1>0, <1>4 DEF ClientOnEnd, Disconnect, ComeBack, Types, TypeOK
  <1>5. CASE LoseConnection(p)
    <2>1. down'[p] = <<Disconnected>>
      BY <1>5 DEF LoseConnection, Types
    <2> QED
      BY <1>0, <2>1 DEF Closed
  <1>6. CASE Kicking(p)
    <2>1. down'[p] = Closing(p)
      BY <1>6 DEF Kicking, KickPlayer, Types, Closing
    <2> QED
      BY <1>0, <2>1, ClosingCloses
  <1>7. CASE Connect(p)
    BY <1>0, <1>7 DEF Connect, Seats, NotThere
  <1> QED
    BY <1>1, <1>2, <1>3, <1>4, <1>5, <1>6, <1>7 DEF Single

LEMMA SentServed ==
  ASSUME NEW q \in Peer, NEW m, down'[q] = Sent(q, m), data'[q] = data[q],
         client'[q] = client[q], Served(q)'
  PROVE  Served(q) /\ down'[q] = Append(down[q], m)
  BY DEF Served, Sent, Closed

(* A client that joins is told everything by its welcome. *)
LEMMA JoiningServed ==
  ASSUME OwnerInv, Types, Seats, NEW p \in Peer, Joining(p), Served(p)'
  PROVE  ListFollows(p)' /\ PadsFollow(p)'
  <1>1. PICK i \in Pid, map \in Map : Joins(p, i, map)
    BY DEF Joining
  <1> DEFINE m == Welcome(p, i, map)
  <1>2. /\ m \in NewsMessage /\ m.joined = players' /\ m.left = 0 /\ m.map = padMap'
        /\ padMap' \in Map
    <2>1. OwnerType
      BY DEF OwnerInv
    <2>2. m \in NewsMessage /\ m.joined = [players EXCEPT ![i] = p] /\ m.left = 0 /\ m.map = map
      BY <2>1, WelcomeType
    <2> QED
      BY <1>1, <2>2 DEF Joins
  <1> HIDE DEF m
  <1>3. down'[p] = <<m>> /\ client'[p] = client[p] /\ roster'[p] = roster[p]
    BY <1>1 DEF Joins, Joining, cvars, m
  <1>4. roster[p] = Nobody
    <2>1. 1 \in 1 .. Len(up[p]) /\ up[p][1].type = "Init"
      BY DEF Joining, Types
    <2>2. client[p] = "connecting"
      BY <2>1, <1>3 DEF Seats, FirstPacket, Served
    <2> QED
      BY <2>2 DEF Seats, NotThere
  <1>5. Len(down'[p]) = 1 /\ down'[p][1] = m
    BY <1>3
  <1>6. \A k \in 1 .. Len(down'[p]) : k = 1
    BY <1>5
  <1>7. ASSUME NEW j \in Pid
        PROVE  Becomes(roster'[p][j], [k \in 1 .. Len(down'[p]) |-> AboutPlayer(down'[p][k], j)],
                       players'[j])
    <2> DEFINE w == [k \in 1 .. Len(down'[p]) |-> AboutPlayer(down'[p][k], j)]
    <2>1. DOMAIN w = {1} /\ w[1] = AboutPlayer(m, j)
      BY <1>5
    <2>2. m.left # j /\ roster'[p][j] = None
      BY <1>2, <1>3, <1>4, Constants DEF Nobody
    <2>3. AboutPlayer(m, j) = {players'[j]} \ {None}
      BY <1>2, <2>2 DEF AboutPlayer
    <2> HIDE DEF w
    <2>4. ASSUME players'[j] = None PROVE Becomes(roster'[p][j], w, players'[j])
      <3>1. w[1] = {}
        BY <2>1, <2>3, <2>4
      <3> QED
        BY <2>1, <2>2, <2>4, <3>1 DEF Becomes
    <2>5. ASSUME players'[j] # None PROVE Becomes(roster'[p][j], w, players'[j])
      <3>1. w[1] = {players'[j]}
        BY <2>1, <2>3, <2>5
      <3> QED
        BY <2>1, <3>1 DEF Becomes
    <2>6. Becomes(roster'[p][j], w, players'[j])
      BY <2>4, <2>5
    <2> QED
      BY <2>6 DEF w
  <1>8. ListFollows(p)'
    BY <1>2, <1>5, <1>6, <1>7 DEF ListFollows
  <1>9. PadsFollow(p)'
    <2> DEFINE w == [k \in 1 .. Len(down'[p]) |-> AboutMap(down'[p][k])]
    <2>1. DOMAIN w = {1} /\ w[1] = AboutMap(m)
      BY <1>5
    <2>2. AboutMap(m) = {padMap'}
      BY <1>2, Constants DEF AboutMap
    <2>3. Becomes(cmap'[p], w, padMap')
      <3> HIDE DEF w
      <3> QED
        BY <2>1, <2>2 DEF Becomes
    <2> QED
      BY <2>3 DEF PadsFollow
  <1> QED
    BY <1>8, <1>9

(* What the messages say. *)
LEMMA ArrivalSays ==
  ASSUME OwnerInv, NEW p \in Peer, NEW i \in Pid, NEW map \in Map, Joins(p, i, map),
         NEW m, m = Arrival(p, i, map)
  PROVE  /\ m \in NewsMessage /\ AboutMap(m) = {padMap'}
         /\ \A j \in Pid : \/ AboutPlayer(m, j) = {players'[j]}
                           \/ AboutPlayer(m, j) = {} /\ players'[j] = players[j]
  <1>1. m \in NewsMessage /\ m.left = 0 /\ m.map = map /\ m.joined = [Nobody EXCEPT ![i] = p]
    BY ArrivalType
  <1>2. AboutMap(m) = {padMap'}
    BY <1>1, Constants DEF AboutMap, Joins
  <1>3. ASSUME NEW j \in Pid
        PROVE  \/ AboutPlayer(m, j) = {players'[j]}
               \/ AboutPlayer(m, j) = {} /\ players'[j] = players[j]
    <2>1. m.left # j /\ players \in Table
      BY <1>1, Constants DEF OwnerInv, OwnerType, Table
    <2>2. AboutPlayer(m, j) = {m.joined[j]} \ {None}
      BY <2>1 DEF AboutPlayer
    <2>3. CASE j = i
      <3>1. m.joined[j] = p /\ players'[j] = p /\ p # None
        BY <1>1, <2>1, <2>3, Constants DEF Joins, Nobody, Table
      <3> QED
        BY <2>2, <3>1
    <2>4. CASE j # i
      <3>1. m.joined[j] = None /\ players'[j] = players[j]
        BY <1>1, <2>1, <2>4 DEF Joins, Nobody, Table
      <3> QED
        BY <2>2, <3>1
    <2> QED
      BY <2>3, <2>4
  <1> QED
    BY <1>1, <1>2, <1>3

LEMMA LeaveSays ==
  ASSUME OwnerInv, Types, NEW p \in Peer, NEW i \in Pid, Leaves(p, i),
         NEW m, m = LeaveMessage(i, padMap)
  PROVE  /\ m \in NewsMessage
         /\ AboutMap(m) = {padMap'} \/ (AboutMap(m) = {} /\ padMap' = padMap)
         /\ \A j \in Pid : \/ AboutPlayer(m, j) = {players'[j]}
                           \/ AboutPlayer(m, j) = {} /\ players'[j] = players[j]
  <1>0. padMap \in Map /\ players \in Table
    BY DEF Types, TypeOK, Map, OwnerInv, OwnerType, Table
  <1>1. /\ m \in NewsMessage /\ m.left = i /\ m.joined = Nobody /\ Unmap(padMap, i) \in Map
        /\ m.map = IF \E q \in Pad : padMap[q] = i THEN Unmap(padMap, i) ELSE None
    BY <1>0, LeaveMessageType
  <1>2. AboutMap(m) = {padMap'} \/ (AboutMap(m) = {} /\ padMap' = padMap)
    <2>1. CASE \E q \in Pad : padMap[q] = i
      BY <1>1, <2>1, Constants DEF AboutMap, Leaves
    <2>2. CASE \A q \in Pad : padMap[q] # i
      <3>1. Unmap(padMap, i) = padMap
        BY <1>0, <2>2 DEF Unmap, Map
      <3>2. m.map = None
        BY <1>1, <2>2
      <3> QED
        BY <3>1, <3>2 DEF AboutMap, Leaves
    <2> QED
      BY <2>1, <2>2
  <1>3. ASSUME NEW j \in Pid
        PROVE  \/ AboutPlayer(m, j) = {players'[j]}
               \/ AboutPlayer(m, j) = {} /\ players'[j] = players[j]
    <2>1. CASE j = i
      BY <1>0, <1>1, <2>1 DEF AboutPlayer, Leaves, Table
    <2>2. CASE j # i
      <3>1. m.joined[j] = None /\ players'[j] = players[j]
        BY <1>0, <1>1, <2>2 DEF Nobody, Leaves, Table
      <3> QED
        BY <1>1, <2>2, <3>1 DEF AboutPlayer
    <2> QED
      BY <2>1, <2>2
  <1> QED
    BY <1>1, <1>2, <1>3

LEMMA MappingSays ==
  ASSUME NEW map \in Map, NEW m, m = PadMapping(map)
  PROVE  m \in NewsMessage /\ AboutMap(m) = {map} /\ \A j \in Pid : AboutPlayer(m, j) = {}
  <1>1. m \in NewsMessage /\ m.left = 0 /\ m.map = map /\ m.joined = Nobody
    BY PadMappingType
  <1>2. AboutMap(m) = {map}
    BY <1>1, Constants DEF AboutMap
  <1>3. ASSUME NEW j \in Pid PROVE AboutPlayer(m, j) = {}
    <2>1. m.left # j /\ m.joined[j] = None
      BY <1>1, Constants DEF Nobody
    <2> QED
      BY <2>1 DEF AboutPlayer
  <1> QED
    BY <1>1, <1>2, <1>3

-----------------------------------------------------------------------------
LEMMA RosterStep ==
  ASSUME OwnerInv, Types, Seats, RosterFollows, [Next]_vars
  PROVE  RosterFollows'
  <1> SUFFICES ASSUME NEW q \in Peer, Served(q)' PROVE ListFollows(q)'
    BY DEF RosterFollows
  <1>0. Served(q) => ListFollows(q)
    BY DEF RosterFollows
  <1>1. ASSUME NEW p \in Peer, Single(p) PROVE ListFollows(q)'
    <2>0. players' = players
      BY <1>1, SingleKeeps DEF svars
    <2>1. CASE q = p
      <3>1. /\ Served(q)
            /\ \/ ClientOnNews(q)
               \/ down'[q] = down[q] /\ roster'[q] = roster[q]
        BY <1>1, <2>1, SingleServed
      <3> QED
        BY <1>0, <2>0, <3>1, ListHeard, ListKept
    <2>2. CASE q # p
      <3>1. /\ down'[q] = down[q] /\ client'[q] = client[q] /\ roster'[q] = roster[q]
            /\ data'[q] = data[q]
        BY <1>1, <2>2, SingleKeeps DEF svars
      <3>2. Served(q)
        BY <3>1 DEF Served, Closed
      <3> QED
        BY <1>0, <2>0, <3>1, <3>2, ListKept
    <2> QED
      BY <2>1, <2>2
  <1>2. ASSUME NEW p \in Peer, Joining(p) PROVE ListFollows(q)'
    <2>1. PICK i \in Pid, map \in Map : Joins(p, i, map)
      BY <1>2 DEF Joining
    <2>2. CASE q = p
      BY <1>2, <2>2, JoiningServed
    <2>3. CASE q # p
      <3> DEFINE m == Arrival(p, i, map)
      <3>1. down'[q] = Sent(q, m) /\ data'[q] = data[q] /\ client' = client /\ roster' = roster
        BY <1>2, <2>1, <2>3 DEF Joining, Joins, Types, TypeOK, cvars
      <3>2. /\ m \in NewsMessage
            /\ \A j \in Pid : \/ AboutPlayer(m, j) = {players'[j]}
                              \/ AboutPlayer(m, j) = {} /\ players'[j] = players[j]
        BY <2>1, ArrivalSays
      <3> HIDE DEF m
      <3>3. Served(q) /\ down'[q] = Append(down[q], m)
        BY <3>1, SentServed
      <3> QED
        BY <1>0, <3>1, <3>2, <3>3, ListTold
    <2> QED
      BY <2>2, <2>3
  <1>3. ASSUME NEW p \in Peer, Leaving(p) PROVE ListFollows(q)'
    <2>1. PICK i \in Pid : Leaves(p, i)
      BY <1>3 DEF Leaving
    <2>2. q # p
      BY <2>1 DEF Leaves, Served, Types, TypeOK
    <2> DEFINE m == LeaveMessage(i, padMap)
    <2>3. down'[q] = Sent(q, m) /\ data'[q] = data[q] /\ client' = client /\ roster' = roster
      BY <1>3, <2>1, <2>2 DEF Leaving, Leaves, Types, TypeOK, cvars
    <2>4. /\ m \in NewsMessage
          /\ \A j \in Pid : \/ AboutPlayer(m, j) = {players'[j]}
                            \/ AboutPlayer(m, j) = {} /\ players'[j] = players[j]
      BY <2>1, LeaveSays
    <2> HIDE DEF m
    <2>5. Served(q) /\ down'[q] = Append(down[q], m)
      BY <2>3, SentServed
    <2> QED
      BY <1>0, <2>3, <2>4, <2>5, ListTold
  <1>4. CASE SendMapping
    <2>1. CASE Ends
      <3>1. Served(q) /\ UNCHANGED <<down, roster, players>>
        BY <2>1 DEF Ends, Served, Closed, svars, cvars
      <3> QED
        BY <1>0, <3>1, ListKept
    <2>2. ASSUME NEW i \in Pid, Sends(i) PROVE ListFollows(q)'
      <3> DEFINE m == PadMapping(copy)
      <3>1. UNCHANGED <<roster, players, data, client>>
        BY <2>2 DEF Sends, svars, cvars
      <3>2. CASE q = players[i]
        <4>1. down'[q] = Sent(q, m)
          BY <2>2, <3>2 DEF Sends, Types
        <4>2. m \in NewsMessage /\ \A j \in Pid : AboutPlayer(m, j) = {}
          BY MappingSays DEF Types, TypeOK, Map
        <4> HIDE DEF m
        <4>3. Served(q) /\ down'[q] = Append(down[q], m)
          BY <3>1, <4>1, SentServed
        <4> QED
          BY <1>0, <3>1, <4>2, <4>3, ListTold
      <3>3. CASE q # players[i]
        <4>1. down'[q] = down[q]
          BY <2>2, <3>3 DEF Sends, Types
        <4>2. Served(q)
          BY <3>1, <4>1 DEF Served, Closed
        <4> QED
          BY <1>0, <3>1, <4>1, <4>2, ListKept
      <3> QED
        BY <3>2, <3>3
    <2> QED
      BY <1>4, <2>1, <2>2, SendShape
  <1>5. CASE Quiet
    <2>1. UNCHANGED <<up, client, roster, players, data, down>>
      BY <1>5 DEF Quiet, RequestStartGame, ChangeMapping, OpenDialog, AssignMapping,
                  BuildMapping, StartGame, StopGame, vars, svars, cvars
    <2>2. Served(q)
      BY <2>1 DEF Served, Closed
    <2> QED
      BY <1>0, <2>1, <2>2, ListKept
  <1> QED
    BY <1>1, <1>2, <1>3, <1>4, <1>5, StepShape

(* Whether a client has been sent the map the server has now. *)
Current(p) == gui \in {"idle", "dialog"} \/ (gui = "sending" /\ data[p] <= cursor)

LEMMA MapStep ==
  ASSUME OwnerInv, Types, Seats, MapFollows, Dialog, [Next]_vars
  PROVE  MapFollows'
  <1> SUFFICES ASSUME ~raced', NEW q \in Peer, Served(q)', Current(q)' PROVE PadsFollow(q)'
    BY DEF MapFollows, Current
  <1>0. ~raced /\ Served(q) /\ Current(q) => PadsFollow(q)
    BY DEF MapFollows, Current
  <1>1. ASSUME NEW p \in Peer, Single(p) PROVE PadsFollow(q)'
    <2>0. UNCHANGED <<padMap, gui, cursor, data, raced>>
      BY <1>1, SingleKeeps DEF svars
    <2>1. CASE q = p
      <3>1. /\ Served(q)
            /\ \/ ClientOnNews(q)
               \/ down'[q] = down[q] /\ cmap'[q] = cmap[q]
        BY <1>1, <2>1, SingleServed
      <3>2. PadsFollow(q)
        BY <1>0, <2>0, <3>1 DEF Current
      <3> QED
        BY <2>0, <3>1, <3>2, PadsHeard, PadsKept
    <2>2. CASE q # p
      <3>1. down'[q] = down[q] /\ client'[q] = client[q] /\ cmap'[q] = cmap[q]
        BY <1>1, <2>2, SingleKeeps DEF svars
      <3>2. Served(q)
        BY <2>0, <3>1 DEF Served, Closed
      <3>3. PadsFollow(q)
        BY <1>0, <2>0, <3>2 DEF Current
      <3> QED
        BY <2>0, <3>1, <3>3, PadsKept
    <2> QED
      BY <2>1, <2>2
  <1>2. ASSUME NEW p \in Peer, Joining(p) PROVE PadsFollow(q)'
    <2>1. PICK i \in Pid, map \in Map : Joins(p, i, map)
      BY <1>2 DEF Joining
    <2>2. CASE q = p
      BY <1>2, <2>2, JoiningServed
    <2>3. CASE q # p
      <3> DEFINE m == Arrival(p, i, map)
      <3>1. down'[q] = Sent(q, m) /\ data'[q] = data[q] /\ client' = client /\ cmap' = cmap
        BY <1>2, <2>1, <2>3 DEF Joining, Joins, Types, TypeOK, cvars
      <3>2. m \in NewsMessage /\ AboutMap(m) = {padMap'}
        BY <2>1, ArrivalSays
      <3> HIDE DEF m
      <3>3. Served(q) /\ down'[q] = Append(down[q], m)
        BY <3>1, SentServed
      <3> QED
        BY <3>1, <3>2, <3>3, PadsTold
    <2> QED
      BY <2>2, <2>3
  <1>3. ASSUME NEW p \in Peer, Leaving(p) PROVE PadsFollow(q)'
    <2>1. PICK i \in Pid : Leaves(p, i)
      BY <1>3 DEF Leaving
    <2>2. q # p /\ ~raced /\ gui = "idle"
      BY <2>1 DEF Leaves, Served, Types, TypeOK
    <2> DEFINE m == LeaveMessage(i, padMap)
    <2>3. down'[q] = Sent(q, m) /\ data'[q] = data[q] /\ client' = client /\ cmap' = cmap
      BY <1>3, <2>1, <2>2 DEF Leaving, Leaves, Types, TypeOK, cvars
    <2>4. m \in NewsMessage /\ (AboutMap(m) = {padMap'} \/ (AboutMap(m) = {} /\ padMap' = padMap))
      BY <2>1, LeaveSays
    <2> HIDE DEF m
    <2>5. Served(q) /\ down'[q] = Append(down[q], m)
      BY <2>3, SentServed
    <2>6. PadsFollow(q)
      BY <1>0, <2>2, <2>5 DEF Current
    <2> QED
      BY <2>3, <2>4, <2>5, <2>6, PadsTold
  <1>4. CASE SendMapping
    <2>0. data[q] \in Used(players)
      <3>1. data' = data /\ data[q] # 0
        BY <1>4 DEF SendMapping, Served, svars
      <3>2. data[q] \in Pid /\ players[data[q]] = q /\ q # None
        BY <3>1, Constants DEF OwnerInv, OwnerType, PeerOwnsPlayer, Pid
      <3> QED
        BY <3>2 DEF Used
    <2>1. CASE Ends
      <3>1. Served(q) /\ UNCHANGED <<down, cmap, padMap, raced>>
        BY <2>1 DEF Ends, Served, Closed, svars, cvars
      <3>2. Current(q)
        BY <2>0, <2>1 DEF Ends, Current
      <3> QED
        BY <1>0, <3>1, <3>2, PadsKept
    <2>2. ASSUME NEW i \in Pid, Sends(i) PROVE PadsFollow(q)'
      <3> DEFINE m == PadMapping(copy)
      <3>1. UNCHANGED <<cmap, padMap, data, client, raced, gui>> /\ gui = "sending" /\ cursor' = i
        BY <2>2 DEF Sends, svars, cvars
      <3>2. CASE q = players[i]
        <4>1. down'[q] = Sent(q, m)
          BY <2>2, <3>2 DEF Sends, Types
        <4>2. m \in NewsMessage /\ AboutMap(m) = {copy}
          BY MappingSays DEF Types, TypeOK, Map
        <4>3. copy = padMap
          BY <3>1 DEF Dialog
        <4> HIDE DEF m
        <4>4. Served(q) /\ down'[q] = Append(down[q], m)
          BY <3>1, <4>1, SentServed
        <4> QED
          BY <3>1, <4>2, <4>3, <4>4, PadsTold
      <3>3. CASE q # players[i]
        <4>1. down'[q] = down[q]
          BY <2>2, <3>3 DEF Sends, Types
        <4>2. Served(q)
          BY <3>1, <4>1 DEF Served, Closed
        <4>3. data[q] <= cursor
          <5>1. data[q] # i /\ data[q] <= i
            BY <3>1, <3>3, <4>2 DEF Current, OwnerInv, PeerOwnsPlayer, Served
          <5>2. data[q] \in Nat /\ cursor \in Nat /\ i \in Nat
            <6>1. data[q] \in 0 .. MaxPlayers /\ cursor \in 0 .. MaxPlayers
              BY DEF Types, TypeOK
            <6> QED
              BY <6>1, Constants
          <5>3. data[q] > cursor => i <= data[q]
            BY <2>0, <2>2 DEF Sends
          <5> QED
            BY <5>1, <5>2, <5>3
        <4>4. PadsFollow(q)
          BY <1>0, <3>1, <4>2, <4>3 DEF Current
        <4> QED
          BY <3>1, <4>1, <4>4, PadsKept
      <3> QED
        BY <3>2, <3>3
    <2> QED
      BY <1>4, <2>1, <2>2, SendShape
  <1>5. CASE Quiet
    <2>1. UNCHANGED <<client, cmap, data, down>>
      BY <1>5 DEF Quiet, RequestStartGame, ChangeMapping, OpenDialog, AssignMapping,
                  BuildMapping, StartGame, StopGame, vars, svars, cvars
    <2>2. Served(q)
      BY <2>1 DEF Served, Closed
    <2>3. /\ padMap' = padMap /\ (raced => raced')
          /\ Current(q)
      <3>1. CASE AssignMapping
        BY <3>1 DEF AssignMapping, Current
      <3>2. CASE BuildMapping
        <4>1. gui' = "sending" /\ cursor' = 0 /\ data'[q] # 0
          BY <3>2 DEF BuildMapping, Dialog, Served
        <4>2. data'[q] <= 0
          BY <4>1 DEF Current
        <4>3. data'[q] \in Nat
          <5>1. data[q] \in 0 .. MaxPlayers
            BY DEF Types, TypeOK
          <5> QED
            BY <2>1, <5>1, Constants
        <4> QED
          BY <4>1, <4>2, <4>3
      <3>3. CASE OpenDialog
        BY <3>3 DEF OpenDialog, Current, svars
      <3>4. CASE /\ ~AssignMapping /\ ~BuildMapping /\ ~OpenDialog
        BY <1>5, <3>4 DEF Quiet, RequestStartGame, ChangeMapping, StartGame, StopGame, Current,
                          vars, svars, gvars
      <3> QED
        BY <3>1, <3>2, <3>3, <3>4
    <2> QED
      BY <1>0, <2>1, <2>2, <2>3, PadsKept
  <1> QED
    BY <1>1, <1>2, <1>3, <1>4, <1>5, StepShape

-----------------------------------------------------------------------------
(* The host stays. *)
LEMMA HostServed ==
  ASSUME HostStays PROVE Served(Host)
  BY DEF HostStays, Served

LEMMA HostStep ==
  ASSUME OwnerInv, Types, Seats, RosterFollows, HostStays, [Next]_vars
  PROVE  HostStays'
  <1>0. Host \in Peer /\ down[Host] \in Seq(DownMessage)
    BY Constants DEF Types
  <1>1. \A k \in 1 .. Len(down[Host]) : down[Host][k] \in NewsMessage
    BY <1>0, HostServed DEF RosterFollows, ListFollows
  <1>2. ASSUME NEW m \in NewsMessage, down'[Host] = Append(down[Host], m)
        PROVE  ~Closed(down, Host)'
    <2>1. Append(down[Host], m) # <<>> /\ Append(down[Host], m)[Len(Append(down[Host], m))] = m
      BY <1>0, ClosedAppend DEF DownMessage
    <2> QED
      BY <1>2, <2>1, MessageKinds DEF Closed
  <1>3. ASSUME NEW p \in Peer, Single(p) PROVE HostStays'
    <2>1. CASE p = Host
      <3>1. ClientOnNews(p) \/ ClientOnEnd(p)
        BY <1>3, <2>1, Constants
           DEF Single, Refusing, Nothing, Disconnect, SendBad, LoseConnection, Kicking,
               KickPlayer, HostStays, OwnerInv, PeerOwnsPlayer
      <3>2. down[Host] # <<>>
        BY <2>1, <3>1 DEF ClientOnNews, ClientOnEnd
      <3>3. /\ Len(down[Host]) - 1 \in Nat /\ Len(Tail(down[Host])) = Len(down[Host]) - 1
            /\ Head(down[Host]) = down[Host][1]
            /\ \A k \in 1 .. Len(down[Host]) - 1 : Tail(down[Host])[k] = down[Host][k + 1]
        BY <1>0, <3>2, TailIsShift
      <3>4. Head(down[Host]).type = "News"
        BY <1>1, <3>3, MessageKinds
      <3>5. ClientOnNews(p)
        BY <2>1, <3>1, <3>4 DEF ClientOnEnd
      <3>6. /\ down'[Host] = Tail(down[Host]) /\ client'[Host] = "in" /\ UNCHANGED <<up, data>>
        BY <1>0, <2>1, <3>5 DEF ClientOnNews, Types, TypeOK, svars
      <3>7. ~Closed(down, Host)'
        <4> SUFFICES ASSUME Closed(down, Host)' PROVE FALSE
          OBVIOUS
        <4>1. Tail(down[Host]) # <<>> /\ Tail(down[Host])[Len(Tail(down[Host]))] = Disconnected
          BY <3>6 DEF Closed
        <4>2. Len(down[Host]) - 1 # 0
          BY <1>0, <3>3, <4>1
        <4>3. Len(down[Host]) - 1 \in 1 .. Len(down[Host]) - 1
          <5>1. \A n \in Nat : n # 0 => n \in 1 .. n
            OBVIOUS
          <5> QED
            BY <3>3, <4>2, <5>1, Zenon
        <4>4. (Len(down[Host]) - 1) + 1 \in 1 .. Len(down[Host])
          BY <3>3, <4>3
        <4>5. down[Host][(Len(down[Host]) - 1) + 1] = Disconnected
          BY <3>3, <4>1, <4>3
        <4> QED
          BY <1>1, <4>4, <4>5, MessageKinds
      <3> QED
        BY <3>6, <3>7 DEF HostStays
    <2>2. CASE p # Host
      <3>1. /\ up'[Host] = up[Host] /\ down'[Host] = down[Host] /\ client'[Host] = client[Host]
            /\ data' = data
        BY <1>0, <1>3, <2>2, SingleKeeps DEF svars
      <3> QED
        BY <3>1 DEF HostStays, Closed
    <2> QED
      BY <2>1, <2>2
  <1>4. ASSUME NEW q \in Peer, q = Host, NEW m \in NewsMessage, down'[q] = Sent(q, m),
               up'[q] = up[q], client'[q] = client[q], data'[q] = data[q]
        PROVE  HostStays'
    <2>1. down'[Host] = Append(down[Host], m)
      BY <1>4 DEF Sent, HostStays
    <2> QED
      BY <1>2, <1>4, <2>1 DEF HostStays
  <1>5. ASSUME NEW p \in Peer, Joining(p) PROVE HostStays'
    <2>1. PICK i \in Pid, map \in Map : Joins(p, i, map)
      BY <1>5 DEF Joining
    <2>2. p # Host
      BY <1>5 DEF Joining, HostStays
    <2>3. /\ down'[Host] = Sent(Host, Arrival(p, i, map)) /\ up'[Host] = up[Host]
          /\ client'[Host] = client[Host] /\ data'[Host] = data[Host]
      BY <1>0, <1>5, <2>1, <2>2 DEF Joining, Joins, Types, TypeOK, cvars
    <2>4. Arrival(p, i, map) \in NewsMessage
      BY <2>1, ArrivalSays
    <2> QED
      BY <1>0, <1>4, <2>3, <2>4
  <1>6. ASSUME NEW p \in Peer, Leaving(p) PROVE HostStays'
    <2>1. PICK i \in Pid : Leaves(p, i)
      BY <1>6 DEF Leaving
    <2>2. p # Host
      BY <1>6 DEF Leaving, HostStays
    <2>3. /\ down'[Host] = Sent(Host, LeaveMessage(i, padMap)) /\ up'[Host] = up[Host]
          /\ client'[Host] = client[Host] /\ data'[Host] = data[Host]
      BY <1>0, <1>6, <2>1, <2>2 DEF Leaving, Leaves, Types, TypeOK, cvars
    <2>4. LeaveMessage(i, padMap) \in NewsMessage
      BY <2>1, LeaveSays
    <2> QED
      BY <1>0, <1>4, <2>3, <2>4
  <1>7. CASE SendMapping
    <2>1. CASE Ends
      BY <2>1 DEF Ends, HostStays, Closed, svars, cvars
    <2>2. ASSUME NEW i \in Pid, Sends(i) PROVE HostStays'
      <3>1. UNCHANGED <<up, client, data>>
        BY <2>2 DEF Sends, svars, cvars
      <3>2. \/ down'[Host] = Sent(Host, PadMapping(copy))
            \/ down'[Host] = down[Host]
        BY <1>0, <2>2 DEF Sends, Types
      <3>3. PadMapping(copy) \in NewsMessage
        BY MappingSays DEF Types, TypeOK, Map
      <3>4. CASE down'[Host] = down[Host]
        BY <3>1, <3>4 DEF HostStays, Closed
      <3> QED
        BY <1>0, <1>4, <3>1, <3>2, <3>3, <3>4
    <2> QED
      BY <1>7, <2>1, <2>2, SendShape
  <1>8. CASE Quiet
    <2>1. UNCHANGED <<up, client, data, down>>
      BY <1>8 DEF Quiet, RequestStartGame, ChangeMapping, OpenDialog, AssignMapping,
                  BuildMapping, StartGame, StopGame, vars, svars, cvars
    <2> QED
      BY <2>1 DEF HostStays, Closed
  <1> QED
    BY <1>3, <1>5, <1>6, <1>7, <1>8, StepShape

(* A client that has handled everything has the server's list. *)
LEMMA SettledAgrees ==
  ASSUME OwnerInv, Types, Seats, RosterFollows, NEW p \in Peer, Settled(p)
  PROVE  Served(p) /\ roster[p] = players
  <1>1. Served(p)
    BY DEF Settled, Served, Seats, Unseated, Closed
  <1>2. ListFollows(p)
    BY <1>1 DEF RosterFollows
  <1>3. Len(down[p]) = 0
    BY DEF Settled
  <1>4. ASSUME NEW i \in Pid PROVE roster[p][i] = players[i]
    <2> DEFINE w == [k \in 1 .. Len(down[p]) |-> AboutPlayer(down[p][k], i)]
    <2>1. Becomes(roster[p][i], w, players[i])
      BY <1>2 DEF ListFollows
    <2>2. DOMAIN w = {}
      BY <1>3
    <2> HIDE DEF w
    <2> QED
      BY <2>1, <2>2, BecomesNow
  <1>5. roster[p] \in Table /\ players \in Table
    BY DEF Types, TypeOK, Table
  <1>6. roster[p] = players
    BY <1>4, <1>5 DEF Table
  <1> QED
    BY <1>1, <1>6

(* The dialog, and the pads of those who are there. *)
LEMMA DialogStep ==
  ASSUME OwnerInv, Types, Seats, RosterFollows, HostStays, Dialog, NoGhostPad, [Next]_vars
  PROVE  Dialog'
  <1>0. Host \in Peer
    BY Constants
  <1>1. ASSUME NEW p \in Peer, Single(p) PROVE Dialog'
    <2>1. UNCHANGED <<players, padMap, raced, gui, copy, cursor>> /\ (p # Host => UNCHANGED list)
      BY <1>1, SingleKeeps DEF svars
    <2>2. ASSUME ~raced, gui = "dialog" PROVE p # Host
      <3>1. down[Host] = <<>>
        BY <2>2 DEF Dialog
      <3> SUFFICES ASSUME p = Host PROVE FALSE
        OBVIOUS
      <3> QED
        BY <1>1, <3>1, Constants
           DEF Single, Refusing, Nothing, ClientOnNews, ClientOnEnd, Disconnect, SendBad,
               LoseConnection, Kicking, KickPlayer, HostStays, OwnerInv, PeerOwnsPlayer
    <2>3. ASSUME p # Host PROVE down'[Host] = down[Host]
      BY <1>0, <1>1, <2>3, SingleKeeps
    <2> QED
      BY <2>1, <2>2, <2>3 DEF Dialog, Used
  <1>2. ASSUME NEW p \in Peer, Joining(p) \/ Leaving(p) PROVE Dialog'
    <2>1. /\ raced' = (raced \/ gui # "idle") /\ UNCHANGED gvars
      BY <1>2 DEF Joining, Leaving, Joins, Leaves
    <2> QED
      BY <2>1 DEF Dialog, gvars
  <1>3. CASE SendMapping
    <2>1. CASE Ends
      BY <2>1 DEF Ends, Dialog
    <2>2. ASSUME NEW i \in Pid, Sends(i) PROVE Dialog'
      BY <2>2 DEF Sends, Dialog, svars
    <2> QED
      BY <1>3, <2>1, <2>2, SendShape
  <1>4. CASE Quiet
    <2>1. CASE OpenDialog
      <3>1. /\ gui' = "dialog" /\ cursor' = cursor /\ gui = "idle" /\ copy' = padMap
            /\ list' = Ordered(Used(roster[Host])) /\ raced' = (raced \/ down[Host] # <<>>)
            /\ UNCHANGED <<players, down>>
        BY <2>1 DEF OpenDialog, svars
      <3>2. ASSUME ~raced' PROVE \A k \in 1 .. Len(list') : list'[k] \in Used(players')
        <4>1. roster[Host] = players
          BY <1>0, <3>1, <3>2, SettledAgrees DEF Settled, HostStays
        <4>2. Used(roster[Host]) \in SUBSET Pid
          BY DEF Used
        <4>3. PICK n \in Nat : list' \in [1 .. n -> Used(roster[Host])]
          BY <3>1, <4>2, OrderedType
        <4>4. list' \in Seq(Used(roster[Host])) /\ Len(list') = n
          BY <4>3, FunctionIsSequence
        <4> QED
          BY <3>1, <4>1, <4>3, <4>4
      <3>3. ASSUME ~raced' PROVE \A q \in Pad : copy'[q] # 0 => players'[copy'[q]] # None
        BY <3>1, <3>3 DEF NoGhostPad
      <3> QED
        BY <3>1, <3>2, <3>3 DEF Dialog
    <2>2. ASSUME NEW q \in Pad, NEW k \in 0 .. Len(list), ChangeMapping(q, k) PROVE Dialog'
      <3>1. /\ gui = "dialog" /\ UNCHANGED <<players, padMap, raced, gui, list, cursor, down>>
            /\ index' = [index EXCEPT ![q] = k]
            /\ \A r \in Pad : copy'[r] \in RowPids(index'[r])
        BY <2>2 DEF ChangeMapping, svars
      <3>2. index' \in [Pad -> 0 .. Len(list)]
        BY <3>1 DEF Types
      <3>3. ASSUME ~raced, NEW r \in Pad, copy'[r] # 0 PROVE players[copy'[r]] # None
        <4>1. copy'[r] \in RowPids(index'[r]) /\ index'[r] \in 0 .. Len(list) /\ Len(list) \in Nat
          BY <3>1, <3>2 DEF Types
        <4>2. index'[r] # 0
          BY <3>3, <4>1 DEF RowPids
        <4>3. index'[r] \in 1 .. Len(list)
          BY <4>1, <4>2
        <4>4. list[index'[r]] \in Used(players)
          BY <3>1, <3>3, <4>3 DEF Dialog
        <4>5. list[index'[r]] # 0
          BY <4>4, Constants DEF Used
        <4>6. copy'[r] = list[index'[r]]
          BY <4>1, <4>2, <4>5 DEF RowPids
        <4> QED
          BY <4>4, <4>6 DEF Used
      <3> QED
        BY <3>1, <3>3 DEF Dialog, Used
    <2>3. CASE AssignMapping
      BY <2>3 DEF AssignMapping, Dialog
    <2>4. CASE BuildMapping
      BY <2>4 DEF BuildMapping, Dialog, svars
    <2>5. CASE \/ StartGame \/ StopGame \/ UNCHANGED vars
               \/ \E next \in {"pending", "running"} : RequestStartGame(next)
      <3>1. UNCHANGED <<players, padMap, raced, gvars, down>>
        BY <2>5 DEF StartGame, StopGame, RequestStartGame, vars, svars
      <3> QED
        BY <3>1 DEF Dialog, Used, gvars
    <2> QED
      BY <1>4, <2>1, <2>2, <2>3, <2>4, <2>5 DEF Quiet
  <1> QED
    BY <1>1, <1>2, <1>3, <1>4, StepShape

LEMMA GhostStep ==
  ASSUME OwnerInv, Types, Dialog, NoGhostPad, [Next]_vars
  PROVE  NoGhostPad'
  <1>0. padMap \in Map /\ players \in Table
    BY DEF Types, TypeOK, Map, OwnerInv, OwnerType, Table
  <1>1. ASSUME NEW p \in Peer, Single(p) PROVE NoGhostPad'
    BY <1>1, SingleKeeps DEF NoGhostPad, svars
  <1>2. ASSUME NEW p \in Peer, Joining(p) PROVE NoGhostPad'
    <2>1. PICK i \in Pid, map \in Map : Joins(p, i, map)
      BY <1>2 DEF Joining
    <2>2. /\ players' = [players EXCEPT ![i] = p] /\ padMap' = map /\ p # None
          /\ raced => raced'
      BY <2>1, Constants DEF Joins
    <2>3. \A q \in Pad : map[q] = padMap[q] \/ map[q] = i
      BY <2>1 DEF Joins
    <2>4. \A q \in Pad : padMap[q] # 0 => padMap[q] \in Pid
      BY <1>0, Constants DEF Map, Pid
    <2> QED
      BY <1>0, <2>2, <2>3, <2>4 DEF NoGhostPad, Table
  <1>3. ASSUME NEW p \in Peer, Leaving(p) PROVE NoGhostPad'
    <2>1. PICK i \in Pid : Leaves(p, i)
      BY <1>3 DEF Leaving
    <2>2. /\ players' = [players EXCEPT ![i] = None] /\ padMap' = Unmap(padMap, i)
          /\ raced => raced'
      BY <2>1 DEF Leaves
    <2>3. \A q \in Pad : padMap'[q] = IF padMap[q] = i THEN 0 ELSE padMap[q]
      BY <2>2 DEF Unmap
    <2>4. \A q \in Pad : padMap[q] # 0 => padMap[q] \in Pid
      BY <1>0, Constants DEF Map, Pid
    <2> QED
      BY <1>0, <2>2, <2>3, <2>4 DEF NoGhostPad, Table
  <1>4. CASE SendMapping
    BY <1>4 DEF SendMapping, NoGhostPad, svars
  <1>5. CASE Quiet
    <2>1. CASE AssignMapping
      BY <2>1 DEF AssignMapping, Dialog, NoGhostPad
    <2>2. CASE OpenDialog
      BY <2>2 DEF OpenDialog, NoGhostPad, svars
    <2>3. CASE ~AssignMapping /\ ~OpenDialog
      <3>1. UNCHANGED <<players, padMap, raced>>
        BY <1>5, <2>3 DEF Quiet, RequestStartGame, ChangeMapping, BuildMapping, StartGame,
                          StopGame, vars, svars
      <3> QED
        BY <3>1 DEF NoGhostPad
    <2> QED
      BY <2>1, <2>2, <2>3
  <1> QED
    BY <1>1, <1>2, <1>3, <1>4, <1>5, StepShape

-----------------------------------------------------------------------------
LEMMA TypesStep ==
  ASSUME OwnerInv, Types, [Next]_vars
  PROVE  Types'
  <1>1. ASSUME NEW p \in Peer, Server(p) PROVE Types'
    BY <1>1, ServerShape, JoiningTypes, LeavingTypes, AloneTypes
  <1>2. ASSUME NEW p \in Peer, \/ ClientOnEnd(p) \/ Disconnect(p) \/ SendBad(p)
                               \/ LoseConnection(p)
        PROVE  Types'
    BY <1>2, AloneTypes
  <1>3. ASSUME NEW p \in Guest, Connect(p) \/ ComeBack(p) PROVE Types'
    BY <1>3, AloneTypes, Constants
  <1>4. ASSUME NEW p \in Peer, ClientOnNews(p) PROVE Types'
    BY <1>4, NewsTypes
  <1>5. CASE Gui \/ StartGame \/ StopGame
    BY <1>5, GuiTypes
  <1>6. CASE UNCHANGED vars
    BY <1>6 DEF Types, TypeOK, vars, svars, cvars, gvars
  <1> QED
    BY <1>1, <1>2, <1>3, <1>4, <1>5, <1>6 DEF Next

LEMMA SessionInit == Init => SessionInv
  <1> SUFFICES ASSUME Init PROVE SessionInv
    OBVIOUS
  <1>1. OwnerInv
    BY OwnerInit
  <1>2. /\ MaxPlayers \in Nat /\ 1 \in Pid /\ Host \in Peer /\ Nobody \in Table
        /\ NoPads \in Map /\ None \notin Peer /\ 0 \notin Pid /\ Pid \subseteq 0 .. MaxPlayers
    BY Constants
  <1>3. /\ \A p \in Peer : up[p] = <<>> /\ down[p] = <<>> /\ Len(up[p]) = 0 /\ Len(down[p]) = 0
        /\ \A p \in Peer : ~Closed(up, p) /\ ~Closed(down, p)
    BY DEF Init, Closed
  <1>4. TypeOK
    <2>1. players \in Table /\ data \in [Peer -> 0 .. MaxPlayers]
      BY <1>1 DEF OwnerInv, OwnerType, Table
    <2>2. padMap \in Map
      BY <1>2 DEF Init, Map
    <2>3. roster \in [Peer -> Table] /\ cmap \in [Peer -> Map]
      BY <1>2, <2>1, <2>2 DEF Init
    <2>4. copy \in Map /\ cursor \in 0 .. MaxPlayers
      BY <1>2 DEF Init
    <2>5. /\ phase \in {"idle", "pending", "running"}
          /\ gui \in {"idle", "dialog", "assigned", "sending"}
          /\ client \in [Peer -> {"off", "connecting", "in", "refused", "out"}]
      BY DEF Init
    <2> QED
      BY <2>1, <2>2, <2>3, <2>4, <2>5 DEF TypeOK, Table, Map
  <1>5. Wires
    <2>1. <<>> \in Seq(UpMessage) /\ <<>> \in Seq(DownMessage)
      OBVIOUS
    <2> QED
      BY <2>1 DEF Init, Wires
  <1>6. Boxes
    <2>1. list \in Seq(0 .. MaxPlayers) /\ Len(list) = 0 /\ raced \in BOOLEAN /\ index = NoPads
      <3>1. ASSUME NEW S PROVE <<>> \in Seq(S) /\ Len(<<>>) = 0
        OBVIOUS
      <3>2. list = <<>> /\ raced \in BOOLEAN /\ index = NoPads
        BY DEF Init
      <3> QED
        BY <3>1, <3>2
    <2> QED
      BY <2>1 DEF Boxes, NoPads
  <1>7. Types
    BY <1>4, <1>5, <1>6 DEF Types, Wires, Boxes
  <1>8. HostStays
    BY <1>2, <1>3 DEF Init, HostStays
  <1>9. Seats
    <2> SUFFICES ASSUME NEW p \in Peer PROVE FirstPacket(p) /\ NotThere(p) /\ Unseated(p)
      BY DEF Seats
    <2>1. /\ client[p] = IF p = Host THEN "in" ELSE "off"
          /\ data[p] = IF p = Host THEN 1 ELSE 0
          /\ roster[p] = IF p = Host THEN players ELSE Nobody
      BY DEF Init
    <2> QED
      BY <1>3, <2>1 DEF FirstPacket, NotThere, Unseated
  <1>10. ASSUME NEW p \in Peer, Served(p) PROVE p = Host
    BY <1>10 DEF Served, Init
  <1>11. RosterFollows
    <2>1. ListFollows(Host)
      <3>1. roster[Host] = players /\ \A k \in 1 .. Len(down[Host]) : FALSE
        BY <1>2, <1>3 DEF Init
      <3> QED
        BY <3>1 DEF ListFollows, Becomes
    <2> QED
      BY <1>10, <2>1 DEF RosterFollows
  <1>12. MapFollows
    <2>1. PadsFollow(Host)
      <3>1. cmap[Host] = padMap /\ \A k \in 1 .. Len(down[Host]) : FALSE
        BY <1>2, <1>3 DEF Init
      <3> QED
        BY <3>1 DEF PadsFollow, Becomes
    <2> QED
      BY <1>10, <2>1 DEF MapFollows
  <1>13. Dialog
    BY DEF Init, Dialog
  <1>14. NoGhostPad
    <2>1. players[1] = Host
      BY <1>2 DEF Init, Nobody
    <2>2. \A q \in Pad : padMap[q] # 0 => padMap[q] = 1
      BY DEF Init
    <2> QED
      BY <1>2, <2>1, <2>2 DEF NoGhostPad
  <1> QED
    BY <1>1, <1>7, <1>8, <1>9, <1>11, <1>12, <1>13, <1>14 DEF SessionInv

LEMMA SessionStep == SessionInv /\ [Next]_vars => SessionInv'
  <1> SUFFICES ASSUME SessionInv, [Next]_vars PROVE SessionInv'
    OBVIOUS
  <1>1. /\ OwnerInv /\ Types /\ HostStays /\ Seats
        /\ RosterFollows /\ MapFollows /\ Dialog /\ NoGhostPad
    BY DEF SessionInv
  <1>2. OwnerInv'
    BY <1>1, OwnerStep
  <1>3. Types'
    BY <1>1, TypesStep
  <1>4. HostStays'
    BY <1>1, HostStep
  <1>5. Seats'
    BY <1>1, SeatsStep
  <1>6. RosterFollows'
    BY <1>1, RosterStep
  <1>7. MapFollows'
    BY <1>1, MapStep
  <1>8. Dialog'
    BY <1>1, DialogStep
  <1>9. NoGhostPad'
    BY <1>1, GhostStep
  <1> QED
    BY <1>2, <1>3, <1>4, <1>5, <1>6, <1>7, <1>8, <1>9 DEF SessionInv

LEMMA SessionInvariant == Spec => []SessionInv
  BY SessionInit, SessionStep, PTL DEF Spec

(* The ids, maps and lists of the server, of every client and of the       *)
(* host's dialog stay within MaxPlayers, whatever the messages hold        *)
(* (OnConnect, OnDisconnect, OnPlayerJoin, OnPlayerLeave, OnPadMapping).   *)
THEOREM Typed == Spec => []TypeOK
  <1>1. SessionInv => TypeOK
    BY DEF SessionInv, Types
  <1> QED
    BY <1>1, SessionInvariant, PTL

(* A client that has handled everything it was sent has the server's list  *)
(* of players: the joins and leaves that NetPlayServer::OnConnect and      *)
(* OnDisconnect send are enough, in the order they are sent, however ids   *)
(* are used again.                                                         *)
THEOREM RostersAgree == Spec => []RosterAgrees
  <1>1. SessionInv => RosterAgrees
    BY SettledAgrees DEF SessionInv, RosterAgrees
  <1> QED
    BY <1>1, SessionInvariant, PTL

(* Such a client has the server's pad map as well, unless the host's       *)
(* dialog is at work or was when somebody came or left (SetPadMapping      *)
(* against AssignNewUserAPad and OnDisconnect).                            *)
THEOREM PadMapsAgree == Spec => []PadMapAgrees
  <1>1. ASSUME SessionInv, gui = "idle", ~raced, NEW p \in Peer, Settled(p)
        PROVE  cmap[p] = padMap
    <2>1. Served(p)
      BY <1>1, SettledAgrees DEF SessionInv
    <2>2. PadsFollow(p)
      BY <1>1, <2>1 DEF SessionInv, MapFollows
    <2> DEFINE w == [k \in 1 .. Len(down[p]) |-> AboutMap(down[p][k])]
    <2>3. Becomes(cmap[p], w, padMap)
      BY <2>2 DEF PadsFollow
    <2>4. Len(down[p]) = 0
      BY <1>1 DEF Settled
    <2>5. DOMAIN w = {}
      BY <2>4
    <2> HIDE DEF w
    <2> QED
      BY <2>3, <2>5, BecomesNow
  <1>2. SessionInv => PadMapAgrees
    BY <1>1 DEF PadMapAgrees
  <1> QED
    BY <1>2, SessionInvariant, PTL

(* No pad is mapped to a player who is not there, unless the host's dialog *)
(* overlapped with a join or a leave (OnDisconnect, PadMappingDialog).     *)
THEOREM NoGhosts == Spec => []NoGhostPad
  <1>1. SessionInv => NoGhostPad
    BY DEF SessionInv
  <1> QED
    BY <1>1, SessionInvariant, PTL

(* A guest that has given up, even one whose answer was on its way, has no *)
(* player once the server has handled all there is of it (Connect() of the *)
(* client against OnConnect and the disconnect event).                     *)
THEOREM GoneAreRemoved == Spec => []GoneIsRemoved
  <1>1. ASSUME SessionInv, NEW p \in Guest, client[p] = "out", up[p] = <<>>, NEW i \in Pid
        PROVE  players[i] # p
    <2>1. p \in Peer /\ 0 \notin Pid /\ p # None
      BY Constants
    <2>2. data[p] = 0
      BY <1>1, <2>1 DEF SessionInv, Seats, NotThere, Closed
    <2> QED
      BY <1>1, <2>1, <2>2 DEF SessionInv, OwnerInv, PeerOwnsPlayer
  <1>2. SessionInv => GoneIsRemoved
    BY <1>1 DEF GoneIsRemoved
  <1> QED
    BY <1>2, SessionInvariant, PTL

=============================================================================
