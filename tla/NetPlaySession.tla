--------------------------- MODULE NetPlaySession ---------------------------
(***************************************************************************)
(* Who is in a NetPlay session: joins, refusals, leaves, kicks, the ids    *)
(* the server gives out and uses again, the list of players every client   *)
(* keeps, and the pad map, which the NETPLAY thread changes with every     *)
(* join and leave and the host's GUI thread with the dialog it has open.   *)
(***************************************************************************)
EXTENDS Naturals, Sequences, FiniteSets

CONSTANTS Host,       \* the host's own client, player 1
          Guest,      \* the others
          None,
          MaxPlayers, \* at most this many players (255)
          PadCount,   \* pads in the map (4)
          MaxEvent    \* bound: kicks, bad packets, lost connections, returns,
                      \* starts of a game, uses of the pad dialog and changes in it

ASSUME NameAssumption == /\ Host \notin Guest /\ None \notin Guest \cup {Host}
                         /\ None \notin [1 .. PadCount -> 0 .. MaxPlayers]
ASSUME BoundAssumption == /\ MaxPlayers \in Nat \ {0} /\ PadCount \in Nat
                          /\ MaxEvent \in Nat

Peer == Guest \cup {Host}
Pid == 1 .. MaxPlayers
Pad == 1 .. PadCount

VARIABLES
  players,  \* the server's m_players: the peer of each id, None if it is free
  data,     \* ENetPeer::data, 0 for nullptr
  padMap,   \* the server's m_pad_map
  phase,    \* m_is_running and m_start_pending of the server
  up, down, \* what is on its way to the server and to each client
  client,   \* where each client is
  roster,   \* m_players of each client
  cmap,     \* m_pad_map of each client
  gui,      \* what the host's GUI thread is doing
  list,     \* the dialog's m_players: the ids, in their order, 0 for a pointer to
            \* a player the host's client has removed since
  index,    \* the dialog's current index of each box
  copy,     \* the dialog's m_pad_mapping, then the packet UpdatePadMapping sends
  cursor,   \* the player SendToClients has come to on the GUI thread
  events,   \* how many of the bounded events have happened
  raced     \* history: a dialog was opened before the host's client had heard of
            \* a join or a leave, or one came before its last packet was sent

svars == <<players, data, padMap, phase>>
cvars == <<client, roster, cmap>>
gvars == <<gui, list, index, copy, cursor>>
vars == <<svars, up, down, cvars, gvars, events, raced>>

Nobody == [i \in Pid |-> None]
NoPads == [i \in Pad |-> 0]

(* The host's client has joined its own server and has the first pad. *)
Init ==
  /\ players = [Nobody EXCEPT ![1] = Host]
  /\ data = [p \in Peer |-> IF p = Host THEN 1 ELSE 0]
  /\ padMap = [i \in Pad |-> IF i = 1 THEN 1 ELSE 0]
  /\ phase = "idle"
  /\ up = [p \in Peer |-> <<>>] /\ down = [p \in Peer |-> <<>>]
  /\ client = [p \in Peer |-> IF p = Host THEN "in" ELSE "off"]
  /\ roster = [p \in Peer |-> IF p = Host THEN players ELSE Nobody]
  /\ cmap = [p \in Peer |-> IF p = Host THEN padMap ELSE NoPads]
  /\ gui = "idle" /\ list = <<>> /\ index = NoPads /\ copy = NoPads /\ cursor = 0
  /\ events = 0 /\ raced = FALSE

Used(r) == {i \in Pid : r[i] # None}

Smallest(S) == CHOOSE i \in S : \A j \in S : i <= j

(* The order in which a std::map of players is walked. *)
Ordered(S) == CHOOSE s \in [1 .. Cardinality(S) -> S] :
                \A a, b \in 1 .. Cardinality(S) : a < b => s[a] < s[b]

(* Messages of the server.  What one handler sends to one peer is one      *)
(* message here: the PlayerJoins or the PlayerLeave, and the PadMapping    *)
(* that follows if the map has changed.                                    *)
Refused == [type |-> "Error"]
Disconnected == [type |-> "Disconnect"]
News(joined, left, map) == [type |-> "News", joined |-> joined, left |-> left, map |-> map]
PadMapping(map) == News(Nobody, 0, map)

(* What is sent to a peer that is being disconnected goes nowhere. *)
Closed(d, p) == d[p] # <<>> /\ d[p][Len(d[p])] = Disconnected

(* SendToClients: m to every player in r. *)
SendToClients(d, r, m) ==
  [p \in Peer |-> IF (\E i \in Pid : r[i] = p) /\ ~Closed(d, p) THEN Append(d[p], m) ELSE d[p]]

Disturbs == raced' = (raced \/ gui # "idle")

-----------------------------------------------------------------------------
(* The server's NETPLAY thread. *)

(* Mutant: the id is the number of players plus one. *)
FirstAvailableIDCount == Cardinality(Used(players)) + 1

(* Mutant: the id after the last one. *)
FirstAvailableIDLast == 1 + CHOOSE i \in Used(players) : \A j \in Used(players) : j <= i

(* GiveFirstAvailableIDTo: the first id that nobody has. *)
FirstAvailableID == Smallest({i \in 1 .. MaxPlayers + 1 : i \notin Used(players)})

(* AssignNewUserAPad: the first pad that nobody has, if there is one. *)
AssignPad(m, i) ==
  LET free == {q \in Pad : m[q] = 0}
  IN  IF free = {} THEN m ELSE [m EXCEPT ![Smallest(free)] = i]

(* OnConnect refuses a client of another version or with too long a name   *)
(* (neither "fits"), during a game or its start, and when the server is    *)
(* full; the id that was given before the name was read is taken back.     *)
Acceptable(m) ==
  m.fits /\ phase = "idle" /\ Cardinality(Used(players)) < MaxPlayers

(* Mutant: the newcomer is not told who is there. *)
WelcomeAlone(p, i, map) == News([Nobody EXCEPT ![i] = p], 0, map)

(* What only the newcomer is told: its id, and every player there is. *)
Welcome(p, i, map) == News([players EXCEPT ![i] = p], 0, map)

OnConnect(p, m) ==
  IF Acceptable(m)
  THEN LET i == FirstAvailableID
           map == AssignPad(padMap, i)
           news == News([Nobody EXCEPT ![i] = p], 0, map)
       IN  /\ data' = [data EXCEPT ![p] = i]
           /\ players' = [players EXCEPT ![i] = p]
           /\ padMap' = map
           /\ down' = [SendToClients(down, players, news) EXCEPT ![p] = <<Welcome(p, i, map)>>]
           /\ Disturbs
  ELSE /\ down' = [down EXCEPT ![p] = <<Refused, Disconnected>>]
       /\ UNCHANGED <<players, data, padMap, raced>>

(* Mutant: the pads of the player who leaves stay mapped. *)
UnmapNothing(m, i) == m

(* Every pad of a player who leaves becomes free. *)
Unmap(m, i) == [q \in Pad |-> IF m[q] = i THEN 0 ELSE m[q]]

(* Mutant: the others are not told of the change of the map. *)
LeaveMessageOnly(i, m) == News(Nobody, i, None)

(* One PadMapping follows for every pad that changes; the last one counts. *)
LeaveMessage(i, m) ==
  News(Nobody, i, IF \E q \in Pad : m[q] = i THEN Unmap(m, i) ELSE None)

(* OnDisconnect.  A game in which a guest had a pad ends, and so does a    *)
(* start whose saves or codes are still on their way.                      *)
OnDisconnect(p, i) ==
  LET left == [players EXCEPT ![i] = None]
      gone == [down EXCEPT ![p] = IF Closed(down, p) THEN @ ELSE Append(@, Disconnected)]
  IN  /\ players' = left
      /\ padMap' = Unmap(padMap, i)
      /\ phase' = IF phase = "running" /\ (i = 1 \/ \A q \in Pad : padMap[q] # i)
                 THEN phase ELSE "idle"
      /\ down' = SendToClients(gone, left, LeaveMessage(i, padMap))
      /\ Disturbs

(* The receive event of a peer without data. *)
ServerOnInit(p) ==
  /\ up[p] # <<>> /\ Head(up[p]).type = "Init" /\ data[p] = 0
  /\ OnConnect(p, Head(up[p]))
  /\ up' = [up EXCEPT ![p] = Tail(@)]
  /\ UNCHANGED <<phase, cvars, gvars, events>>

(* Mutant: the id stays in the peer that is being disconnected. *)
ServerOnBadPacketKeeps(p) ==
  /\ up[p] # <<>> /\ Head(up[p]).type = "Bad" /\ data[p] # 0
  /\ OnDisconnect(p, data[p])
  /\ up' = [up EXCEPT ![p] = <<Disconnected>>]
  /\ UNCHANGED <<data, cvars, gvars, events>>

(* The receive event of a packet OnData does not accept, e.g. data for a   *)
(* pad that is not the player's.  Nothing more is received from the peer.  *)
ServerOnBadPacket(p) ==
  /\ up[p] # <<>> /\ Head(up[p]).type = "Bad" /\ data[p] # 0
  /\ OnDisconnect(p, data[p])
  /\ data' = [data EXCEPT ![p] = 0]
  /\ up' = [up EXCEPT ![p] = <<Disconnected>>]
  /\ UNCHANGED <<cvars, gvars, events>>

(* Mutant: the peer is forgotten but not its player. *)
ServerOnDisconnectEventForgets(p) ==
  /\ up[p] # <<>> /\ Head(up[p]) = Disconnected
  /\ up' = [up EXCEPT ![p] = <<>>]
  /\ data' = [data EXCEPT ![p] = 0]
  /\ UNCHANGED <<players, padMap, phase, down, raced, cvars, gvars, events>>

(* The disconnect event; a peer without data is nobody's. *)
ServerOnDisconnectEvent(p) ==
  /\ up[p] # <<>> /\ Head(up[p]) = Disconnected
  /\ up' = [up EXCEPT ![p] = <<>>]
  /\ IF data[p] # 0 /\ players[data[p]] # None
     THEN OnDisconnect(players[data[p]], data[p]) /\ data' = [data EXCEPT ![p] = 0]
     ELSE UNCHANGED <<svars, down, raced>>
  /\ UNCHANGED <<cvars, gvars, events>>

-----------------------------------------------------------------------------
(* The clients. *)

(* The constructor: the connection is made and the first packet sent. *)
Connect(p) ==
  /\ client[p] = "off"
  /\ \E fits \in BOOLEAN : up' = [up EXCEPT ![p] = <<[type |-> "Init", fits |-> fits]>>]
  /\ client' = [client EXCEPT ![p] = "connecting"]
  /\ UNCHANGED <<svars, down, roster, cmap, gvars, events, raced>>

(* Somebody who left comes again, with a new NetPlayClient and a new peer. *)
ComeBack(p) ==
  /\ client[p] = "out" /\ up[p] = <<>> /\ events < MaxEvent
  /\ client' = [client EXCEPT ![p] = "off"]
  /\ roster' = [roster EXCEPT ![p] = Nobody]
  /\ cmap' = [cmap EXCEPT ![p] = NoPads]
  /\ down' = [down EXCEPT ![p] = <<>>]
  /\ events' = events + 1
  /\ UNCHANGED <<svars, up, gvars, raced>>

(* Connect() gives up after 5 s, a user closes the dialog: the server is   *)
(* told, after what has already been sent.                                 *)
Disconnect(p) ==
  /\ client[p] \in {"connecting", "in", "refused"} /\ p # Host
  /\ client' = [client EXCEPT ![p] = "out"]
  /\ up' = [up EXCEPT ![p] = IF Closed(up, p) THEN @ ELSE Append(@, Disconnected)]
  /\ down' = [down EXCEPT ![p] = <<Disconnected>>]
  /\ UNCHANGED <<svars, roster, cmap, gvars, events, raced>>

SendBad(p) ==
  /\ client[p] = "in" /\ p # Host /\ ~Closed(up, p) /\ events < MaxEvent
  /\ up' = [up EXCEPT ![p] = Append(@, [type |-> "Bad"])]
  /\ events' = events + 1
  /\ UNCHANGED <<svars, down, cvars, gvars, raced>>

(* ENet gives a connection up: nothing that is on its way arrives. *)
LoseConnection(p) ==
  /\ client[p] \in {"connecting", "in"} /\ p # Host /\ events < MaxEvent
  /\ up' = [up EXCEPT ![p] = <<Disconnected>>]
  /\ down' = [down EXCEPT ![p] = <<Disconnected>>]
  /\ events' = events + 1
  /\ UNCHANGED <<svars, cvars, gvars, raced>>

(* OnPlayerJoin, OnPlayerLeave and OnPadMapping; in Connect() the answer.  *)
(* A dialog's pointer to a player who leaves the host's list dangles.      *)
ClientOnNews(p) ==
  /\ down[p] # <<>> /\ client[p] \in {"connecting", "in"}
  /\ LET m == Head(down[p])
     IN  /\ m.type = "News"
         /\ roster' = [roster EXCEPT ![p] = [i \in Pid |->
              CASE i = m.left -> None [] m.joined[i] # None -> m.joined[i] [] OTHER -> @[i]]]
         /\ cmap' = IF m.map = None THEN cmap ELSE [cmap EXCEPT ![p] = m.map]
         /\ list' = IF p = Host THEN [k \in DOMAIN list |-> IF list[k] = m.left THEN 0 ELSE list[k]]
                    ELSE list
  /\ client' = [client EXCEPT ![p] = "in"]
  /\ down' = [down EXCEPT ![p] = Tail(@)]
  /\ UNCHANGED <<svars, up, gui, index, copy, cursor, events, raced>>

(* A refusal, or the disconnect event. *)
ClientOnEnd(p) ==
  /\ down[p] # <<>> /\ Head(down[p]).type # "News" /\ client[p] \in {"connecting", "in"}
  /\ client' = [client EXCEPT ![p] = "refused"]
  /\ down' = [down EXCEPT ![p] = <<Disconnected>>]
  /\ UNCHANGED <<svars, up, roster, cmap, gvars, events, raced>>

-----------------------------------------------------------------------------
(* The host's GUI thread. *)

KickPlayer(i) ==
  /\ gui = "idle" /\ i # 1 /\ players[i] # None /\ events < MaxEvent
  /\ LET p == players[i]
     IN  /\ up' = [up EXCEPT ![p] = <<Disconnected>>]
         /\ down' = [down EXCEPT ![p] = IF Closed(down, p) THEN @ ELSE Append(@, Disconnected)]
  /\ events' = events + 1
  /\ UNCHANGED <<svars, cvars, gvars, raced>>

(* RequestStartGame: with saves or codes to send the start is pending.     *)
RequestStartGame(next) ==
  /\ gui = "idle" /\ phase = "idle" /\ events < MaxEvent
  /\ phase' = next /\ events' = events + 1
  /\ UNCHANGED <<players, data, padMap, up, down, cvars, gvars, raced>>

StartGame ==
  /\ phase = "pending" /\ phase' = "running"
  /\ UNCHANGED <<players, data, padMap, up, down, cvars, gvars, events, raced>>

StopGame ==
  /\ phase = "running" /\ phase' = "idle"
  /\ UNCHANGED <<players, data, padMap, up, down, cvars, gvars, events, raced>>

(* PadMappingDialog::exec.  A box that shows an id there is no row for has *)
(* no current row (here 0, "None", which is how it is read).               *)
OpenDialog ==
  /\ gui = "idle" /\ phase = "idle" /\ events < MaxEvent
  /\ gui' = "dialog" /\ events' = events + 1
  /\ list' = Ordered(Used(roster[Host]))
  /\ index' = [q \in Pad |-> IF padMap[q] <= Len(list') THEN padMap[q] ELSE 0]
  /\ copy' = padMap
  /\ raced' = (raced \/ down[Host] # <<>>)
  /\ UNCHANGED <<svars, up, down, cvars, cursor>>

(* OnMappingChanged reads every box again.  The rows are pointers into the *)
(* client's list: one whose player was removed may hold any id.            *)
RowPids(k) ==
  IF k = 0 THEN {0} ELSE IF list[k] # 0 THEN {list[k]} ELSE 0 .. MaxPlayers

ChangeMapping(q, k) ==
  /\ gui = "dialog" /\ k # index[q] /\ events < MaxEvent
  /\ index' = [index EXCEPT ![q] = k]
  /\ copy' \in {f \in [Pad -> 0 .. MaxPlayers] : \A r \in Pad : f[r] \in RowPids(index'[r])}
  /\ events' = events + 1
  /\ UNCHANGED <<svars, up, down, cvars, gui, list, cursor, raced>>

(* SetPadMapping, in three steps: the map, the packet, and the sends.  The *)
(* next exec sets the dialog's own state anew, so it is dropped here.      *)
AssignMapping ==
  /\ gui = "dialog"
  /\ padMap' = copy
  /\ gui' = "assigned"
  /\ list' = <<>> /\ index' = NoPads /\ copy' = NoPads
  /\ UNCHANGED <<players, data, phase, up, down, cvars, cursor, events, raced>>

BuildMapping ==
  /\ gui = "assigned"
  /\ copy' = padMap
  /\ gui' = "sending"
  /\ UNCHANGED <<svars, up, down, cvars, list, index, cursor, events, raced>>

SendMapping ==
  /\ gui = "sending"
  /\ LET rest == {i \in Used(players) : i > cursor}
     IN  IF rest = {}
         THEN gui' = "idle" /\ cursor' = 0 /\ copy' = NoPads /\ UNCHANGED down
         ELSE LET i == Smallest(rest)
              IN  /\ cursor' = i
                  /\ down' = [down EXCEPT ![players[i]] =
                                IF Closed(down, players[i]) THEN @ ELSE Append(@, PadMapping(copy))]
                  /\ UNCHANGED <<gui, copy>>
  /\ UNCHANGED <<svars, up, cvars, list, index, events, raced>>

Gui ==
  \/ \E next \in {"pending", "running"} : RequestStartGame(next)
  \/ OpenDialog \/ AssignMapping \/ BuildMapping \/ SendMapping
  \/ \E i \in Pid : KickPlayer(i)
  \/ \E q \in Pad : \E k \in 0 .. Len(list) : ChangeMapping(q, k)

Server(p) == ServerOnInit(p) \/ ServerOnBadPacket(p) \/ ServerOnDisconnectEvent(p)

Next ==
  \/ Gui \/ StartGame \/ StopGame
  \/ \E p \in Peer : \/ Server(p) \/ ClientOnNews(p) \/ ClientOnEnd(p)
                     \/ Disconnect(p) \/ SendBad(p) \/ LoseConnection(p)
  \/ \E p \in Guest : Connect(p) \/ ComeBack(p)

Spec == Init /\ [][Next]_vars

-----------------------------------------------------------------------------
(* The types: ids, maps and rosters of the server, the clients and the    *)
(* host's dialog stay within MaxPlayers.                                   *)
TypeOK ==
  /\ players \in [Pid -> Peer \cup {None}]
  /\ data \in [Peer -> 0 .. MaxPlayers]
  /\ padMap \in [Pad -> 0 .. MaxPlayers]
  /\ phase \in {"idle", "pending", "running"}
  /\ client \in [Peer -> {"off", "connecting", "in", "refused", "out"}]
  /\ roster \in [Peer -> [Pid -> Peer \cup {None}]]
  /\ cmap \in [Peer -> [Pad -> 0 .. MaxPlayers]]
  /\ copy \in [Pad -> 0 .. MaxPlayers] /\ cursor \in 0 .. MaxPlayers
  /\ gui \in {"idle", "dialog", "assigned", "sending"}

(* The id in a peer is the id of the player who sits behind that very      *)
(* peer, so the unchecked look-up of a receive event finds its player, and *)
(* a disconnect event never throws out somebody who was given the id since.*)
PeerOwnsPlayer ==
  /\ \A p \in Peer : data[p] # 0 => players[data[p]] = p
  /\ \A i \in Pid : players[i] # None => data[players[i]] = i

(* A client that has handled everything it was sent has the server's list  *)
(* of players, through every join, leave, kick and reuse of an id.         *)
Settled(p) == client[p] = "in" /\ down[p] = <<>>

RosterAgrees == \A p \in Peer : Settled(p) => roster[p] = players

(* It has the server's pad map too, while no dialog of the host is at work *)
(* and none has overlapped with a join or a leave.                         *)
PadMapAgrees ==
  gui = "idle" /\ ~raced => \A p \in Peer : Settled(p) => cmap[p] = padMap

(* No pad belongs to a player who is not there: everybody would wait for   *)
(* that player's input.  Only a dialog that overlaps with a leave, or that *)
(* is open, can write such a map.                                          *)
NoGhostPad ==
  ~raced => \A q \in Pad : padMap[q] # 0 => players[padMap[q]] # None

(* A client that has given up is removed from the session, even when its   *)
(* Connect() timed out while the answer was on its way: once the server    *)
(* has nothing more to handle of it, it has no player.                     *)
GoneIsRemoved ==
  \A p \in Guest : client[p] = "out" /\ up[p] = <<>> => \A i \in Pid : players[i] # p

=============================================================================
