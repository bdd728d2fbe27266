-------------------------- MODULE NetPlayGolfProofs --------------------------
(***************************************************************************)
(* How the control of a golf game changes hands, proved for any number of  *)
(* players, polls and requests.                                            *)
(*                                                                         *)
(* The control is a token: a client that takes itself for the golfer, a    *)
(* release on its way to the server, or a switch on its way to the client  *)
(* it names (OneToken).  The question that starts a change exists once as  *)
(* well: on its way, with the next golfer, or answered (OneQuestion).      *)
(* Stages ties both to what the server believes, and Parked says that the  *)
(* next golfer stands at the head of GetNetPads from its answer on.  Most  *)
(* steps only shift the queues (NeutralStep); the eight that move the      *)
(* token or the question have a lemma each.                                *)
(***************************************************************************)
EXTENDS NetPlayGolf, TLAPS

(* A message of this type at this place of a queue. *)
At(s, k, type) == k \in 1 .. Len(s) /\ s[k].type = type

Kind == {"PadData", "PadHostData", "GolfRequest", "GolfSwitch", "GolfPrepare", "GolfRelease",
         "GolfAcquire", "Stop"}
Msg == [type : Kind, value : Nat]

(* What each thread and each queue holds. *)
Types ==
  /\ current \in 0 .. N /\ pending \in 0 .. N /\ srun \in BOOLEAN /\ members \subseteq Player
  /\ up \in [Player -> Seq(Msg)] /\ down \in [Player -> Seq(Msg)]
  /\ booted \in [Player -> BOOLEAN] /\ running \in [Player -> BOOLEAN]
  /\ view \in [Player -> 0 .. N]
  /\ wait \in [Player -> BOOLEAN] /\ received \in [Player -> BOOLEAN]
  /\ event \in [Player -> BOOLEAN] /\ fevent \in [Player -> BOOLEAN]
  /\ first \in [Player -> SUBSET Player] /\ cpu \in [Player -> Where]
  /\ buffer \in [Player -> Seq(Nat)] /\ taken \in [Player -> Seq(Nat)]
  /\ packet \in [Player -> Nat] /\ inputs \in Nat
  /\ early \in BOOLEAN /\ late \in BOOLEAN

(* No message or buffer holds an input that nobody has made. *)
Values ==
  /\ \A p \in Player : packet[p] <= inputs
  /\ \A p \in Player : \A k \in 1 .. Len(buffer[p]) : buffer[p][k] \in 1 .. inputs
  /\ \A p \in Player : \A k \in 1 .. Len(up[p]) :
       up[p][k].type = "PadHostData" => up[p][k].value <= inputs
  /\ \A p \in Player : \A k \in 1 .. Len(down[p]) :
       /\ down[p][k].type = "PadData" => down[p][k].value \in 1 .. inputs
       /\ down[p][k].type = "PadHostData" => down[p][k].value \in Player
       /\ down[p][k].type = "GolfSwitch" => down[p][k].value \in 0 .. N

(* A client whose game has not been started has done nothing. *)
Asleep(p) ==
  /\ view[p] = 1 /\ ~received[p] /\ ~wait[p] /\ cpu[p] = "off" /\ ~running[p]
  /\ buffer[p] = <<>> /\ taken[p] = <<>> /\ packet[p] = 0
Booting == \A p \in Player : ~booted[p] => (cpu[p] = "off" /\ (~early => Asleep(p)))

-----------------------------------------------------------------------------
(* Where the control of the game is: with a client that takes itself for   *)
(* the golfer, in a release on its way, or in a switch on its way to the   *)
(* next golfer.                                                            *)
Holds(p) == view[p] = p
Release(p, k) == At(up[p], k, "GolfRelease")
Switch(p, k) == At(down[p], k, "GolfSwitch")
Grant(p, k) == Switch(p, k) /\ down[p][k].value = p

OneToken ==
  /\ \A p, q \in Player : Holds(p) /\ Holds(q) => p = q
  /\ \A p, q \in Player : Holds(p) => \A k \in Nat : ~Release(q, k) /\ ~Grant(q, k)
  /\ \A p, q \in Player : \A k, l \in Nat : Release(p, k) => ~Grant(q, l)
  /\ \A p, q \in Player : \A k, l \in Nat : Release(p, k) /\ Release(q, l) => p = q /\ k = l
  /\ \A p, q \in Player : \A k, l \in Nat : Grant(p, k) /\ Grant(q, l) => p = q /\ k = l

(* The question of the server on its way to the next golfer, with it, or   *)
(* answered.                                                               *)
Asked(p, k) == At(down[p], k, "GolfPrepare")
Armed(p) == received[p] /\ cpu[p] # "answered"
Answer(p, k) == At(up[p], k, "GolfPrepare")
Acquire(p, k) == At(up[p], k, "GolfAcquire")

OneQuestion ==
  \A p \in Player :
    /\ \A k, l \in Nat : Asked(p, k) /\ Asked(p, l) => k = l
    /\ \A k, l \in Nat : Answer(p, k) /\ Answer(p, l) => k = l
    /\ \A k, l \in Nat : Acquire(p, k) /\ Acquire(p, l) => k = l
    /\ \A k, l \in Nat : ~(Asked(p, k) /\ Answer(p, l))
    /\ Armed(p) => \A k \in Nat : ~Asked(p, k) /\ ~Answer(p, k)

(* What the server knows at each stage of a switch. *)
Stages ==
  /\ pending # current
  /\ \A p \in Player : current = p => Holds(p)
  /\ \A p \in Player : Holds(p) /\ p \in {current, pending} => \A k \in Nat : ~Switch(p, k)
  /\ \A p \in Player : Armed(p) => pending = p /\ current # 0
  /\ \A p \in Player : \A k \in Nat :
       /\ Asked(p, k) \/ Answer(p, k) => pending = p /\ current # 0
       /\ Acquire(p, k) => pending = p /\ current = 0 /\ Holds(p)
       /\ Release(p, k) => current = 0
       /\ Grant(p, k) => /\ pending = p /\ current = 0
                         /\ \A l \in Nat : l > k => ~Switch(p, l)

(* The next golfer stands at the head of GetNetPads from its answer until  *)
(* it has the control.                                                     *)
Summoned(p) == (\E k \in Nat : Answer(p, k)) \/ (pending = p /\ current = 0 /\ ~Holds(p))
Parked == \A p \in Player :
  Summoned(p) => wait[p] /\ cpu[p] \in {"top", "answered", "paused", "off"}

Fed == \A p \in Player : cpu[p] = "built" => buffer[p] # <<>>

-----------------------------------------------------------------------------
(* Queues: what is appended, taken or put in between. *)
LEMMA AppendFacts ==
  ASSUME NEW S, NEW s \in Seq(S), NEW m \in S
  PROVE  /\ Append(s, m) \in Seq(S) /\ Len(Append(s, m)) = Len(s) + 1 /\ Len(s) \in Nat
         /\ Append(s, m)[Len(s) + 1] = m
         /\ \A k \in 1 .. Len(s) : Append(s, m)[k] = s[k]
  OBVIOUS

LEMMA TailFacts ==
  ASSUME NEW S, NEW s \in Seq(S), s # <<>>
  PROVE  /\ Tail(s) \in Seq(S) /\ Len(Tail(s)) = Len(s) - 1 /\ Len(s) \in Nat /\ Len(s) >= 1
         /\ Head(s) = s[1] /\ Head(s) \in S
         /\ \A k \in 1 .. Len(s) - 1 : Tail(s)[k] = s[k + 1]
  <1>1. Len(s) \in Nat /\ Len(s) # 0
    OBVIOUS
  <1> QED
    BY <1>1

Insert(s, j, m) == SubSeq(s, 1, j) \o <<m>> \o SubSeq(s, j + 1, Len(s))

LEMMA InsertFacts ==
  ASSUME NEW S, NEW s \in Seq(S), NEW m \in S, NEW j \in 0 .. Len(s)
  PROVE  /\ Insert(s, j, m) \in Seq(S) /\ Len(Insert(s, j, m)) = Len(s) + 1 /\ Len(s) \in Nat
         /\ \A k \in 1 .. j : Insert(s, j, m)[k] = s[k]
         /\ Insert(s, j, m)[j + 1] = m
         /\ \A k \in j + 2 .. Len(s) + 1 : Insert(s, j, m)[k] = s[k - 1]
  <1>0. Len(s) \in Nat /\ j \in Nat /\ j <= Len(s)
    OBVIOUS
  <1> DEFINE a == SubSeq(s, 1, j)
             b == SubSeq(s, j + 1, Len(s))
  <1>1. a \in Seq(S) /\ Len(a) = j /\ \A k \in 1 .. j : a[k] = s[k]
    BY <1>0
  <1>2. b \in Seq(S) /\ Len(b) = Len(s) - j /\ \A k \in 1 .. Len(s) - j : b[k] = s[j + k]
    BY <1>0
  <1> HIDE DEF a, b
  <1>3. /\ a \o <<m>> \in Seq(S) /\ Len(a \o <<m>>) = j + 1
        /\ \A k \in 1 .. j : (a \o <<m>>)[k] = s[k]
        /\ (a \o <<m>>)[j + 1] = m
    BY <1>0, <1>1
  <1> DEFINE c == a \o <<m>>
  <1> HIDE DEF c
  <1>4. /\ c \in Seq(S) /\ Len(c) = j + 1 /\ c[j + 1] = m /\ \A k \in 1 .. j : c[k] = s[k]
    BY <1>3 DEF c
  <1>5. /\ c \o b \in Seq(S) /\ Len(c \o b) = Len(s) + 1
        /\ \A k \in 1 .. j + 1 : (c \o b)[k] = c[k]
        /\ \A k \in j + 2 .. Len(s) + 1 : (c \o b)[k] = b[k - (j + 1)]
    BY <1>0, <1>2, <1>4
  <1>6. \A k \in j + 2 .. Len(s) + 1 : b[k - (j + 1)] = s[k - 1]
    BY <1>0, <1>2
  <1>7. Insert(s, j, m) = c \o b
    BY DEF Insert, c, a, b
  <1> QED
    BY <1>0, <1>4, <1>5, <1>6, <1>7

LEMMA AtAppend ==
  ASSUME NEW s \in Seq(Msg), NEW m \in Msg, NEW k \in Nat, NEW t
  PROVE  /\ At(Append(s, m), k, t) <=> At(s, k, t) \/ (k = Len(s) + 1 /\ m.type = t)
         /\ At(s, k, t) => Append(s, m)[k] = s[k]
         /\ At(s, k, t) => k <= Len(s)
  <1>1. /\ Len(Append(s, m)) = Len(s) + 1 /\ Len(s) \in Nat /\ Append(s, m)[Len(s) + 1] = m
        /\ \A i \in 1 .. Len(s) : Append(s, m)[i] = s[i]
    BY AppendFacts
  <1> QED
    BY <1>1 DEF At

LEMMA AtTail ==
  ASSUME NEW s \in Seq(Msg), s # <<>>, NEW k \in Nat, NEW t
  PROVE  /\ At(Tail(s), k, t) <=> k # 0 /\ At(s, k + 1, t)
         /\ At(Tail(s), k, t) => Tail(s)[k] = s[k + 1]
         /\ At(s, 1, t) <=> Head(s).type = t
  <1>1. /\ Len(Tail(s)) = Len(s) - 1 /\ Len(s) \in Nat /\ Len(s) >= 1 /\ Head(s) = s[1]
        /\ \A i \in 1 .. Len(s) - 1 : Tail(s)[i] = s[i + 1]
    BY TailFacts
  <1> QED
    BY <1>1 DEF At

LEMMA AtInsert ==
  ASSUME NEW s \in Seq(Msg), NEW m \in Msg, NEW j \in 0 .. Len(s), NEW k \in Nat, NEW t,
         \A i \in j + 1 .. Len(s) : s[i].type # t
  PROVE  At(Insert(s, j, m), k, t) <=> At(s, k, t) \/ (k = j + 1 /\ m.type = t)
  <1>1. /\ Len(Insert(s, j, m)) = Len(s) + 1 /\ Len(s) \in Nat
        /\ \A i \in 1 .. j : Insert(s, j, m)[i] = s[i]
        /\ Insert(s, j, m)[j + 1] = m
        /\ \A i \in j + 2 .. Len(s) + 1 : Insert(s, j, m)[i] = s[i - 1]
    BY InsertFacts
  <1>2. CASE k <= j
    BY <1>1, <1>2 DEF At
  <1>3. CASE k = j + 1
    BY <1>1, <1>3 DEF At
  <1>4. CASE k > j + 1
    <2>1. ~At(s, k, t)
      BY <1>1, <1>4 DEF At
    <2>2. k \in 1 .. Len(s) + 1 => k - 1 \in j + 1 .. Len(s)
      BY <1>1, <1>4
    <2>3. k \in 1 .. Len(s) + 1 => Insert(s, j, m)[k].type # t
      BY <1>1, <1>4, <2>2
    <2> QED
      BY <1>1, <1>4, <2>1, <2>3 DEF At
  <1> QED
    BY <1>2, <1>3, <1>4

LEMMA SeqOf ==
  ASSUME NEW S, NEW T, NEW s \in Seq(S), \A k \in 1 .. Len(s) : s[k] \in T
  PROVE  s \in Seq(T)
  OBVIOUS

-----------------------------------------------------------------------------
(* The types. *)
LEMMA Constants ==
  /\ N \in Nat /\ 1 \in Player /\ Player \subseteq Nat /\ 0 \notin Player
  /\ Player \subseteq 0 .. N /\ 0 \in 0 .. N
  /\ \A i \in 0 .. N : i # 0 => i \in Player
  BY NAssumption DEF Player

LEMMA Messages ==
  /\ \A v \in Nat : /\ PadData(v) \in Msg /\ PadData(v).type = "PadData" /\ PadData(v).value = v
                    /\ PadHostData(v) \in Msg /\ PadHostData(v).type = "PadHostData"
                    /\ PadHostData(v).value = v
                    /\ GolfRequest(v) \in Msg /\ GolfRequest(v).type = "GolfRequest"
                    /\ GolfSwitch(v) \in Msg /\ GolfSwitch(v).type = "GolfSwitch"
                    /\ GolfSwitch(v).value = v
  /\ \A t \in Kind : Signal(t) \in Msg /\ Signal(t).type = t
  BY DEF PadData, PadHostData, GolfRequest, GolfSwitch, Signal, Msg, Kind

LEMMA SendAsyncType ==
  ASSUME Types, NEW p \in Player, NEW m \in Msg, SendAsync(p, m)
  PROVE  up' \in [Player -> Seq(Msg)]
  <1>1. up[p] \in Seq(Msg)
    BY DEF Types
  <1>2. Sent(p, m) \in Seq(Msg)
    BY <1>1 DEF Sent
  <1> QED
    BY <1>2 DEF SendAsync, Types

LEMMA SendToType ==
  ASSUME Types, NEW S, NEW m \in Msg, SendTo(S, m)
  PROVE  down' \in [Player -> Seq(Msg)]
  BY DEF SendTo, Types

SendPast(p, m) == \E k \in Flushed(p) : Send(p, k, m)

LEMMA SendPastShape ==
  ASSUME Types, NEW p \in Player, NEW m \in Msg, SendPast(p, m)
  PROVE  \E j \in 0 .. Len(up[p]) :
           /\ up' = up \/ up' = [up EXCEPT ![p] = Insert(up[p], j, m)]
           /\ \A i \in j + 1 .. Len(up[p]) : Queued(up[p][i])
  <1>1. PICK j \in Flushed(p) : Send(p, j, m)
    BY DEF SendPast
  <1>2. j \in 0 .. Len(up[p]) /\ \A i \in j + 1 .. Len(up[p]) : Queued(up[p][i])
    BY DEF Flushed
  <1>3. up' = up \/ up' = [up EXCEPT ![p] = Insert(up[p], j, m)]
    BY <1>1 DEF Send, Insert, Types
  <1> QED
    BY <1>2, <1>3

LEMMA SendPastType ==
  ASSUME Types, NEW p \in Player, NEW m \in Msg, SendPast(p, m)
  PROVE  up' \in [Player -> Seq(Msg)]
  <1>1. PICK j \in 0 .. Len(up[p]) : up' = up \/ up' = [up EXCEPT ![p] = Insert(up[p], j, m)]
    BY SendPastShape
  <1>2. up[p] \in Seq(Msg)
    BY DEF Types
  <1>3. Insert(up[p], j, m) \in Seq(Msg)
    BY <1>2, InsertFacts
  <1> QED
    BY <1>1, <1>3 DEF Types

LEMMA FromType ==
  ASSUME Types, NEW p \in Player, NEW t, From(p, t)
  PROVE  /\ up' \in [Player -> Seq(Msg)] /\ Head(up[p]) \in Msg /\ up[p] \in Seq(Msg)
         /\ Head(up[p]).value \in Nat
  <1>1. up[p] \in Seq(Msg) /\ up[p] # <<>>
    BY DEF From, Types
  <1>2. Tail(up[p]) \in Seq(Msg) /\ Head(up[p]) \in Msg
    BY <1>1, TailFacts
  <1> QED
    BY <1>1, <1>2 DEF From, Types, Msg

(* The parts of a state, for the steps that leave some of them alone. *)
ServerTypes ==
  current \in 0 .. N /\ pending \in 0 .. N /\ srun \in BOOLEAN /\ members \subseteq Player
PauseTypes ==
  /\ wait \in [Player -> BOOLEAN] /\ received \in [Player -> BOOLEAN]
  /\ event \in [Player -> BOOLEAN]
PadTypes ==
  /\ fevent \in [Player -> BOOLEAN] /\ first \in [Player -> SUBSET Player]
  /\ buffer \in [Player -> Seq(Nat)] /\ taken \in [Player -> Seq(Nat)]
  /\ packet \in [Player -> Nat] /\ inputs \in Nat
RunTypes ==
  /\ booted \in [Player -> BOOLEAN] /\ running \in [Player -> BOOLEAN]
  /\ view \in [Player -> 0 .. N] /\ cpu \in [Player -> Where]
  /\ early \in BOOLEAN /\ late \in BOOLEAN

LEMMA TypeParts ==
  Types <=> /\ ServerTypes /\ PauseTypes /\ PadTypes /\ RunTypes
            /\ up \in [Player -> Seq(Msg)] /\ down \in [Player -> Seq(Msg)]
  BY DEF Types, ServerTypes, PauseTypes, PadTypes, RunTypes

LEMMA CPUTypes ==
  ASSUME Types, NEW p \in Player, CPU(p)
  PROVE  Types'
  <1>0. /\ ServerTypes /\ PauseTypes /\ PadTypes /\ RunTypes
        /\ up \in [Player -> Seq(Msg)] /\ down \in [Player -> Seq(Msg)]
    BY TypeParts
  <1>1. CASE Pause(p)
    <2>1. up' \in [Player -> Seq(Msg)]
      <3>1. Signal("GolfPrepare") \in Msg
        BY Messages DEF Kind
      <3> QED
        BY <1>0, <1>1, <3>1, SendPastType DEF Pause, SendPast
    <2>2. cpu' \in [Player -> Where]
      BY <1>0, <1>1 DEF Pause, RunTypes, Where
    <2> QED
      BY <1>1, <2>1, <2>2 DEF Types, Pause, server, pause, pads, hist
  <1>2. CASE ClearReceived(p)
    <2>1. cpu' \in [Player -> Where] /\ received' \in [Player -> BOOLEAN]
      BY <1>0, <1>2 DEF ClearReceived, RunTypes, PauseTypes, Where
    <2> QED
      BY <1>2, <2>1 DEF Types, ClearReceived, server, net, pads, hist
  <1>3. CASE Woken(p)
    <2>1. cpu' \in [Player -> Where] /\ event' \in [Player -> BOOLEAN]
      BY <1>0, <1>3 DEF Woken, RunTypes, PauseTypes, Where
    <2> QED
      BY <1>3, <2>1 DEF Types, Woken, server, net, pads, hist
  <1>4. CASE PollLocalPad(p)
    <2>1. cpu' \in [Player -> Where]
      BY <1>0, <1>4 DEF PollLocalPad, RunTypes, Where
    <2>3. first' \in [Player -> SUBSET Player]
      <3>1. first[p] \cup {p} \in SUBSET Player
        BY <1>0 DEF PadTypes
      <3>2. first' = first \/ first' = [first EXCEPT ![p] = first[p] \cup {p}]
        BY <1>4 DEF PollLocalPad
      <3> QED
        BY <1>0, <3>1, <3>2 DEF PadTypes
    <2>2. up' \in [Player -> Seq(Msg)]
      <3>1. PadData(p) \in Msg
        BY Messages, Constants
      <3> QED
        BY <1>0, <1>4, <3>1, SendAsyncType DEF PollLocalPad
    <2> QED
      BY <1>4, <2>1, <2>2, <2>3 DEF Types, PollLocalPad, server, pause
  <1>5. CASE SkipHostPoll(p) \/ WaitFirst(p)
    <2>1. cpu' \in [Player -> Where] /\ fevent' \in [Player -> BOOLEAN]
      <3>1. \E w \in Where : cpu' = [cpu EXCEPT ![p] = w]
        BY <1>5 DEF SkipHostPoll, WaitFirst, Where
      <3>2. fevent' = fevent \/ fevent' = [fevent EXCEPT ![p] = FALSE]
        BY <1>5 DEF SkipHostPoll, WaitFirst, pads
      <3> QED
        BY <1>0, <3>1, <3>2 DEF RunTypes, PadTypes
    <2> QED
      BY <1>5, <2>1 DEF Types, SkipHostPoll, WaitFirst, server, net, pause, pads, hist
  <1>6. CASE BuildInput(p)
    <2>1. cpu' \in [Player -> Where]
      BY <1>0, <1>6 DEF BuildInput, RunTypes, Where
    <2>2. inputs' \in Nat /\ buffer' \in [Player -> Seq(Nat)] /\ packet' \in [Player -> Nat]
      <3>1. inputs + 1 \in Nat /\ <<inputs + 1>> \in Seq(Nat)
        BY <1>0 DEF PadTypes
      <3>2. CASE buffer[p] = <<>>
        <4>1. /\ inputs' = inputs + 1 /\ buffer' = [buffer EXCEPT ![p] = <<inputs + 1>>]
              /\ packet' = [packet EXCEPT ![p] = inputs + 1]
          BY <1>6, <3>2 DEF BuildInput
        <4> QED
          BY <1>0, <3>1, <4>1 DEF PadTypes
      <3>3. CASE buffer[p] # <<>>
        BY <1>0, <1>6, <3>3 DEF BuildInput, PadTypes
      <3> QED
        BY <3>2, <3>3
    <2> QED
      BY <1>6, <2>1, <2>2 DEF Types, BuildInput, server, net, pause
  <1>7. CASE SendInput(p)
    <2>1. cpu' \in [Player -> Where] /\ packet' \in [Player -> Nat]
      BY <1>0, <1>7 DEF SendInput, RunTypes, PadTypes, Where
    <2>2. up' \in [Player -> Seq(Msg)]
      <3>1. PadHostData(packet[p]) \in Msg
        BY <1>0, Messages DEF PadTypes
      <3> QED
        BY <1>7, <3>1, SendAsyncType DEF SendInput
    <2> QED
      BY <1>7, <2>1, <2>2 DEF Types, SendInput, server, pause, hist
  <1>8. CASE Pop(p)
    <2>1. cpu' \in [Player -> Where]
      BY <1>0, <1>8 DEF Pop, RunTypes, Where
    <2>2. buffer' \in [Player -> Seq(Nat)] /\ taken' \in [Player -> Seq(Nat)]
      <3>1. CASE buffer[p] # <<>>
        <4>1. buffer[p] \in Seq(Nat) /\ taken[p] \in Seq(Nat)
          BY <1>0 DEF PadTypes
        <4>2. Tail(buffer[p]) \in Seq(Nat) /\ Append(taken[p], Head(buffer[p])) \in Seq(Nat)
          BY <3>1, <4>1, TailFacts, AppendFacts
        <4> QED
          BY <1>0, <1>8, <3>1, <4>2 DEF Pop, PadTypes
      <3>2. CASE buffer[p] = <<>>
        BY <1>0, <1>8, <3>2 DEF Pop, PadTypes
      <3> QED
        BY <3>1, <3>2
    <2> QED
      BY <1>8, <2>1, <2>2 DEF Types, Pop, server, net, pause, hist
  <1>9. CASE Leave(p)
    <2>1. cpu' \in [Player -> Where]
      BY <1>0, <1>9 DEF Leave, RunTypes, Where
    <2> QED
      BY <1>9, <2>1 DEF Types, Leave, server, net, pause, pads, hist
  <1> QED
    BY <1>1, <1>2, <1>3, <1>4, <1>5, <1>6, <1>7, <1>8, <1>9 DEF CPU

(* The oldest message of a client. *)
LEMMA MessageShape ==
  ASSUME Types, Values, NEW p \in Player, NEW t, NEW m \in Message(p, t)
  PROVE  /\ down[p] \in Seq(Msg) /\ down[p] # <<>> /\ m = Head(down[p]) /\ m = down[p][1]
         /\ m \in Msg /\ m.type = t /\ m.value \in Nat /\ Tail(down[p]) \in Seq(Msg)
         /\ 1 \in 1 .. Len(down[p])
  <1>1. down[p] \in Seq(Msg) /\ down[p] # <<>> /\ m = Head(down[p]) /\ m.type = t
    BY DEF Message, Types
  <1>2. /\ Tail(down[p]) \in Seq(Msg) /\ Head(down[p]) = down[p][1] /\ Head(down[p]) \in Msg
        /\ Len(down[p]) \in Nat /\ Len(down[p]) >= 1
    BY <1>1, TailFacts
  <1> QED
    BY <1>1, <1>2 DEF Msg

LEMMA ClientTypes ==
  ASSUME Types, Values, NEW p \in Player, Client(p)
  PROVE  Types'
  <1>0. /\ ServerTypes /\ PauseTypes /\ PadTypes /\ RunTypes
        /\ up \in [Player -> Seq(Msg)] /\ down \in [Player -> Seq(Msg)]
    BY TypeParts
  <1>1. ASSUME NEW t, NEW m \in Message(p, t), Received(p)
        PROVE  /\ down' \in [Player -> Seq(Msg)] /\ early' \in BOOLEAN
               /\ UNCHANGED <<server, booted, cpu, packet, taken, inputs>>
    <2>1. Tail(down[p]) \in Seq(Msg)
      BY <1>1, MessageShape
    <2> QED
      BY <1>0, <1>1, <2>1 DEF Received
  <1>2. CASE OnGolfSwitch(p)
    <2>1. PICK m \in Message(p, "GolfSwitch"), k \in Flushed(p) :
            /\ view' = [view EXCEPT ![p] = m.value]
            /\ \/ /\ view[p] = p
                  /\ Send(p, k, Signal("GolfRelease"))
                  /\ late' = (late \/ Overtaken(p, k))
                  /\ UNCHANGED <<first, wait, event>>
               \/ /\ view[p] # p /\ m.value = p
                  /\ Send(p, k, Signal("GolfAcquire"))
                  /\ first' = [first EXCEPT ![p] = Player]
                  /\ wait' = [wait EXCEPT ![p] = FALSE]
                  /\ event' = [event EXCEPT ![p] = TRUE]
                  /\ UNCHANGED late
               \/ /\ view[p] # p /\ m.value # p
                  /\ UNCHANGED <<up, first, wait, event, late>>
            /\ Received(p)
            /\ UNCHANGED <<running, received, fevent, buffer>>
      BY <1>2 DEF OnGolfSwitch
    <2>2. m.value \in 0 .. N
      BY MessageShape DEF Values
    <2>3. view' \in [Player -> 0 .. N]
      BY <1>0, <2>1, <2>2 DEF RunTypes
    <2>4. up' \in [Player -> Seq(Msg)]
      <3>1. Signal("GolfRelease") \in Msg /\ Signal("GolfAcquire") \in Msg
        BY Messages DEF Kind
      <3> QED
        BY <1>0, <2>1, <3>1, SendPastType DEF SendPast
    <2>5. /\ late' \in BOOLEAN /\ first' \in [Player -> SUBSET Player]
          /\ wait' \in [Player -> BOOLEAN] /\ event' \in [Player -> BOOLEAN]
      <3>1. late' \in BOOLEAN
        BY <1>0, <2>1 DEF RunTypes
      <3>2. first' = first \/ first' = [first EXCEPT ![p] = Player]
        BY <2>1
      <3>3. /\ (wait' = wait \/ wait' = [wait EXCEPT ![p] = FALSE])
            /\ (event' = event \/ event' = [event EXCEPT ![p] = TRUE])
        BY <2>1
      <3>4. first' \in [Player -> SUBSET Player]
        <4>1. Player \in SUBSET Player /\ first \in [Player -> SUBSET Player]
          BY <1>0 DEF PadTypes
        <4> QED
          BY <3>2, <4>1
      <3>5. wait' \in [Player -> BOOLEAN]
        BY <1>0, <3>3 DEF PauseTypes
      <3>6. event' \in [Player -> BOOLEAN]
        BY <1>0, <3>3 DEF PauseTypes
      <3> QED
        BY <3>1, <3>4, <3>5, <3>6
    <2>6. /\ down' \in [Player -> Seq(Msg)] /\ early' \in BOOLEAN
          /\ UNCHANGED <<server, booted, cpu, packet, taken, inputs>>
      BY <1>1, <2>1
    <2> QED
      BY <2>1, <2>3, <2>4, <2>5, <2>6 DEF Types, server
  <1>3. CASE OnGolfPrepare(p)
    <2>1. PICK m \in Message(p, "GolfPrepare") :
            /\ Received(p) /\ UNCHANGED up
            /\ received' = [received EXCEPT ![p] = TRUE]
            /\ wait' = [wait EXCEPT ![p] = TRUE]
            /\ UNCHANGED <<running, view, event, first, fevent, buffer, late>>
      BY <1>3 DEF OnGolfPrepare
    <2>2. /\ down' \in [Player -> Seq(Msg)] /\ early' \in BOOLEAN
          /\ UNCHANGED <<server, booted, cpu, packet, taken, inputs>>
      BY <1>1, <2>1
    <2>3. wait' \in [Player -> BOOLEAN] /\ received' \in [Player -> BOOLEAN]
      BY <1>0, <2>1 DEF PauseTypes
    <2> QED
      BY <2>1, <2>2, <2>3 DEF Types, server
  <1>4. CASE OnPadData(p)
    <2>1. PICK m \in Message(p, "PadData") :
            /\ Received(p) /\ UNCHANGED up
            /\ buffer' = [buffer EXCEPT ![p] = Append(@, m.value)]
            /\ UNCHANGED <<running, view, pause, first, fevent, late>>
      BY <1>4 DEF OnPadData
    <2>2. /\ down' \in [Player -> Seq(Msg)] /\ early' \in BOOLEAN
          /\ UNCHANGED <<server, booted, cpu, packet, taken, inputs>>
      BY <1>1, <2>1
    <2>3. buffer' \in [Player -> Seq(Nat)]
      <3>1. m.value \in Nat /\ buffer[p] \in Seq(Nat)
        BY <1>0, MessageShape DEF PadTypes
      <3>2. Append(buffer[p], m.value) \in Seq(Nat)
        BY <3>1
      <3> QED
        BY <1>0, <2>1, <3>2 DEF PadTypes
    <2> QED
      BY <2>1, <2>2, <2>3 DEF Types, server, pause
  <1>5. CASE OnPadHostData(p)
    <2>1. PICK m \in Message(p, "PadHostData") :
            /\ Received(p) /\ UNCHANGED up
            /\ first' = [first EXCEPT ![p] = @ \cup {m.value}]
            /\ fevent' = [fevent EXCEPT ![p] = @ \/ m.value \notin first[p]]
            /\ UNCHANGED <<running, view, pause, buffer, late>>
      BY <1>5 DEF OnPadHostData
    <2>2. /\ down' \in [Player -> Seq(Msg)] /\ early' \in BOOLEAN
          /\ UNCHANGED <<server, booted, cpu, packet, taken, inputs>>
      BY <1>1, <2>1
    <2>3. m.value \in Player
      BY MessageShape DEF Values
    <2>4. first' \in [Player -> SUBSET Player] /\ fevent' \in [Player -> BOOLEAN]
      BY <1>0, <2>1, <2>3 DEF PadTypes
    <2> QED
      BY <2>1, <2>2, <2>4 DEF Types, server, pause
  <1>6. CASE OnStop(p)
    <2>1. PICK m \in Message(p, "Stop") :
            /\ Received(p) /\ UNCHANGED up
            /\ running' = [running EXCEPT ![p] = FALSE]
            /\ event' = [event EXCEPT ![p] = TRUE]
            /\ fevent' = [fevent EXCEPT ![p] = TRUE]
            /\ UNCHANGED <<view, wait, received, first, buffer, late>>
      BY <1>6 DEF OnStop
    <2>2. /\ down' \in [Player -> Seq(Msg)] /\ early' \in BOOLEAN
          /\ UNCHANGED <<server, booted, cpu, packet, taken, inputs>>
      BY <1>1, <2>1
    <2>3. /\ running' \in [Player -> BOOLEAN] /\ event' \in [Player -> BOOLEAN]
          /\ fevent' \in [Player -> BOOLEAN]
      BY <1>0, <2>1 DEF RunTypes, PauseTypes, PadTypes
    <2> QED
      BY <2>1, <2>2, <2>3 DEF Types, server
  <1> QED
    BY <1>2, <1>3, <1>4, <1>5, <1>6 DEF Client

LEMMA ServerStepTypes ==
  ASSUME Types, NEW p \in Player, Server(p) \/ ServerStops
  PROVE  Types'
  <1>0. /\ Signal("GolfPrepare") \in Msg /\ Signal("Stop") \in Msg
        /\ PadHostData(p) \in Msg /\ GolfSwitch(0) \in Msg /\ GolfSwitch(pending) \in Msg
    BY Messages, Constants DEF Kind, Types
  <1>1. CASE ServerOnPadData(p)
    <2>1. up' \in [Player -> Seq(Msg)] /\ down' \in [Player -> Seq(Msg)]
      BY <1>0, <1>1, FromType, SendToType DEF ServerOnPadData
    <2> QED
      BY <1>1, <2>1 DEF Types, ServerOnPadData, Rest, server, pause, pads, hist
  <1>2. CASE ServerOnPadHostData(p)
    <2>1. up' \in [Player -> Seq(Msg)] /\ PadData(Head(up[p]).value) \in Msg
      BY <1>2, FromType, Messages DEF ServerOnPadHostData
    <2>2. down' \in [Player -> Seq(Msg)]
      <3>1. CASE Head(up[p]).value = 0
        BY <1>2, <3>1 DEF ServerOnPadHostData, Types
      <3>2. CASE Head(up[p]).value # 0
        BY <1>2, <2>1, <3>2, SendToType DEF ServerOnPadHostData
      <3> QED
        BY <3>1, <3>2
    <2> QED
      BY <1>2, <2>1, <2>2 DEF Types, ServerOnPadHostData, Rest, server, pause, pads, hist
  <1>3. CASE ServerKicks(p)
    <2>1. down' \in [Player -> Seq(Msg)]
      BY <1>0, <1>3, SendToType DEF ServerKicks
    <2>2. up' \in [Player -> Seq(Msg)]
      <3>1. <<>> \in Seq(Msg)
        OBVIOUS
      <3> QED
        BY <1>3, <3>1 DEF ServerKicks, Types
    <2>3. members' \subseteq Player /\ srun' \in BOOLEAN
      BY <1>3 DEF ServerKicks, Types
    <2> QED
      BY <1>3, <2>1, <2>2, <2>3 DEF Types, ServerKicks, Rest, server, pause, pads, hist
  <1>4. CASE ServerOnGolfRequest(p)
    <2> DEFINE q == Head(up[p]).value
    <2>1. up' \in [Player -> Seq(Msg)]
      BY <1>4, FromType DEF ServerOnGolfRequest
    <2>2. down' \in [Player -> Seq(Msg)] /\ pending' \in 0 .. N
      <3>1. CASE q \in members /\ pending = 0 /\ current # q
        <4>1. pending' = q /\ SendTo({q}, Signal("GolfPrepare"))
          BY <1>4, <3>1 DEF ServerOnGolfRequest
        <4>2. q \in 0 .. N
          BY <3>1, Constants DEF Types
        <4> QED
          BY <1>0, <4>1, <4>2, SendToType
      <3>2. CASE ~(q \in members /\ pending = 0 /\ current # q)
        BY <1>4, <3>2 DEF ServerOnGolfRequest, Types
      <3> QED
        BY <3>1, <3>2
    <2> QED
      BY <1>4, <2>1, <2>2 DEF Types, ServerOnGolfRequest, Rest, server, pause, pads, hist
  <1>5. CASE ServerOnGolfPrepare(p)
    <2>1. up' \in [Player -> Seq(Msg)]
      BY <1>5, FromType DEF ServerOnGolfPrepare
    <2>2. down' \in [Player -> Seq(Msg)] /\ current' \in 0 .. N
      <3>1. CASE pending = 0
        BY <1>5, <3>1 DEF ServerOnGolfPrepare, Types
      <3>2. CASE pending # 0
        BY <1>0, <1>5, <3>2, SendToType, Constants DEF ServerOnGolfPrepare
      <3> QED
        BY <3>1, <3>2
    <2> QED
      BY <1>5, <2>1, <2>2 DEF Types, ServerOnGolfPrepare, Rest, server, pause, pads, hist
  <1>6. CASE ServerOnGolfRelease(p)
    <2>1. up' \in [Player -> Seq(Msg)]
      BY <1>6, FromType DEF ServerOnGolfRelease
    <2>2. down' \in [Player -> Seq(Msg)]
      <3>1. CASE pending = 0
        BY <1>6, <3>1 DEF ServerOnGolfRelease, Types
      <3>2. CASE pending # 0
        BY <1>0, <1>6, <3>2, SendToType DEF ServerOnGolfRelease
      <3> QED
        BY <3>1, <3>2
    <2> QED
      BY <1>6, <2>1, <2>2 DEF Types, ServerOnGolfRelease, Rest, server, pause, pads, hist
  <1>7. CASE ServerOnGolfAcquire(p)
    <2>1. up' \in [Player -> Seq(Msg)]
      BY <1>7, FromType DEF ServerOnGolfAcquire
    <2>2. current' \in 0 .. N /\ pending' \in 0 .. N
      BY <1>7, Constants DEF ServerOnGolfAcquire, Types
    <2> QED
      BY <1>7, <2>1, <2>2 DEF Types, ServerOnGolfAcquire, Rest, server, pause, pads, hist
  <1>8. CASE ServerStops
    <2>1. down' \in [Player -> Seq(Msg)]
      BY <1>0, <1>8, SendToType DEF ServerStops
    <2> QED
      BY <1>8, <2>1 DEF Types, ServerStops, Rest, server, pause, pads, hist
  <1> QED
    BY <1>1, <1>2, <1>3, <1>4, <1>5, <1>6, <1>7, <1>8 DEF Server

LEMMA GuiTypes ==
  ASSUME Types, NEW p \in Player, StartGame(p) \/ \E q \in Player : RequestGolfControl(p, q)
  PROVE  Types'
  <1>1. CASE StartGame(p)
    <2>1. /\ booted' \in [Player -> BOOLEAN] /\ running' \in [Player -> BOOLEAN]
          /\ view' \in [Player -> 0 .. N] /\ wait' \in [Player -> BOOLEAN]
      BY <1>1, Constants DEF StartGame, Types
    <2>2. /\ first' \in [Player -> SUBSET Player] /\ cpu' \in [Player -> Where]
          /\ buffer' \in [Player -> Seq(Nat)]
      <3>1. <<>> \in Seq(Nat) /\ {} \in SUBSET Player /\ "top" \in Where
        BY DEF Where
      <3> QED
        BY <1>1, <3>1 DEF StartGame, Types
    <2> QED
      BY <1>1, <2>1, <2>2 DEF Types, StartGame, server, net, hist
  <1>2. ASSUME NEW q \in Player, RequestGolfControl(p, q) PROVE Types'
    <2>1. GolfRequest(q) \in Msg
      BY Messages, Constants
    <2>2. up' \in [Player -> Seq(Msg)]
      BY <1>2, <2>1, SendAsyncType DEF RequestGolfControl
    <2> QED
      BY <1>2, <2>2 DEF Types, RequestGolfControl, server, pause, pads
  <1> QED
    BY <1>1, <1>2

LEMMA TypesStep ==
  ASSUME Types, Values, [Next]_vars
  PROVE  Types'
  <1>1. CASE UNCHANGED vars
    BY <1>1 DEF Types, vars, server, net, pause, pads, hist
  <1>2. CASE ServerStops
    BY <1>2, ServerStepTypes, Constants
  <1> QED
    BY <1>1, <1>2, CPUTypes, ClientTypes, ServerStepTypes, GuiTypes DEF Next

-----------------------------------------------------------------------------
(* The values: who says what on which queue. *)
LEMMA SentCases ==
  ASSUME Types, NEW p \in Player, NEW m \in Msg, SendAsync(p, m), NEW q \in Player
  PROVE  \/ up'[q] = up[q]
         \/ q = p /\ p \in members /\ up'[q] = Append(up[q], m)
  BY DEF SendAsync, Sent, Types

LEMMA SentToCases ==
  ASSUME Types, NEW S, NEW m \in Msg, SendTo(S, m), NEW q \in Player
  PROVE  /\ q \in S => down'[q] = Append(down[q], m)
         /\ q \notin S => down'[q] = down[q]
  BY DEF SendTo

LEMMA FromCases ==
  ASSUME Types, NEW p \in Player, NEW t, From(p, t), NEW q \in Player
  PROVE  /\ q # p => up'[q] = up[q]
         /\ up'[p] = Tail(up[p]) /\ up[p] # <<>> /\ Head(up[p]).type = t /\ up[p] \in Seq(Msg)
  BY DEF From, Types

(* What may be said of a message on a queue, whatever the queue. *)
UpValue(m, n) == m.type = "PadHostData" => m.value <= n
DownValue(m, n) ==
  /\ m.type = "PadData" => m.value \in 1 .. n
  /\ m.type = "PadHostData" => m.value \in Player
  /\ m.type = "GolfSwitch" => m.value \in 0 .. N
UpValues == \A p \in Player : \A k \in 1 .. Len(up[p]) : UpValue(up[p][k], inputs)
DownValues == \A p \in Player : \A k \in 1 .. Len(down[p]) : DownValue(down[p][k], inputs)
PadValues ==
  \A p \in Player : /\ packet[p] <= inputs
                    /\ \A k \in 1 .. Len(buffer[p]) : buffer[p][k] \in 1 .. inputs

LEMMA ValueParts == Values <=> UpValues /\ DownValues /\ PadValues
  BY DEF Values, UpValues, DownValues, PadValues, UpValue, DownValue

LEMMA ValuePartsNext == Values' <=> UpValues' /\ DownValues' /\ PadValues'
  BY DEF Values, UpValues, DownValues, PadValues, UpValue, DownValue

LEMMA ValueGrows ==
  ASSUME NEW m \in Msg, NEW n \in Nat, NEW i \in Nat, n <= i
  PROVE  (UpValue(m, n) => UpValue(m, i)) /\ (DownValue(m, n) => DownValue(m, i))
  BY DEF UpValue, DownValue, Msg

LEMMA ElementTypes ==
  ASSUME Types, NEW p \in Player
  PROVE  /\ \A k \in 1 .. Len(up[p]) : up[p][k] \in Msg
         /\ \A k \in 1 .. Len(down[p]) : down[p][k] \in Msg
         /\ Len(up[p]) \in Nat /\ Len(down[p]) \in Nat
  <1>1. up[p] \in Seq(Msg) /\ down[p] \in Seq(Msg)
    BY DEF Types
  <1>2. \A s \in Seq(Msg) : Len(s) \in Nat /\ \A k \in 1 .. Len(s) : s[k] \in Msg
    OBVIOUS
  <1> QED
    BY <1>1, <1>2

(* How the queues may change while the values stay right. *)
LEMMA UpValuesStep ==
  ASSUME Types, UpValues, NEW n \in Nat, inputs <= n, inputs' = n, NEW p \in Player,
         \A q \in Player :
           \/ up'[q] = up[q] \/ (up[q] # <<>> /\ up'[q] = Tail(up[q])) \/ up'[q] = <<>>
           \/ \E m \in Msg : UpValue(m, n) /\ up'[q] = Append(up[q], m)
           \/ \E m \in Msg, j \in 0 .. Len(up[q]) :
                UpValue(m, n) /\ up'[q] = Insert(up[q], j, m)
  PROVE  UpValues'
  <1> SUFFICES ASSUME NEW q \in Player, NEW k \in 1 .. Len(up'[q])
               PROVE  UpValue(up'[q][k], n)
    BY DEF UpValues
  <1>1. up[q] \in Seq(Msg) /\ inputs \in Nat
    BY DEF Types
  <1>2. \A i \in 1 .. Len(up[q]) : UpValue(up[q][i], n)
    BY <1>1, ElementTypes, ValueGrows DEF UpValues
  <1>3. CASE up'[q] = up[q]
    BY <1>2, <1>3
  <1>4. CASE up[q] # <<>> /\ up'[q] = Tail(up[q])
    BY <1>1, <1>2, <1>4, TailFacts
  <1>5. CASE up'[q] = <<>>
    BY <1>5
  <1>6. ASSUME NEW m \in Msg, UpValue(m, n), up'[q] = Append(up[q], m)
        PROVE  UpValue(up'[q][k], n)
    <2>1. /\ Len(up'[q]) = Len(up[q]) + 1 /\ Len(up[q]) \in Nat /\ up'[q][Len(up[q]) + 1] = m
          /\ \A i \in 1 .. Len(up[q]) : up'[q][i] = up[q][i]
      BY <1>1, <1>6, AppendFacts
    <2>2. k = Len(up[q]) + 1 \/ k \in 1 .. Len(up[q])
      BY <2>1
    <2> QED
      BY <1>2, <1>6, <2>1, <2>2
  <1>7. ASSUME NEW m \in Msg, NEW j \in 0 .. Len(up[q]), UpValue(m, n),
               up'[q] = Insert(up[q], j, m)
        PROVE  UpValue(up'[q][k], n)
    <2>1. /\ Len(up'[q]) = Len(up[q]) + 1 /\ Len(up[q]) \in Nat
          /\ \A i \in 1 .. j : up'[q][i] = up[q][i]
          /\ up'[q][j + 1] = m
          /\ \A i \in j + 2 .. Len(up[q]) + 1 : up'[q][i] = up[q][i - 1]
      <3>1. \A s \in Seq(Msg) : \A l \in 0 .. Len(s) :
              /\ Len(Insert(s, l, m)) = Len(s) + 1 /\ Len(s) \in Nat
              /\ \A i \in 1 .. l : Insert(s, l, m)[i] = s[i]
              /\ Insert(s, l, m)[l + 1] = m
              /\ \A i \in l + 2 .. Len(s) + 1 : Insert(s, l, m)[i] = s[i - 1]
        BY InsertFacts
      <3>2. /\ Len(Insert(up[q], j, m)) = Len(up[q]) + 1 /\ Len(up[q]) \in Nat
            /\ \A i \in 1 .. j : Insert(up[q], j, m)[i] = up[q][i]
            /\ Insert(up[q], j, m)[j + 1] = m
            /\ \A i \in j + 2 .. Len(up[q]) + 1 : Insert(up[q], j, m)[i] = up[q][i - 1]
        BY <1>1, <3>1
      <3> QED
        BY <1>7, <3>2
    <2>2. \/ k \in 1 .. j \/ k = j + 1
          \/ k \in j + 2 .. Len(up[q]) + 1 /\ k - 1 \in 1 .. Len(up[q])
      BY <2>1
    <2>3. \A i \in 1 .. j : i \in 1 .. Len(up[q])
      BY <2>1
    <2> QED
      BY <1>2, <1>7, <2>1, <2>2, <2>3
  <1> QED
    BY <1>3, <1>4, <1>5, <1>6, <1>7

LEMMA DownValuesStep ==
  ASSUME Types, DownValues, NEW n \in Nat, inputs <= n, inputs' = n,
         \A q \in Player :
           \/ down'[q] = down[q] \/ (down[q] # <<>> /\ down'[q] = Tail(down[q]))
           \/ \E m \in Msg : DownValue(m, n) /\ down'[q] = Append(down[q], m)
  PROVE  DownValues'
  <1> SUFFICES ASSUME NEW q \in Player, NEW k \in 1 .. Len(down'[q])
               PROVE  DownValue(down'[q][k], n)
    BY DEF DownValues
  <1>1. down[q] \in Seq(Msg) /\ inputs \in Nat
    BY DEF Types
  <1>2. \A i \in 1 .. Len(down[q]) : DownValue(down[q][i], n)
    BY <1>1, ElementTypes, ValueGrows DEF DownValues
  <1>3. CASE down'[q] = down[q]
    BY <1>2, <1>3
  <1>4. CASE down[q] # <<>> /\ down'[q] = Tail(down[q])
    BY <1>1, <1>2, <1>4, TailFacts
  <1>6. ASSUME NEW m \in Msg, DownValue(m, n), down'[q] = Append(down[q], m)
        PROVE  DownValue(down'[q][k], n)
    <2>1. /\ Len(down'[q]) = Len(down[q]) + 1 /\ Len(down[q]) \in Nat
          /\ down'[q][Len(down[q]) + 1] = m
          /\ \A i \in 1 .. Len(down[q]) : down'[q][i] = down[q][i]
      BY <1>1, <1>6, AppendFacts
    <2>2. k = Len(down[q]) + 1 \/ k \in 1 .. Len(down[q])
      BY <2>1
    <2> QED
      BY <1>2, <1>6, <2>1, <2>2
  <1> QED
    BY <1>3, <1>4, <1>6

(* The queue a client's step leaves behind. *)
LEMMA UpSent ==
  ASSUME Types, UpValues, inputs' = inputs, NEW p \in Player, NEW m \in Msg,
         UpValue(m, inputs), SendAsync(p, m) \/ SendPast(p, m) \/ UNCHANGED up
  PROVE  UpValues'
  <1>0. inputs \in Nat
    BY DEF Types
  <1>1. \A q \in Player :
           \/ up'[q] = up[q] \/ (up[q] # <<>> /\ up'[q] = Tail(up[q])) \/ up'[q] = <<>>
           \/ \E c \in Msg : UpValue(c, inputs) /\ up'[q] = Append(up[q], c)
           \/ \E c \in Msg, j \in 0 .. Len(up[q]) :
                UpValue(c, inputs) /\ up'[q] = Insert(up[q], j, c)
    <2>1. CASE SendAsync(p, m)
      BY <2>1, SentCases
    <2>2. CASE SendPast(p, m)
      <3>1. PICK j \in 0 .. Len(up[p]) : up' = up \/ up' = [up EXCEPT ![p] = Insert(up[p], j, m)]
        BY <2>2, SendPastShape
      <3>2. \/ up' = up
            \/ up'[p] = Insert(up[p], j, m) /\ \A q \in Player : q # p => up'[q] = up[q]
        BY <3>1 DEF Types
      <3> QED
        BY <3>2
    <2> QED
      BY <2>1, <2>2
  <1> QED
    BY <1>0, <1>1, UpValuesStep

LEMMA UpTaken ==
  ASSUME Types, UpValues, inputs' = inputs, NEW p \in Player, NEW t, From(p, t)
  PROVE  UpValues' /\ UpValue(Head(up[p]), inputs)
  <1>0. inputs \in Nat /\ up[p] \in Seq(Msg) /\ up[p] # <<>>
    BY DEF Types, From
  <1>1. \A q \in Player : up'[q] = up[q] \/ (up[q] # <<>> /\ up'[q] = Tail(up[q]))
    BY FromCases
  <1>2. UpValue(Head(up[p]), inputs)
    BY <1>0, TailFacts DEF UpValues
  <1> QED
    BY <1>0, <1>1, <1>2, UpValuesStep

LEMMA DownSent ==
  ASSUME Types, DownValues, inputs' = inputs, NEW S, NEW m \in Msg, DownValue(m, inputs),
         SendTo(S, m) \/ UNCHANGED down
  PROVE  DownValues'
  <1>0. inputs \in Nat
    BY DEF Types
  <1>1. \A q \in Player : down'[q] = down[q] \/ down'[q] = Append(down[q], m)
    BY SentToCases
  <1> QED
    BY <1>0, <1>1, DownValuesStep

LEMMA DownTaken ==
  ASSUME Types, DownValues, inputs' = inputs, NEW p \in Player, down[p] # <<>>,
         down' = [down EXCEPT ![p] = Tail(@)]
  PROVE  DownValues'
  <1>0. inputs \in Nat
    BY DEF Types
  <1>1. \A q \in Player : down'[q] = down[q] \/ (down[q] # <<>> /\ down'[q] = Tail(down[q]))
    BY DEF Types
  <1> QED
    BY <1>0, <1>1, DownValuesStep

LEMMA NoValue ==
  ASSUME NEW m, NEW n, m.type \notin {"PadHostData", "PadData", "GolfSwitch"}
  PROVE  UpValue(m, n) /\ DownValue(m, n)
  BY DEF UpValue, DownValue

LEMMA CPUValues ==
  ASSUME Types, Values, NEW p \in Player, CPU(p)
  PROVE  Values'
  <1>0. UpValues /\ DownValues /\ PadValues /\ inputs \in Nat
    BY ValueParts DEF Types
  <1>1. CASE Pause(p) \/ PollLocalPad(p) \/ SendInput(p)
    <2>1. inputs' = inputs /\ down' = down /\ buffer' = buffer
      BY <1>1 DEF Pause, PollLocalPad, SendInput, pads, hist
    <2>2. UpValues'
      <3>1. /\ Signal("GolfPrepare") \in Msg /\ Signal("GolfPrepare").type = "GolfPrepare"
            /\ PadData(p) \in Msg /\ PadData(p).type = "PadData"
            /\ PadHostData(packet[p]) \in Msg /\ PadHostData(packet[p]).value = packet[p]
        BY Messages, Constants DEF Kind, Types
      <3>2. /\ UpValue(Signal("GolfPrepare"), inputs) /\ UpValue(PadData(p), inputs)
            /\ UpValue(PadHostData(packet[p]), inputs)
        BY <1>0, <3>1 DEF UpValue, PadValues
      <3>3. \/ SendPast(p, Signal("GolfPrepare")) \/ UNCHANGED up
            \/ SendAsync(p, PadData(p)) \/ SendAsync(p, PadHostData(packet[p]))
        BY <1>1 DEF Pause, PollLocalPad, SendInput, SendPast
      <3> QED
        BY <1>0, <2>1, <3>1, <3>2, <3>3, UpSent
    <2>3. PadValues'
      <3>1. packet' = packet \/ packet' = [packet EXCEPT ![p] = 0]
        BY <1>1 DEF Pause, PollLocalPad, SendInput, pads
      <3>2. \A q \in Player : packet'[q] <= inputs
        <4>1. \A q \in Player : packet'[q] = packet[q] \/ packet'[q] = 0
          BY <3>1 DEF Types
        <4> QED
          BY <1>0, <4>1 DEF PadValues
      <3> QED
        BY <1>0, <2>1, <3>2 DEF PadValues
    <2> QED
      BY <1>0, <2>1, <2>2, <2>3, ValuePartsNext DEF DownValues, UpValues, PadValues
  <1>2. CASE Leave(p) \/ ClearReceived(p) \/ Woken(p) \/ SkipHostPoll(p) \/ WaitFirst(p)
    BY <1>2 DEF Leave, ClearReceived, Woken, SkipHostPoll, WaitFirst, Values, net, pads, hist
  <1>3. CASE BuildInput(p)
    <2>1. up' = up /\ down' = down
      BY <1>3 DEF BuildInput, net
    <2>2. CASE buffer[p] # <<>>
      BY <1>3, <2>1, <2>2 DEF BuildInput, Values
    <2>3. CASE buffer[p] = <<>>
      <3>1. /\ inputs' = inputs + 1 /\ buffer' = [buffer EXCEPT ![p] = <<inputs + 1>>]
            /\ packet' = [packet EXCEPT ![p] = inputs + 1]
        BY <1>3, <2>3 DEF BuildInput
      <3>2. UpValues' /\ DownValues'
        <4>1. inputs + 1 \in Nat /\ inputs <= inputs + 1
          BY <1>0
        <4> QED
          BY <1>0, <2>1, <3>1, <4>1, UpValuesStep, DownValuesStep
      <3>3. PadValues'
        <4> SUFFICES ASSUME NEW q \in Player
                     PROVE  /\ packet'[q] <= inputs + 1
                            /\ \A k \in 1 .. Len(buffer'[q]) : buffer'[q][k] \in 1 .. inputs + 1
          BY <3>1 DEF PadValues
        <4>1. packet[q] \in Nat /\ buffer[q] \in Seq(Nat)
          BY DEF Types
        <4>2. CASE q = p
          BY <1>0, <3>1, <4>2 DEF Types
        <4>3. CASE q # p
          <5>1. packet'[q] = packet[q] /\ buffer'[q] = buffer[q]
            BY <3>1, <4>3 DEF Types
          <5>2. packet[q] <= inputs /\ \A k \in 1 .. Len(buffer[q]) : buffer[q][k] \in 1 .. inputs
            BY <1>0 DEF PadValues
          <5> QED
            BY <1>0, <4>1, <5>1, <5>2
        <4> QED
          BY <4>2, <4>3
      <3> QED
        BY <3>2, <3>3, ValuePartsNext
    <2> QED
      BY <2>2, <2>3
  <1>4. CASE Pop(p)
    <2>1. inputs' = inputs /\ down' = down /\ up' = up /\ packet' = packet
      BY <1>4 DEF Pop, net, hist
    <2>2. CASE buffer[p] = <<>>
      BY <1>4, <2>1, <2>2 DEF Pop, Values
    <2>3. CASE buffer[p] # <<>>
      <3>1. buffer[p] \in Seq(Nat) /\ buffer' = [buffer EXCEPT ![p] = Tail(buffer[p])]
        BY <1>4, <2>3 DEF Pop, Types
      <3>2. \A k \in 1 .. Len(Tail(buffer[p])) : Tail(buffer[p])[k] \in 1 .. inputs
        BY <1>0, <2>3, <3>1, TailFacts DEF PadValues
      <3>3. PadValues'
        BY <1>0, <2>1, <3>1, <3>2 DEF PadValues, Types
      <3> QED
        BY <1>0, <2>1, <3>3, ValuePartsNext DEF DownValues, UpValues, PadValues
    <2> QED
      BY <2>2, <2>3
  <1> QED
    BY <1>1, <1>2, <1>3, <1>4 DEF CPU

LEMMA ClientValues ==
  ASSUME Types, Values, NEW p \in Player, Client(p)
  PROVE  Values'
  <1>0. UpValues /\ DownValues /\ PadValues /\ inputs \in Nat
    BY ValueParts DEF Types
  <1>1. inputs' = inputs /\ packet' = packet
    BY DEF Client, OnGolfSwitch, OnGolfPrepare, OnPadData, OnPadHostData, OnStop, Received
  <1>2. DownValues'
    <2>1. /\ down[p] # <<>> /\ down' = [down EXCEPT ![p] = Tail(@)]
      BY DEF Client, OnGolfSwitch, OnGolfPrepare, OnPadData, OnPadHostData, OnStop, Received,
             Message
    <2> QED
      BY <1>0, <1>1, <2>1, DownTaken
  <1>3. UpValues'
    <2>1. \/ UNCHANGED up \/ SendPast(p, Signal("GolfRelease")) \/ SendPast(p, Signal("GolfAcquire"))
      BY DEF Client, OnGolfSwitch, OnGolfPrepare, OnPadData, OnPadHostData, OnStop, SendPast
    <2>2. /\ Signal("GolfRelease") \in Msg /\ Signal("GolfRelease").type = "GolfRelease"
          /\ Signal("GolfAcquire") \in Msg /\ Signal("GolfAcquire").type = "GolfAcquire"
      BY Messages DEF Kind
    <2>3. UpValue(Signal("GolfRelease"), inputs) /\ UpValue(Signal("GolfAcquire"), inputs)
      BY <2>2, NoValue
    <2> QED
      BY <1>0, <1>1, <2>1, <2>2, <2>3, UpSent
  <1>4. PadValues'
    <2>1. CASE OnPadData(p)
      <3>1. PICK m \in Message(p, "PadData") : buffer' = [buffer EXCEPT ![p] = Append(@, m.value)]
        BY <2>1 DEF OnPadData
      <3>2. m.value \in 1 .. inputs /\ m.value \in Nat /\ buffer[p] \in Seq(Nat)
        <4>1. m = down[p][1] /\ m.type = "PadData" /\ m.value \in Nat /\ 1 \in 1 .. Len(down[p])
          BY MessageShape
        <4> QED
          BY <4>1 DEF Values, Types
      <3>3. /\ Len(Append(buffer[p], m.value)) = Len(buffer[p]) + 1 /\ Len(buffer[p]) \in Nat
            /\ Append(buffer[p], m.value)[Len(buffer[p]) + 1] = m.value
            /\ \A k \in 1 .. Len(buffer[p]) : Append(buffer[p], m.value)[k] = buffer[p][k]
        BY <3>2, AppendFacts
      <3>4. \A k \in 1 .. Len(buffer[p]) + 1 : k = Len(buffer[p]) + 1 \/ k \in 1 .. Len(buffer[p])
        BY <3>3
      <3>5. \A k \in 1 .. Len(Append(buffer[p], m.value)) :
              Append(buffer[p], m.value)[k] \in 1 .. inputs
        BY <1>0, <3>2, <3>3, <3>4 DEF PadValues
      <3> QED
        BY <1>0, <1>1, <3>1, <3>5 DEF PadValues, Types
    <2>2. CASE ~OnPadData(p)
      <3>1. buffer' = buffer
        BY <2>2 DEF Client, OnGolfSwitch, OnGolfPrepare, OnPadHostData, OnStop
      <3> QED
        BY <1>0, <1>1, <3>1 DEF PadValues
    <2> QED
      BY <2>1, <2>2
  <1> QED
    BY <1>2, <1>3, <1>4, ValuePartsNext

LEMMA ServerValues ==
  ASSUME Types, Values, NEW p \in Player, Server(p) \/ ServerStops
  PROVE  Values'
  <1>0. UpValues /\ DownValues /\ PadValues /\ inputs \in Nat
    BY ValueParts DEF Types
  <1>1. inputs' = inputs /\ packet' = packet /\ buffer' = buffer
    BY DEF Server, ServerStops, ServerOnPadData, ServerOnPadHostData, ServerKicks,
           ServerOnGolfRequest, ServerOnGolfPrepare, ServerOnGolfRelease, ServerOnGolfAcquire,
           Rest, pads, hist
  <1>2. PadValues'
    BY <1>0, <1>1 DEF PadValues
  <1>3. UpValues'
    <2>1. CASE ServerKicks(p)
      <3>1. \A q \in Player : up'[q] = up[q] \/ up'[q] = <<>>
        BY <2>1 DEF ServerKicks, Types
      <3> QED
        BY <1>0, <1>1, <3>1, UpValuesStep
    <2>2. CASE ServerStops
      BY <1>0, <1>1, <2>2 DEF ServerStops, UpValues
    <2>3. CASE Server(p) /\ ~ServerKicks(p)
      <3>1. \E t \in Kind : From(p, t)
        BY <2>3 DEF Server, ServerOnPadData, ServerOnPadHostData, ServerOnGolfRequest,
                    ServerOnGolfPrepare, ServerOnGolfRelease, ServerOnGolfAcquire, Kind
      <3> QED
        BY <1>0, <1>1, <3>1, UpTaken
    <2> QED
      BY <2>1, <2>2, <2>3
  <1>4. DownValues'
    <2>1. /\ PadHostData(p) \in Msg /\ DownValue(PadHostData(p), inputs)
          /\ Signal("Stop") \in Msg /\ DownValue(Signal("Stop"), inputs)
          /\ Signal("GolfPrepare") \in Msg /\ DownValue(Signal("GolfPrepare"), inputs)
      <3>1. /\ PadHostData(p) \in Msg /\ PadHostData(p).type = "PadHostData"
            /\ PadHostData(p).value = p
            /\ Signal("Stop") \in Msg /\ Signal("Stop").type = "Stop"
            /\ Signal("GolfPrepare") \in Msg /\ Signal("GolfPrepare").type = "GolfPrepare"
        BY Messages, Constants DEF Kind
      <3> QED
        BY <3>1, NoValue DEF DownValue
    <2>2. /\ GolfSwitch(0) \in Msg /\ DownValue(GolfSwitch(0), inputs)
          /\ GolfSwitch(pending) \in Msg /\ DownValue(GolfSwitch(pending), inputs)
      <3>1. pending \in Nat /\ pending \in 0 .. N /\ 0 \in 0 .. N
        BY Constants DEF Types
      <3>2. \A v \in 0 .. N : v \in Nat => GolfSwitch(v) \in Msg /\ DownValue(GolfSwitch(v), inputs)
        BY Messages DEF DownValue
      <3> QED
        BY <3>1, <3>2
    <2>3. CASE ServerOnPadHostData(p)
      <3>1. CASE Head(up[p]).value = 0
        BY <1>0, <1>1, <2>3, <3>1 DEF ServerOnPadHostData, DownValues
      <3>2. CASE Head(up[p]).value # 0
        <4>1. Head(up[p]).value \in Nat /\ UpValue(Head(up[p]), inputs)
              /\ Head(up[p]).type = "PadHostData"
          BY <1>0, <1>1, <2>3, FromType, FromCases, UpTaken DEF ServerOnPadHostData
        <4>2. Head(up[p]).value \in 1 .. inputs
          BY <1>0, <3>2, <4>1 DEF UpValue
        <4>3. PadData(Head(up[p]).value) \in Msg /\ DownValue(PadData(Head(up[p]).value), inputs)
          BY <4>1, <4>2, Messages DEF DownValue
        <4> QED
          BY <1>0, <1>1, <2>3, <3>2, <4>3, DownSent DEF ServerOnPadHostData
      <3> QED
        BY <3>1, <3>2
    <2>4. CASE ServerOnPadData(p)
      BY <1>0, <1>1, <2>1, <2>4, DownSent DEF ServerOnPadData
    <2>5. CASE ServerKicks(p)
      BY <1>0, <1>1, <2>1, <2>5, DownSent DEF ServerKicks
    <2>6. CASE ServerStops
      BY <1>0, <1>1, <2>1, <2>6, DownSent DEF ServerStops
    <2>7. CASE ServerOnGolfRequest(p)
      <3>1. UNCHANGED down \/ SendTo({Head(up[p]).value}, Signal("GolfPrepare"))
        BY <2>7 DEF ServerOnGolfRequest
      <3> QED
        BY <1>0, <1>1, <2>1, <3>1, DownSent
    <2>8. CASE ServerOnGolfPrepare(p)
      <3>1. UNCHANGED down \/ SendTo(members, GolfSwitch(0))
        BY <2>8 DEF ServerOnGolfPrepare
      <3> QED
        BY <1>0, <1>1, <2>2, <3>1, DownSent
    <2>9. CASE ServerOnGolfRelease(p)
      <3>1. UNCHANGED down \/ SendTo(members, GolfSwitch(pending))
        BY <2>9 DEF ServerOnGolfRelease
      <3> QED
        BY <1>0, <1>1, <2>2, <3>1, DownSent
    <2>10. CASE ServerOnGolfAcquire(p)
      BY <1>0, <1>1, <2>10 DEF ServerOnGolfAcquire, DownValues
    <2> QED
      BY <2>3, <2>4, <2>5, <2>6, <2>7, <2>8, <2>9, <2>10 DEF Server
  <1> QED
    BY <1>2, <1>3, <1>4, ValuePartsNext

LEMMA GuiValues ==
  ASSUME Types, Values, NEW p \in Player, StartGame(p) \/ \E q \in Player : RequestGolfControl(p, q)
  PROVE  Values'
  <1>0. UpValues /\ DownValues /\ PadValues /\ inputs \in Nat
    BY ValueParts DEF Types
  <1>1. CASE StartGame(p)
    <2>1. /\ inputs' = inputs /\ up' = up /\ down' = down /\ packet' = packet
          /\ buffer' = [buffer EXCEPT ![p] = <<>>]
      BY <1>1 DEF StartGame, net, hist
    <2>2. \A q \in Player : buffer'[q] = <<>> \/ buffer'[q] = buffer[q]
      BY <2>1 DEF Types
    <2>3. PadValues'
      BY <1>0, <2>1, <2>2 DEF PadValues
    <2> QED
      BY <1>0, <2>1, <2>3, ValuePartsNext DEF UpValues, DownValues
  <1>2. ASSUME NEW q \in Player, RequestGolfControl(p, q) PROVE Values'
    <2>1. /\ inputs' = inputs /\ down' = down /\ packet' = packet /\ buffer' = buffer
          /\ SendAsync(p, GolfRequest(q))
      BY <1>2 DEF RequestGolfControl, pads
    <2>2. GolfRequest(q) \in Msg /\ UpValue(GolfRequest(q), inputs)
      <3>1. GolfRequest(q) \in Msg /\ GolfRequest(q).type = "GolfRequest"
        BY Messages, Constants
      <3> QED
        BY <3>1, NoValue
    <2>3. UpValues'
      BY <1>0, <2>1, <2>2, UpSent
    <2> QED
      BY <1>0, <2>1, <2>3, ValuePartsNext DEF DownValues, PadValues
  <1> QED
    BY <1>1, <1>2

LEMMA ValuesStep ==
  ASSUME Types, Values, [Next]_vars
  PROVE  Values'
  <1>1. CASE UNCHANGED vars
    BY <1>1 DEF Values, vars, net, pads, hist
  <1>2. CASE ServerStops
    BY <1>2, ServerValues, Constants
  <1> QED
    BY <1>1, <1>2, CPUValues, ClientValues, ServerValues, GuiValues DEF Next

LEMMA TypesInit == Init => Types /\ Values
  <1>1. <<>> \in Seq(Msg) /\ <<>> \in Seq(Nat) /\ "off" \in Where
    BY DEF Where
  <1>2. Init => Types
    <2> SUFFICES ASSUME Init PROVE Types
      OBVIOUS
    <2>1. ServerTypes
      BY Constants DEF Init, ServerTypes
    <2>2. PauseTypes
      BY DEF Init, PauseTypes
    <2>3. PadTypes
      BY <1>1 DEF Init, PadTypes
    <2>4. RunTypes
      BY <1>1, Constants DEF Init, RunTypes
    <2>5. up \in [Player -> Seq(Msg)] /\ down \in [Player -> Seq(Msg)]
      BY <1>1 DEF Init
    <2> QED
      BY <2>1, <2>2, <2>3, <2>4, <2>5, TypeParts
  <1>3. Init => Values
    BY DEF Init, Values
  <1> QED
    BY <1>2, <1>3

(* No client, server or queue ever holds anything but what it is meant to, *)
(* and no input that no golfer has made is ever in a buffer or a packet    *)
(* (m_pad_buffer, SendPadHostPoll).                                        *)
THEOREM Typed == Spec => []TypeOK
  <1>1. Types /\ Values => TypeOK
    <2> SUFFICES ASSUME Types, Values PROVE TypeOK
      OBVIOUS
    <2>1. \A p \in Player : buffer[p] \in Seq(1 .. inputs)
      <3> TAKE p \in Player
      <3>1. buffer[p] \in Seq(Nat) /\ \A k \in 1 .. Len(buffer[p]) : buffer[p][k] \in 1 .. inputs
        BY DEF Types, Values
      <3> QED
        BY <3>1, SeqOf
    <2> QED
      BY <2>1 DEF TypeOK, Types, Values
  <1> QED
    BY <1>1, TypesInit, TypesStep, ValuesStep, PTL DEF Spec

-----------------------------------------------------------------------------
(* A client that sleeps is woken when its game ends. *)
LEMMA StopWakesStep ==
  ASSUME Types, StopWakes, [Next]_vars
  PROVE  StopWakes'
  <1>0. /\ booted \in [Player -> BOOLEAN] /\ running \in [Player -> BOOLEAN]
        /\ event \in [Player -> BOOLEAN] /\ fevent \in [Player -> BOOLEAN]
        /\ cpu \in [Player -> Where] /\ received \in [Player -> BOOLEAN]
    BY DEF Types
  <1>1. CASE UNCHANGED <<booted, running, event, fevent, cpu>>
    BY <1>1 DEF StopWakes
  <1>2. ASSUME NEW p \in Player, CPU(p) PROVE StopWakes'
    <2>1. CASE Pause(p) \/ ClearReceived(p) \/ Woken(p)
      <3>1. CASE Pause(p)
        BY <1>0, <3>1 DEF Pause, pause, pads, StopWakes
      <3>2. CASE ClearReceived(p)
        BY <1>0, <3>2 DEF ClearReceived, pads, StopWakes
      <3>3. CASE Woken(p)
        BY <1>0, <3>3 DEF Woken, pads, StopWakes
      <3> QED
        BY <2>1, <3>1, <3>2, <3>3
    <2>2. CASE WaitFirst(p)
      BY <1>0, <2>2 DEF WaitFirst, pause, pads, StopWakes
    <2>3. CASE \/ Leave(p) \/ PollLocalPad(p) \/ SkipHostPoll(p) \/ BuildInput(p) \/ SendInput(p)
               \/ Pop(p)
      <3>1. /\ UNCHANGED <<booted, running, event, fevent>>
            /\ \E w \in {"host", "buffer", "built", "top", "off"} : cpu' = [cpu EXCEPT ![p] = w]
        BY <2>3 DEF Leave, PollLocalPad, SkipHostPoll, BuildInput, SendInput, Pop, pause, pads
      <3> QED
        BY <1>0, <3>1 DEF StopWakes
    <2> QED
      BY <1>2, <2>1, <2>2, <2>3 DEF CPU
  <1>3. ASSUME NEW p \in Player, Client(p) PROVE StopWakes'
    <2>1. booted' = booted /\ cpu' = cpu
      BY <1>3 DEF Client, OnGolfSwitch, OnGolfPrepare, OnPadData, OnPadHostData, OnStop, Received
    <2>2. CASE OnStop(p)
      BY <1>0, <2>1, <2>2 DEF OnStop, StopWakes
    <2>3. CASE OnGolfSwitch(p)
      <3>1. /\ (event' = event \/ event' = [event EXCEPT ![p] = TRUE])
            /\ running' = running /\ fevent' = fevent
        BY <2>3 DEF OnGolfSwitch
      <3> QED
        BY <1>0, <2>1, <3>1 DEF StopWakes
    <2>4. CASE OnPadHostData(p)
      <3>1. /\ running' = running /\ event' = event
            /\ \A q \in Player : fevent[q] => fevent'[q]
        BY <1>0, <2>4 DEF OnPadHostData, pause
      <3> QED
        BY <1>0, <2>1, <3>1 DEF StopWakes
    <2>5. CASE OnGolfPrepare(p) \/ OnPadData(p)
      BY <1>1, <2>1, <2>5 DEF OnGolfPrepare, OnPadData, pause
    <2> QED
      BY <1>3, <2>2, <2>3, <2>4, <2>5 DEF Client
  <1>4. ASSUME NEW p \in Player, StartGame(p) PROVE StopWakes'
    BY <1>0, <1>4 DEF StartGame, StopWakes
  <1>5. CASE UNCHANGED vars \/ ServerStops \/ \E p \in Player : Server(p)
    <2>1. UNCHANGED <<booted, running, event, fevent, cpu>>
      BY <1>5 DEF vars, ServerStops, Server, ServerOnPadData, ServerOnPadHostData, ServerKicks,
           ServerOnGolfRequest, ServerOnGolfPrepare, ServerOnGolfRelease, ServerOnGolfAcquire,
           Rest, pads, pause
    <2> QED
      BY <1>1, <2>1
  <1>6. ASSUME NEW p \in Player, NEW q \in Player, RequestGolfControl(p, q) PROVE StopWakes'
    BY <1>1, <1>6 DEF RequestGolfControl, pads, pause
  <1> QED
    BY <1>2, <1>3, <1>4, <1>5, <1>6 DEF Next

(* A client whose game has ended never goes on sleeping in GetNetPads: the *)
(* events that InvokeStop sets cannot have been taken by anything else,    *)
(* wherever the switch and the CPU thread are.                             *)
THEOREM StopAlwaysWakes == Spec => []StopWakes
  <1>1. Init => StopWakes
    BY DEF Init, StopWakes
  <1>2. Types /\ Values /\ StopWakes /\ [Next]_vars => StopWakes'
    BY StopWakesStep
  <1> QED
    BY <1>1, <1>2, TypesInit, TypesStep, ValuesStep, PTL DEF Spec

-----------------------------------------------------------------------------
(* Before StartGame. *)
LEMMA BootingStep ==
  ASSUME Types, Booting, [Next]_vars
  PROVE  Booting'
  <1>0. /\ booted \in [Player -> BOOLEAN] /\ running \in [Player -> BOOLEAN]
        /\ view \in [Player -> 0 .. N] /\ packet \in [Player -> Nat]
        /\ cpu \in [Player -> Where] /\ received \in [Player -> BOOLEAN]
        /\ wait \in [Player -> BOOLEAN] /\ buffer \in [Player -> Seq(Nat)]
        /\ taken \in [Player -> Seq(Nat)] /\ early \in BOOLEAN
    BY DEF Types
  <1>1. CASE UNCHANGED <<booted, running, view, packet, cpu, received, wait, buffer, taken, early>>
    BY <1>1 DEF Booting, Asleep
  <1>2. ASSUME NEW p \in Player, booted' = booted, booted[p] \/ early',
               early => early', cpu'[p] = "off" \/ booted[p],
               \A q \in Player : q # p =>
                 /\ running'[q] = running[q] /\ view'[q] = view[q] /\ packet'[q] = packet[q]
                 /\ cpu'[q] = cpu[q] /\ received'[q] = received[q] /\ wait'[q] = wait[q]
                 /\ buffer'[q] = buffer[q] /\ taken'[q] = taken[q]
        PROVE  Booting'
    BY <1>2 DEF Booting, Asleep
  <1>3. ASSUME NEW p \in Player, CPU(p) PROVE Booting'
    <2>1. booted[p]
      <3>1. cpu[p] # "off"
        BY <1>3 DEF CPU, Pause, Leave, ClearReceived, Woken, PollLocalPad, SkipHostPoll, WaitFirst,
                    BuildInput, AsGolfer, SendInput, Pop
      <3> QED
        BY <1>0, <3>1 DEF Booting
    <2>2. booted' = booted /\ early' = early
      BY <1>3 DEF CPU, Pause, Leave, ClearReceived, Woken, PollLocalPad, SkipHostPoll, WaitFirst,
                  BuildInput, SendInput, Pop, hist
    <2>3. \A q \in Player : q # p =>
                 /\ running'[q] = running[q] /\ view'[q] = view[q] /\ packet'[q] = packet[q]
                 /\ cpu'[q] = cpu[q] /\ received'[q] = received[q] /\ wait'[q] = wait[q]
                 /\ buffer'[q] = buffer[q] /\ taken'[q] = taken[q]
      BY <1>0, <1>3 DEF CPU, Pause, Leave, ClearReceived, Woken, PollLocalPad, SkipHostPoll, WaitFirst,
                  BuildInput, SendInput, Pop, pads, pause
    <2> QED
      BY <1>2, <2>1, <2>2, <2>3
  <1>4. ASSUME NEW p \in Player, Client(p) PROVE Booting'
    <2>1. booted' = booted /\ early' = (early \/ ~booted[p]) /\ cpu' = cpu /\ packet' = packet
          /\ taken' = taken
      BY <1>4 DEF Client, OnGolfSwitch, OnGolfPrepare, OnPadData, OnPadHostData, OnStop, Received
    <2>2. cpu[p] = "off" \/ booted[p]
      BY DEF Booting
    <2>3. \A q \in Player : q # p =>
                 /\ running'[q] = running[q] /\ view'[q] = view[q]
                 /\ received'[q] = received[q] /\ wait'[q] = wait[q]
                 /\ buffer'[q] = buffer[q]
      BY <1>0, <1>4 DEF Client, OnGolfSwitch, OnGolfPrepare, OnPadData, OnPadHostData, OnStop, pause
    <2> QED
      BY <1>0, <1>2, <2>1, <2>2, <2>3
  <1>5. ASSUME NEW p \in Player, StartGame(p) PROVE Booting'
    BY <1>0, <1>5 DEF StartGame, Booting, Asleep, hist
  <1>6. CASE UNCHANGED vars \/ ServerStops \/ \E p \in Player : Server(p)
    <2>1. UNCHANGED <<booted, running, view, packet, cpu, received, wait, buffer, taken, early>>
      BY <1>6 DEF vars, ServerStops, Server, ServerOnPadData, ServerOnPadHostData, ServerKicks,
           ServerOnGolfRequest, ServerOnGolfPrepare, ServerOnGolfRelease, ServerOnGolfAcquire,
           Rest, pads, pause, hist
    <2> QED
      BY <1>1, <2>1
  <1>7. ASSUME NEW p \in Player, NEW q \in Player, RequestGolfControl(p, q) PROVE Booting'
    BY <1>1, <1>7 DEF RequestGolfControl, pads, pause, hist
  <1> QED
    BY <1>3, <1>4, <1>5, <1>6, <1>7 DEF Next

LEMMA FedStep ==
  ASSUME Types, Fed, [Next]_vars
  PROVE  Fed'
  <1>0. cpu \in [Player -> Where] /\ buffer \in [Player -> Seq(Nat)] /\ inputs \in Nat
    BY DEF Types
  <1>1. CASE UNCHANGED <<cpu, buffer>>
    BY <1>1 DEF Fed
  <1>2. ASSUME NEW p \in Player, CPU(p) PROVE Fed'
    <2>1. CASE BuildInput(p)
      <3>1. cpu' = [cpu EXCEPT ![p] = "built"] /\ buffer'[p] # <<>>
            /\ \A q \in Player : q # p => buffer'[q] = buffer[q]
        <4>1. CASE buffer[p] = <<>>
          <5>1. buffer' = [buffer EXCEPT ![p] = <<inputs + 1>>]
            BY <2>1, <4>1 DEF BuildInput
          <5> QED
            BY <1>0, <2>1, <5>1 DEF BuildInput
        <4> QED
          BY <1>0, <2>1, <4>1 DEF BuildInput
      <3> QED
        BY <1>0, <3>1 DEF Fed
    <2>2. CASE Pop(p)
      <3>1. /\ cpu' = [cpu EXCEPT ![p] = "top"]
            /\ \A q \in Player : q # p => buffer'[q] = buffer[q]
        BY <1>0, <2>2 DEF Pop
      <3> QED
        BY <1>0, <3>1 DEF Fed
    <2>3. CASE ~BuildInput(p) /\ ~Pop(p)
      <3>1. buffer' = buffer /\ \E w \in Where \ {"built"} : cpu' = [cpu EXCEPT ![p] = w]
        BY <1>2, <2>3 DEF CPU, Pause, Leave, ClearReceived, Woken, PollLocalPad, SkipHostPoll, WaitFirst,
                    SendInput, pads, Where
      <3> QED
        BY <1>0, <3>1 DEF Fed
    <2> QED
      BY <2>1, <2>2, <2>3
  <1>3. ASSUME NEW p \in Player, Client(p) PROVE Fed'
    <2>1. cpu' = cpu
      BY <1>3 DEF Client, OnGolfSwitch, OnGolfPrepare, OnPadData, OnPadHostData, OnStop, Received
    <2>2. CASE OnPadData(p)
      <3>1. PICK m \in Message(p, "PadData") : buffer' = [buffer EXCEPT ![p] = Append(@, m.value)]
        BY <2>2 DEF OnPadData
      <3>2. \A s \in Seq(Nat), v \in Nat : Append(s, v) # <<>>
        OBVIOUS
      <3>3. m.value \in Nat
        <4>1. m \in Msg
          <5>1. down[p] \in Seq(Msg) /\ down[p] # <<>> /\ m = Head(down[p])
            BY DEF Message, Types
          <5> QED
            BY <5>1, TailFacts
        <4> QED
          BY <4>1 DEF Msg
      <3>4. buffer'[p] # <<>> /\ \A q \in Player : q # p => buffer'[q] = buffer[q]
        BY <1>0, <3>1, <3>2, <3>3
      <3> QED
        BY <2>1, <3>4 DEF Fed
    <2>3. CASE ~OnPadData(p)
      <3>1. buffer' = buffer
        BY <1>3, <2>3 DEF Client, OnGolfSwitch, OnGolfPrepare, OnPadHostData, OnStop
      <3> QED
        BY <1>1, <2>1, <3>1
    <2> QED
      BY <2>2, <2>3
  <1>4. ASSUME NEW p \in Player, StartGame(p) PROVE Fed'
    BY <1>0, <1>4 DEF StartGame, Fed
  <1>5. CASE UNCHANGED vars \/ ServerStops \/ \E p \in Player : Server(p)
    <2>1. UNCHANGED <<cpu, buffer>>
      BY <1>5 DEF vars, ServerStops, Server, ServerOnPadData, ServerOnPadHostData, ServerKicks,
           ServerOnGolfRequest, ServerOnGolfPrepare, ServerOnGolfRelease, ServerOnGolfAcquire,
           Rest, pads
    <2> QED
      BY <1>1, <2>1
  <1>6. ASSUME NEW p \in Player, NEW q \in Player, RequestGolfControl(p, q) PROVE Fed'
    BY <1>1, <1>6 DEF RequestGolfControl, pads
  <1> QED
    BY <1>2, <1>3, <1>4, <1>5, <1>6 DEF Next

-----------------------------------------------------------------------------
(* What a step does to the messages of a switch: those left in a queue     *)
(* have only moved up.                                                     *)
Golf == {"GolfSwitch", "GolfPrepare", "GolfRelease", "GolfAcquire"}
Shifted(s, t, d) ==
  \A k \in Nat : \A y \in Golf : At(t, k, y) => At(s, k + d, y) /\ t[k] = s[k + d]

LEMMA ShiftedBy ==
  ASSUME NEW s \in Seq(Msg)
  PROVE  /\ Shifted(s, s, 0) /\ Shifted(s, <<>>, 0)
         /\ s # <<>> => Shifted(s, Tail(s), 1)
         /\ \A m \in Msg : m.type \notin Golf => Shifted(s, Append(s, m), 0)
  <1>1. Shifted(s, s, 0)
    BY DEF Shifted
  <1>2. Shifted(s, <<>>, 0)
    BY DEF Shifted, At
  <1>3. s # <<>> => Shifted(s, Tail(s), 1)
    BY AtTail DEF Shifted
  <1>4. ASSUME NEW m \in Msg, m.type \notin Golf PROVE Shifted(s, Append(s, m), 0)
    <2>1. \A k \in Nat : k + 0 = k
      OBVIOUS
    <2>2. ASSUME NEW k \in Nat, NEW y \in Golf, At(Append(s, m), k, y)
          PROVE  At(s, k, y) /\ Append(s, m)[k] = s[k]
      <3>1. /\ At(Append(s, m), k, y) <=> At(s, k, y) \/ (k = Len(s) + 1 /\ m.type = y)
            /\ At(s, k, y) => Append(s, m)[k] = s[k]
        BY AtAppend
      <3> QED
        BY <1>4, <2>2, <3>1
    <2> QED
      BY <2>1, <2>2 DEF Shifted
  <1> QED
    BY <1>1, <1>2, <1>3, <1>4

UpMoves(u) ==
  \A p \in Player : \A k \in Nat : /\ Release(p, k)' => Release(p, k + u[p])
                                   /\ Answer(p, k)' => Answer(p, k + u[p])
                                   /\ Acquire(p, k)' => Acquire(p, k + u[p])
DownMoves(u) ==
  \A p \in Player : \A k \in Nat : /\ Switch(p, k)' => Switch(p, k + u[p])
                                   /\ Grant(p, k)' => Grant(p, k + u[p])
                                   /\ Asked(p, k)' => Asked(p, k + u[p])

LEMMA UpMoved ==
  ASSUME \A p \in Player : \E d \in Nat : Shifted(up[p], up'[p], d)
  PROVE  \E u \in [Player -> Nat] : UpMoves(u)
  <1> DEFINE u == [p \in Player |-> CHOOSE d \in Nat : Shifted(up[p], up'[p], d)]
  <1>1. \A p \in Player : u[p] \in Nat /\ Shifted(up[p], up'[p], u[p])
    OBVIOUS
  <1>2. u \in [Player -> Nat]
    BY <1>1
  <1> HIDE DEF u
  <1>3. UpMoves(u)
    BY <1>1 DEF UpMoves, Shifted, Golf, Release, Answer, Acquire
  <1> QED
    BY <1>2, <1>3

LEMMA DownMoved ==
  ASSUME \A p \in Player : \E d \in Nat : Shifted(down[p], down'[p], d)
  PROVE  \E u \in [Player -> Nat] : DownMoves(u)
  <1> DEFINE u == [p \in Player |-> CHOOSE d \in Nat : Shifted(down[p], down'[p], d)]
  <1>1. \A p \in Player : u[p] \in Nat /\ Shifted(down[p], down'[p], u[p])
    OBVIOUS
  <1>2. u \in [Player -> Nat]
    BY <1>1
  <1> HIDE DEF u
  <1>3. DownMoves(u)
    BY <1>1 DEF DownMoves, Shifted, Golf, Switch, Grant, Asked
  <1> QED
    BY <1>2, <1>3

Park == {"top", "answered", "paused", "off"}

(* A step that has no part in a switch. *)
LEMMA NeutralStep ==
  ASSUME OneToken, OneQuestion, Stages, Parked, current' = current, pending' = pending,
         \A p \in Player : Holds(p)' <=> Holds(p),
         \A p \in Player : Armed(p)' => Armed(p),
         \A p \in Player : Summoned(p) => wait'[p] /\ cpu'[p] \in Park,
         \A p \in Player : \E d \in Nat : Shifted(up[p], up'[p], d),
         \A p \in Player : \E d \in Nat : Shifted(down[p], down'[p], d)
  PROVE  OneToken' /\ OneQuestion' /\ Stages' /\ Parked'
  <1>1. PICK u \in [Player -> Nat] : UpMoves(u)
    BY UpMoved
  <1>2. PICK d \in [Player -> Nat] : DownMoves(d)
    BY DownMoved
  <1>3. \A p \in Player : u[p] \in Nat /\ d[p] \in Nat
    OBVIOUS
  <1>4. OneToken'
    BY <1>1, <1>2, <1>3 DEF OneToken, UpMoves, DownMoves
  <1>5. OneQuestion'
    BY <1>1, <1>2, <1>3 DEF OneQuestion, UpMoves, DownMoves
  <1>6. Stages'
    BY <1>1, <1>2, <1>3 DEF Stages, UpMoves, DownMoves
  <1>7. Parked'
    BY <1>1, <1>3 DEF Parked, Summoned, UpMoves, Park
  <1> QED
    BY <1>4, <1>5, <1>6, <1>7

MovesUp == \A p \in Player : \E d \in Nat : Shifted(up[p], up'[p], d)
MovesDown == \A p \in Player : \E d \in Nat : Shifted(down[p], down'[p], d)

LEMMA NoShift ==
  ASSUME Types
  PROVE  (up' = up => MovesUp) /\ (down' = down => MovesDown)
  BY ShiftedBy DEF MovesUp, MovesDown, Types

LEMMA ShiftSent ==
  ASSUME Types, NEW p \in Player, NEW m \in Msg, m.type \notin Golf, SendAsync(p, m)
  PROVE  MovesUp
  <1> SUFFICES ASSUME NEW q \in Player PROVE \E d \in Nat : Shifted(up[q], up'[q], d)
    BY DEF MovesUp
  <1>1. up[q] \in Seq(Msg)
    BY DEF Types
  <1>2. Shifted(up[q], up[q], 0) /\ Shifted(up[q], Append(up[q], m), 0)
    BY <1>1, ShiftedBy
  <1>3. up'[q] = up[q] \/ up'[q] = Append(up[q], m)
    BY SentCases
  <1> QED
    BY <1>2, <1>3

LEMMA ShiftTaken ==
  ASSUME Types, NEW p \in Player, NEW t, From(p, t)
  PROVE  MovesUp
  <1> SUFFICES ASSUME NEW q \in Player PROVE \E d \in Nat : Shifted(up[q], up'[q], d)
    BY DEF MovesUp
  <1>1. up[q] \in Seq(Msg)
    BY DEF Types
  <1>2. Shifted(up[q], up[q], 0) /\ (up[q] # <<>> => Shifted(up[q], Tail(up[q]), 1))
    BY <1>1, ShiftedBy
  <1>3. up'[q] = up[q] \/ (up[q] # <<>> /\ up'[q] = Tail(up[q]))
    BY FromCases
  <1> QED
    BY <1>2, <1>3

LEMMA ShiftSentTo ==
  ASSUME Types, NEW S, NEW m \in Msg, m.type \notin Golf, SendTo(S, m)
  PROVE  MovesDown
  <1> SUFFICES ASSUME NEW q \in Player PROVE \E d \in Nat : Shifted(down[q], down'[q], d)
    BY DEF MovesDown
  <1>1. down[q] \in Seq(Msg)
    BY DEF Types
  <1>2. Shifted(down[q], down[q], 0) /\ Shifted(down[q], Append(down[q], m), 0)
    BY <1>1, ShiftedBy
  <1>3. down'[q] = down[q] \/ down'[q] = Append(down[q], m)
    BY SentToCases
  <1> QED
    BY <1>2, <1>3

LEMMA ShiftReceived ==
  ASSUME Types, NEW p \in Player, down[p] # <<>>, down' = [down EXCEPT ![p] = Tail(@)]
  PROVE  MovesDown
  <1> SUFFICES ASSUME NEW q \in Player PROVE \E d \in Nat : Shifted(down[q], down'[q], d)
    BY DEF MovesDown
  <1>1. down[q] \in Seq(Msg)
    BY DEF Types
  <1>2. Shifted(down[q], down[q], 0) /\ (down[q] # <<>> => Shifted(down[q], Tail(down[q]), 1))
    BY <1>1, ShiftedBy
  <1>3. down'[q] = down[q] \/ (down[q] # <<>> /\ down'[q] = Tail(down[q]))
    BY DEF Types
  <1> QED
    BY <1>2, <1>3

(* A message that the client sends itself overtakes only messages that     *)
(* have no part in a switch.                                               *)
SentOne(p, q, k, j, m) ==
  /\ Release(q, k)' => Release(q, k) \/ (q = p /\ k = j + 1 /\ m.type = "GolfRelease")
  /\ Acquire(q, k)' => Acquire(q, k) \/ (q = p /\ k = j + 1 /\ m.type = "GolfAcquire")
  /\ Answer(q, k)' => Answer(q, k) \/ (q = p /\ k = j + 1 /\ m.type = "GolfPrepare")

LEMMA SentGolf ==
  ASSUME Types, NEW p \in Player, NEW m \in Msg, SendPast(p, m)
  PROVE  \E j \in Nat : \A q \in Player : \A k \in Nat : SentOne(p, q, k, j, m)
  <1>1. PICK j \in 0 .. Len(up[p]) :
          /\ up' = up \/ up' = [up EXCEPT ![p] = Insert(up[p], j, m)]
          /\ \A i \in j + 1 .. Len(up[p]) : Queued(up[p][i])
    BY SendPastShape
  <1>2. up[p] \in Seq(Msg) /\ j \in Nat
    BY DEF Types
  <1>3. \A i \in j + 1 .. Len(up[p]) :
          up[p][i].type \notin {"GolfPrepare", "GolfRelease", "GolfAcquire"}
    BY <1>1 DEF Queued
  <1>4. ASSUME NEW k \in Nat, NEW t \in {"GolfPrepare", "GolfRelease", "GolfAcquire"}
        PROVE  At(Insert(up[p], j, m), k, t) <=> At(up[p], k, t) \/ (k = j + 1 /\ m.type = t)
    BY <1>2, <1>3, <1>4, AtInsert
  <1>5. \A q \in Player : up'[q] = up[q] \/ (q = p /\ up'[q] = Insert(up[p], j, m))
    BY <1>1 DEF Types
  <1>6. \A q \in Player : \A k \in Nat : SentOne(p, q, k, j, m)
    BY <1>4, <1>5 DEF SentOne, Release, Acquire, Answer
  <1> QED
    BY <1>2, <1>6

(* The next golfer stands at the head of GetNetPads and tells the server. *)
LEMMA AnswerStep ==
  ASSUME Types, OneToken, OneQuestion, Stages, Parked, NEW p \in Player, Armed(p), wait[p],
         SendPast(p, Signal("GolfPrepare")), cpu' = [cpu EXCEPT ![p] = "answered"],
         UNCHANGED <<current, pending, down, view, wait, received>>
  PROVE  OneToken' /\ OneQuestion' /\ Stages' /\ Parked'
  <1> DEFINE m == Signal("GolfPrepare")
  <1>0. m \in Msg /\ m.type = "GolfPrepare"
    BY Messages DEF Kind
  <1>1. PICK j \in Nat : \A q \in Player : \A k \in Nat : SentOne(p, q, k, j, m)
    BY <1>0, SentGolf
  <1> HIDE DEF m
  <1>5. \A q \in Player : \A k \in Nat :
          /\ Release(q, k)' => Release(q, k)
          /\ Acquire(q, k)' => Acquire(q, k)
          /\ Answer(q, k)' => Answer(q, k) \/ (q = p /\ k = j + 1)
    BY <1>0, <1>1 DEF SentOne
  <1>6. \A q \in Player : \A k \in Nat :
          (Switch(q, k)' <=> Switch(q, k)) /\ (Grant(q, k)' <=> Grant(q, k))
          /\ (Asked(q, k)' <=> Asked(q, k))
    BY DEF Switch, Grant, Asked
  <1>7. \A q \in Player : /\ Holds(q)' <=> Holds(q)
                          /\ Armed(q)' <=> Armed(q) /\ q # p
    BY DEF Holds, Armed, Types
  <1>8. OneToken'
    BY <1>5, <1>6, <1>7 DEF OneToken
  <1>9. OneQuestion'
    BY <1>5, <1>6, <1>7 DEF OneQuestion
  <1>10. Stages'
    BY <1>5, <1>6, <1>7 DEF Stages
  <1>11. Parked'
    BY <1>5, <1>7 DEF Parked, Summoned, Types
  <1> QED
    BY <1>8, <1>9, <1>10, <1>11

LEMMA CPUControl ==
  ASSUME Types, OneToken, OneQuestion, Stages, Parked, NEW p \in Player, CPU(p)
  PROVE  OneToken' /\ OneQuestion' /\ Stages' /\ Parked'
  <1>1. UNCHANGED <<current, pending, down, view, wait>>
    BY DEF CPU, Pause, Leave, ClearReceived, Woken, PollLocalPad, SkipHostPoll, WaitFirst,
           BuildInput, SendInput, Pop, server, net, pause
  <1>2. CASE Pause(p) /\ received[p]
    <2>1. /\ SendPast(p, Signal("GolfPrepare")) /\ cpu' = [cpu EXCEPT ![p] = "answered"]
          /\ wait[p] /\ received' = received /\ Armed(p)
      BY <1>2 DEF Pause, pause, Armed, SendPast
    <2> QED
      BY <1>1, <2>1, AnswerStep
  <1>3. CASE ~(Pause(p) /\ received[p])
    <2>1. \A q \in Player : Holds(q)' <=> Holds(q)
      BY <1>1 DEF Holds
    <2>2. \A q \in Player : Armed(q)' => Armed(q)
      <3>1. CASE ClearReceived(p)
        BY <3>1 DEF ClearReceived, Armed, Types
      <3>2. CASE ~ClearReceived(p)
        <4>1. received' = received /\ cpu[p] # "answered"
          BY <3>2 DEF CPU, Pause, Leave, Woken, PollLocalPad, SkipHostPoll, WaitFirst,
                      BuildInput, AsGolfer, SendInput, Pop, pause
        <4>2. \A q \in Player : q # p => cpu'[q] = cpu[q]
          BY DEF CPU, Pause, Leave, ClearReceived, Woken, PollLocalPad, SkipHostPoll, WaitFirst,
                 BuildInput, SendInput, Pop, Types
        <4> QED
          BY <4>1, <4>2 DEF Armed
      <3> QED
        BY <3>1, <3>2
    <2>3. \A q \in Player : Summoned(q) => wait'[q] /\ cpu'[q] \in Park
      <3> SUFFICES ASSUME NEW q \in Player, Summoned(q) PROVE wait'[q] /\ cpu'[q] \in Park
        OBVIOUS
      <3>1. wait[q] /\ cpu[q] \in Park
        BY DEF Parked, Park
      <3>2. CASE q # p
        <4>1. cpu'[q] = cpu[q]
          BY <3>2 DEF CPU, Pause, Leave, ClearReceived, Woken, PollLocalPad, SkipHostPoll, WaitFirst,
                 BuildInput, SendInput, Pop, Types
        <4> QED
          BY <1>1, <3>1, <4>1
      <3>3. CASE q = p
        <4>1. Pause(p) \/ Leave(p) \/ ClearReceived(p) \/ Woken(p)
          BY <3>1, <3>3 DEF CPU, PollLocalPad, SkipHostPoll, WaitFirst,
                 BuildInput, AsGolfer, SendInput, Pop, Park
        <4> QED
          BY <1>1, <3>1, <3>3, <4>1 DEF Pause, Leave, ClearReceived, Woken, Park, Types
      <3> QED
        BY <3>2, <3>3
    <2>4. MovesUp
      <3>1. \/ up' = up \/ SendAsync(p, PadData(p)) \/ SendAsync(p, PadHostData(packet[p]))
        BY <1>3 DEF CPU, Pause, Leave, ClearReceived, Woken, PollLocalPad, SkipHostPoll, WaitFirst,
               BuildInput, SendInput, Pop, net
      <3>2. /\ PadData(p) \in Msg /\ PadData(p).type \notin Golf
            /\ PadHostData(packet[p]) \in Msg /\ PadHostData(packet[p]).type \notin Golf
        BY Messages, Constants DEF Types, Golf
      <3> QED
        BY <3>1, <3>2, NoShift, ShiftSent
    <2>5. MovesDown
      BY <1>1, NoShift
    <2> QED
      BY <1>1, <2>1, <2>2, <2>3, <2>4, <2>5, NeutralStep DEF MovesUp, MovesDown
  <1> QED
    BY <1>2, <1>3

(* The same, message by message. *)
LEMMA AppendedAt ==
  ASSUME NEW s \in Seq(Msg), NEW m \in Msg, NEW k \in Nat, NEW t, At(Append(s, m), k, t)
  PROVE  (At(s, k, t) /\ Append(s, m)[k] = s[k])
         \/ (k = Len(s) + 1 /\ m.type = t /\ Append(s, m)[k] = m)
  <1>1. /\ At(Append(s, m), k, t) <=> At(s, k, t) \/ (k = Len(s) + 1 /\ m.type = t)
        /\ At(s, k, t) => Append(s, m)[k] = s[k]
    BY AtAppend
  <1>2. Append(s, m)[Len(s) + 1] = m
    BY AppendFacts
  <1> QED
    BY <1>1, <1>2

LEMMA AppendedAll ==
  ASSUME NEW s \in Seq(Msg), NEW m \in Msg
  PROVE  \A k \in Nat : \A t : At(Append(s, m), k, t) =>
           (At(s, k, t) /\ Append(s, m)[k] = s[k])
           \/ (k = Len(s) + 1 /\ m.type = t /\ Append(s, m)[k] = m)
  BY AppendedAt

LEMMA ReceivedGolf ==
  ASSUME Types, NEW p \in Player, down[p] # <<>>, down' = [down EXCEPT ![p] = Tail(@)],
         NEW q \in Player, NEW k \in Nat
  PROVE  /\ Switch(q, k)' => Switch(q, IF q = p THEN k + 1 ELSE k)
         /\ Grant(q, k)' => Grant(q, IF q = p THEN k + 1 ELSE k)
         /\ Asked(q, k)' => Asked(q, IF q = p THEN k + 1 ELSE k)
  <1>1. CASE q # p
    <2>1. down'[q] = down[q]
      BY <1>1 DEF Types
    <2> QED
      BY <1>1, <2>1 DEF Switch, Grant, Asked
  <1>2. CASE q = p
    <2>1. down'[p] = Tail(down[p]) /\ down[p] \in Seq(Msg)
      BY DEF Types
    <2>2. \A t : At(Tail(down[p]), k, t) =>
            At(down[p], k + 1, t) /\ Tail(down[p])[k] = down[p][k + 1]
      BY <2>1, AtTail
    <2> QED
      BY <1>2, <2>1, <2>2 DEF Switch, Grant, Asked
  <1> QED
    BY <1>1, <1>2

LEMMA TakenGolf ==
  ASSUME Types, NEW p \in Player, NEW t, From(p, t), NEW q \in Player, NEW k \in Nat
  PROVE  /\ Release(q, k)' => Release(q, IF q = p THEN k + 1 ELSE k) /\ (q = p => k # 0)
         /\ Acquire(q, k)' => Acquire(q, IF q = p THEN k + 1 ELSE k) /\ (q = p => k # 0)
         /\ Answer(q, k)' => Answer(q, IF q = p THEN k + 1 ELSE k) /\ (q = p => k # 0)
  <1>1. CASE q # p
    <2>1. up'[q] = up[q]
      BY <1>1, FromCases
    <2> QED
      BY <1>1, <2>1 DEF Release, Acquire, Answer
  <1>2. CASE q = p
    <2>1. up'[p] = Tail(up[p]) /\ up[p] \in Seq(Msg) /\ up[p] # <<>>
      BY FromCases
    <2>2. \A y : At(Tail(up[p]), k, y) => At(up[p], k + 1, y) /\ k # 0
      BY <2>1, AtTail
    <2> QED
      BY <1>2, <2>1, <2>2 DEF Release, Acquire, Answer
  <1> QED
    BY <1>1, <1>2

LEMMA SentToGolf ==
  ASSUME Types, NEW S, NEW m \in Msg, SendTo(S, m), NEW q \in Player, NEW k \in Nat
  PROVE  /\ Switch(q, k)' => Switch(q, k) \/ (k = Len(down[q]) + 1 /\ m.type = "GolfSwitch")
         /\ Grant(q, k)' => \/ Grant(q, k)
                            \/ k = Len(down[q]) + 1 /\ m.type = "GolfSwitch" /\ m.value = q
         /\ Asked(q, k)' => \/ Asked(q, k)
                            \/ q \in S /\ k = Len(down[q]) + 1 /\ m.type = "GolfPrepare"
         /\ Switch(q, k) => k <= Len(down[q])
  <1>1. down[q] \in Seq(Msg)
    BY DEF Types
  <1>2. \/ q \notin S /\ down'[q] = down[q]
        \/ q \in S /\ down'[q] = Append(down[q], m)
    BY SentToCases
  <1>3. ASSUME NEW t, At(Append(down[q], m), k, t)
        PROVE  (At(down[q], k, t) /\ Append(down[q], m)[k] = down[q][k])
               \/ (k = Len(down[q]) + 1 /\ m.type = t /\ Append(down[q], m)[k] = m)
    BY <1>1, <1>3, AppendedAt, Zenon
  <1>4. Switch(q, k) => k <= Len(down[q])
    BY <1>1 DEF Switch, At
  <1> QED
    BY <1>2, <1>3, <1>4 DEF Switch, Grant, Asked

(* The golfer lets go. *)
LEMMA ReleaseStep ==
  ASSUME Types, Types', OneToken, OneQuestion, Stages, Parked, NEW p \in Player, Holds(p),
         Switch(p, 1), down' = [down EXCEPT ![p] = Tail(@)], down[p] # <<>>,
         SendPast(p, Signal("GolfRelease")), view' = [view EXCEPT ![p] = down[p][1].value],
         UNCHANGED <<current, pending, cpu, wait, received>>
  PROVE  OneToken' /\ OneQuestion' /\ Stages' /\ Parked'
  <1> DEFINE m == Signal("GolfRelease")
  <1>0. m \in Msg /\ m.type = "GolfRelease"
    BY Messages DEF Kind
  <1>1. MovesDown
    BY ShiftReceived
  <1>2. PICK d \in [Player -> Nat] : DownMoves(d)
    BY <1>1, DownMoved DEF MovesDown
  <1>3. \A q \in Player : d[q] \in Nat
    OBVIOUS
  <1>16. PICK j \in Nat : \A q \in Player : \A k \in Nat : SentOne(p, q, k, j, m)
    BY <1>0, SentGolf
  <1> HIDE DEF m
  <1>4. \A q \in Player : \A k \in Nat :
          /\ Release(q, k)' => Release(q, k) \/ (q = p /\ k = j + 1)
          /\ Acquire(q, k)' => Acquire(q, k)
          /\ Answer(q, k)' => Answer(q, k)
    BY <1>0, <1>16 DEF SentOne
  <1>5. ~Grant(p, 1) /\ down[p][1].value # p
    BY DEF OneToken, Grant
  <1>6. \A q \in Player : Holds(q)' <=> Holds(q) /\ q # p
    BY <1>5 DEF Holds, Types
  <1>7. \A q \in Player : Armed(q)' <=> Armed(q)
    BY DEF Armed
  <1>8. current = 0 /\ pending \notin {0, p}
    <2>1. p \notin {current, pending}
      BY DEF Stages
    <2>2. \A q \in Player : current = q => q = p
      BY DEF Stages, OneToken
    <2>3. current = 0
      BY <2>1, <2>2, Constants DEF Types
    <2> QED
      BY <2>1, <2>3 DEF Stages
  <1>9. \A q \in Player : ~Holds(q)'
    BY <1>6 DEF OneToken
  <1>10. \A q \in Player : \A k \in Nat : ~Release(q, k) /\ ~Grant(q, k) /\ ~Acquire(q, k)
    <2>1. \A q \in Player : \A k \in Nat : ~Release(q, k) /\ ~Grant(q, k)
      BY DEF OneToken
    <2>2. \A q \in Player : \A k \in Nat : ~Acquire(q, k)
      BY <1>8 DEF Stages, OneToken
    <2> QED
      BY <2>1, <2>2
  <1>11. \A q \in Player : \A k \in Nat : ~Grant(q, k)' /\ ~Acquire(q, k)'
    BY <1>2, <1>3, <1>4, <1>10 DEF DownMoves
  <1>12. OneToken'
    BY <1>4, <1>9, <1>10, <1>11 DEF OneToken
  <1>13. OneQuestion'
    BY <1>2, <1>3, <1>4, <1>7, <1>11 DEF OneQuestion, DownMoves
  <1>14. Stages'
    BY <1>2, <1>3, <1>4, <1>7, <1>8, <1>9, <1>11, Constants DEF Stages, DownMoves
  <1>15. Parked'
    BY <1>4, <1>6, <1>8 DEF Parked, Summoned
  <1> QED
    BY <1>12, <1>13, <1>14, <1>15

(* The next golfer takes over. *)
LEMMA AcquireStep ==
  ASSUME Types, Types', OneToken, OneQuestion, Stages, Parked, NEW p \in Player, Grant(p, 1),
         down' = [down EXCEPT ![p] = Tail(@)], down[p] # <<>>,
         SendPast(p, Signal("GolfAcquire")), view' = [view EXCEPT ![p] = p],
         wait' = [wait EXCEPT ![p] = FALSE],
         UNCHANGED <<current, pending, cpu, received>>
  PROVE  OneToken' /\ OneQuestion' /\ Stages' /\ Parked'
  <1> DEFINE m == Signal("GolfAcquire")
  <1>0. m \in Msg /\ m.type = "GolfAcquire"
    BY Messages DEF Kind
  <1>2. \A q \in Player : \A k \in Nat :
          /\ Switch(q, k)' => Switch(q, IF q = p THEN k + 1 ELSE k)
          /\ Grant(q, k)' => Grant(q, IF q = p THEN k + 1 ELSE k)
          /\ Asked(q, k)' => Asked(q, IF q = p THEN k + 1 ELSE k)
    BY ReceivedGolf
  <1>3. PICK j \in Nat : \A q \in Player : \A k \in Nat : SentOne(p, q, k, j, m)
    BY <1>0, SentGolf
  <1> HIDE DEF m
  <1>4. \A q \in Player : \A k \in Nat :
          /\ Release(q, k)' => Release(q, k)
          /\ Acquire(q, k)' => Acquire(q, k) \/ (q = p /\ k = j + 1)
          /\ Answer(q, k)' => Answer(q, k)
    BY <1>0, <1>3 DEF SentOne
  <1>6. /\ Holds(p)' /\ \A q \in Player : Holds(q)' => q = p
    <2>1. \A q \in Player : ~Holds(q)
      BY DEF OneToken
    <2> QED
      BY <2>1 DEF Holds, Types
  <1>7. \A q \in Player : Armed(q)' <=> Armed(q)
    BY DEF Armed
  <1>8. pending = p /\ current = 0 /\ \A l \in Nat : l > 1 => ~Switch(p, l)
    BY DEF Stages
  <1>9. \A q \in Player : \A k \in Nat :
          ~Release(q, k) /\ (Grant(q, k) => q = p /\ k = 1) /\ ~Acquire(q, k)
    <2>1. \A q \in Player : \A k \in Nat : ~Release(q, k) /\ (Grant(q, k) => q = p /\ k = 1)
      BY DEF OneToken
    <2>2. \A q \in Player : ~Holds(q)
      BY DEF OneToken
    <2>3. \A q \in Player : \A k \in Nat : ~Acquire(q, k)
      BY <2>2 DEF Stages
    <2> QED
      BY <2>1, <2>3
  <1>10. \A k \in Nat : ~Switch(p, k)'
    <2>1. \A k \in Nat : Switch(p, k)' => Switch(p, k + 1)
      BY <1>2
    <2>2. \A k \in Nat : k # 0 => k + 1 \in Nat /\ k + 1 > 1
      OBVIOUS
    <2>3. ~Switch(p, 0)'
      BY DEF Switch, At
    <2> QED
      BY <1>8, <2>1, <2>2, <2>3
  <1>11. \A q \in Player : \A k \in Nat : ~Grant(q, k)' /\ ~Release(q, k)'
    <2>1. \A k \in Nat : Grant(p, k)' => Switch(p, k)'
      BY DEF Grant
    <2>2. \A q \in Player : q # p => \A k \in Nat : ~Grant(q, k)'
      BY <1>2, <1>9
    <2> QED
      BY <1>4, <1>9, <1>10, <2>1, <2>2
  <1>12. OneToken'
    BY <1>6, <1>11 DEF OneToken
  <1>13. \A q \in Player : ~Armed(q)' /\ \A k \in Nat : ~Asked(q, k)' /\ ~Answer(q, k)'
    BY <1>2, <1>4, <1>7, <1>8 DEF Stages
  <1>14. OneQuestion'
    BY <1>4, <1>9, <1>13 DEF OneQuestion
  <1>15. Stages'
    BY <1>4, <1>6, <1>8, <1>9, <1>10, <1>11, <1>13, Constants DEF Stages
  <1>16. Parked'
    <2>1. \A q \in Player : ~Summoned(q)'
      BY <1>6, <1>8, <1>13 DEF Summoned
    <2> QED
      BY <2>1 DEF Parked
  <1> QED
    BY <1>12, <1>14, <1>15, <1>16

(* The next golfer is told to stop at the head of GetNetPads. *)
LEMMA PrepareStep ==
  ASSUME Types, OneToken, OneQuestion, Stages, Parked, NEW p \in Player, Asked(p, 1),
         down' = [down EXCEPT ![p] = Tail(@)], down[p] # <<>>,
         received' = [received EXCEPT ![p] = TRUE], wait' = [wait EXCEPT ![p] = TRUE],
         UNCHANGED <<current, pending, up, view, cpu>>
  PROVE  OneToken' /\ OneQuestion' /\ Stages' /\ Parked'
  <1>1. MovesDown
    BY ShiftReceived
  <1>2. PICK d \in [Player -> Nat] : DownMoves(d)
    BY <1>1, DownMoved DEF MovesDown
  <1>3. \A q \in Player : d[q] \in Nat
    OBVIOUS
  <1>4. \A q \in Player : \A k \in Nat : /\ Release(q, k)' <=> Release(q, k)
                                         /\ Acquire(q, k)' <=> Acquire(q, k)
                                         /\ Answer(q, k)' <=> Answer(q, k)
    BY DEF Release, Acquire, Answer
  <1>5. \A q \in Player : Holds(q)' <=> Holds(q)
    BY DEF Holds
  <1>6. \A q \in Player : Armed(q)' => Armed(q) \/ q = p
    BY DEF Armed, Types
  <1>7. \A k \in Nat : ~Asked(p, k)' /\ ~Answer(p, k)
    <2>1. \A k \in Nat : Asked(p, k)' => Asked(p, k + 1) /\ k # 0
      <3>1. \A k \in Nat : Asked(p, k)' => Asked(p, k + 1)
        BY ReceivedGolf
      <3>2. \A k \in Nat : Asked(p, k)' => k # 0
        BY DEF Asked, At
      <3> QED
        BY <3>1, <3>2
    <2>2. \A k \in Nat : Asked(p, k + 1) => k = 0
      <3>1. \A k \in Nat : k + 1 \in Nat /\ (k + 1 = 1 => k = 0)
        OBVIOUS
      <3>2. \A k \in Nat : Asked(p, k) => k = 1
        BY DEF OneQuestion
      <3> QED
        BY <3>1, <3>2
    <2> QED
      BY <2>1, <2>2 DEF OneQuestion
  <1>8. OneToken'
    BY <1>2, <1>3, <1>4, <1>5 DEF OneToken, DownMoves
  <1>9. OneQuestion'
    BY <1>2, <1>3, <1>4, <1>6, <1>7 DEF OneQuestion, DownMoves
  <1>10. pending = p /\ current # 0
    BY DEF Stages
  <1>11. Stages'
    BY <1>2, <1>3, <1>4, <1>5, <1>6, <1>10 DEF Stages, DownMoves
  <1>12. Parked'
    BY <1>4, <1>5, <1>7 DEF Parked, Summoned, Types
  <1> QED
    BY <1>8, <1>9, <1>11, <1>12

LEMMA ClientControl ==
  ASSUME Types, Types', Values, OneToken, OneQuestion, Stages, Parked, NEW p \in Player, Client(p)
  PROVE  OneToken' /\ OneQuestion' /\ Stages' /\ Parked'
  <1>1. /\ down[p] # <<>> /\ down' = [down EXCEPT ![p] = Tail(@)]
        /\ UNCHANGED <<current, pending, cpu>>
    BY DEF Client, OnGolfSwitch, OnGolfPrepare, OnPadData, OnPadHostData, OnStop, Received,
           Message, server
  <1>2. MovesDown
    BY <1>1, ShiftReceived
  <1>3. ASSUME UNCHANGED <<up, wait, received>>, \A q \in Player : Holds(q)' <=> Holds(q)
        PROVE  OneToken' /\ OneQuestion' /\ Stages' /\ Parked'
    <2>1. \A q \in Player : Armed(q)' => Armed(q)
      BY <1>1, <1>3 DEF Armed
    <2>2. \A q \in Player : Summoned(q) => wait'[q] /\ cpu'[q] \in Park
      BY <1>1, <1>3 DEF Parked, Park
    <2>3. MovesUp
      BY <1>3, NoShift
    <2> QED
      BY <1>1, <1>2, <1>3, <2>1, <2>2, <2>3, NeutralStep DEF MovesUp, MovesDown
  <1>4. CASE OnGolfSwitch(p)
    <2>1. PICK m \in Message(p, "GolfSwitch") :
            /\ view' = [view EXCEPT ![p] = m.value]
            /\ \/ /\ view[p] = p
                  /\ SendPast(p, Signal("GolfRelease"))
                  /\ UNCHANGED <<first, wait, event>>
               \/ /\ view[p] # p /\ m.value = p
                  /\ SendPast(p, Signal("GolfAcquire"))
                  /\ wait' = [wait EXCEPT ![p] = FALSE]
               \/ /\ view[p] # p /\ m.value # p
                  /\ UNCHANGED <<up, first, wait, event, late>>
            /\ UNCHANGED <<running, received, fevent, buffer>>
      BY <1>4 DEF OnGolfSwitch, SendPast
    <2>2. m = down[p][1] /\ m.type = "GolfSwitch" /\ 1 \in 1 .. Len(down[p])
      BY MessageShape
    <2>3. Switch(p, 1)
      BY <2>2 DEF Switch, At
    <2>4. CASE view[p] = p
      BY <1>1, <2>1, <2>2, <2>3, <2>4, ReleaseStep DEF Holds
    <2>5. CASE view[p] # p /\ m.value = p
      <3>1. Grant(p, 1)
        BY <2>2, <2>3, <2>5 DEF Grant
      <3> QED
        BY <1>1, <2>1, <2>5, <3>1, AcquireStep
    <2>6. CASE view[p] # p /\ m.value # p
      BY <1>3, <2>1, <2>6 DEF Holds, Types
    <2> QED
      BY <2>4, <2>5, <2>6
  <1>5. CASE OnGolfPrepare(p)
    <2>1. PICK m \in Message(p, "GolfPrepare") :
            /\ received' = [received EXCEPT ![p] = TRUE] /\ wait' = [wait EXCEPT ![p] = TRUE]
            /\ up' = up /\ view' = view
      BY <1>5 DEF OnGolfPrepare
    <2>2. m = down[p][1] /\ m.type = "GolfPrepare" /\ 1 \in 1 .. Len(down[p])
      BY MessageShape
    <2>3. Asked(p, 1)
      BY <2>2 DEF Asked, At
    <2> QED
      BY <1>1, <2>1, <2>3, PrepareStep
  <1>6. CASE OnPadData(p) \/ OnPadHostData(p) \/ OnStop(p)
    <2>1. UNCHANGED <<up, wait, received, view>>
      BY <1>6 DEF OnPadData, OnPadHostData, OnStop, pause
    <2> QED
      BY <1>3, <2>1 DEF Holds
  <1> QED
    BY <1>4, <1>5, <1>6 DEF Client

-----------------------------------------------------------------------------
(* The server's part. *)
LEMMA RequestStep ==
  ASSUME Types, OneToken, OneQuestion, Stages, Parked, NEW p \in Player, NEW r \in Player,
         From(p, "GolfRequest"), pending = 0, current # r, pending' = r,
         SendTo({r}, Signal("GolfPrepare")), UNCHANGED <<current, view, wait, received, cpu>>
  PROVE  OneToken' /\ OneQuestion' /\ Stages' /\ Parked'
  <1> DEFINE m == Signal("GolfPrepare")
  <1>0. m \in Msg /\ m.type = "GolfPrepare"
    BY Messages DEF Kind
  <1>1. \A q \in Player : \A k \in Nat : /\ Switch(q, k)' => Switch(q, k)
                                         /\ Grant(q, k)' => Grant(q, k)
                                         /\ Asked(q, k)' => Asked(q, k)
                                              \/ (q = r /\ k = Len(down[r]) + 1)
    BY <1>0, SentToGolf
  <1>2. current \in Player
    BY Constants DEF Types, Stages
  <1>3. \A q \in Player : /\ Holds(q)' <=> Holds(q)
                          /\ Armed(q)' <=> Armed(q)
    BY DEF Holds, Armed
  <1>4. \A q \in Player : Holds(q) => q = current
    BY <1>2 DEF OneToken, Stages
  <1>5. \A q \in Player : /\ ~Armed(q)
                          /\ \A k \in Nat : /\ ~Asked(q, k) /\ ~Answer(q, k) /\ ~Acquire(q, k)
                                            /\ ~Release(q, k) /\ ~Grant(q, k)
    BY <1>2, Constants DEF Stages
  <1>6. \A q \in Player : \A k \in Nat : ~Answer(q, k)' /\ ~Acquire(q, k)' /\ ~Release(q, k)'
    BY <1>5, TakenGolf
  <1>7. OneToken'
    BY <1>1, <1>3, <1>5, <1>6 DEF OneToken
  <1>8. OneQuestion'
    BY <1>1, <1>3, <1>5, <1>6 DEF OneQuestion
  <1>9. Stages'
    BY <1>1, <1>2, <1>3, <1>4, <1>5, <1>6, Constants DEF Stages
  <1>10. Parked'
    <2>1. \A q \in Player : ~Summoned(q)'
      BY <1>2, <1>6, Constants DEF Summoned
    <2> QED
      BY <2>1 DEF Parked
  <1> QED
    BY <1>7, <1>8, <1>9, <1>10

(* The next golfer is ready: nobody is the golfer. *)
LEMMA ReadyStep ==
  ASSUME Types, OneToken, OneQuestion, Stages, Parked, NEW p \in Player,
         From(p, "GolfPrepare"), Answer(p, 1), current' = 0, NEW S,
         SendTo(S, GolfSwitch(0)), UNCHANGED <<pending, view, wait, received, cpu>>
  PROVE  OneToken' /\ OneQuestion' /\ Stages' /\ Parked'
  <1> DEFINE m == GolfSwitch(0)
  <1>0. m \in Msg /\ m.type = "GolfSwitch" /\ m.value = 0
    BY Messages
  <1>1. \A q \in Player : \A k \in Nat : /\ Grant(q, k)' => Grant(q, k)
                                         /\ Asked(q, k)' => Asked(q, k)
    BY <1>0, SentToGolf, Constants
  <1>2. pending = p /\ current \in Player /\ current # p
    BY Constants DEF Types, Stages
  <1>3. \A q \in Player : /\ Holds(q)' <=> Holds(q)
                          /\ Armed(q)' <=> Armed(q)
    BY DEF Holds, Armed
  <1>4. \A q \in Player : Holds(q) => q = current
    BY <1>2 DEF OneToken, Stages
  <1>5. \A q \in Player : \A k \in Nat : ~Acquire(q, k) /\ ~Release(q, k) /\ ~Grant(q, k)
    BY <1>2, Constants DEF Stages
  <1>6. \A q \in Player : ~Armed(q) /\ \A k \in Nat : ~Asked(q, k)
    BY <1>2 DEF Stages, OneQuestion
  <1>7. \A q \in Player : \A k \in Nat : ~Answer(q, k)' /\ ~Acquire(q, k)' /\ ~Release(q, k)'
    <2>1. \A q \in Player : \A k \in Nat : ~Acquire(q, k)' /\ ~Release(q, k)'
      BY <1>5, TakenGolf
    <2>2. \A q \in Player : q # p => \A k \in Nat : ~Answer(q, k)'
      BY <1>2, TakenGolf DEF Stages
    <2>3. \A k \in Nat : Answer(p, k)' => Answer(p, k + 1) /\ k # 0
      BY TakenGolf
    <2>4. \A k \in Nat : k + 1 \in Nat /\ (k + 1 = 1 => k = 0)
      OBVIOUS
    <2>5. \A k \in Nat : Answer(p, k) => k = 1
      BY DEF OneQuestion
    <2> QED
      BY <2>1, <2>2, <2>3, <2>4, <2>5
  <1>8. OneToken'
    BY <1>1, <1>3, <1>5, <1>7 DEF OneToken
  <1>9. OneQuestion'
    BY <1>1, <1>3, <1>6, <1>7 DEF OneQuestion
  <1>10. Stages'
    BY <1>1, <1>2, <1>3, <1>4, <1>5, <1>6, <1>7, Constants DEF Stages
  <1>11. Parked'
    <2>1. Summoned(p)
      BY DEF Summoned
    <2>2. \A q \in Player : Summoned(q)' => q = p
      BY <1>2, <1>7 DEF Summoned
    <2> QED
      BY <2>1, <2>2 DEF Parked
  <1> QED
    BY <1>8, <1>9, <1>10, <1>11

(* The last golfer has let go: the next one is told. *)
LEMMA HandOverStep ==
  ASSUME Types, OneToken, OneQuestion, Stages, Parked, NEW p \in Player,
         From(p, "GolfRelease"), Release(p, 1), NEW S,
         SendTo(S, GolfSwitch(pending)), UNCHANGED <<current, pending, view, wait, received, cpu>>
  PROVE  OneToken' /\ OneQuestion' /\ Stages' /\ Parked'
  <1> DEFINE m == GolfSwitch(pending)
  <1>0. m \in Msg /\ m.type = "GolfSwitch" /\ m.value = pending
    BY Messages DEF Types
  <1>2. current = 0 /\ pending \in Player
    BY Constants DEF Types, Stages
  <1>3. \A q \in Player : /\ Holds(q)' <=> Holds(q)
                          /\ Armed(q)' <=> Armed(q)
    BY DEF Holds, Armed
  <1>4. \A q \in Player : ~Holds(q) /\ \A k \in Nat : ~Grant(q, k) /\ ~Acquire(q, k)
    <2>1. \A q \in Player : ~Holds(q) /\ \A k \in Nat : ~Grant(q, k)
      BY DEF OneToken
    <2> QED
      BY <2>1 DEF Stages
  <1>5. \A q \in Player : ~Armed(q) /\ \A k \in Nat : ~Asked(q, k) /\ ~Answer(q, k)
    BY <1>2 DEF Stages
  <1>6. \A q \in Player : \A k \in Nat :
          /\ Switch(q, k)' => k <= Len(down[q]) + 1
          /\ Grant(q, k)' => q = pending /\ k = Len(down[q]) + 1
          /\ ~Asked(q, k)'
    <2> TAKE q \in Player
    <2> TAKE k \in Nat
    <2>1. Len(down[q]) \in Nat
      BY ElementTypes
    <2>2. /\ Switch(q, k)' => Switch(q, k) \/ (k = Len(down[q]) + 1 /\ m.type = "GolfSwitch")
          /\ Grant(q, k)' => \/ Grant(q, k)
                             \/ k = Len(down[q]) + 1 /\ m.type = "GolfSwitch" /\ m.value = q
          /\ Asked(q, k)' => Asked(q, k) \/ m.type = "GolfPrepare"
          /\ Switch(q, k) => k <= Len(down[q])
      BY <1>0, SentToGolf
    <2> QED
      BY <1>0, <1>4, <1>5, <2>1, <2>2
  <1>7. \A q \in Player : \A k \in Nat : ~Answer(q, k)' /\ ~Acquire(q, k)' /\ ~Release(q, k)'
    <2>1. \A q \in Player : \A k \in Nat : ~Acquire(q, k)' /\ ~Answer(q, k)'
      BY <1>4, <1>5, TakenGolf
    <2>2. \A q \in Player : q # p => \A k \in Nat : ~Release(q, k)'
      BY TakenGolf DEF OneToken
    <2>3. \A k \in Nat : Release(p, k)' => Release(p, k + 1) /\ k # 0
      BY TakenGolf
    <2>4. \A k \in Nat : k + 1 \in Nat /\ (k + 1 = 1 => k = 0)
      OBVIOUS
    <2>5. \A k \in Nat : Release(p, k) => k = 1
      BY DEF OneToken
    <2> QED
      BY <2>1, <2>2, <2>3, <2>4, <2>5
  <1>8. OneToken'
    BY <1>3, <1>4, <1>6, <1>7 DEF OneToken
  <1>9. OneQuestion'
    BY <1>3, <1>5, <1>6, <1>7 DEF OneQuestion
  <1>10. Stages'
    <2>1. \A q \in Player : \A k, l \in Nat : Grant(q, k)' /\ l > k => ~Switch(q, l)'
      <3>1. \A q \in Player : Len(down[q]) \in Nat
        BY ElementTypes
      <3> QED
        BY <1>6, <3>1
    <2> QED
      BY <1>2, <1>3, <1>4, <1>5, <1>6, <1>7, <2>1, Constants DEF Stages
  <1>11. Parked'
    BY <1>3, <1>7 DEF Parked, Summoned
  <1> QED
    BY <1>8, <1>9, <1>10, <1>11

(* The next golfer has taken over. *)
LEMMA AcquiredStep ==
  ASSUME Types, OneToken, OneQuestion, Stages, Parked, NEW p \in Player,
         From(p, "GolfAcquire"), Acquire(p, 1), current' = pending, pending' = 0,
         UNCHANGED <<down, view, wait, received, cpu>>
  PROVE  OneToken' /\ OneQuestion' /\ Stages' /\ Parked'
  <1>1. pending = p /\ current = 0 /\ Holds(p) /\ 0 \notin Player
    BY Constants DEF Stages
  <1>2. \A q \in Player : \A k \in Nat : /\ Switch(q, k)' <=> Switch(q, k)
                                         /\ Grant(q, k)' <=> Grant(q, k)
                                         /\ Asked(q, k)' <=> Asked(q, k)
    BY DEF Switch, Grant, Asked
  <1>3. \A q \in Player : /\ Holds(q)' <=> Holds(q)
                          /\ Armed(q)' <=> Armed(q)
    BY DEF Holds, Armed
  <1>4. \A q \in Player : \A k \in Nat : ~Grant(q, k) /\ ~Release(q, k)
    BY <1>1 DEF OneToken
  <1>5. \A q \in Player : ~Armed(q) /\ \A k \in Nat : ~Asked(q, k) /\ ~Answer(q, k)
    BY <1>1 DEF Stages
  <1>6. \A q \in Player : \A k \in Nat : ~Answer(q, k)' /\ ~Acquire(q, k)' /\ ~Release(q, k)'
    <2>1. \A q \in Player : \A k \in Nat : ~Answer(q, k)' /\ ~Release(q, k)'
      BY <1>4, <1>5, TakenGolf
    <2>2. \A q \in Player : q # p => \A k \in Nat : ~Acquire(q, k)'
      BY <1>1, TakenGolf DEF Stages
    <2>3. \A k \in Nat : Acquire(p, k)' => Acquire(p, k + 1) /\ k # 0
      BY TakenGolf
    <2>4. \A k \in Nat : k + 1 \in Nat /\ (k + 1 = 1 => k = 0)
      OBVIOUS
    <2>5. \A k \in Nat : Acquire(p, k) => k = 1
      BY DEF OneQuestion
    <2> QED
      BY <2>1, <2>2, <2>3, <2>4, <2>5
  <1>7. OneToken'
    BY <1>2, <1>3, <1>4, <1>6 DEF OneToken
  <1>8. OneQuestion'
    BY <1>2, <1>3, <1>5, <1>6 DEF OneQuestion
  <1>9. Stages'
    BY <1>1, <1>2, <1>3, <1>4, <1>5, <1>6 DEF Stages
  <1>10. Parked'
    <2>1. \A q \in Player : ~Summoned(q)'
      BY <1>1, <1>6 DEF Summoned
    <2> QED
      BY <2>1 DEF Parked
  <1> QED
    BY <1>7, <1>8, <1>9, <1>10

LEMMA ServerControl ==
  ASSUME Types, OneToken, OneQuestion, Stages, Parked, NEW p \in Player, Server(p) \/ ServerStops
  PROVE  OneToken' /\ OneQuestion' /\ Stages' /\ Parked'
  <1>0. UNCHANGED <<view, wait, received, cpu>>
    BY DEF Server, ServerStops, ServerOnPadData, ServerOnPadHostData, ServerKicks,
           ServerOnGolfRequest, ServerOnGolfPrepare, ServerOnGolfRelease, ServerOnGolfAcquire,
           Rest, pause
  <1>1. ASSUME UNCHANGED <<current, pending>>, MovesUp, MovesDown
        PROVE  OneToken' /\ OneQuestion' /\ Stages' /\ Parked'
    <2>1. \A q \in Player : (Holds(q)' <=> Holds(q)) /\ (Armed(q)' => Armed(q))
      BY <1>0 DEF Holds, Armed
    <2>2. \A q \in Player : Summoned(q) => wait'[q] /\ cpu'[q] \in Park
      BY <1>0 DEF Parked, Park
    <2> QED
      BY <1>1, <2>1, <2>2, NeutralStep DEF MovesUp, MovesDown
  <1>2. /\ PadHostData(p) \in Msg /\ PadHostData(p).type \notin Golf
        /\ Signal("Stop") \in Msg /\ Signal("Stop").type \notin Golf
        /\ \A v \in Nat : PadData(v) \in Msg /\ PadData(v).type \notin Golf
    BY Messages, Constants DEF Kind, Golf
  <1>3. ASSUME NEW t, From(p, t) PROVE At(up[p], 1, t)
    <2>1. up[p] # <<>> /\ Head(up[p]).type = t /\ up[p] \in Seq(Msg)
      BY <1>3, FromCases
    <2> QED
      BY <2>1, AtTail
  <1>4. CASE ServerOnPadData(p)
    <2>1. UNCHANGED <<current, pending>>
      BY <1>4 DEF ServerOnPadData, server
    <2> QED
      BY <1>1, <1>2, <1>4, <2>1, ShiftTaken, ShiftSentTo DEF ServerOnPadData
  <1>5. CASE ServerOnPadHostData(p)
    <2>1. UNCHANGED <<current, pending>> /\ From(p, "PadHostData")
      BY <1>5 DEF ServerOnPadHostData, server
    <2>2. MovesDown
      <3>1. CASE Head(up[p]).value = 0
        BY <1>5, <3>1, NoShift DEF ServerOnPadHostData
      <3>2. CASE Head(up[p]).value # 0
        <4>1. PadData(Head(up[p]).value) \in Msg /\ PadData(Head(up[p]).value).type \notin Golf
          BY <1>2, <2>1, FromType
        <4> QED
          BY <1>5, <3>2, <4>1, ShiftSentTo DEF ServerOnPadHostData
      <3> QED
        BY <3>1, <3>2
    <2> QED
      BY <1>1, <2>1, <2>2, ShiftTaken
  <1>6. CASE ServerKicks(p)
    <2>1. UNCHANGED <<current, pending>>
      BY <1>6 DEF ServerKicks
    <2>2. MovesUp
      <3> SUFFICES ASSUME NEW q \in Player PROVE \E d \in Nat : Shifted(up[q], up'[q], d)
        BY DEF MovesUp
      <3>1. up[q] \in Seq(Msg)
        BY DEF Types
      <3>2. Shifted(up[q], up[q], 0) /\ Shifted(up[q], <<>>, 0)
        BY <3>1, ShiftedBy
      <3>3. up'[q] = up[q] \/ up'[q] = <<>>
        BY <1>6 DEF ServerKicks, Types
      <3> QED
        BY <3>2, <3>3
    <2>3. MovesDown
      BY <1>2, <1>6, ShiftSentTo DEF ServerKicks
    <2> QED
      BY <1>1, <2>1, <2>2, <2>3
  <1>7. CASE ServerStops
    <2>1. UNCHANGED <<current, pending>> /\ MovesUp /\ MovesDown
      BY <1>2, <1>7, NoShift, ShiftSentTo DEF ServerStops
    <2> QED
      BY <1>1, <2>1
  <1>8. CASE ServerOnGolfRequest(p)
    <2> DEFINE r == Head(up[p]).value
    <2>1. CASE r \in members /\ pending = 0 /\ current # r
      <3>1. /\ From(p, "GolfRequest") /\ pending' = r /\ SendTo({r}, Signal("GolfPrepare"))
            /\ current' = current
        BY <1>8, <2>1 DEF ServerOnGolfRequest
      <3>2. r \in Player
        BY <2>1 DEF Types
      <3> HIDE DEF r
      <3> QED
        BY <1>0, <2>1, <3>1, <3>2, RequestStep
    <2>2. CASE ~(r \in members /\ pending = 0 /\ current # r)
      <3>1. UNCHANGED <<current, pending, down>> /\ From(p, "GolfRequest")
        BY <1>8, <2>2 DEF ServerOnGolfRequest
      <3> QED
        BY <1>1, <3>1, NoShift, ShiftTaken
    <2> QED
      BY <2>1, <2>2
  <1>9. CASE ServerOnGolfPrepare(p)
    <2>1. From(p, "GolfPrepare") /\ Answer(p, 1) /\ pending' = pending
      BY <1>3, <1>9 DEF ServerOnGolfPrepare, Answer
    <2>2. pending # 0
      BY <2>1, Constants DEF Stages
    <2>3. current' = 0 /\ SendTo(members, GolfSwitch(0))
      BY <1>9, <2>2 DEF ServerOnGolfPrepare
    <2> QED
      BY <1>0, <2>1, <2>3, ReadyStep
  <1>10. CASE ServerOnGolfRelease(p)
    <2>1. From(p, "GolfRelease") /\ Release(p, 1) /\ UNCHANGED <<current, pending>>
      BY <1>3, <1>10 DEF ServerOnGolfRelease, Release, server
    <2>2. pending # 0
      BY <2>1 DEF Stages
    <2>3. SendTo(members, GolfSwitch(pending))
      BY <1>10, <2>2 DEF ServerOnGolfRelease
    <2> QED
      BY <1>0, <2>1, <2>3, HandOverStep
  <1>11. CASE ServerOnGolfAcquire(p)
    <2>1. From(p, "GolfAcquire") /\ Acquire(p, 1) /\ down' = down
      BY <1>3, <1>11 DEF ServerOnGolfAcquire, Acquire
    <2>2. pending # 0
      BY <2>1, Constants DEF Stages
    <2>3. current' = pending /\ pending' = 0
      BY <1>11, <2>2 DEF ServerOnGolfAcquire
    <2> QED
      BY <1>0, <2>1, <2>3, AcquiredStep
  <1> QED
    BY <1>4, <1>5, <1>6, <1>7, <1>8, <1>9, <1>10, <1>11 DEF Server

LEMMA GuiControl ==
  ASSUME Types, Booting, ~early, OneToken, OneQuestion, Stages, Parked, NEW p \in Player,
         StartGame(p) \/ \E q \in Player : RequestGolfControl(p, q)
  PROVE  OneToken' /\ OneQuestion' /\ Stages' /\ Parked'
  <1>1. CASE StartGame(p)
    <2>1. /\ UNCHANGED <<current, pending, up, down, received>> /\ ~booted[p]
          /\ cpu' = [cpu EXCEPT ![p] = "top"] /\ wait' = [wait EXCEPT ![p] = FALSE]
          /\ view' = [view EXCEPT ![p] = 1]
      BY <1>1 DEF StartGame, server, net
    <2>2. view[p] = 1 /\ ~received[p] /\ ~wait[p]
      BY <2>1 DEF Booting, Asleep
    <2>3. \A q \in Player : (Holds(q)' <=> Holds(q)) /\ (Armed(q)' => Armed(q))
      BY <2>1, <2>2 DEF Holds, Armed, Types
    <2>4. \A q \in Player : Summoned(q) => wait'[q] /\ cpu'[q] \in Park
      BY <2>1, <2>2 DEF Parked, Park, Types
    <2> QED
      BY <2>1, <2>3, <2>4, NoShift, NeutralStep DEF MovesUp, MovesDown
  <1>2. ASSUME NEW q \in Player, RequestGolfControl(p, q)
        PROVE  OneToken' /\ OneQuestion' /\ Stages' /\ Parked'
    <2>1. /\ UNCHANGED <<current, pending, down, received, view, wait, cpu>>
          /\ SendAsync(p, GolfRequest(q))
      BY <1>2 DEF RequestGolfControl, server, pause
    <2>2. MovesUp /\ MovesDown
      <3>1. GolfRequest(q) \in Msg /\ GolfRequest(q).type \notin Golf
        BY Messages, Constants DEF Golf
      <3> QED
        BY <2>1, <3>1, NoShift, ShiftSent
    <2>3. \A r \in Player : (Holds(r)' <=> Holds(r)) /\ (Armed(r)' => Armed(r))
      BY <2>1 DEF Holds, Armed
    <2>4. \A r \in Player : Summoned(r) => wait'[r] /\ cpu'[r] \in Park
      BY <2>1 DEF Parked, Park
    <2> QED
      BY <2>1, <2>2, <2>3, <2>4, NeutralStep DEF MovesUp, MovesDown
  <1> QED
    BY <1>1, <1>2

Switching == ~early => OneToken /\ OneQuestion /\ Stages /\ Parked

LEMMA EarlyStays ==
  ASSUME Types, [Next]_vars, early
  PROVE  early'
  <1>1. ASSUME NEW p \in Player, CPU(p) PROVE early'
    BY <1>1 DEF hist, CPU, Pause, Leave, ClearReceived, Woken, PollLocalPad, SkipHostPoll, WaitFirst,
                BuildInput, SendInput, Pop
  <1>2. ASSUME NEW p \in Player, Client(p) PROVE early'
    <2>1. Received(p)
      BY <1>2 DEF Client, OnGolfSwitch, OnGolfPrepare, OnPadData, OnPadHostData, OnStop
    <2> QED
      BY <2>1 DEF Received
  <1>3. ASSUME NEW p \in Player, Server(p) \/ ServerStops PROVE early'
    BY <1>3 DEF hist, Server, ServerStops, ServerOnPadData, ServerOnPadHostData, ServerKicks,
                ServerOnGolfRequest, ServerOnGolfPrepare, ServerOnGolfRelease,
                ServerOnGolfAcquire, Rest
  <1>4. ASSUME NEW p \in Player, StartGame(p) \/ \E q \in Player : RequestGolfControl(p, q)
        PROVE  early'
    BY <1>4 DEF hist, StartGame, RequestGolfControl
  <1>5. CASE UNCHANGED vars
    BY <1>5 DEF vars, hist
  <1> QED
    BY <1>1, <1>2, <1>3, <1>4, <1>5, Constants DEF Next

LEMMA SwitchingStep ==
  ASSUME Types, Types', Values, Booting, Switching, [Next]_vars
  PROVE  Switching'
  <1> SUFFICES ASSUME ~early' PROVE OneToken' /\ OneQuestion' /\ Stages' /\ Parked'
    BY DEF Switching
  <1>0. ~early /\ OneToken /\ OneQuestion /\ Stages /\ Parked
    BY EarlyStays DEF Switching, Types
  <1>1. CASE UNCHANGED vars
    <2>1. UNCHANGED <<current, pending, view, received, wait, cpu, up, down>>
      BY <1>1 DEF vars, server, net, pause
    <2>2. \A q \in Player : (Holds(q)' <=> Holds(q)) /\ (Armed(q)' => Armed(q))
      BY <2>1 DEF Holds, Armed
    <2>3. \A q \in Player : Summoned(q) => wait'[q] /\ cpu'[q] \in Park
      BY <1>0, <2>1 DEF Parked, Park
    <2> QED
      BY <1>0, <2>1, <2>2, <2>3, NoShift, NeutralStep DEF MovesUp, MovesDown
  <1>2. CASE ServerStops
    BY <1>0, <1>2, Constants, ServerControl
  <1>3. ASSUME NEW p \in Player, CPU(p) \/ Client(p) \/ Server(p) \/ StartGame(p)
                                 \/ \E q \in Player : RequestGolfControl(p, q)
        PROVE  OneToken' /\ OneQuestion' /\ Stages' /\ Parked'
    BY <1>0, <1>3, CPUControl, ClientControl, ServerControl, GuiControl
  <1> QED
    BY <1>1, <1>2, <1>3 DEF Next

LEMMA GolferFedStep ==
  ASSUME Types, Values, Fed, Switching, GolferFed, [Next]_vars
  PROVE  GolferFed'
  <1> SUFFICES ASSUME ~early', NEW q \in Player, running'[q], view'[q] = q, cpu'[q] = "buffer"
               PROVE  buffer'[q] # <<>>
    BY DEF GolferFed
  <1>0. /\ ~early /\ OneToken /\ Stages /\ Parked
        /\ (running[q] /\ view[q] = q /\ cpu[q] = "buffer" => buffer[q] # <<>>)
    BY EarlyStays DEF Switching, Types, GolferFed
  <1>1. CASE UNCHANGED <<running, view, cpu, buffer>>
    BY <1>0, <1>1
  <1>2. ASSUME NEW p \in Player, CPU(p) PROVE buffer'[q] # <<>>
    <2>1. UNCHANGED <<running, view>>
      BY <1>2 DEF CPU, Pause, Leave, ClearReceived, Woken, PollLocalPad, SkipHostPoll, WaitFirst,
         BuildInput, SendInput, Pop
    <2>2. CASE q # p
      <3>1. cpu'[q] = cpu[q] /\ buffer'[q] = buffer[q]
        BY <1>2, <2>2 DEF CPU, Pause, Leave, ClearReceived, Woken, PollLocalPad, SkipHostPoll, WaitFirst,
           BuildInput, SendInput, Pop, pads, Types
      <3> QED
        BY <1>0, <2>1, <3>1
    <2>3. CASE q = p
      <3>1. CASE SendInput(p)
        BY <2>3, <3>1 DEF SendInput, Fed
      <3>2. CASE SkipHostPoll(p)
        BY <2>1, <2>3, <3>2 DEF SkipHostPoll
      <3>3. CASE WaitFirst(p)
        BY <2>1, <2>3, <3>3 DEF WaitFirst, Types
      <3>4. CASE ~SendInput(p) /\ ~SkipHostPoll(p) /\ ~WaitFirst(p)
        <4>1. cpu'[p] # "buffer"
          BY <1>2, <3>4 DEF CPU, Pause, Leave, ClearReceived, Woken, PollLocalPad, BuildInput, Pop, Types
        <4> QED
          BY <2>3, <4>1
      <3> QED
        BY <3>1, <3>2, <3>3, <3>4
    <2> QED
      BY <2>2, <2>3
  <1>3. ASSUME NEW p \in Player, Client(p) PROVE buffer'[q] # <<>>
    <2>0. cpu' = cpu
      BY <1>3 DEF Client, OnGolfSwitch, OnGolfPrepare, OnPadData, OnPadHostData, OnStop, Received
    <2>1. CASE OnGolfSwitch(p)
      <3>1. PICK m \in Message(p, "GolfSwitch") : view' = [view EXCEPT ![p] = m.value]
                                                 /\ UNCHANGED <<running, buffer>>
        BY <2>1 DEF OnGolfSwitch
      <3>2. CASE q = p /\ view[p] # p
        <4>1. m = down[p][1] /\ m.type = "GolfSwitch" /\ 1 \in 1 .. Len(down[p])
          BY MessageShape
        <4>2. Grant(p, 1)
          BY <3>1, <3>2, <4>1 DEF Grant, Switch, At, Types
        <4>3. pending = p /\ current = 0 /\ ~Holds(p)
          BY <1>0, <3>2, <4>2 DEF Stages, Holds
        <4>4. cpu[p] # "buffer"
          BY <1>0, <4>3 DEF Parked, Summoned
        <4> QED
          BY <2>0, <3>2, <4>4
      <3>3. CASE ~(q = p /\ view[p] # p)
        <4>1. view[q] = q
          BY <3>1, <3>3 DEF Types
        <4> QED
          BY <1>0, <2>0, <3>1, <4>1
      <3> QED
        BY <3>2, <3>3
    <2>2. CASE OnPadData(p)
      <3>1. PICK m \in Message(p, "PadData") : buffer' = [buffer EXCEPT ![p] = Append(@, m.value)]
                                              /\ UNCHANGED <<running, view>>
        BY <2>2 DEF OnPadData
      <3>2. m.value \in Nat /\ buffer[p] \in Seq(Nat)
        BY MessageShape DEF Types
      <3>3. \A s \in Seq(Nat), v \in Nat : Append(s, v) # <<>>
        OBVIOUS
      <3>4. Append(buffer[p], m.value) # <<>>
        BY <3>2, <3>3
      <3> QED
        BY <1>0, <2>0, <3>1, <3>4 DEF Types
    <2>3. CASE OnStop(p)
      <3>1. running' = [running EXCEPT ![p] = FALSE] /\ UNCHANGED <<view, buffer>>
        BY <2>3 DEF OnStop
      <3>2. running[q]
        BY <3>1 DEF Types
      <3> QED
        BY <1>0, <2>0, <3>1, <3>2
    <2>4. CASE OnGolfPrepare(p) \/ OnPadHostData(p)
      <3>1. UNCHANGED <<running, view, buffer>>
        BY <2>4 DEF OnGolfPrepare, OnPadHostData
      <3> QED
        BY <1>1, <2>0, <3>1
    <2> QED
      BY <1>3, <2>1, <2>2, <2>3, <2>4 DEF Client
  <1>4. ASSUME NEW p \in Player, StartGame(p) PROVE buffer'[q] # <<>>
    <2>1. q # p
      BY <1>4 DEF StartGame, Types
    <2> QED
      BY <1>0, <1>4, <2>1 DEF StartGame, Types
  <1>5. CASE UNCHANGED vars \/ ServerStops \/ \E p \in Player : Server(p)
    <2>1. UNCHANGED <<running, view, cpu, buffer>>
      BY <1>5 DEF vars, ServerStops, Server, ServerOnPadData, ServerOnPadHostData, ServerKicks,
           ServerOnGolfRequest, ServerOnGolfPrepare, ServerOnGolfRelease, ServerOnGolfAcquire,
           Rest, pads
    <2> QED
      BY <1>1, <2>1
  <1>6. ASSUME NEW p \in Player, NEW r \in Player, RequestGolfControl(p, r)
        PROVE  buffer'[q] # <<>>
    BY <1>1, <1>6 DEF RequestGolfControl, pads
  <1> QED
    BY <1>2, <1>3, <1>4, <1>5, <1>6 DEF Next

Control == Types /\ Values /\ Booting /\ Fed /\ Switching /\ GolferFed

LEMMA ControlInit == Init => Control
  <1> SUFFICES ASSUME Init PROVE Control
    OBVIOUS
  <1>1. Types /\ Values
    BY TypesInit
  <1>2. Booting /\ Fed /\ GolferFed
    BY DEF Init, Booting, Asleep, Fed, GolferFed
  <1>3. \A p \in Player : \A k \in Nat :
          /\ ~Release(p, k) /\ ~Acquire(p, k) /\ ~Answer(p, k)
          /\ ~Switch(p, k) /\ ~Grant(p, k) /\ ~Asked(p, k)
    BY DEF Init, Release, Acquire, Answer, Switch, Grant, Asked, At
  <1>4. \A p \in Player : ~Armed(p) /\ (Holds(p) <=> p = 1)
    BY DEF Init, Armed, Holds
  <1>5. current = 1 /\ pending = 0
    BY DEF Init
  <1>6. OneToken /\ OneQuestion /\ Stages /\ Parked
    <2>1. OneToken
      BY <1>3, <1>4 DEF OneToken
    <2>2. OneQuestion
      BY <1>3, <1>4 DEF OneQuestion
    <2>3. Stages
      BY <1>3, <1>4, <1>5 DEF Stages
    <2>4. Parked
      BY <1>3, <1>5 DEF Parked, Summoned
    <2> QED
      BY <2>1, <2>2, <2>3, <2>4
  <1> QED
    BY <1>1, <1>2, <1>6 DEF Control, Switching

LEMMA ControlStep == Control /\ [Next]_vars => Control'
  BY TypesStep, ValuesStep, BootingStep, FedStep, SwitchingStep, GolferFedStep DEF Control

LEMMA ControlHolds == Spec => []Control
  BY ControlInit, ControlStep, PTL DEF Spec

(* Two clients never take themselves for the golfer at the same time: from *)
(* OnGolfSwitch of the one to OnGolfSwitch of the next, the control is in  *)
(* a GolfRelease or in the GolfSwitch that names the next golfer, and      *)
(* there is one of these at most.                                          *)
THEOREM OneGolferAtATime == Spec => []OneGolfer
  <1>1. Control => OneGolfer
    BY DEF Control, Switching, OneToken, Holds, OneGolfer
  <1> QED
    BY <1>1, ControlHolds, PTL

(* A golfer is never at the end of GetNetPads with nothing to take: it     *)
(* became the golfer at the head of GetNetPads, and has made or kept an    *)
(* input since (SendPadHostPoll).                                          *)
THEOREM GolferIsFed == Spec => []GolferFed
  <1>1. Control => GolferFed
    BY DEF Control
  <1> QED
    BY <1>1, ControlHolds, PTL

=============================================================================
