----------------------- MODULE NetPlayGolfInputProofs -----------------------
(***************************************************************************)
(* What becomes of the inputs of a golf game, proved for any number of     *)
(* players, polls and changes of control: nobody is thrown out and all     *)
(* emulators agree, as long as no golfer's release overtakes its input.    *)
(*                                                                         *)
(* The inputs are numbered as they are made.  The server has passed on the *)
(* first f of them, and each client has, or has on its way in order, all   *)
(* of these (Downstream); the rest is with the one who has the control or  *)
(* has just released it, or on its way from there (Upstream).  The next    *)
(* golfer is named after the last of them (LastWord), so it has them all   *)
(* before it makes the next.  Most steps keep these streams (FlowKeeps);   *)
(* the ones that make, send, pass on or buffer an input, and the ones that *)
(* move the control, have a lemma each.                                    *)
(***************************************************************************)
EXTENDS NetPlayGolfProofs

(* While no release overtakes an input, inputs come from the one who has   *)
(* the control, or before its release.                                     *)
Covered(s) ==
  \A k \in Nat : At(s, k, "PadHostData") => \E l \in Nat : l > k /\ At(s, l, "GolfRelease")
Owned ==
  \A p \in Player : /\ cpu[p] \in {"first", "check", "built"} => Holds(p)
                    /\ packet[p] # 0 => cpu[p] = "built"
                    /\ Holds(p) \/ Covered(up[p])

(* The messages of M in a queue bring the inputs from a + 1 to b in order. *)
In(s, k, M) == k \in 1 .. Len(s) /\ s[k] \in M
Stream(s, M, a, b) ==
  /\ \A k \in Nat : In(s, k, M) => a < s[k].value /\ s[k].value <= b
  /\ \A k, l \in Nat : In(s, k, M) /\ In(s, l, M) /\ k < l => s[k].value < s[l].value
  /\ \A v \in Nat : a < v /\ v <= b => \E k \in Nat : In(s, k, M) /\ s[k].value = v

(* The inputs are numbered in the order they are made.  The server has     *)
(* passed on the first f of them, and what a client does not have of these *)
(* is on its way to it; the others are with the one who has, or has just   *)
(* released, the control, or on their way to the server.                   *)
Made == [type : {"PadHostData"}, value : Nat \ {0}]
Passed == [type : {"PadData"}, value : Nat]
Has(p) == Len(taken[p]) + Len(buffer[p])
Owner(p) == Holds(p) \/ \E k \in Nat : Release(p, k)
Built(p) == IF packet[p] = 0 THEN inputs ELSE inputs - 1

Counted ==
  \A p \in Player : /\ \A k \in 1 .. Len(taken[p]) : taken[p][k] = k
                    /\ \A k \in 1 .. Len(buffer[p]) : buffer[p][k] = Len(taken[p]) + k

(* Nothing comes after the switch that names the next golfer. *)
LastWord(p) == \A k, l \in Nat : Grant(p, k) /\ l > k => ~In(down[p], l, Passed)

Downstream(f) ==
  \A p \in Player : /\ Stream(down[p], Passed, Has(p), f) /\ LastWord(p)
                    /\ ~Owner(p) => Has(p) <= f

Upstream(f) ==
  /\ \A p \in Player : Owner(p) => /\ Stream(up[p], Made, f, Built(p)) /\ f <= Built(p)
                                   /\ packet[p] \in {0, inputs} /\ Has(p) = inputs
  /\ \A p \in Player : ~Owner(p) => packet[p] = 0 /\ \A k \in Nat : ~In(up[p], k, Made)
  /\ (\A p \in Player : ~Owner(p)) => f = inputs

Flow == \E f \in 0 .. inputs : Downstream(f) /\ Upstream(f)

Inputs == ~early /\ ~late => members = Player /\ Owned /\ Counted /\ Flow

-----------------------------------------------------------------------------
(* Inputs come from the one who has the control. *)
LEMMA CoveredTail ==
  ASSUME NEW s \in Seq(Msg), s # <<>>, Covered(s)
  PROVE  Covered(Tail(s))
  <1> SUFFICES ASSUME NEW k \in Nat, At(Tail(s), k, "PadHostData")
               PROVE  \E l \in Nat : l > k /\ At(Tail(s), l, "GolfRelease")
    BY DEF Covered
  <1>1. k # 0 /\ At(s, k + 1, "PadHostData")
    BY AtTail
  <1>2. PICK l \in Nat : l > k + 1 /\ At(s, l, "GolfRelease")
    BY <1>1 DEF Covered
  <1>3. l - 1 \in Nat /\ l - 1 > k /\ l - 1 # 0 /\ (l - 1) + 1 = l
    BY <1>2
  <1>4. At(Tail(s), l - 1, "GolfRelease")
    BY <1>2, <1>3, AtTail
  <1> QED
    BY <1>3, <1>4

LEMMA CoveredAppend ==
  ASSUME NEW s \in Seq(Msg), NEW m \in Msg, Covered(s), m.type # "PadHostData"
  PROVE  Covered(Append(s, m))
  <1>1. ASSUME NEW k \in Nat, At(Append(s, m), k, "PadHostData") PROVE At(s, k, "PadHostData")
    <2>1. At(Append(s, m), k, "PadHostData") <=>
            At(s, k, "PadHostData") \/ (k = Len(s) + 1 /\ m.type = "PadHostData")
      BY AtAppend
    <2> QED
      BY <1>1, <2>1
  <1>2. \A k \in Nat : At(s, k, "GolfRelease") => At(Append(s, m), k, "GolfRelease")
    BY AtAppend
  <1> QED
    BY <1>1, <1>2 DEF Covered

LEMMA CoveredInsert ==
  ASSUME NEW s \in Seq(Msg), NEW m \in Msg, m.type = "GolfPrepare", NEW j \in 0 .. Len(s),
         \A i \in j + 1 .. Len(s) : Queued(s[i]), Covered(s)
  PROVE  Covered(Insert(s, j, m))
  <1> SUFFICES ASSUME NEW k \in Nat, At(Insert(s, j, m), k, "PadHostData")
               PROVE  \E l \in Nat : l > k /\ At(Insert(s, j, m), l, "GolfRelease")
    BY DEF Covered
  <1>1. /\ Len(Insert(s, j, m)) = Len(s) + 1 /\ Len(s) \in Nat /\ j \in Nat
        /\ \A i \in 1 .. j : Insert(s, j, m)[i] = s[i]
        /\ Insert(s, j, m)[j + 1] = m
        /\ \A i \in j + 2 .. Len(s) + 1 : Insert(s, j, m)[i] = s[i - 1]
    BY InsertFacts
  <1>2. \A i \in j + 1 .. Len(s) : s[i].type # "GolfRelease"
    BY DEF Queued
  <1>3. \A l \in Nat : At(Insert(s, j, m), l, "GolfRelease") <=> At(s, l, "GolfRelease")
    <2> TAKE l \in Nat
    <2>1. At(Insert(s, j, m), l, "GolfRelease") <=>
            At(s, l, "GolfRelease") \/ (l = j + 1 /\ m.type = "GolfRelease")
      BY <1>2, AtInsert
    <2> QED
      BY <2>1
  <1>4. CASE k <= j
    <2>1. At(s, k, "PadHostData")
      BY <1>1, <1>4 DEF At
    <2> QED
      BY <1>3, <2>1 DEF Covered
  <1>5. CASE k = j + 1
    BY <1>1, <1>5 DEF At
  <1>6. CASE k > j + 1
    <2>1. k \in j + 2 .. Len(s) + 1 /\ k - 1 \in Nat /\ k - 1 \in j + 1 .. Len(s)
      BY <1>1, <1>6 DEF At
    <2>2. At(s, k - 1, "PadHostData")
      BY <1>1, <2>1 DEF At
    <2>3. PICK l \in Nat : l > k - 1 /\ At(s, l, "GolfRelease")
      BY <2>1, <2>2 DEF Covered
    <2>4. l \in j + 1 .. Len(s)
      BY <1>1, <2>1, <2>3 DEF At
    <2> QED
      BY <1>2, <2>3, <2>4 DEF At
  <1> QED
    BY <1>1, <1>4, <1>5, <1>6

LEMMA CoveredRelease ==
  ASSUME NEW s \in Seq(Msg), NEW m \in Msg, m.type = "GolfRelease", NEW j \in 0 .. Len(s),
         \A i \in j + 1 .. Len(s) : s[i].type # "PadHostData"
  PROVE  Covered(Insert(s, j, m)) /\ At(Insert(s, j, m), j + 1, "GolfRelease") /\ j + 1 \in Nat
  <1>1. /\ Len(Insert(s, j, m)) = Len(s) + 1 /\ Len(s) \in Nat /\ j \in Nat
        /\ \A i \in 1 .. j : Insert(s, j, m)[i] = s[i]
        /\ Insert(s, j, m)[j + 1] = m
        /\ \A i \in j + 2 .. Len(s) + 1 : Insert(s, j, m)[i] = s[i - 1]
    BY InsertFacts
  <1>2. At(Insert(s, j, m), j + 1, "GolfRelease") /\ j + 1 \in Nat
    BY <1>1 DEF At
  <1>3. ASSUME NEW k \in Nat, At(Insert(s, j, m), k, "PadHostData") PROVE j + 1 > k
    <2>1. k # j + 1
      BY <1>1, <1>3 DEF At
    <2>2. CASE k > j + 1
      <3>1. k \in j + 2 .. Len(s) + 1 /\ k - 1 \in j + 1 .. Len(s)
        BY <1>1, <1>3, <2>2 DEF At
      <3> QED
        BY <1>1, <1>3, <3>1 DEF At
    <2> QED
      BY <1>1, <2>1, <2>2
  <1> QED
    BY <1>2, <1>3 DEF Covered

(* While nobody has been thrown out, what is sent is on its way. *)
LEMMA SendReaches ==
  ASSUME Types, members = Player, NEW p \in Player, NEW k \in Flushed(p), NEW m, Send(p, k, m)
  PROVE  /\ k \in 0 .. Len(up[p]) /\ \A i \in k + 1 .. Len(up[p]) : Queued(up[p][i])
         /\ up'[p] = Insert(up[p], k, m) /\ \A q \in Player : q # p => up'[q] = up[q]
  <1>1. k \in 0 .. Len(up[p]) /\ \A i \in k + 1 .. Len(up[p]) : Queued(up[p][i])
    BY DEF Flushed
  <1>2. up'[p] = Insert(up[p], k, m) /\ \A q \in Player : q # p => up'[q] = up[q]
    BY DEF Send, Insert, Types
  <1> QED
    BY <1>1, <1>2

LEMMA LateStays ==
  ASSUME Types, [Next]_vars, late
  PROVE  late'
  <1>1. ASSUME NEW p \in Player, CPU(p) PROVE late'
    BY <1>1 DEF hist, CPU, Pause, Leave, ClearReceived, Woken, PollLocalPad, SkipHostPoll, WaitFirst,
                BuildInput, SendInput, Pop
  <1>2. ASSUME NEW p \in Player, Client(p) PROVE late'
    <2>1. CASE OnGolfSwitch(p)
      <3>1. late' = late \/ \E k \in Flushed(p) : late' = (late \/ Overtaken(p, k))
        BY <2>1 DEF OnGolfSwitch
      <3> QED
        BY <3>1
    <2> QED
      BY <1>2, <2>1 DEF Client, OnGolfPrepare, OnPadData, OnPadHostData, OnStop
  <1>3. ASSUME NEW p \in Player, Server(p) \/ ServerStops PROVE late'
    BY <1>3 DEF hist, Server, ServerStops, ServerOnPadData, ServerOnPadHostData, ServerKicks,
                ServerOnGolfRequest, ServerOnGolfPrepare, ServerOnGolfRelease,
                ServerOnGolfAcquire, Rest
  <1>4. ASSUME NEW p \in Player, StartGame(p) \/ \E q \in Player : RequestGolfControl(p, q)
        PROVE  late'
    BY <1>4 DEF hist, StartGame, RequestGolfControl
  <1>5. CASE UNCHANGED vars
    BY <1>5 DEF vars, hist
  <1> QED
    BY <1>1, <1>2, <1>3, <1>4, <1>5, Constants DEF Next

(* What the proofs below start from. *)
InTime == /\ Control /\ OneToken /\ OneQuestion /\ Stages /\ Parked
          /\ ~early /\ ~late /\ ~early' /\ ~late' /\ members = Player /\ Owned

LEMMA CPUOwned ==
  ASSUME InTime, NEW p \in Player, CPU(p)
  PROVE  Owned' /\ members' = Player
  <1>0. Types /\ Owned /\ members = Player
    BY DEF InTime, Control
  <1>1. UNCHANGED <<members, view>>
    BY DEF CPU, Pause, Leave, ClearReceived, Woken, PollLocalPad, SkipHostPoll, WaitFirst,
         BuildInput, SendInput, Pop, server
  <1>2. \A q \in Player : Holds(q)' <=> Holds(q)
    BY <1>1 DEF Holds
  <1>3. \A q \in Player : Holds(q) \/ Covered(up'[q])
    <2> SUFFICES ASSUME NEW q \in Player, ~Holds(q) PROVE Covered(up'[q])
      OBVIOUS
    <2>1. Covered(up[q]) /\ up[q] \in Seq(Msg)
      BY <1>0 DEF Owned, Types
    <2>2. CASE Pause(p)
      <3>1. /\ Signal("GolfPrepare") \in Msg /\ Signal("GolfPrepare").type = "GolfPrepare"
        BY Messages DEF Kind
      <3>2. CASE received[p]
        <4>1. PICK j \in Flushed(p) : Send(p, j, Signal("GolfPrepare"))
          BY <2>2, <3>2 DEF Pause
        <4>2. /\ j \in 0 .. Len(up[p]) /\ \A i \in j + 1 .. Len(up[p]) : Queued(up[p][i])
              /\ up'[p] = Insert(up[p], j, Signal("GolfPrepare"))
              /\ \A r \in Player : r # p => up'[r] = up[r]
          BY <1>0, <4>1, SendReaches
        <4>3. CASE q = p
          BY <2>1, <3>1, <4>2, <4>3, CoveredInsert
        <4> QED
          BY <2>1, <4>2, <4>3
      <3>3. CASE ~received[p]
        BY <2>1, <2>2, <3>3 DEF Pause
      <3> QED
        BY <3>2, <3>3
    <2>3. CASE PollLocalPad(p)
      <3>1. PadData(p) \in Msg /\ PadData(p).type # "PadHostData"
        BY Messages, Constants
      <3>2. up' = up \/ SendAsync(p, PadData(p))
        BY <2>3 DEF PollLocalPad
      <3>3. up'[q] = up[q] \/ up'[q] = Append(up[q], PadData(p))
        BY <1>0, <3>1, <3>2, SentCases
      <3> QED
        BY <2>1, <3>1, <3>3, CoveredAppend
    <2>4. CASE SendInput(p)
      <3>1. q # p
        BY <1>0, <2>4 DEF SendInput, Owned
      <3>2. up'[q] = up[q]
        BY <1>0, <2>4, <3>1 DEF SendInput, SendAsync, Types
      <3> QED
        BY <2>1, <3>2
    <2>5. CASE ~Pause(p) /\ ~PollLocalPad(p) /\ ~SendInput(p)
      <3>1. up' = up
        BY <2>5 DEF CPU, Leave, ClearReceived, Woken, SkipHostPoll, WaitFirst, BuildInput, Pop, net
      <3> QED
        BY <2>1, <3>1
    <2> QED
      BY <2>2, <2>3, <2>4, <2>5
  <1>4. \A q \in Player : cpu'[q] \in {"first", "check", "built"} => Holds(q)
    <2>1. CASE WaitFirst(p) \/ BuildInput(p)
      <3>1. Holds(p)
        BY <1>0, <2>1 DEF WaitFirst, BuildInput, AsGolfer, Owned, Holds
      <3>2. \A q \in Player : q # p => cpu'[q] = cpu[q]
        BY <1>0, <2>1 DEF WaitFirst, BuildInput, Types
      <3> QED
        BY <1>0, <3>1, <3>2 DEF Owned
    <2>2. CASE ~WaitFirst(p) /\ ~BuildInput(p)
      <3>1. \E w \in {"off", "answered", "paused", "top", "host", "buffer"} :
              cpu' = [cpu EXCEPT ![p] = w]
        BY <2>2 DEF CPU, Pause, Leave, ClearReceived, Woken, PollLocalPad, SkipHostPoll, SendInput, Pop
      <3> QED
        BY <1>0, <3>1 DEF Owned, Types
    <2> QED
      BY <2>1, <2>2
  <1>5. \A q \in Player : packet'[q] # 0 => cpu'[q] = "built"
    <2>1. \A q \in Player : q # p => cpu'[q] = cpu[q] /\ packet'[q] = packet[q]
      BY <1>0 DEF CPU, Pause, Leave, ClearReceived, Woken, PollLocalPad, SkipHostPoll, WaitFirst,
           BuildInput, SendInput, Pop, pads, Types
    <2>2. packet'[p] # 0 => cpu'[p] = "built"
      <3>1. CASE BuildInput(p)
        BY <1>0, <3>1 DEF BuildInput, Types
      <3>2. CASE SendInput(p)
        BY <1>0, <3>2 DEF SendInput, Types
      <3>3. CASE ~BuildInput(p) /\ ~SendInput(p)
        <4>1. cpu[p] # "built" /\ packet' = packet
          BY <3>3 DEF CPU, Pause, Leave, ClearReceived, Woken, PollLocalPad, SkipHostPoll, WaitFirst,
              AsGolfer, Pop, pads
        <4> QED
          BY <1>0, <4>1 DEF Owned
      <3> QED
        BY <3>1, <3>2, <3>3
    <2> QED
      BY <1>0, <2>1, <2>2 DEF Owned
  <1> QED
    BY <1>0, <1>1, <1>2, <1>3, <1>4, <1>5 DEF Owned

LEMMA ClientOwned ==
  ASSUME InTime, NEW p \in Player, Client(p)
  PROVE  Owned' /\ members' = Player
  <1>0. Types /\ Values /\ Owned /\ members = Player /\ OneToken /\ ~late'
    BY DEF InTime, Control
  <1>1. UNCHANGED <<members, cpu, packet>>
    BY DEF Client, OnGolfSwitch, OnGolfPrepare, OnPadData, OnPadHostData, OnStop, Received, server
  <1>2. CASE OnGolfSwitch(p)
    <2>1. PICK m \in Message(p, "GolfSwitch"), k \in Flushed(p) :
            /\ view' = [view EXCEPT ![p] = m.value]
            /\ \/ /\ view[p] = p
                  /\ Send(p, k, Signal("GolfRelease"))
                  /\ late' = (late \/ Overtaken(p, k))
               \/ /\ view[p] # p /\ m.value = p
                  /\ Send(p, k, Signal("GolfAcquire"))
               \/ /\ view[p] # p /\ m.value # p
                  /\ up' = up
      BY <1>2 DEF OnGolfSwitch
    <2>2. Signal("GolfRelease") \in Msg /\ Signal("GolfRelease").type = "GolfRelease"
      BY Messages DEF Kind
    <2>3. \A q \in Player : q # p => up'[q] = up[q] /\ (Holds(q)' <=> Holds(q))
      BY <1>0, <2>1 DEF Send, Holds, Types
    <2>4. up[p] \in Seq(Msg)
      BY <1>0 DEF Types
    <2>5. CASE view[p] = p
      <3>1. k \in 0 .. Len(up[p]) /\ up'[p] = Insert(up[p], k, Signal("GolfRelease"))
        BY <1>0, <2>1, <2>5, SendReaches
      <3>2. /\ cpu[p] \notin {"first", "check", "built"}
            /\ \A i \in k + 1 .. Len(up[p]) : up[p][i].type # "PadHostData"
        BY <1>0, <2>1, <2>5 DEF Overtaken
      <3>3. Covered(up'[p])
        BY <2>2, <2>4, <3>1, <3>2, CoveredRelease
      <3> QED
        BY <1>0, <1>1, <2>3, <3>2, <3>3 DEF Owned
    <2>6. CASE view[p] # p /\ m.value = p
      <3>1. Holds(p)'
        BY <1>0, <2>1, <2>6 DEF Holds, Types
      <3> QED
        BY <1>0, <1>1, <2>3, <3>1 DEF Owned
    <2>7. CASE view[p] # p /\ m.value # p
      <3>1. ~Holds(p) /\ up' = up
        BY <2>1, <2>7 DEF Holds
      <3> QED
        BY <1>0, <1>1, <2>3, <3>1 DEF Owned
    <2> QED
      BY <2>5, <2>6, <2>7
  <1>3. CASE ~OnGolfSwitch(p)
    <2>1. UNCHANGED <<view, up>>
      BY <1>3 DEF Client, OnGolfPrepare, OnPadData, OnPadHostData, OnStop
    <2> QED
      BY <1>0, <1>1, <2>1 DEF Owned, Holds
  <1> QED
    BY <1>2, <1>3

LEMMA ServerOwned ==
  ASSUME InTime, NEW p \in Player, Server(p) \/ ServerStops
  PROVE  /\ Owned' /\ members' = Player
         /\ ~ServerKicks(p)
  <1>0. Types /\ Owned /\ members = Player /\ OneToken /\ Stages
    BY DEF InTime, Control
  <1>1. ASSUME ServerKicks(p) PROVE FALSE
    <2>1. up[p] \in Seq(Msg) /\ up[p] # <<>> /\ Head(up[p]).type = "PadHostData"
      BY <1>0, <1>1 DEF ServerKicks, Types
    <2>2. At(up[p], 1, "PadHostData")
      BY <2>1, AtTail
    <2>3. Holds(p) \/ \E l \in Nat : Release(p, l)
      BY <1>0, <2>2 DEF Owned, Covered, Release
    <2>4. current \in Player /\ current # p
      BY <1>0, <1>1, Constants DEF ServerKicks, Types
    <2> QED
      BY <1>0, <2>3, <2>4, Constants DEF Stages, OneToken
  <1>2. UNCHANGED <<members, cpu, packet, view>>
    BY <1>1 DEF Server, ServerStops, ServerOnPadData, ServerOnPadHostData,
           ServerOnGolfRequest, ServerOnGolfPrepare, ServerOnGolfRelease, ServerOnGolfAcquire,
           Rest, pads, server
  <1>3. \A q \in Player : up'[q] = up[q] \/ (up[q] # <<>> /\ up'[q] = Tail(up[q]))
    <2>1. up' = up \/ \E t : From(p, t)
      BY <1>1 DEF Server, ServerStops, ServerOnPadData, ServerOnPadHostData,
           ServerOnGolfRequest, ServerOnGolfPrepare, ServerOnGolfRelease, ServerOnGolfAcquire
    <2> QED
      BY <1>0, <2>1, FromCases
  <1>4. \A q \in Player : Covered(up[q]) => Covered(up'[q])
    BY <1>0, <1>3, CoveredTail DEF Types
  <1> QED
    BY <1>0, <1>1, <1>2, <1>4 DEF Owned, Holds

LEMMA GuiOwned ==
  ASSUME InTime, NEW p \in Player, StartGame(p) \/ \E q \in Player : RequestGolfControl(p, q)
  PROVE  Owned' /\ members' = Player
  <1>0. Types /\ Owned /\ members = Player /\ Booting /\ ~early
    BY DEF InTime, Control
  <1>1. CASE StartGame(p)
    <2>1. /\ UNCHANGED <<members, up, packet>> /\ ~booted[p]
          /\ cpu' = [cpu EXCEPT ![p] = "top"] /\ view' = [view EXCEPT ![p] = 1]
      BY <1>1 DEF StartGame, server, net
    <2>2. view[p] = 1 /\ packet[p] = 0
      BY <1>0, <2>1 DEF Booting, Asleep
    <2>3. \A q \in Player : Holds(q)' <=> Holds(q)
      BY <1>0, <2>1, <2>2 DEF Holds, Types
    <2> QED
      BY <1>0, <2>1, <2>2, <2>3 DEF Owned, Types
  <1>2. ASSUME NEW q \in Player, RequestGolfControl(p, q) PROVE Owned' /\ members' = Player
    <2>1. /\ UNCHANGED <<members, view, cpu, packet>> /\ SendAsync(p, GolfRequest(q))
      BY <1>2 DEF RequestGolfControl, server, pads
    <2>2. GolfRequest(q) \in Msg /\ GolfRequest(q).type # "PadHostData"
      BY Messages, Constants
    <2>3. \A r \in Player : up'[r] = up[r] \/ up'[r] = Append(up[r], GolfRequest(q))
      BY <1>0, <2>1, <2>2, SentCases
    <2>4. \A r \in Player : Covered(up[r]) => Covered(up'[r])
      BY <1>0, <2>2, <2>3, CoveredAppend DEF Types
    <2> QED
      BY <1>0, <2>1, <2>4 DEF Owned, Holds
  <1> QED
    BY <1>1, <1>2

-----------------------------------------------------------------------------
(* Streams: what a queue brings after a message came, went or overtook. *)
LEMMA InAppend ==
  ASSUME NEW s \in Seq(Msg), NEW m \in Msg, NEW M, NEW k \in Nat
  PROVE  /\ In(Append(s, m), k, M) <=> In(s, k, M) \/ (k = Len(s) + 1 /\ m \in M)
         /\ In(s, k, M) => Append(s, m)[k] = s[k] /\ k <= Len(s)
         /\ Append(s, m)[Len(s) + 1] = m /\ Len(s) \in Nat
  <1>1. /\ Len(Append(s, m)) = Len(s) + 1 /\ Len(s) \in Nat /\ Append(s, m)[Len(s) + 1] = m
        /\ \A i \in 1 .. Len(s) : Append(s, m)[i] = s[i]
    BY AppendFacts
  <1> QED
    BY <1>1 DEF In

LEMMA InTail ==
  ASSUME NEW s \in Seq(Msg), s # <<>>, NEW M, NEW k \in Nat
  PROVE  /\ In(Tail(s), k, M) <=> k # 0 /\ In(s, k + 1, M)
         /\ In(Tail(s), k, M) => Tail(s)[k] = s[k + 1]
         /\ In(s, 1, M) <=> Head(s) \in M
         /\ Head(s) = s[1]
  <1>1. /\ Len(Tail(s)) = Len(s) - 1 /\ Len(s) \in Nat /\ Len(s) >= 1 /\ Head(s) = s[1]
        /\ \A i \in 1 .. Len(s) - 1 : Tail(s)[i] = s[i + 1]
    BY TailFacts
  <1> QED
    BY <1>1 DEF In

LEMMA InValue ==
  ASSUME NEW s \in Seq(Msg), NEW M, NEW k \in Nat, In(s, k, M)
  PROVE  s[k] \in M /\ s[k].value \in Nat /\ k # 0
  <1>1. \A i \in 1 .. Len(s) : s[i] \in Msg
    OBVIOUS
  <1> QED
    BY <1>1 DEF In, Msg

LEMMA StreamAppendOther ==
  ASSUME NEW s \in Seq(Msg), NEW m \in Msg, NEW M, m \notin M, NEW a \in Nat, NEW b \in Nat,
         Stream(s, M, a, b)
  PROVE  Stream(Append(s, m), M, a, b)
  <1>1. \A k \in Nat : /\ In(Append(s, m), k, M) <=> In(s, k, M)
                       /\ In(s, k, M) => Append(s, m)[k] = s[k]
    <2> TAKE k \in Nat
    <2>1. /\ In(Append(s, m), k, M) <=> In(s, k, M) \/ (k = Len(s) + 1 /\ m \in M)
          /\ In(s, k, M) => Append(s, m)[k] = s[k] /\ k <= Len(s)
      BY InAppend
    <2> QED
      BY <2>1
  <1> QED
    BY <1>1 DEF Stream

LEMMA StreamTailOther ==
  ASSUME NEW s \in Seq(Msg), s # <<>>, NEW M, Head(s) \notin M, NEW a \in Nat, NEW b \in Nat,
         Stream(s, M, a, b)
  PROVE  Stream(Tail(s), M, a, b)
  <1> DEFINE t == Tail(s)
  <1>1. \A k \in Nat : /\ In(t, k, M) <=> k # 0 /\ In(s, k + 1, M)
                       /\ In(t, k, M) => t[k] = s[k + 1]
    BY InTail
  <1>2. \A k \in Nat : In(s, k, M) => k # 0 /\ k # 1
    BY InTail, InValue
  <1> HIDE DEF t
  <1>3. ASSUME NEW k \in Nat, In(t, k, M)
        PROVE  a < t[k].value /\ t[k].value <= b
    <2>1. In(s, k + 1, M) /\ t[k] = s[k + 1] /\ k + 1 \in Nat
      BY <1>1, <1>3
    <2> QED
      BY <2>1 DEF Stream
  <1>4. ASSUME NEW k \in Nat, NEW l \in Nat, In(t, k, M), In(t, l, M), k < l
        PROVE  t[k].value < t[l].value
    <2>1. /\ In(s, k + 1, M) /\ t[k] = s[k + 1] /\ k + 1 \in Nat
          /\ In(s, l + 1, M) /\ t[l] = s[l + 1] /\ l + 1 \in Nat /\ k + 1 < l + 1
      BY <1>1, <1>4
    <2> QED
      BY <2>1 DEF Stream
  <1>5. \A v \in Nat : a < v /\ v <= b => \E k \in Nat : In(t, k, M) /\ t[k].value = v
    <2> SUFFICES ASSUME NEW v \in Nat, a < v, v <= b
                 PROVE  \E k \in Nat : In(t, k, M) /\ t[k].value = v
      OBVIOUS
    <2>1. PICK k \in Nat : In(s, k, M) /\ s[k].value = v
      BY DEF Stream
    <2>2. k - 1 \in Nat /\ k - 1 # 0 /\ (k - 1) + 1 = k
      BY <1>2, <2>1
    <2>3. In(t, k - 1, M) /\ t[k - 1] = s[k]
      BY <1>1, <2>1, <2>2
    <2> QED
      BY <2>1, <2>2, <2>3
  <1> QED
    BY <1>3, <1>4, <1>5 DEF Stream, t

LEMMA StreamInsertOther ==
  ASSUME NEW s \in Seq(Msg), NEW m \in Msg, NEW M, m \notin M, NEW a \in Nat, NEW b \in Nat,
         NEW j \in 0 .. Len(s), Stream(s, M, a, b)
  PROVE  Stream(Insert(s, j, m), M, a, b)
  <1> DEFINE t == Insert(s, j, m)
             g(k) == IF k <= j THEN k ELSE k - 1
             h(k) == IF k <= j THEN k ELSE k + 1
  <1>1. /\ Len(t) = Len(s) + 1 /\ Len(s) \in Nat /\ j \in Nat /\ j <= Len(s)
        /\ \A i \in 1 .. j : t[i] = s[i]
        /\ t[j + 1] = m
        /\ \A i \in j + 2 .. Len(s) + 1 : t[i] = s[i - 1]
    BY InsertFacts
  <1> HIDE DEF t
  <1>2. ASSUME NEW k \in Nat, In(t, k, M)
        PROVE  /\ g(k) \in Nat /\ In(s, g(k), M) /\ t[k] = s[g(k)] /\ k # j + 1
    <2>1. k \in 1 .. Len(s) + 1 /\ t[k] \in M /\ k # j + 1
      BY <1>1, <1>2 DEF In
    <2>2. CASE k <= j
      BY <1>1, <2>1, <2>2 DEF In
    <2>3. CASE k > j
      <3>1. k \in j + 2 .. Len(s) + 1 /\ k - 1 \in 1 .. Len(s) /\ k - 1 \in Nat
        BY <1>1, <2>1, <2>3
      <3>2. t[k] = s[k - 1] /\ g(k) = k - 1
        BY <1>1, <2>3, <3>1
      <3> QED
        BY <2>1, <3>1, <3>2 DEF In
    <2> QED
      BY <1>1, <2>2, <2>3
  <1>3. ASSUME NEW k \in Nat, In(s, k, M)
        PROVE  h(k) \in Nat /\ In(t, h(k), M) /\ t[h(k)] = s[k]
    <2>1. k \in 1 .. Len(s) /\ s[k] \in M
      BY <1>3 DEF In
    <2>2. CASE k <= j
      BY <1>1, <2>1, <2>2 DEF In
    <2>3. CASE k > j
      <3>1. k + 1 \in j + 2 .. Len(s) + 1 /\ k + 1 \in 1 .. Len(t) /\ (k + 1) - 1 = k
        BY <1>1, <2>1, <2>3
      <3>2. t[k + 1] = s[k] /\ h(k) = k + 1
        BY <1>1, <2>3, <3>1
      <3> QED
        BY <2>1, <3>1, <3>2 DEF In
    <2> QED
      BY <1>1, <2>2, <2>3
  <1>4. \A k, l \in Nat : k < l /\ k # j + 1 /\ l # j + 1 => g(k) < g(l)
    BY <1>1
  <1> HIDE DEF g, h
  <1>5. \A k \in Nat : In(t, k, M) => a < t[k].value /\ t[k].value <= b
    BY <1>2 DEF Stream
  <1>6. \A k, l \in Nat : In(t, k, M) /\ In(t, l, M) /\ k < l => t[k].value < t[l].value
    BY <1>2, <1>4 DEF Stream
  <1>7. ASSUME NEW v \in Nat, a < v, v <= b PROVE \E k \in Nat : In(t, k, M) /\ t[k].value = v
    <2>1. PICK k \in Nat : In(s, k, M) /\ s[k].value = v
      BY <1>7 DEF Stream
    <2> QED
      BY <1>3, <2>1
  <1> QED
    BY <1>5, <1>6, <1>7 DEF Stream, t

LEMMA StreamAppendNext ==
  ASSUME NEW s \in Seq(Msg), NEW m \in Msg, NEW M, m \in M, NEW a \in Nat, NEW b \in Nat,
         a <= b, m.value = b + 1, Stream(s, M, a, b)
  PROVE  Stream(Append(s, m), M, a, b + 1)
  <1> DEFINE t == Append(s, m)
  <1>0. \A k \in Nat : In(s, k, M) => s[k].value \in Nat
    BY InValue
  <1>1. \A k \in Nat : /\ In(t, k, M) <=> In(s, k, M) \/ k = Len(s) + 1
                       /\ In(s, k, M) => t[k] = s[k] /\ k <= Len(s)
    <2> TAKE k \in Nat
    <2>1. /\ In(Append(s, m), k, M) <=> In(s, k, M) \/ (k = Len(s) + 1 /\ m \in M)
          /\ In(s, k, M) => Append(s, m)[k] = s[k] /\ k <= Len(s)
          /\ Append(s, m)[Len(s) + 1] = m /\ Len(s) \in Nat
      BY InAppend, Zenon
    <2> QED
      BY <2>1
  <1>2. t[Len(s) + 1] = m /\ Len(s) \in Nat /\ Len(s) + 1 \in Nat
    BY InAppend
  <1> HIDE DEF t
  <1>3. \A k \in Nat : In(t, k, M) => a < t[k].value /\ t[k].value <= b + 1
    BY <1>0, <1>1, <1>2 DEF Stream
  <1>4. \A k, l \in Nat : In(t, k, M) /\ In(t, l, M) /\ k < l => t[k].value < t[l].value
    <2> SUFFICES ASSUME NEW k \in Nat, NEW l \in Nat, In(t, k, M), In(t, l, M), k < l
                 PROVE  t[k].value < t[l].value
      OBVIOUS
    <2>1. CASE l = Len(s) + 1
      <3>1. In(s, k, M) /\ t[k] = s[k] /\ t[l] = m
        BY <1>1, <1>2, <2>1
      <3> QED
        BY <1>0, <3>1 DEF Stream
    <2>2. CASE l # Len(s) + 1
      <3>1. In(s, l, M) /\ l <= Len(s) /\ t[l] = s[l]
        BY <1>1, <2>2
      <3>2. In(s, k, M) /\ t[k] = s[k]
        BY <1>1, <1>2, <3>1
      <3> QED
        BY <3>1, <3>2 DEF Stream
    <2> QED
      BY <2>1, <2>2
  <1>5. \A v \in Nat : a < v /\ v <= b + 1 => \E k \in Nat : In(t, k, M) /\ t[k].value = v
    <2> SUFFICES ASSUME NEW v \in Nat, a < v, v <= b + 1
                 PROVE  \E k \in Nat : In(t, k, M) /\ t[k].value = v
      OBVIOUS
    <2>1. CASE v = b + 1
      BY <1>1, <1>2, <2>1
    <2>2. CASE v <= b
      BY <1>1, <2>2 DEF Stream
    <2> QED
      BY <2>1, <2>2
  <1> QED
    BY <1>3, <1>4, <1>5 DEF Stream, t

LEMMA StreamTailNext ==
  ASSUME NEW s \in Seq(Msg), s # <<>>, NEW M, Head(s) \in M, NEW a \in Nat, NEW b \in Nat,
         Stream(s, M, a, b)
  PROVE  Head(s).value = a + 1 /\ a < b /\ Stream(Tail(s), M, a + 1, b)
  <1> DEFINE t == Tail(s)
  <1>0. \A k \in Nat : In(s, k, M) => s[k].value \in Nat /\ k # 0
    BY InValue
  <1>1. \A k \in Nat : /\ In(t, k, M) <=> k # 0 /\ In(s, k + 1, M)
                       /\ In(t, k, M) => t[k] = s[k + 1]
    BY InTail, Zenon
  <1>2. In(s, 1, M) /\ Head(s) = s[1]
    BY InTail
  <1>3. s[1].value \in Nat /\ a < s[1].value /\ s[1].value <= b
    BY <1>0, <1>2 DEF Stream
  <1>4. s[1].value = a + 1
    <2>1. a + 1 \in Nat /\ a < a + 1 /\ a + 1 <= b
      BY <1>3
    <2>2. PICK k \in Nat : In(s, k, M) /\ s[k].value = a + 1
      BY <2>1 DEF Stream
    <2>3. CASE k = 1
      BY <2>2, <2>3
    <2>4. CASE k # 1
      <3>1. 1 < k
        BY <1>0, <2>2, <2>4
      <3>2. s[1].value < a + 1
        BY <1>2, <2>2, <3>1 DEF Stream
      <3> QED
        BY <1>3, <3>2
    <2> QED
      BY <2>3, <2>4
  <1> HIDE DEF t
  <1>5. \A k \in Nat : In(t, k, M) => a + 1 < t[k].value /\ t[k].value <= b
    <2> SUFFICES ASSUME NEW k \in Nat, In(t, k, M)
                 PROVE  a + 1 < t[k].value /\ t[k].value <= b
      OBVIOUS
    <2>1. In(s, k + 1, M) /\ t[k] = s[k + 1] /\ 1 < k + 1 /\ k + 1 \in Nat
      BY <1>1
    <2> QED
      BY <1>2, <1>4, <2>1 DEF Stream
  <1>6. ASSUME NEW k \in Nat, NEW l \in Nat, In(t, k, M), In(t, l, M), k < l
        PROVE  t[k].value < t[l].value
    <2>1. /\ In(s, k + 1, M) /\ t[k] = s[k + 1] /\ k + 1 \in Nat
          /\ In(s, l + 1, M) /\ t[l] = s[l + 1] /\ l + 1 \in Nat /\ k + 1 < l + 1
      BY <1>1, <1>6
    <2> QED
      BY <2>1 DEF Stream
  <1>7. \A v \in Nat : a + 1 < v /\ v <= b => \E k \in Nat : In(t, k, M) /\ t[k].value = v
    <2> SUFFICES ASSUME NEW v \in Nat, a + 1 < v, v <= b
                 PROVE  \E k \in Nat : In(t, k, M) /\ t[k].value = v
      OBVIOUS
    <2>1. PICK k \in Nat : In(s, k, M) /\ s[k].value = v
      BY DEF Stream
    <2>2. k # 0 /\ k # 1
      BY <1>0, <1>4, <2>1
    <2>3. k - 1 \in Nat /\ k - 1 # 0 /\ (k - 1) + 1 = k
      BY <2>2
    <2> QED
      BY <1>1, <2>1, <2>3
  <1> QED
    <2>1. Stream(t, M, a + 1, b)
      BY <1>5, <1>6, <1>7 DEF Stream
    <2> QED
      BY <1>2, <1>3, <1>4, <2>1 DEF t

LEMMA StreamNone ==
  ASSUME NEW s \in Seq(Msg), NEW M, NEW a \in Nat, NEW b \in Nat
  PROVE  /\ (\A k \in Nat : ~In(s, k, M)) /\ b <= a => Stream(s, M, a, b)
         /\ Stream(s, M, a, b) /\ b <= a => \A k \in Nat : ~In(s, k, M)
         /\ Stream(s, M, a, b) /\ (\A k \in Nat : ~In(s, k, M)) => b <= a
  <1>1. (\A k \in Nat : ~In(s, k, M)) /\ b <= a => Stream(s, M, a, b)
    BY DEF Stream
  <1>2. ASSUME Stream(s, M, a, b), b <= a, NEW k \in Nat, In(s, k, M) PROVE FALSE
    BY <1>2, InValue DEF Stream
  <1>3. ASSUME Stream(s, M, a, b), \A k \in Nat : ~In(s, k, M) PROVE b <= a
    BY <1>3 DEF Stream
  <1> QED
    BY <1>1, <1>2, <1>3

-----------------------------------------------------------------------------
(* The flow of inputs: steps that leave it as it is. *)
UpKeep(p) ==
  /\ \A a, b \in Nat : Stream(up[p], Made, a, b) => Stream(up'[p], Made, a, b)
  /\ (\E k \in Nat : Release(p, k)') <=> (\E k \in Nat : Release(p, k))
DownKeep(p) ==
  /\ \A a, b \in Nat : Stream(down[p], Passed, a, b) => Stream(down'[p], Passed, a, b)
  /\ LastWord(p) => LastWord(p)'

LEMMA KeepUpSame ==
  ASSUME NEW p \in Player, up'[p] = up[p]
  PROVE  UpKeep(p)
  BY DEF UpKeep, Release

LEMMA KeepUpAppend ==
  ASSUME Types, NEW p \in Player, NEW m \in Msg, m \notin Made, m.type # "GolfRelease",
         up'[p] = Append(up[p], m)
  PROVE  UpKeep(p)
  <1>1. up[p] \in Seq(Msg)
    BY DEF Types
  <1>2. \A a, b \in Nat : Stream(up[p], Made, a, b) => Stream(up'[p], Made, a, b)
    BY <1>1, StreamAppendOther
  <1>3. \A k \in Nat : Release(p, k)' <=> Release(p, k)
    <2> TAKE k \in Nat
    <2>1. At(Append(up[p], m), k, "GolfRelease") <=>
            At(up[p], k, "GolfRelease") \/ (k = Len(up[p]) + 1 /\ m.type = "GolfRelease")
      BY <1>1, AtAppend
    <2> QED
      BY <2>1 DEF Release
  <1> QED
    BY <1>2, <1>3 DEF UpKeep

LEMMA KeepUpTail ==
  ASSUME Types, NEW p \in Player, up[p] # <<>>, Head(up[p]) \notin Made,
         Head(up[p]).type # "GolfRelease", up'[p] = Tail(up[p])
  PROVE  UpKeep(p)
  <1>1. up[p] \in Seq(Msg)
    BY DEF Types
  <1>2. \A a, b \in Nat : Stream(up[p], Made, a, b) => Stream(up'[p], Made, a, b)
    BY <1>1, StreamTailOther
  <1>3. \A k \in Nat : Release(p, k)' <=> k # 0 /\ Release(p, k + 1)
    BY <1>1, AtTail DEF Release
  <1>4. ~Release(p, 1) /\ ~Release(p, 0)
    BY <1>1, AtTail DEF Release, At
  <1>5. \A k \in Nat : Release(p, k) => k - 1 \in Nat /\ k - 1 # 0 /\ (k - 1) + 1 = k
    BY <1>4
  <1>6. ASSUME NEW k \in Nat, Release(p, k) PROVE \E l \in Nat : Release(p, l)'
    <2>1. k - 1 \in Nat /\ k - 1 # 0 /\ (k - 1) + 1 = k
      BY <1>5, <1>6
    <2>2. Release(p, k - 1)'
      BY <1>3, <1>6, <2>1
    <2> QED
      BY <2>1, <2>2
  <1>7. \A k \in Nat : Release(p, k)' => \E l \in Nat : Release(p, l)
    BY <1>3
  <1> QED
    BY <1>2, <1>6, <1>7 DEF UpKeep

LEMMA KeepUpInsert ==
  ASSUME Types, NEW p \in Player, NEW m \in Msg, m.type \in {"GolfPrepare", "GolfAcquire"},
         NEW j \in 0 .. Len(up[p]), \A i \in j + 1 .. Len(up[p]) : Queued(up[p][i]),
         up'[p] = Insert(up[p], j, m)
  PROVE  UpKeep(p)
  <1>1. up[p] \in Seq(Msg) /\ m \notin Made
    BY DEF Types, Made
  <1>2. \A a, b \in Nat : Stream(up[p], Made, a, b) => Stream(up'[p], Made, a, b)
    BY <1>1, StreamInsertOther
  <1>3. \A i \in j + 1 .. Len(up[p]) : up[p][i].type # "GolfRelease"
    BY DEF Queued
  <1>4. \A k \in Nat : Release(p, k)' <=> Release(p, k)
    <2> TAKE k \in Nat
    <2>1. At(Insert(up[p], j, m), k, "GolfRelease") <=>
            At(up[p], k, "GolfRelease") \/ (k = j + 1 /\ m.type = "GolfRelease")
      BY <1>1, <1>3, AtInsert
    <2> QED
      BY <2>1 DEF Release
  <1> QED
    BY <1>2, <1>4 DEF UpKeep

LEMMA KeepDownSame ==
  ASSUME NEW p \in Player, down'[p] = down[p]
  PROVE  DownKeep(p)
  BY DEF DownKeep, LastWord, Grant, Switch

LEMMA LastWordTail ==
  ASSUME Types, NEW p \in Player, down[p] # <<>>, down'[p] = Tail(down[p]), LastWord(p)
  PROVE  LastWord(p)'
  <1>1. down[p] \in Seq(Msg)
    BY DEF Types
  <1> SUFFICES ASSUME NEW k \in Nat, NEW l \in Nat, Grant(p, k)', l > k, In(down'[p], l, Passed)
               PROVE  FALSE
    BY DEF LastWord
  <1>2. Grant(p, k + 1)
    <2>1. At(Tail(down[p]), k, "GolfSwitch") =>
            At(down[p], k + 1, "GolfSwitch") /\ Tail(down[p])[k] = down[p][k + 1]
      BY <1>1, AtTail
    <2> QED
      BY <2>1 DEF Grant, Switch
  <1>3. In(down[p], l + 1, Passed)
    BY <1>1, InTail
  <1>4. k + 1 \in Nat /\ l + 1 \in Nat /\ l + 1 > k + 1
    OBVIOUS
  <1> QED
    BY <1>2, <1>3, <1>4 DEF LastWord

LEMMA KeepDownTail ==
  ASSUME Types, NEW p \in Player, down[p] # <<>>, Head(down[p]) \notin Passed,
         down'[p] = Tail(down[p])
  PROVE  DownKeep(p)
  <1>1. down[p] \in Seq(Msg)
    BY DEF Types
  <1>2. \A a, b \in Nat : Stream(down[p], Passed, a, b) => Stream(down'[p], Passed, a, b)
    BY <1>1, StreamTailOther
  <1> QED
    BY <1>2, LastWordTail DEF DownKeep

LEMMA KeepDownAppend ==
  ASSUME Types, NEW p \in Player, NEW m \in Msg, m \notin Passed, down'[p] = Append(down[p], m)
  PROVE  DownKeep(p)
  <1>1. down[p] \in Seq(Msg)
    BY DEF Types
  <1>2. \A a, b \in Nat : Stream(down[p], Passed, a, b) => Stream(down'[p], Passed, a, b)
    BY <1>1, StreamAppendOther
  <1>4. \A k \in Nat : \A t : At(Append(down[p], m), k, t) =>
          (At(down[p], k, t) /\ Append(down[p], m)[k] = down[p][k])
          \/ (k = Len(down[p]) + 1 /\ m.type = t /\ Append(down[p], m)[k] = m)
    BY <1>1, AppendedAll, Zenon
  <1>3. ASSUME LastWord(p), NEW k \in Nat, NEW l \in Nat, Grant(p, k)', l > k,
               In(down'[p], l, Passed)
        PROVE  FALSE
    <2>1. In(down[p], l, Passed) /\ l <= Len(down[p]) /\ Len(down[p]) \in Nat
      <3>1. /\ In(Append(down[p], m), l, Passed) <=>
                 In(down[p], l, Passed) \/ (l = Len(down[p]) + 1 /\ m \in Passed)
            /\ In(down[p], l, Passed) => Append(down[p], m)[l] = down[p][l] /\ l <= Len(down[p])
            /\ Append(down[p], m)[Len(down[p]) + 1] = m /\ Len(down[p]) \in Nat
        BY <1>1, InAppend, Zenon
      <3> QED
        BY <1>3, <3>1
    <2>2. Grant(p, k)
      <3>1. At(Append(down[p], m), k, "GolfSwitch")
        BY <1>3 DEF Grant, Switch
      <3>2. (At(down[p], k, "GolfSwitch") /\ Append(down[p], m)[k] = down[p][k])
            \/ (k = Len(down[p]) + 1 /\ m.type = "GolfSwitch" /\ Append(down[p], m)[k] = m)
        BY <1>4, <3>1
      <3>3. k # Len(down[p]) + 1
        BY <1>3, <2>1
      <3>4. down'[p][k].value = p
        BY <1>3 DEF Grant
      <3> QED
        BY <3>2, <3>3, <3>4 DEF Grant, Switch
    <2> QED
      BY <1>3, <2>1, <2>2 DEF LastWord
  <1> QED
    BY <1>2, <1>3 DEF DownKeep, LastWord

LEMMA FlowTypes ==
  ASSUME Types
  PROVE  /\ inputs \in Nat
         /\ \A p \in Player : /\ Has(p) \in Nat /\ Len(taken[p]) \in Nat /\ Len(buffer[p]) \in Nat
                              /\ up[p] \in Seq(Msg) /\ down[p] \in Seq(Msg)
                              /\ taken[p] \in Seq(Nat) /\ buffer[p] \in Seq(Nat)
                              /\ packet[p] \in Nat
                              /\ packet[p] \in {0, inputs} => Built(p) \in Nat
  <1>1. inputs \in Nat
    BY DEF Types
  <1>2. ASSUME NEW p \in Player
        PROVE  /\ Has(p) \in Nat /\ Len(taken[p]) \in Nat /\ Len(buffer[p]) \in Nat
               /\ up[p] \in Seq(Msg) /\ down[p] \in Seq(Msg)
               /\ taken[p] \in Seq(Nat) /\ buffer[p] \in Seq(Nat)
    <2>1. taken[p] \in Seq(Nat) /\ buffer[p] \in Seq(Nat)
      BY DEF Types
    <2>2. Len(taken[p]) \in Nat /\ Len(buffer[p]) \in Nat
      BY <2>1
    <2>3. up[p] \in Seq(Msg) /\ down[p] \in Seq(Msg)
      BY DEF Types
    <2>4. Has(p) \in Nat
      <3>1. \A i, j \in Nat : i + j \in Nat
        OBVIOUS
      <3> QED
        BY <2>2, <3>1, Zenon DEF Has
    <2> QED
      BY <2>1, <2>2, <2>3, <2>4
  <1>3. \A p \in Player : packet[p] \in Nat
    BY DEF Types
  <1>4. \A p \in Player : packet[p] \in {0, inputs} => Built(p) \in Nat
    BY <1>1, <1>3 DEF Built
  <1> QED
    BY <1>1, <1>2, <1>3, <1>4

LEMMA FlowKeeps ==
  ASSUME Types, Flow, inputs' = inputs, packet' = packet,
         \A p \in Player : Has(p)' = Has(p) /\ (Holds(p)' <=> Holds(p)),
         \A p \in Player : UpKeep(p) /\ DownKeep(p)
  PROVE  Flow'
  <1>1. PICK f \in 0 .. inputs : Downstream(f) /\ Upstream(f)
    BY DEF Flow
  <1>2. f \in Nat
    BY FlowTypes
  <1>3. \A p \in Player : (Owner(p)' <=> Owner(p)) /\ Built(p)' = Built(p)
    BY DEF Owner, UpKeep, Built
  <1>4. Downstream(f)'
    BY <1>1, <1>2, <1>3, FlowTypes DEF Downstream, DownKeep
  <1>5. \A p \in Player :
          (\A k \in Nat : ~In(up[p], k, Made)) => \A k \in Nat : ~In(up'[p], k, Made)
    <2> SUFFICES ASSUME NEW p \in Player, \A k \in Nat : ~In(up[p], k, Made)
                 PROVE  \A k \in Nat : ~In(up'[p], k, Made)
      OBVIOUS
    <2>1. Stream(up[p], Made, 0, 0)
      BY FlowTypes, StreamNone
    <2>2. Stream(up'[p], Made, 0, 0)
      BY <2>1 DEF UpKeep
    <2> QED
      BY <2>2 DEF Stream, In, Made
  <1>6. Upstream(f)'
    BY <1>1, <1>2, <1>3, <1>5, FlowTypes DEF Upstream, UpKeep
  <1> QED
    BY <1>1, <1>4, <1>6 DEF Flow

-----------------------------------------------------------------------------
(* The flow of inputs: an input is made, sent, passed on and put in a      *)
(* buffer; the control changes hands.                                      *)
LEMMA OneOwner ==
  ASSUME OneToken, NEW p \in Player, NEW q \in Player, Owner(p), Owner(q)
  PROVE  p = q
  BY DEF OneToken, Owner

LEMMA NoOwnerGranted ==
  ASSUME OneToken, NEW p \in Player, NEW k \in Nat, Grant(p, k)
  PROVE  \A q \in Player : ~Owner(q)
  BY DEF OneToken, Owner

LEMMA FlowBuild ==
  ASSUME Types, Owned, OneToken, Flow, NEW p \in Player, Holds(p), cpu[p] # "built",
         buffer[p] = <<>>, inputs' = inputs + 1,
         buffer' = [buffer EXCEPT ![p] = <<inputs + 1>>],
         packet' = [packet EXCEPT ![p] = inputs + 1], UNCHANGED <<up, down, view, taken>>
  PROVE  Flow'
  <1>1. PICK f \in 0 .. inputs : Downstream(f) /\ Upstream(f)
    BY DEF Flow
  <1>2. f \in Nat /\ inputs \in Nat /\ f <= inputs
    BY FlowTypes
  <1>3. Owner(p) /\ \A q \in Player : q # p => ~Owner(q)
    BY OneOwner DEF Owner
  <1>4. \A q \in Player : Owner(q)' <=> Owner(q)
    BY DEF Owner, Holds, Release
  <1>5. packet[p] = 0 /\ Has(p) = inputs /\ Built(p) = inputs
    BY <1>1, <1>3 DEF Owned, Upstream, Built
  <1>6. Has(p)' = inputs + 1 /\ \A q \in Player : q # p => Has(q)' = Has(q)
    <2>1. Len(buffer[p]) = 0 /\ Len(<<inputs + 1>>) = 1
      OBVIOUS
    <2>2. buffer'[p] = <<inputs + 1>> /\ \A q \in Player : q # p => buffer'[q] = buffer[q]
      BY DEF Types
    <2>3. Len(taken[p]) = inputs
      <3>1. Len(taken[p]) + 0 = inputs /\ Len(taken[p]) \in Nat
        BY <1>5, <2>1, FlowTypes DEF Has
      <3> QED
        BY <3>1
    <2>4. Has(p)' = inputs + 1
      BY <2>1, <2>2, <2>3 DEF Has
    <2>5. \A q \in Player : q # p => Has(q)' = Has(q)
      BY <2>2 DEF Has
    <2> QED
      BY <2>4, <2>5
  <1>7. \A q \in Player : LastWord(q)' <=> LastWord(q)
    BY DEF LastWord, Grant, Switch
  <1>8. Stream(down[p], Passed, inputs + 1, f)
    <2>1. \A k \in Nat : ~In(down[p], k, Passed)
      BY <1>1, <1>2, <1>5, FlowTypes, StreamNone DEF Downstream
    <2> QED
      BY <1>2, <2>1, FlowTypes, StreamNone
  <1>9. Downstream(f)'
    BY <1>1, <1>3, <1>4, <1>6, <1>7, <1>8 DEF Downstream
  <1>10. packet'[p] = inputs + 1 /\ \A q \in Player : q # p => packet'[q] = packet[q]
    BY DEF Types
  <1>11. Built(p)' = inputs
    BY <1>2, <1>10 DEF Built
  <1>12. Upstream(f)'
    BY <1>1, <1>2, <1>3, <1>4, <1>5, <1>6, <1>10, <1>11 DEF Upstream
  <1>13. f \in 0 .. inputs'
    BY <1>2
  <1> QED
    BY <1>9, <1>12, <1>13 DEF Flow

LEMMA FlowSend ==
  ASSUME Types, Owned, OneToken, Flow, members = Player, NEW p \in Player, Holds(p),
         SendAsync(p, PadHostData(packet[p])), packet' = [packet EXCEPT ![p] = 0],
         UNCHANGED <<inputs, buffer, down, view, taken>>
  PROVE  Flow'
  <1> DEFINE m == PadHostData(packet[p])
  <1>0. m \in Msg /\ m.type = "PadHostData" /\ m.value = packet[p] /\ packet[p] \in Nat
    BY Messages, FlowTypes
  <1>1. up'[p] = Append(up[p], m) /\ \A q \in Player : q # p => up'[q] = up[q]
    BY DEF SendAsync, Sent, Types
  <1> HIDE DEF m
  <1>2. \A q \in Player : Has(q)' = Has(q) /\ (Holds(q)' <=> Holds(q))
    BY DEF Has, Holds
  <1>3. \A q \in Player : DownKeep(q)
    BY KeepDownSame
  <1>4. \A q \in Player : q # p => UpKeep(q)
    BY <1>1, KeepUpSame
  <1>5. CASE packet[p] = 0
    <2>1. packet' = packet
      BY <1>5 DEF Types
    <2>2. m \notin Made
      BY <1>0, <1>5 DEF Made
    <2>3. UpKeep(p)
      BY <1>0, <1>1, <2>2, KeepUpAppend
    <2> QED
      BY <1>2, <1>3, <1>4, <2>1, <2>3, FlowKeeps
  <1>6. CASE packet[p] # 0
    <2>1. PICK f \in 0 .. inputs : Downstream(f) /\ Upstream(f)
      BY DEF Flow
    <2>2. f \in Nat /\ inputs \in Nat
      BY FlowTypes
    <2>3. Owner(p) /\ Owner(p)' /\ \A q \in Player : q # p => ~Owner(q)
      BY <1>2, OneOwner DEF Owner
    <2>4. \A q \in Player : q # p => ~Owner(q)'
      BY <1>1, <1>2, <2>3 DEF Owner, Release
    <2>5. packet[p] = inputs /\ Built(p) = inputs - 1 /\ inputs - 1 \in Nat /\ f <= inputs - 1
          /\ Has(p) = inputs /\ Stream(up[p], Made, f, inputs - 1)
      BY <1>6, <2>1, <2>2, <2>3 DEF Upstream, Built
    <2>6. m \in Made /\ m.value = (inputs - 1) + 1
      <3>1. m.value = (inputs - 1) + 1
        BY <1>0, <2>2, <2>5
      <3>2. m = [type |-> "PadHostData", value |-> packet[p]]
        BY DEF m, PadHostData
      <3> QED
        BY <1>0, <1>6, <3>1, <3>2 DEF Made
    <2>7. Stream(up'[p], Made, f, inputs)
      <3>1. up[p] \in Seq(Msg)
        BY FlowTypes
      <3>2. Stream(Append(up[p], m), Made, f, (inputs - 1) + 1)
        BY <1>0, <2>2, <2>5, <2>6, <3>1, StreamAppendNext
      <3>3. (inputs - 1) + 1 = inputs
        BY <2>2
      <3> QED
        BY <1>1, <3>2, <3>3
    <2>8. packet'[p] = 0 /\ \A q \in Player : q # p => packet'[q] = packet[q]
      BY DEF Types
    <2>9. Built(p)' = inputs
      BY <2>8 DEF Built
    <2>10. Upstream(f)'
      <3>1. f <= inputs /\ Has(p)' = inputs
        BY <1>2, <2>2, <2>5
      <3>2. \A q \in Player : ~Owner(q)' => packet'[q] = 0 /\ \A k \in Nat : ~In(up'[q], k, Made)
        BY <1>1, <2>1, <2>3, <2>8 DEF Upstream
      <3>3. \A q \in Player : Owner(q)' => q = p
        BY <2>4
      <3> QED
        BY <2>3, <2>7, <2>8, <2>9, <3>1, <3>2, <3>3 DEF Upstream
    <2>11. Downstream(f)'
      BY <1>2, <1>3, <2>1, <2>2, <2>3, FlowTypes DEF Downstream, DownKeep
    <2> QED
      BY <2>1, <2>10, <2>11 DEF Flow
  <1> QED
    BY <1>5, <1>6

(* The server passes an input on. *)
LEMMA FlowPass ==
  ASSUME Types, OneToken, Flow, members = Player, NEW p \in Player,
         From(p, "PadHostData"), Head(up[p]).value # 0,
         SendTo(members \ {p}, PadData(Head(up[p]).value)),
         UNCHANGED <<inputs, packet, buffer, view, taken>>
  PROVE  Flow'
  <1> DEFINE v == Head(up[p]).value
  <1>1. PICK f \in 0 .. inputs : Downstream(f) /\ Upstream(f)
    BY DEF Flow
  <1>2. f \in Nat /\ inputs \in Nat /\ f + 1 \in Nat
    BY FlowTypes
  <1>3. /\ up[p] \in Seq(Msg) /\ up[p] # <<>> /\ Head(up[p]).type = "PadHostData" /\ v \in Nat
        /\ up'[p] = Tail(up[p]) /\ \A q \in Player : q # p => up'[q] = up[q]
        /\ Head(up[p]) \in Msg
    BY FromCases, FromType
  <1>4. Head(up[p]) \in Made
    BY <1>3 DEF Made, Msg
  <1>5. In(up[p], 1, Made)
    BY <1>3, <1>4, InTail
  <1>6. Owner(p) /\ \A q \in Player : q # p => ~Owner(q)
    BY <1>1, <1>5, OneOwner DEF Upstream
  <1>7. /\ Stream(up[p], Made, f, Built(p)) /\ f <= Built(p) /\ Built(p) \in Nat
        /\ packet[p] \in {0, inputs} /\ Has(p) = inputs
    BY <1>1, <1>6, FlowTypes DEF Upstream
  <1>8. v = f + 1 /\ f < Built(p) /\ Stream(Tail(up[p]), Made, f + 1, Built(p))
    BY <1>2, <1>3, <1>4, <1>7, StreamTailNext
  <1>9. Built(p) <= inputs /\ f + 1 <= Built(p)
    BY <1>2, <1>7, <1>8 DEF Built
  <1>10. \A q \in Player : Owner(q)' <=> Owner(q)
    <2>1. ~Release(p, 1) /\ ~Release(p, 0)
      BY <1>3, AtTail DEF Release, At
    <2>2. \A k \in Nat : Release(p, k)' <=> k # 0 /\ Release(p, k + 1)
      BY <1>3, AtTail DEF Release
    <2>3. ASSUME NEW k \in Nat, Release(p, k) PROVE \E l \in Nat : Release(p, l)'
      <3>1. k - 1 \in Nat /\ k - 1 # 0 /\ (k - 1) + 1 = k
        BY <2>1, <2>3
      <3>2. Release(p, k - 1)'
        BY <2>2, <2>3, <3>1
      <3> QED
        BY <3>1, <3>2
    <2>4. \A q \in Player : Holds(q)' <=> Holds(q)
      BY DEF Holds
    <2>5. \A q \in Player : q # p => \A k \in Nat : Release(q, k)' <=> Release(q, k)
      BY <1>3 DEF Release
    <2>6. \A k \in Nat : Release(p, k)' => \E l \in Nat : Release(p, l)
      BY <2>2
    <2> QED
      BY <2>3, <2>4, <2>5, <2>6 DEF Owner
  <1>11. \A q \in Player : Has(q)' = Has(q) /\ Built(q)' = Built(q)
    BY DEF Has, Built
  <1>12. \A q \in Player : \A k \in Nat : ~Grant(q, k)
    BY <1>6, NoOwnerGranted
  <1>13. PadData(v) \in Msg /\ PadData(v).type = "PadData" /\ PadData(v).value = v
    BY <1>3, Messages
  <1>14. PadData(v) \in Passed
    BY <1>3 DEF PadData, Passed
  <1> HIDE DEF v
  <1>15. \A q \in Player : LastWord(q)'
    <2>1. \A q \in Player : \A k \in Nat : ~Grant(q, k)'
      <3> SUFFICES ASSUME NEW q \in Player, NEW k \in Nat, Grant(q, k)' PROVE FALSE
        OBVIOUS
      <3>1. \/ Grant(q, k)
            \/ k = Len(down[q]) + 1 /\ PadData(v).type = "GolfSwitch" /\ PadData(v).value = q
        BY <1>13, SentToGolf DEF v
      <3> QED
        BY <1>12, <1>13, <3>1
    <2> QED
      BY <2>1 DEF LastWord
  <1>16. \A q \in Player : Stream(down'[q], Passed, Has(q), f + 1)
    <2> SUFFICES ASSUME NEW q \in Player PROVE Stream(down'[q], Passed, Has(q), f + 1)
      OBVIOUS
    <2>1. down[q] \in Seq(Msg) /\ Has(q) \in Nat /\ Stream(down[q], Passed, Has(q), f)
      BY <1>1, FlowTypes DEF Downstream
    <2>2. CASE q = p
      <3>1. down'[q] = down[q]
        BY <1>13, <2>2, SentToCases DEF v
      <3>2. Has(q) = inputs /\ f <= Has(q) /\ f + 1 <= Has(q)
        BY <1>2, <1>7, <1>9, <2>2
      <3>3. \A k \in Nat : ~In(down[q], k, Passed)
        BY <1>2, <2>1, <3>2, StreamNone
      <3> QED
        BY <1>2, <2>1, <3>1, <3>2, <3>3, StreamNone
    <2>3. CASE q # p
      <3>1. down'[q] = Append(down[q], PadData(v))
        BY <1>13, <2>3, SentToCases DEF v
      <3>2. Has(q) <= f
        BY <1>1, <1>6, <2>3 DEF Downstream
      <3> QED
        BY <1>2, <1>8, <1>13, <1>14, <2>1, <3>1, <3>2, StreamAppendNext DEF v
    <2> QED
      BY <2>2, <2>3
  <1>17. Downstream(f + 1)'
    <2>1. \A q \in Player : ~Owner(q) => Has(q) <= f + 1
      BY <1>1, <1>2, FlowTypes DEF Downstream
    <2> QED
      BY <1>10, <1>11, <1>15, <1>16, <2>1 DEF Downstream
  <1>18. Upstream(f + 1)'
    <2>1. \A q \in Player : ~Owner(q) => packet[q] = 0 /\ \A k \in Nat : ~In(up'[q], k, Made)
      BY <1>1, <1>3, <1>6 DEF Upstream
    <2> QED
      BY <1>3, <1>6, <1>7, <1>8, <1>9, <1>10, <1>11, <2>1 DEF Upstream
  <1>19. f + 1 \in 0 .. inputs'
    BY <1>2, <1>7, <1>9
  <1> QED
    BY <1>17, <1>18, <1>19 DEF Flow

(* An input is put in the buffer: it is the next one. *)
LEMMA FlowPad ==
  ASSUME Types, OneToken, Flow, NEW p \in Player, NEW m \in Msg, m.type = "PadData",
         down[p] # <<>>, m = Head(down[p]), down' = [down EXCEPT ![p] = Tail(@)],
         buffer' = [buffer EXCEPT ![p] = Append(@, m.value)],
         UNCHANGED <<inputs, packet, up, view, taken>>
  PROVE  Flow' /\ m.value = Has(p) + 1
  <1>1. PICK f \in 0 .. inputs : Downstream(f) /\ Upstream(f)
    BY DEF Flow
  <1>2. f \in Nat /\ inputs \in Nat /\ f <= inputs
    BY FlowTypes
  <1>3. /\ down[p] \in Seq(Msg) /\ Has(p) \in Nat /\ Has(p) + 1 \in Nat
        /\ Stream(down[p], Passed, Has(p), f)
    BY <1>1, FlowTypes DEF Downstream
  <1>4. m \in Passed
    BY DEF Passed, Msg
  <1>5. m.value = Has(p) + 1 /\ Has(p) < f /\ Stream(Tail(down[p]), Passed, Has(p) + 1, f)
    BY <1>2, <1>3, <1>4, StreamTailNext
  <1>6. ~Owner(p)
    BY <1>1, <1>2, <1>5 DEF Upstream
  <1>7. \A q \in Player : Owner(q)' <=> Owner(q)
    BY DEF Owner, Holds, Release
  <1>8. Has(p)' = Has(p) + 1 /\ \A q \in Player : q # p => Has(q)' = Has(q)
    <2>1. buffer[p] \in Seq(Nat) /\ m.value \in Nat /\ Len(taken[p]) \in Nat
      BY FlowTypes DEF Msg
    <2>2. Len(Append(buffer[p], m.value)) = Len(buffer[p]) + 1 /\ Len(buffer[p]) \in Nat
      BY <2>1, AppendFacts
    <2>3. /\ buffer'[p] = Append(buffer[p], m.value)
          /\ \A q \in Player : q # p => buffer'[q] = buffer[q]
      BY DEF Types
    <2>4. Has(p)' = Len(taken[p]) + (Len(buffer[p]) + 1)
      BY <2>2, <2>3 DEF Has
    <2>5. Has(p)' = Has(p) + 1
      <3>1. \A i, j \in Nat : i + (j + 1) = (i + j) + 1
        OBVIOUS
      <3>2. Len(taken[p]) + (Len(buffer[p]) + 1) = (Len(taken[p]) + Len(buffer[p])) + 1
        BY <2>1, <2>2, <3>1, Zenon
      <3>3. Has(p) + 1 = (Len(taken[p]) + Len(buffer[p])) + 1
        BY Zenon DEF Has
      <3> QED
        BY <2>4, <3>2, <3>3, Zenon
    <2> QED
      BY <2>3, <2>5 DEF Has
  <1>9. down'[p] = Tail(down[p]) /\ \A q \in Player : q # p => down'[q] = down[q]
    BY DEF Types
  <1>10. \A q \in Player : LastWord(q)'
    <2>1. LastWord(p)'
      BY <1>1, <1>9, LastWordTail DEF Downstream
    <2>2. \A q \in Player : q # p => DownKeep(q)
      BY <1>9, KeepDownSame
    <2> QED
      BY <1>1, <2>1, <2>2 DEF Downstream, DownKeep
  <1>11. Downstream(f)'
    <2>1. Has(p)' <= f /\ Stream(down'[p], Passed, Has(p)', f)
      BY <1>2, <1>3, <1>5, <1>8, <1>9
    <2>2. \A q \in Player : q # p => /\ Stream(down'[q], Passed, Has(q)', f)
                                     /\ ~Owner(q)' => Has(q)' <= f
      BY <1>1, <1>7, <1>8, <1>9 DEF Downstream
    <2> QED
      BY <1>10, <2>1, <2>2 DEF Downstream
  <1>12. \A q \in Player : Built(q)' = Built(q)
    BY DEF Built
  <1>13. Upstream(f)'
    BY <1>1, <1>6, <1>7, <1>8, <1>12 DEF Upstream
  <1> QED
    BY <1>1, <1>5, <1>11, <1>13 DEF Flow

(* The golfer lets go of the control: what it has sent comes first. *)
LEMMA FlowRelease ==
  ASSUME Types, OneToken, Flow, members = Player, NEW p \in Player, Holds(p), down[p] # <<>>,
         Head(down[p]).type = "GolfSwitch", Head(down[p]).value # p,
         down' = [down EXCEPT ![p] = Tail(@)],
         NEW j \in Flushed(p), Send(p, j, Signal("GolfRelease")),
         view' = [view EXCEPT ![p] = Head(down[p]).value],
         UNCHANGED <<inputs, packet, buffer, taken>>
  PROVE  Flow'
  <1> DEFINE m == Signal("GolfRelease")
  <1>0. m \in Msg /\ m.type = "GolfRelease"
    BY Messages DEF Kind
  <1>1. /\ j \in 0 .. Len(up[p]) /\ \A q \in Player : q # p => up'[q] = up[q]
        /\ up'[p] = Insert(up[p], j, m)
    BY SendReaches
  <1> HIDE DEF m
  <1>2. m \notin Made
    BY <1>0 DEF Made
  <1>3. PICK f \in 0 .. inputs : Downstream(f) /\ Upstream(f)
    BY DEF Flow
  <1>4. f \in Nat
    BY FlowTypes
  <1>5. \A q \in Player : Owner(q)' <=> Owner(q)
    <2>1. Owner(p) /\ Owner(p)'
      <3>1. At(up'[p], j + 1, "GolfRelease") /\ j + 1 \in Nat
        <4>1. up[p] \in Seq(Msg)
          BY FlowTypes
        <4>2. /\ Len(Insert(up[p], j, m)) = Len(up[p]) + 1 /\ Len(up[p]) \in Nat
              /\ Insert(up[p], j, m)[j + 1] = m
          BY <1>0, <1>1, <4>1, InsertFacts
        <4> QED
          BY <1>0, <1>1, <4>2 DEF At
      <3> QED
        BY <3>1 DEF Owner, Release
    <2>2. \A q \in Player : q # p => (Owner(q)' <=> Owner(q))
      <3>1. \A q \in Player : q # p => view'[q] = view[q]
        BY DEF Types
      <3> QED
        BY <1>1, <3>1 DEF Owner, Holds, Release
    <2> QED
      BY <2>1, <2>2
  <1>6. \A q \in Player : Has(q)' = Has(q) /\ Built(q)' = Built(q)
    BY DEF Has, Built
  <1>7. \A q \in Player : DownKeep(q)
    <2>1. down'[p] = Tail(down[p]) /\ \A q \in Player : q # p => down'[q] = down[q]
      BY DEF Types
    <2>2. Head(down[p]) \notin Passed
      BY DEF Passed
    <2> QED
      BY <2>1, <2>2, KeepDownSame, KeepDownTail
  <1>8. Downstream(f)'
    BY <1>3, <1>4, <1>5, <1>6, <1>7, FlowTypes DEF Downstream, DownKeep
  <1>9. Stream(up[p], Made, f, Built(p)) => Stream(up'[p], Made, f, Built(p))
    <2>1. up[p] \in Seq(Msg) /\ Built(p) \in Nat
      BY <1>3, FlowTypes DEF Upstream, Owner
    <2> QED
      BY <1>0, <1>1, <1>2, <1>4, <2>1, StreamInsertOther
  <1>10. \A q \in Player : q # p => ~Owner(q)
    BY OneOwner DEF Owner
  <1>11. Owner(p)
    BY DEF Owner
  <1>12. Upstream(f)'
    BY <1>1, <1>3, <1>5, <1>6, <1>9, <1>10, <1>11 DEF Upstream
  <1> QED
    BY <1>3, <1>8, <1>12 DEF Flow

(* The next golfer takes over: it has all the inputs there are. *)
LEMMA FlowAcquire ==
  ASSUME Types, OneToken, Flow, members = Player, NEW p \in Player, Grant(p, 1),
         down[p] # <<>>, down' = [down EXCEPT ![p] = Tail(@)],
         NEW j \in Flushed(p), Send(p, j, Signal("GolfAcquire")),
         view' = [view EXCEPT ![p] = p], UNCHANGED <<inputs, packet, buffer, taken>>
  PROVE  Flow'
  <1> DEFINE m == Signal("GolfAcquire")
  <1>0. m \in Msg /\ m.type = "GolfAcquire"
    BY Messages DEF Kind
  <1>1. /\ j \in 0 .. Len(up[p]) /\ \A i \in j + 1 .. Len(up[p]) : Queued(up[p][i])
        /\ up'[p] = Insert(up[p], j, m) /\ \A q \in Player : q # p => up'[q] = up[q]
    BY SendReaches
  <1> HIDE DEF m
  <1>3. PICK f \in 0 .. inputs : Downstream(f) /\ Upstream(f)
    BY DEF Flow
  <1>4. \A q \in Player : ~Owner(q)
    BY NoOwnerGranted
  <1>5. f = inputs /\ f \in Nat /\ inputs \in Nat
    BY <1>3, <1>4, FlowTypes DEF Upstream
  <1>6. \A q \in Player : packet[q] = 0 /\ \A k \in Nat : ~In(up[q], k, Made)
    BY <1>3, <1>4 DEF Upstream
  <1>7. \A q \in Player : UpKeep(q)
    <2>1. UpKeep(p)
      BY <1>0, <1>1, KeepUpInsert
    <2> QED
      BY <1>1, <2>1, KeepUpSame
  <1>8. \A q \in Player : \A k \in Nat : ~In(up'[q], k, Made)
    <2> SUFFICES ASSUME NEW q \in Player PROVE \A k \in Nat : ~In(up'[q], k, Made)
      OBVIOUS
    <2>1. Stream(up[q], Made, 0, 0)
      BY <1>6 DEF Stream
    <2>2. Stream(up'[q], Made, 0, 0)
      BY <1>7, <2>1 DEF UpKeep
    <2> QED
      BY <2>2 DEF Stream, In, Made
  <1>9. Stream(up'[p], Made, f, inputs)
    BY <1>5, <1>8 DEF Stream
  <1>10. \A q \in Player : Has(q)' = Has(q) /\ Built(q)' = inputs
    BY <1>6 DEF Has, Built
  <1>11. \A q \in Player : DownKeep(q)
    <2>1. down'[p] = Tail(down[p]) /\ \A q \in Player : q # p => down'[q] = down[q]
      BY DEF Types
    <2>2. Head(down[p]) \notin Passed
      <3>1. down[p] \in Seq(Msg) /\ At(down[p], 1, "GolfSwitch")
        BY FlowTypes DEF Grant, Switch
      <3>2. Head(down[p]).type = "GolfSwitch"
        BY <3>1, AtTail
      <3> QED
        BY <3>2 DEF Passed
    <2> QED
      BY <2>1, <2>2, KeepDownSame, KeepDownTail
  <1>12. Has(p) = inputs
    <2>1. /\ down[p] \in Seq(Msg) /\ Has(p) \in Nat
          /\ Stream(down[p], Passed, Has(p), f) /\ LastWord(p)
      BY <1>3, FlowTypes DEF Downstream
    <2>2. \A k \in Nat : ~In(down[p], k, Passed)
      <3> SUFFICES ASSUME NEW k \in Nat, In(down[p], k, Passed) PROVE FALSE
        OBVIOUS
      <3>1. k # 0 /\ down[p][k].type = "PadData"
        <4>1. k \in 1 .. Len(down[p]) /\ down[p][k] \in Passed
          BY DEF In
        <4> QED
          BY <4>1 DEF Passed
      <3>2. down[p][1].type = "GolfSwitch"
        BY DEF Grant, Switch, At
      <3>3. k > 1
        BY <3>1, <3>2
      <3> QED
        BY <2>1, <3>3 DEF LastWord
    <2>3. f <= Has(p)
      BY <1>5, <2>1, <2>2, StreamNone
    <2>4. Has(p) <= f
      BY <1>3, <1>4 DEF Downstream
    <2> QED
      BY <1>5, <2>1, <2>3, <2>4
  <1>13. \A q \in Player : Owner(q)' => q = p
    <2>1. \A q \in Player : q # p => view'[q] = view[q]
      BY DEF Types
    <2>2. \A q \in Player : q # p => (Holds(q)' <=> Holds(q))
      BY <2>1 DEF Holds
    <2> QED
      BY <1>4, <1>7, <2>2 DEF Owner, UpKeep
  <1>14. Owner(p)'
    BY DEF Owner, Holds, Types
  <1>15. Downstream(f)'
    <2>1. \A q \in Player : Has(q) <= f
      BY <1>3, <1>4 DEF Downstream
    <2> QED
      BY <1>3, <1>5, <1>10, <1>11, <2>1, FlowTypes DEF Downstream, DownKeep
  <1>16. Upstream(f)'
    <2>1. Has(p)' = inputs /\ Built(p)' = inputs /\ f <= inputs /\ packet'[p] = 0
      BY <1>5, <1>6, <1>10, <1>12
    <2>2. \A q \in Player : ~Owner(q)' => packet'[q] = 0 /\ \A k \in Nat : ~In(up'[q], k, Made)
      BY <1>6, <1>8
    <2> QED
      BY <1>9, <1>13, <1>14, <2>1, <2>2 DEF Upstream
  <1> QED
    BY <1>3, <1>15, <1>16 DEF Flow

(* The server has the release: it has passed on all inputs, and the switch *)
(* to the next golfer comes after them.                                    *)
LEMMA FlowHandOver ==
  ASSUME Types, Owned, OneToken, Flow, NEW p \in Player, From(p, "GolfRelease"), NEW S,
         NEW v \in Nat, SendTo(S, GolfSwitch(v)),
         UNCHANGED <<inputs, packet, buffer, view, taken>>
  PROVE  Flow'
  <1>1. PICK f \in 0 .. inputs : Downstream(f) /\ Upstream(f)
    BY DEF Flow
  <1>2. f \in Nat /\ inputs \in Nat
    BY FlowTypes
  <1>3. /\ up[p] \in Seq(Msg) /\ up[p] # <<>> /\ Head(up[p]).type = "GolfRelease"
        /\ up'[p] = Tail(up[p]) /\ \A q \in Player : q # p => up'[q] = up[q]
    BY FromCases
  <1>4. Release(p, 1) /\ Owner(p)
    <2>1. Release(p, 1)
      BY <1>3, AtTail DEF Release
    <2> QED
      BY <2>1 DEF Owner
  <1>5. \A q \in Player : ~Holds(q) /\ (q # p => ~Owner(q))
    BY <1>4, OneOwner DEF OneToken
  <1>6. \A k \in Nat : Release(p, k) => k = 1
    BY <1>4 DEF OneToken
  <1>7. \A k \in Nat : ~In(up[p], k, Made)
    <2> SUFFICES ASSUME NEW k \in Nat, In(up[p], k, Made) PROVE FALSE
      OBVIOUS
    <2>1. At(up[p], k, "PadHostData") /\ k # 0
      BY <1>3, InValue DEF Made, In, At
    <2>2. PICK l \in Nat : l > k /\ At(up[p], l, "GolfRelease")
      BY <1>5, <2>1 DEF Owned, Covered
    <2>3. l = 1
      BY <1>6, <2>2 DEF Release
    <2> QED
      BY <2>1, <2>2, <2>3
  <1>8. packet[p] = 0
    BY <1>5 DEF Owned
  <1>9. f = inputs /\ Has(p) = inputs
    <2>1. Built(p) = inputs
      BY <1>8 DEF Built
    <2>2. Stream(up[p], Made, f, inputs) /\ f <= inputs /\ Has(p) = inputs
      BY <1>1, <1>4, <2>1 DEF Upstream
    <2>3. inputs <= f
      BY <1>2, <1>3, <1>7, <2>2, StreamNone
    <2> QED
      BY <1>2, <2>2, <2>3
  <1>10. \A q \in Player : ~Owner(q)'
    <2>1. \A k \in Nat : ~Release(p, k)'
      <3>1. \A k \in Nat : Release(p, k)' => k # 0 /\ Release(p, k + 1)
        BY <1>3, AtTail DEF Release
      <3>2. \A k \in Nat : k # 0 => k + 1 \in Nat /\ k + 1 # 1
        OBVIOUS
      <3> QED
        BY <1>6, <3>1, <3>2
    <2>2. \A q \in Player : ~Holds(q)'
      BY <1>5 DEF Holds
    <2>3. \A q \in Player : q # p => \A k \in Nat : ~Release(q, k)'
      BY <1>3, <1>5 DEF Owner, Release
    <2> QED
      BY <2>1, <2>2, <2>3 DEF Owner
  <1>11. \A q \in Player : \A k \in Nat : ~In(up'[q], k, Made)
    <2>1. \A k \in Nat : ~In(up'[p], k, Made)
      BY <1>3, <1>7, InTail
    <2>2. \A q \in Player : q # p => \A k \in Nat : ~In(up'[q], k, Made)
      BY <1>1, <1>3, <1>5 DEF Upstream
    <2> QED
      BY <2>1, <2>2
  <1>12. \A q \in Player : Has(q)' = Has(q) /\ packet'[q] = 0 /\ Has(q) <= f
    <2>1. \A q \in Player : Has(q)' = Has(q)
      BY DEF Has
    <2>2. \A q \in Player : packet'[q] = 0
      BY <1>1, <1>5, <1>8 DEF Upstream
    <2>3. \A q \in Player : Has(q) <= f
      BY <1>1, <1>2, <1>5, <1>9 DEF Downstream
    <2> QED
      BY <2>1, <2>2, <2>3
  <1>13. \A q \in Player : DownKeep(q)
    <2>1. GolfSwitch(v) \in Msg /\ GolfSwitch(v).type = "GolfSwitch"
      BY Messages
    <2>2. GolfSwitch(v) \notin Passed
      BY <2>1 DEF Passed
    <2>3. \A q \in Player : down'[q] = down[q] \/ down'[q] = Append(down[q], GolfSwitch(v))
      BY <2>1, SentToCases
    <2> QED
      BY <2>1, <2>2, <2>3, KeepDownSame, KeepDownAppend
  <1>14. Downstream(f)'
    BY <1>1, <1>2, <1>12, <1>13, FlowTypes DEF Downstream, DownKeep
  <1>15. Upstream(f)'
    BY <1>9, <1>10, <1>11, <1>12 DEF Upstream
  <1> QED
    BY <1>1, <1>14, <1>15 DEF Flow

-----------------------------------------------------------------------------
(* The flow of inputs through every step. *)
LEMMA CPUFlow ==
  ASSUME InTime, Flow, NEW p \in Player, CPU(p)
  PROVE  Flow'
  <1>0. Types /\ Owned /\ members = Player /\ OneToken
    BY DEF InTime, Control
  <1>1. view' = view /\ down' = down
    BY DEF CPU, Pause, Leave, ClearReceived, Woken, PollLocalPad, SkipHostPoll, WaitFirst,
         BuildInput, SendInput, Pop, net
  <1>2. \A q \in Player : Holds(q)' <=> Holds(q)
    BY <1>1 DEF Holds
  <1>3. \A q \in Player : DownKeep(q)
    BY <1>1, KeepDownSame
  <1>4. CASE BuildInput(p) /\ buffer[p] = <<>>
    <2>1. cpu[p] # "built" /\ Holds(p)
      BY <1>0, <1>4 DEF BuildInput, AsGolfer, Owned, Holds
    <2>2. /\ inputs' = inputs + 1 /\ buffer' = [buffer EXCEPT ![p] = <<inputs + 1>>]
          /\ packet' = [packet EXCEPT ![p] = inputs + 1] /\ UNCHANGED <<up, down, view, taken>>
      BY <1>4 DEF BuildInput, net
    <2> QED
      BY <1>0, <1>4, <2>1, <2>2, FlowBuild
  <1>5. CASE SendInput(p)
    <2>1. Holds(p)
      BY <1>0, <1>5 DEF SendInput, Owned
    <2>2. /\ SendAsync(p, PadHostData(packet[p])) /\ packet' = [packet EXCEPT ![p] = 0]
          /\ UNCHANGED <<inputs, buffer, down, view, taken>>
      BY <1>5 DEF SendInput, hist
    <2> QED
      BY <1>0, <2>1, <2>2, FlowSend
  <1>6. CASE ~SendInput(p) /\ ~(BuildInput(p) /\ buffer[p] = <<>>)
    <2>1. inputs' = inputs /\ packet' = packet
      BY <1>6 DEF CPU, Pause, Leave, ClearReceived, Woken, PollLocalPad, SkipHostPoll, WaitFirst,
           BuildInput, Pop, pads, hist
    <2>2. \A q \in Player : Has(q)' = Has(q)
      <3>1. CASE Pop(p) /\ buffer[p] # <<>>
        <4>1. /\ taken' = [taken EXCEPT ![p] = Append(taken[p], Head(buffer[p]))]
              /\ buffer' = [buffer EXCEPT ![p] = Tail(buffer[p])]
          BY <3>1 DEF Pop
        <4>2. \A q \in Player : q # p => taken'[q] = taken[q] /\ buffer'[q] = buffer[q]
          BY <1>0, <4>1 DEF Types
        <4>3. taken'[p] = Append(taken[p], Head(buffer[p])) /\ buffer'[p] = Tail(buffer[p])
          BY <1>0, <4>1 DEF Types
        <4>4. taken[p] \in Seq(Nat) /\ buffer[p] \in Seq(Nat)
          BY <1>0, FlowTypes
        <4>5. /\ Len(Tail(buffer[p])) = Len(buffer[p]) - 1 /\ Len(buffer[p]) \in Nat
              /\ Head(buffer[p]) \in Nat /\ Len(buffer[p]) >= 1
          BY <3>1, <4>4, TailFacts
        <4>6. Len(Append(taken[p], Head(buffer[p]))) = Len(taken[p]) + 1 /\ Len(taken[p]) \in Nat
          BY <4>4, <4>5, AppendFacts
        <4>7. \A i, j \in Nat : (i + 1) + (j - 1) = i + j
          OBVIOUS
        <4>8. Has(p)' = (Len(taken[p]) + 1) + (Len(buffer[p]) - 1)
          BY <4>3, <4>5, <4>6, Zenon DEF Has
        <4>9. Has(p)' = Has(p)
          BY <4>5, <4>6, <4>7, <4>8, Zenon DEF Has
        <4> QED
          BY <4>2, <4>9 DEF Has
      <3>2. CASE ~(Pop(p) /\ buffer[p] # <<>>)
        <4>1. UNCHANGED <<taken, buffer>>
          BY <1>6, <3>2 DEF CPU, Pause, Leave, ClearReceived, Woken, PollLocalPad, SkipHostPoll,
               WaitFirst, BuildInput, Pop, pads
        <4> QED
          BY <4>1 DEF Has
      <3> QED
        BY <3>1, <3>2
    <2>3. \A q \in Player : UpKeep(q)
      <3>1. CASE Pause(p)
        <4>1. Signal("GolfPrepare") \in Msg /\ Signal("GolfPrepare").type = "GolfPrepare"
          BY Messages DEF Kind
        <4>2. CASE received[p]
          <5>1. PICK j \in Flushed(p) : Send(p, j, Signal("GolfPrepare"))
            BY <3>1, <4>2 DEF Pause
          <5>2. /\ j \in 0 .. Len(up[p]) /\ \A i \in j + 1 .. Len(up[p]) : Queued(up[p][i])
                /\ up'[p] = Insert(up[p], j, Signal("GolfPrepare"))
                /\ \A q \in Player : q # p => up'[q] = up[q]
            BY <1>0, <5>1, SendReaches
          <5>3. UpKeep(p)
            BY <1>0, <4>1, <5>2, KeepUpInsert
          <5> QED
            BY <5>2, <5>3, KeepUpSame
        <4>3. CASE ~received[p]
          BY <3>1, <4>3, KeepUpSame DEF Pause
        <4> QED
          BY <4>2, <4>3
      <3>2. CASE PollLocalPad(p)
        <4>1. PadData(p) \in Msg /\ PadData(p).type = "PadData"
          BY Messages, Constants
        <4>2. PadData(p) \notin Made
          BY <4>1 DEF Made
        <4>3. up' = up \/ SendAsync(p, PadData(p))
          BY <3>2 DEF PollLocalPad
        <4>4. \A q \in Player : up'[q] = up[q] \/ up'[q] = Append(up[q], PadData(p))
          BY <1>0, <4>1, <4>3, SentCases
        <4> QED
          BY <1>0, <4>1, <4>2, <4>4, KeepUpSame, KeepUpAppend
      <3>3. CASE ~Pause(p) /\ ~PollLocalPad(p)
        <4>1. up' = up
          BY <1>6, <3>3 DEF CPU, Leave, ClearReceived, Woken, SkipHostPoll, WaitFirst, BuildInput, Pop, net
        <4> QED
          BY <4>1, KeepUpSame
      <3> QED
        BY <3>1, <3>2, <3>3
    <2> QED
      BY <1>0, <1>2, <1>3, <2>1, <2>2, <2>3, FlowKeeps
  <1> QED
    BY <1>4, <1>5, <1>6

LEMMA ClientFlow ==
  ASSUME InTime, Flow, NEW p \in Player, Client(p)
  PROVE  Flow' /\ \A m \in Message(p, "PadData") : OnPadData(p) => m.value = Has(p) + 1
  <1>0. Types /\ Values /\ Owned /\ members = Player /\ OneToken
    BY DEF InTime, Control
  <1>1. PICK t \in Kind : \E m \in Message(p, t) : Received(p)
    BY DEF Client, OnGolfSwitch, OnGolfPrepare, OnPadData, OnPadHostData, OnStop, Kind
  <1>2. PICK m \in Message(p, t) : Received(p)
    BY <1>1
  <1>3. /\ down[p] # <<>> /\ m = Head(down[p]) /\ m.type = t /\ m \in Msg
        /\ down' = [down EXCEPT ![p] = Tail(@)]
    BY <1>0, <1>2, MessageShape DEF Received
  <1>4. /\ down'[p] = Tail(down[p]) /\ \A q \in Player : q # p => down'[q] = down[q]
    BY <1>0, <1>3 DEF Types
  <1>5. UNCHANGED <<inputs, packet, taken>>
    BY <1>2 DEF Received
  <1>6. ASSUME OnPadData(p)
        PROVE  Flow' /\ \A n \in Message(p, "PadData") : n.value = Has(p) + 1
    <2>1. PICK n \in Message(p, "PadData") :
            /\ UNCHANGED up /\ UNCHANGED view
            /\ buffer' = [buffer EXCEPT ![p] = Append(@, n.value)]
      BY <1>6 DEF OnPadData
    <2>2. n.type = "PadData" /\ n = Head(down[p]) /\ n \in Msg
      BY <1>0, <2>1, MessageShape
    <2>3. Flow' /\ n.value = Has(p) + 1
      BY <1>0, <1>3, <1>5, <2>1, <2>2, FlowPad
    <2>4. \A o \in Message(p, "PadData") : o = n
      BY <2>1 DEF Message
    <2> QED
      BY <2>3, <2>4
  <1>7. ASSUME ~OnPadData(p) PROVE Flow'
    <2>1. buffer' = buffer /\ m.type # "PadData"
      <3>1. buffer' = buffer
        BY <1>7 DEF Client, OnGolfSwitch, OnGolfPrepare, OnPadHostData, OnStop
      <3>2. Head(down[p]).type # "PadData"
        BY <1>7 DEF Client, OnGolfSwitch, OnGolfPrepare, OnPadHostData, OnStop, Message
      <3> QED
        BY <1>3, <3>1, <3>2
    <2>2. \A q \in Player : Has(q)' = Has(q)
      BY <1>5, <2>1 DEF Has
    <2>3. \A q \in Player : DownKeep(q)
      <3>1. Head(down[p]) \notin Passed
        BY <1>3, <2>1 DEF Passed
      <3> QED
        BY <1>0, <1>3, <1>4, <3>1, KeepDownSame, KeepDownTail
    <2>4. CASE OnGolfSwitch(p)
      <3>1. PICK n \in Message(p, "GolfSwitch"), j \in Flushed(p) :
              /\ view' = [view EXCEPT ![p] = n.value]
              /\ \/ view[p] = p /\ Send(p, j, Signal("GolfRelease"))
                 \/ view[p] # p /\ n.value = p /\ Send(p, j, Signal("GolfAcquire"))
                 \/ view[p] # p /\ n.value # p /\ up' = up
        BY <2>4 DEF OnGolfSwitch
      <3>2. n.type = "GolfSwitch" /\ n = Head(down[p])
        BY <1>0, <3>1, MessageShape
      <3>3. n.value = p => Grant(p, 1)
        <4>1. down[p] \in Seq(Msg)
          BY <1>0, FlowTypes
        <4>2. At(down[p], 1, "GolfSwitch") /\ down[p][1] = Head(down[p])
          BY <1>3, <3>2, <4>1, AtTail, TailFacts
        <4> QED
          BY <3>2, <4>2 DEF Grant, Switch
      <3>4. CASE view[p] = p
        <4>1. Head(down[p]).value # p
          BY <1>0, <3>2, <3>3, <3>4 DEF OneToken, Holds
        <4> QED
          BY <1>0, <1>3, <1>5, <2>1, <3>1, <3>2, <3>4, <4>1, FlowRelease DEF Holds
      <3>5. CASE view[p] # p /\ n.value = p
        BY <1>0, <1>3, <1>5, <2>1, <3>1, <3>3, <3>5, FlowAcquire
      <3>6. CASE view[p] # p /\ n.value # p
        <4>1. \A q \in Player : Holds(q)' <=> Holds(q)
          BY <1>0, <3>1, <3>6 DEF Holds, Types
        <4>2. \A q \in Player : UpKeep(q)
          BY <3>1, <3>6, KeepUpSame
        <4> QED
          BY <1>0, <1>5, <2>2, <2>3, <4>1, <4>2, FlowKeeps
      <3> QED
        BY <1>7, <3>4, <3>5, <3>6
    <2>5. CASE ~OnGolfSwitch(p)
      <3>1. UNCHANGED <<view, up>>
        BY <1>7, <2>5 DEF Client, OnGolfPrepare, OnPadHostData, OnStop
      <3>2. \A q \in Player : UpKeep(q) /\ (Holds(q)' <=> Holds(q))
        BY <3>1, KeepUpSame DEF Holds
      <3> QED
        BY <1>0, <1>5, <1>7, <2>2, <2>3, <3>2, FlowKeeps
    <2> QED
      BY <2>4, <2>5
  <1> QED
    BY <1>6, <1>7

LEMMA ServerFlow ==
  ASSUME InTime, Flow, NEW p \in Player, Server(p) \/ ServerStops
  PROVE  Flow'
  <1>0. Types /\ Values /\ Owned /\ members = Player /\ OneToken
    BY DEF InTime, Control
  <1>1. ~ServerKicks(p)
    BY ServerOwned
  <1>2. UNCHANGED <<inputs, packet, buffer, view, taken>>
    BY <1>1 DEF Server, ServerStops, ServerOnPadData, ServerOnPadHostData,
           ServerOnGolfRequest, ServerOnGolfPrepare, ServerOnGolfRelease, ServerOnGolfAcquire,
           Rest, pads, hist
  <1>3. \A q \in Player : Has(q)' = Has(q) /\ (Holds(q)' <=> Holds(q))
    BY <1>2 DEF Has, Holds
  <1>4. ASSUME NEW t \in Kind \ {"PadHostData", "GolfRelease"}, From(p, t)
        PROVE  \A q \in Player : UpKeep(q)
    <2>1. /\ up[p] # <<>> /\ Head(up[p]).type = t /\ up'[p] = Tail(up[p])
          /\ \A q \in Player : q # p => up'[q] = up[q]
      BY <1>0, <1>4, FromCases
    <2>2. Head(up[p]) \notin Made
      BY <2>1 DEF Made
    <2>3. UpKeep(p)
      BY <1>0, <2>1, <2>2, KeepUpTail
    <2> QED
      BY <2>1, <2>3, KeepUpSame
  <1>5. ASSUME NEW S, NEW m \in Msg, m.type # "PadData", SendTo(S, m)
        PROVE  \A q \in Player : DownKeep(q)
    <2>1. m \notin Passed
      BY <1>5 DEF Passed
    <2>2. \A q \in Player : down'[q] = down[q] \/ down'[q] = Append(down[q], m)
      BY <1>0, <1>5, SentToCases
    <2> QED
      BY <1>0, <1>5, <2>1, <2>2, KeepDownSame, KeepDownAppend
  <1>6. down' = down => \A q \in Player : DownKeep(q)
    BY KeepDownSame
  <1>7. /\ \A v \in Nat : PadHostData(v) \in Msg /\ PadHostData(v).type # "PadData"
        /\ \A v \in Nat : GolfSwitch(v) \in Msg /\ GolfSwitch(v).type # "PadData"
        /\ Signal("GolfPrepare") \in Msg /\ Signal("GolfPrepare").type # "PadData"
        /\ Signal("Stop") \in Msg /\ Signal("Stop").type # "PadData"
    BY Messages DEF Kind
  <1>8. CASE ServerOnPadData(p)
    <2>1. From(p, "PadData") /\ SendTo({current} \cap members, PadHostData(p))
      BY <1>8 DEF ServerOnPadData
    <2>2. PadHostData(p) \in Msg /\ PadHostData(p).type # "PadData"
      BY <1>7, Constants
    <2>3. \A q \in Player : UpKeep(q)
      BY <1>4, <2>1 DEF Kind
    <2>4. \A q \in Player : DownKeep(q)
      BY <1>5, <2>1, <2>2
    <2> QED
      BY <1>0, <1>2, <1>3, <2>3, <2>4, FlowKeeps
  <1>9. CASE ServerOnPadHostData(p)
    <2>1. CASE Head(up[p]).value = 0
      <3>1. From(p, "PadHostData") /\ down' = down
        BY <1>9, <2>1 DEF ServerOnPadHostData
      <3>2. /\ up[p] # <<>> /\ Head(up[p]).type = "PadHostData" /\ up'[p] = Tail(up[p])
            /\ \A q \in Player : q # p => up'[q] = up[q]
        BY <1>0, <3>1, FromCases
      <3>3. Head(up[p]) \notin Made
        BY <2>1 DEF Made
      <3>4. UpKeep(p)
        BY <1>0, <3>2, <3>3, KeepUpTail
      <3>5. \A q \in Player : UpKeep(q)
        BY <3>2, <3>4, KeepUpSame
      <3> QED
        BY <1>0, <1>2, <1>3, <1>6, <3>1, <3>5, FlowKeeps
    <2>2. CASE Head(up[p]).value # 0
      <3>1. From(p, "PadHostData") /\ SendTo(members \ {p}, PadData(Head(up[p]).value))
        BY <1>9, <2>2 DEF ServerOnPadHostData
      <3> QED
        BY <1>0, <1>2, <2>2, <3>1, FlowPass
    <2> QED
      BY <2>1, <2>2
  <1>10. CASE ServerOnGolfRequest(p)
    <2>1. From(p, "GolfRequest") /\ (down' = down \/ \E S : SendTo(S, Signal("GolfPrepare")))
      BY <1>10 DEF ServerOnGolfRequest
    <2>2. \A q \in Player : UpKeep(q)
      BY <1>4, <2>1 DEF Kind
    <2>3. \A q \in Player : DownKeep(q)
      BY <1>5, <1>6, <1>7, <2>1
    <2> QED
      BY <1>0, <1>2, <1>3, <2>2, <2>3, FlowKeeps
  <1>11. CASE ServerOnGolfPrepare(p)
    <2>1. From(p, "GolfPrepare") /\ (down' = down \/ \E S : SendTo(S, GolfSwitch(0)))
      BY <1>11 DEF ServerOnGolfPrepare
    <2>2. \A q \in Player : UpKeep(q)
      BY <1>4, <2>1 DEF Kind
    <2>3. \A q \in Player : DownKeep(q)
      BY <1>5, <1>6, <1>7, <2>1
    <2> QED
      BY <1>0, <1>2, <1>3, <2>2, <2>3, FlowKeeps
  <1>12. CASE ServerOnGolfRelease(p)
    <2>1. From(p, "GolfRelease") /\ pending \in Nat
      BY <1>0, <1>12, Constants DEF ServerOnGolfRelease, Types
    <2>2. \E S : SendTo(S, GolfSwitch(pending))
      <3>1. CASE pending = 0
        <4>1. down' = down
          BY <1>12, <3>1 DEF ServerOnGolfRelease
        <4>2. SendTo({}, GolfSwitch(pending))
          BY <1>0, <4>1 DEF SendTo, Types
        <4> QED
          BY <4>2
      <3>2. CASE pending # 0
        BY <1>12, <3>2 DEF ServerOnGolfRelease
      <3> QED
        BY <3>1, <3>2
    <2> QED
      BY <1>0, <1>2, <2>1, <2>2, FlowHandOver
  <1>13. CASE ServerOnGolfAcquire(p)
    <2>1. From(p, "GolfAcquire") /\ down' = down
      BY <1>13 DEF ServerOnGolfAcquire
    <2>2. \A q \in Player : UpKeep(q)
      BY <1>4, <2>1 DEF Kind
    <2> QED
      BY <1>0, <1>2, <1>3, <1>6, <2>1, <2>2, FlowKeeps
  <1>14. CASE ServerStops
    <2>1. up' = up /\ SendTo(members, Signal("Stop"))
      BY <1>14 DEF ServerStops
    <2>2. \A q \in Player : UpKeep(q) /\ DownKeep(q)
      BY <1>5, <1>7, <2>1, KeepUpSame
    <2> QED
      BY <1>0, <1>2, <1>3, <2>2, FlowKeeps
  <1> QED
    BY <1>1, <1>8, <1>9, <1>10, <1>11, <1>12, <1>13, <1>14 DEF Server

LEMMA GuiFlow ==
  ASSUME InTime, Flow, NEW p \in Player, StartGame(p) \/ \E q \in Player : RequestGolfControl(p, q)
  PROVE  Flow'
  <1>0. Types /\ Owned /\ members = Player /\ Booting /\ ~early
    BY DEF InTime, Control
  <1>1. UNCHANGED <<inputs, packet, taken, down>>
    BY DEF StartGame, RequestGolfControl, net, pads, hist
  <1>2. \A q \in Player : DownKeep(q)
    BY <1>1, KeepDownSame
  <1>3. CASE StartGame(p)
    <2>1. /\ up' = up /\ ~booted[p]
          /\ buffer' = [buffer EXCEPT ![p] = <<>>] /\ view' = [view EXCEPT ![p] = 1]
      BY <1>3 DEF StartGame, net
    <2>2. view[p] = 1 /\ buffer[p] = <<>>
      BY <1>0, <2>1 DEF Booting, Asleep
    <2>3. view' = view /\ buffer' = buffer
      BY <1>0, <2>1, <2>2 DEF Types
    <2>4. \A q \in Player : Has(q)' = Has(q) /\ (Holds(q)' <=> Holds(q))
      BY <1>1, <2>3 DEF Has, Holds
    <2>5. \A q \in Player : UpKeep(q)
      BY <2>1, KeepUpSame
    <2> QED
      BY <1>0, <1>1, <1>2, <2>4, <2>5, FlowKeeps
  <1>4. ASSUME NEW q \in Player, RequestGolfControl(p, q) PROVE Flow'
    <2>1. UNCHANGED <<view, buffer>> /\ SendAsync(p, GolfRequest(q))
      BY <1>4 DEF RequestGolfControl, pads
    <2>2. GolfRequest(q) \in Msg /\ GolfRequest(q).type = "GolfRequest"
      BY Messages, Constants
    <2>3. GolfRequest(q) \notin Made
      BY <2>2 DEF Made
    <2>4. \A r \in Player : up'[r] = up[r] \/ up'[r] = Append(up[r], GolfRequest(q))
      BY <1>0, <2>1, <2>2, SentCases
    <2>5. \A r \in Player : UpKeep(r)
      BY <1>0, <2>2, <2>3, <2>4, KeepUpSame, KeepUpAppend
    <2>6. \A r \in Player : Has(r)' = Has(r) /\ (Holds(r)' <=> Holds(r))
      BY <1>1, <2>1 DEF Has, Holds
    <2> QED
      BY <1>0, <1>1, <1>2, <2>5, <2>6, FlowKeeps
  <1> QED
    BY <1>3, <1>4

-----------------------------------------------------------------------------
(* What an emulator has applied and what its buffer holds, in a row. *)
InRow(t, b) == /\ \A k \in 1 .. Len(t) : t[k] = k
               /\ \A k \in 1 .. Len(b) : b[k] = Len(t) + k

LEMMA RowPop ==
  ASSUME NEW t \in Seq(Nat), NEW b \in Seq(Nat), b # <<>>, InRow(t, b)
  PROVE  InRow(Append(t, Head(b)), Tail(b))
  <1>1. /\ Len(Tail(b)) = Len(b) - 1 /\ Len(b) \in Nat /\ Len(b) >= 1 /\ Head(b) = b[1]
        /\ Head(b) \in Nat /\ \A k \in 1 .. Len(b) - 1 : Tail(b)[k] = b[k + 1]
    BY TailFacts
  <1>2. Head(b) = Len(t) + 1
    BY <1>1 DEF InRow
  <1>3. /\ Len(Append(t, Head(b))) = Len(t) + 1 /\ Len(t) \in Nat
        /\ Append(t, Head(b))[Len(t) + 1] = Head(b)
        /\ \A k \in 1 .. Len(t) : Append(t, Head(b))[k] = t[k]
    BY <1>1, AppendFacts
  <1> DEFINE u == Append(t, Head(b))
             c == Tail(b)
  <1> HIDE DEF u, c
  <1>4. /\ Len(u) = Len(t) + 1 /\ Len(t) \in Nat /\ u[Len(t) + 1] = Len(t) + 1
        /\ \A k \in 1 .. Len(t) : u[k] = t[k]
        /\ Len(c) = Len(b) - 1 /\ Len(b) \in Nat /\ Len(b) >= 1
        /\ \A k \in 1 .. Len(b) - 1 : c[k] = b[k + 1]
    BY <1>1, <1>2, <1>3 DEF u, c
  <1>5. ASSUME NEW k \in 1 .. Len(u) PROVE u[k] = k
    <2>1. CASE k = Len(t) + 1
      BY <1>4, <2>1
    <2>2. CASE k # Len(t) + 1
      <3>1. k \in 1 .. Len(t)
        BY <1>4, <2>2
      <3> QED
        BY <1>4, <3>1 DEF InRow
    <2> QED
      BY <2>1, <2>2
  <1>6. ASSUME NEW k \in 1 .. Len(c) PROVE c[k] = Len(u) + k
    <2>1. k + 1 \in 1 .. Len(b) /\ c[k] = b[k + 1] /\ k \in Nat
      BY <1>4, <1>6
    <2>2. b[k + 1] = Len(t) + (k + 1)
      BY <2>1 DEF InRow
    <2> QED
      BY <1>4, <2>1, <2>2
  <1> QED
    BY <1>5, <1>6 DEF InRow, u, c

LEMMA RowPush ==
  ASSUME NEW t \in Seq(Nat), NEW b \in Seq(Nat), InRow(t, b), NEW v \in Nat,
         v = Len(t) + (Len(b) + 1)
  PROVE  InRow(t, Append(b, v))
  <1>1. /\ Len(Append(b, v)) = Len(b) + 1 /\ Len(b) \in Nat /\ Append(b, v)[Len(b) + 1] = v
        /\ \A k \in 1 .. Len(b) : Append(b, v)[k] = b[k]
    BY AppendFacts
  <1> QED
    BY <1>1 DEF InRow

LEMMA RowFirst ==
  ASSUME NEW t \in Seq(Nat), InRow(t, <<>>), NEW v \in Nat, v = Len(t) + 1
  PROVE  InRow(t, <<v>>)
  <1>1. Len(<<v>>) = 1 /\ <<v>>[1] = v
    OBVIOUS
  <1>2. \A k \in 1 .. 1 : k = 1
    OBVIOUS
  <1> QED
    BY <1>1, <1>2 DEF InRow

LEMMA CountedRows == Counted <=> \A p \in Player : InRow(taken[p], buffer[p])
  BY DEF Counted, InRow

LEMMA CountedRowsNext == Counted' <=> \A p \in Player : InRow(taken'[p], buffer'[p])
  BY DEF Counted, InRow

LEMMA CountedStep ==
  ASSUME InTime, Flow, Counted, Next
  PROVE  Counted'
  <1>0. Types /\ Values /\ Owned /\ OneToken /\ Booting /\ ~early
    BY DEF InTime, Control
  <1>1. \A q \in Player : /\ InRow(taken[q], buffer[q])
                          /\ taken[q] \in Seq(Nat) /\ buffer[q] \in Seq(Nat)
    BY <1>0, CountedRows, FlowTypes
  <1>2. ASSUME UNCHANGED <<taken, buffer>> PROVE Counted'
    BY <1>2 DEF Counted
  <1>3. ASSUME NEW p \in Player, CPU(p) PROVE Counted'
    <2>1. CASE Pop(p) /\ buffer[p] # <<>>
      <3>1. /\ taken' = [taken EXCEPT ![p] = Append(taken[p], Head(buffer[p]))]
            /\ buffer' = [buffer EXCEPT ![p] = Tail(buffer[p])]
        BY <2>1 DEF Pop
      <3>2. /\ taken'[p] = Append(taken[p], Head(buffer[p])) /\ buffer'[p] = Tail(buffer[p])
            /\ \A q \in Player : q # p => taken'[q] = taken[q] /\ buffer'[q] = buffer[q]
        BY <1>0, <3>1 DEF Types
      <3>3. InRow(taken'[p], buffer'[p])
        BY <1>1, <2>1, <3>2, RowPop
      <3> QED
        BY <1>1, <3>2, <3>3, CountedRowsNext
    <2>2. CASE BuildInput(p) /\ buffer[p] = <<>>
      <3>1. taken' = taken /\ buffer' = [buffer EXCEPT ![p] = <<inputs + 1>>]
        BY <2>2 DEF BuildInput
      <3>2. /\ taken'[p] = taken[p] /\ buffer'[p] = <<inputs + 1>>
            /\ \A q \in Player : q # p => taken'[q] = taken[q] /\ buffer'[q] = buffer[q]
        BY <1>0, <3>1 DEF Types
      <3>3. Owner(p)
        BY <1>0, <2>2 DEF BuildInput, AsGolfer, Owned, Holds, Owner
      <3>4. Has(p) = inputs
        BY <3>3 DEF Flow, Upstream
      <3>5. Len(taken[p]) = inputs
        <4>1. Len(buffer[p]) = 0
          BY <2>2
        <4>2. Len(taken[p]) + 0 = inputs /\ Len(taken[p]) \in Nat
          BY <1>0, <3>4, <4>1, FlowTypes DEF Has
        <4> QED
          BY <4>2
      <3>6. InRow(taken'[p], buffer'[p])
        <4>1. inputs + 1 \in Nat /\ inputs + 1 = Len(taken[p]) + 1
          BY <1>0, <3>5, FlowTypes
        <4> QED
          BY <1>1, <2>2, <3>2, <4>1, RowFirst
      <3> QED
        BY <1>1, <3>2, <3>6, CountedRowsNext
    <2>3. CASE ~(Pop(p) /\ buffer[p] # <<>>) /\ ~(BuildInput(p) /\ buffer[p] = <<>>)
      <3>1. UNCHANGED <<taken, buffer>>
        BY <1>3, <2>3 DEF CPU, Pause, Leave, ClearReceived, Woken, PollLocalPad, SkipHostPoll,
             WaitFirst, BuildInput, SendInput, Pop, pads
      <3> QED
        BY <1>2, <3>1
    <2> QED
      BY <2>1, <2>2, <2>3
  <1>4. ASSUME NEW p \in Player, Client(p) PROVE Counted'
    <2>1. taken' = taken
      BY <1>4 DEF Client, OnGolfSwitch, OnGolfPrepare, OnPadData, OnPadHostData, OnStop, Received
    <2>2. CASE OnPadData(p)
      <3>1. PICK m \in Message(p, "PadData") : buffer' = [buffer EXCEPT ![p] = Append(@, m.value)]
        BY <2>2 DEF OnPadData
      <3>2. /\ buffer'[p] = Append(buffer[p], m.value)
            /\ \A q \in Player : q # p => buffer'[q] = buffer[q]
        BY <1>0, <3>1 DEF Types
      <3>3. m.value = Has(p) + 1 /\ m.value \in Nat
        BY <1>0, <1>4, <2>2, <3>1, ClientFlow, MessageShape
      <3>4. m.value = Len(taken[p]) + (Len(buffer[p]) + 1)
        <4>1. \A i, j \in Nat : i + (j + 1) = (i + j) + 1
          OBVIOUS
        <4>2. Len(taken[p]) \in Nat /\ Len(buffer[p]) \in Nat
          BY <1>0, FlowTypes
        <4>3. m.value = (Len(taken[p]) + Len(buffer[p])) + 1
          BY <3>3, Zenon DEF Has
        <4> QED
          BY <4>1, <4>2, <4>3, Zenon
      <3>5. InRow(taken'[p], buffer'[p])
        BY <1>1, <2>1, <3>2, <3>3, <3>4, RowPush
      <3> QED
        BY <1>1, <2>1, <3>2, <3>5, CountedRowsNext
    <2>3. CASE ~OnPadData(p)
      <3>1. buffer' = buffer
        BY <1>4, <2>3 DEF Client, OnGolfSwitch, OnGolfPrepare, OnPadHostData, OnStop
      <3> QED
        BY <1>2, <2>1, <3>1
    <2> QED
      BY <2>2, <2>3
  <1>5. ASSUME NEW p \in Player, Server(p) \/ ServerStops PROVE Counted'
    <2>1. UNCHANGED <<taken, buffer>>
      BY <1>5 DEF Server, ServerStops, ServerOnPadData, ServerOnPadHostData, ServerKicks,
           ServerOnGolfRequest, ServerOnGolfPrepare, ServerOnGolfRelease, ServerOnGolfAcquire,
           Rest, pads
    <2> QED
      BY <1>2, <2>1
  <1>6. ASSUME NEW p \in Player, StartGame(p) \/ \E q \in Player : RequestGolfControl(p, q)
        PROVE  Counted'
    <2>1. CASE StartGame(p)
      <3>1. ~booted[p] /\ taken' = taken /\ buffer' = [buffer EXCEPT ![p] = <<>>]
        BY <2>1 DEF StartGame
      <3>2. buffer[p] = <<>>
        BY <1>0, <3>1 DEF Booting, Asleep
      <3>3. buffer' = buffer
        BY <1>0, <3>1, <3>2 DEF Types
      <3> QED
        BY <1>2, <3>1, <3>3
    <2>2. CASE \E q \in Player : RequestGolfControl(p, q)
      <3>1. UNCHANGED <<taken, buffer>>
        BY <2>2 DEF RequestGolfControl, pads
      <3> QED
        BY <1>2, <3>1
    <2> QED
      BY <1>6, <2>1, <2>2
  <1> QED
    BY <1>3, <1>4, <1>5, <1>6, Constants DEF Next

-----------------------------------------------------------------------------
LEMMA InputsInit == Init => Inputs
  <1> SUFFICES ASSUME Init PROVE Inputs
    OBVIOUS
  <1>1. /\ members = Player /\ inputs = 0 /\ view = [p \in Player |-> 1]
        /\ up = [p \in Player |-> <<>>] /\ down = [p \in Player |-> <<>>]
        /\ buffer = [p \in Player |-> <<>>] /\ taken = [p \in Player |-> <<>>]
        /\ packet = [p \in Player |-> 0] /\ cpu = [p \in Player |-> "off"]
    BY DEF Init
  <1>2. Len(<<>>) = 0 /\ 0 + 0 = 0 /\ 0 \in 0 .. 0
    OBVIOUS
  <1>3. \A k \in Nat : \A t, M : ~At(<<>>, k, t) /\ ~In(<<>>, k, M)
    BY <1>2 DEF At, In
  <1>4. Owned
    BY <1>1, <1>3 DEF Owned, Covered
  <1>5. Counted
    BY <1>1, <1>2 DEF Counted
  <1>6. \A p \in Player : Has(p) = 0 /\ Built(p) = 0
    BY <1>1, <1>2 DEF Has, Built
  <1>7. Stream(<<>>, Made, 0, 0) /\ Stream(<<>>, Passed, 0, 0)
    <2>1. \A v \in Nat : ~(0 < v /\ v <= 0)
      OBVIOUS
    <2>2. \A k \in Nat : ~In(<<>>, k, Made) /\ ~In(<<>>, k, Passed)
      BY <1>3
    <2> QED
      BY <2>1, <2>2, Zenon DEF Stream
  <1>8. Downstream(0)
    <2>1. \A p \in Player : LastWord(p)
      BY <1>1, <1>3, Zenon DEF LastWord
    <2>2. \A p \in Player : Stream(down[p], Passed, Has(p), 0) /\ Has(p) <= 0
      BY <1>1, <1>6, <1>7
    <2> QED
      BY <2>1, <2>2 DEF Downstream
  <1>9. Upstream(0)
    BY <1>1, <1>3, <1>6, <1>7 DEF Upstream
  <1> QED
    BY <1>1, <1>2, <1>4, <1>5, <1>8, <1>9 DEF Inputs, Flow

LEMMA InputsStep == Control /\ Inputs /\ [Next]_vars => Inputs'
  <1> SUFFICES ASSUME Control, Inputs, [Next]_vars, ~early', ~late'
               PROVE  (members = Player /\ Owned /\ Counted /\ Flow)'
    BY DEF Inputs
  <1>1. Types /\ ~early /\ ~late
    BY EarlyStays, LateStays DEF Control
  <1>2. members = Player /\ Owned /\ Counted /\ Flow
    BY <1>1 DEF Inputs
  <1>3. InTime
    BY <1>1, <1>2 DEF InTime, Control, Switching
  <1>4. CASE Next
    <2>1. Counted'
      BY <1>2, <1>3, <1>4, CountedStep
    <2>2. ASSUME NEW p \in Player, CPU(p) PROVE (members = Player)' /\ Owned' /\ Flow'
      BY <1>2, <1>3, <2>2, CPUOwned, CPUFlow
    <2>3. ASSUME NEW p \in Player, Client(p) PROVE (members = Player)' /\ Owned' /\ Flow'
      BY <1>2, <1>3, <2>3, ClientOwned, ClientFlow
    <2>4. ASSUME NEW p \in Player, Server(p) \/ ServerStops
          PROVE  (members = Player)' /\ Owned' /\ Flow'
      BY <1>2, <1>3, <2>4, ServerOwned, ServerFlow
    <2>5. ASSUME NEW p \in Player, StartGame(p) \/ \E q \in Player : RequestGolfControl(p, q)
          PROVE  (members = Player)' /\ Owned' /\ Flow'
      BY <1>2, <1>3, <2>5, GuiOwned, GuiFlow
    <2>6. (members = Player)' /\ Owned' /\ Flow'
      BY <1>4, <2>2, <2>3, <2>4, <2>5, Constants DEF Next
    <2> QED
      BY <2>1, <2>6
  <1>5. CASE UNCHANGED vars
    <2>1. UNCHANGED <<members, view, up, down, cpu, packet, buffer, taken, inputs>>
      BY <1>5 DEF vars, server, net, pads, hist
    <2>2. members' = Player
      BY <1>2, <2>1
    <2>3. Owned'
      BY <1>2, <2>1 DEF Owned, Holds
    <2>4. Counted'
      BY <1>2, <2>1 DEF Counted
    <2>5. Flow'
      <3>1. \A q \in Player : /\ Has(q)' = Has(q) /\ (Holds(q)' <=> Holds(q))
                              /\ UpKeep(q) /\ DownKeep(q)
        BY <2>1, KeepUpSame, KeepDownSame DEF Has, Holds
      <3> QED
        BY <1>1, <1>2, <2>1, <3>1, FlowKeeps
    <2> QED
      BY <2>2, <2>3, <2>4, <2>5
  <1> QED
    BY <1>4, <1>5

LEMMA InputsHold == Spec => [](Control /\ Inputs)
  <1>1. Init => Control /\ Inputs
    BY ControlInit, InputsInit
  <1>2. Control /\ Inputs /\ [Next]_vars => Control' /\ Inputs'
    BY ControlStep, InputsStep
  <1> QED
    BY <1>1, <1>2, PTL DEF Spec

(* A player is thrown out for an input only when a release has overtaken   *)
(* an input of the golfer (OnGolfSwitch's Send against SendPadHostPoll's   *)
(* SendAsync) or a game was started late ("Kick player if they're not the  *)
(* golfer"), for any number of players, polls and changes of control.      *)
THEOREM InTimeIsNeverKicked == Spec => []NoKickInTime
  <1>1. Control /\ Inputs => NoKickInTime
    BY DEF Control, Inputs, NoKickInTime, Types
  <1> QED
    BY <1>1, InputsHold, PTL

LEMMA RowsAgree ==
  ASSUME NEW s \in Seq(Nat), NEW t \in Seq(Nat), \A k \in 1 .. Len(s) : s[k] = k,
         \A k \in 1 .. Len(t) : t[k] = k, Len(s) <= Len(t)
  PROVE  Prefix(s, t)
  <1>1. Len(s) \in Nat /\ Len(t) \in Nat
    OBVIOUS
  <1> DEFINE u == SubSeq(t, 1, Len(s))
  <1>2. u \in Seq(Nat) /\ Len(u) = Len(s) /\ \A k \in 1 .. Len(s) : u[k] = t[k]
    BY <1>1
  <1> HIDE DEF u
  <1>3. ASSUME NEW k \in 1 .. Len(s) PROVE s[k] = u[k]
    <2>1. k \in 1 .. Len(t)
      BY <1>1
    <2> QED
      BY <1>2, <2>1
  <1>4. s \in [1 .. Len(s) -> Nat] /\ u \in [1 .. Len(s) -> Nat]
    BY <1>2
  <1>5. s = u
    BY <1>3, <1>4
  <1> QED
    BY <1>5 DEF Prefix, u

(* All emulators apply the same inputs in the same order through every     *)
(* change of control, unless a golfer's release overtakes its own input    *)
(* (OnGolfSwitch's Send against SendPadHostPoll's SendAsync): for any      *)
(* number of players, polls and requests, what one of two emulators has    *)
(* applied begins what the other has.                                      *)
THEOREM EmulatorsAgree == Spec => []InputsAgree
  <1>1. Control /\ Inputs => InputsAgree
    <2> SUFFICES ASSUME Control, Inputs, ~early, ~late, NEW p \in Player, NEW q \in Player
                 PROVE  Prefix(taken[p], taken[q]) \/ Prefix(taken[q], taken[p])
      BY DEF InputsAgree
    <2>1. taken[p] \in Seq(Nat) /\ taken[q] \in Seq(Nat)
      BY FlowTypes DEF Control
    <2>2. /\ \A k \in 1 .. Len(taken[p]) : taken[p][k] = k
          /\ \A k \in 1 .. Len(taken[q]) : taken[q][k] = k
      BY DEF Inputs, Counted
    <2>3. Len(taken[p]) <= Len(taken[q]) \/ Len(taken[q]) <= Len(taken[p])
      BY <2>1
    <2> QED
      BY <2>1, <2>2, <2>3, RowsAgree
  <1> QED
    BY <1>1, InputsHold, PTL

=============================================================================
