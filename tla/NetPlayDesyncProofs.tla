------------------------ MODULE NetPlayDesyncProofs ------------------------
(***************************************************************************)
(* What a report of the server is worth, for any number of players, frames *)
(* and games.                                                              *)
(*                                                                         *)
(* There is no false alarm (AlarmInv): a time base is either that of the   *)
(* emulators that agree or names one that has drifted, and until a record  *)
(* is stale all records are of the game that runs.  The report names the   *)
(* right player, and a drift is found, because of FoundInv: a frame's      *)
(* records are those of the players handled so far, one of each, so that   *)
(* counting the records is counting the players.                           *)
(***************************************************************************)
EXTENDS NetPlayDesync, FiniteSetTheorems, TLAPS

Stamp == Nat \X (0 .. N)
Message == [timebase : Stamp, frame : Frame]
Record == [pid : Player, timebase : Stamp]

Types ==
  /\ game \in Nat /\ emu \in [Player -> Nat]
  /\ frame \in [Player -> 0 .. MaxFrame] /\ off \in [Player -> BOOLEAN]
  /\ up \in [Player -> Seq(Message)]
  /\ records \in [Frame -> Seq(Record)]

(* A time base that differs from the common one names its culprit. *)
Honest(t) == t[2] # 0 => <<t[1], t[2]>> \in offs

DriftsRecorded == \A p \in Player : off[p] => <<emu[p], p>> \in offs

MessagesHonest == \A p \in Player : \A i \in 1 .. Len(up[p]) : Honest(up[p][i].timebase)

(* In the middle of StartGame there are no records. *)
RecordsCurrent ==
  ~stale => \A k \in Frame : \A i \in 1 .. Len(records[k]) :
    gui # "cleared" /\ records[k][i].timebase[1] = game /\ Honest(records[k][i].timebase)

AlarmInv == Types /\ DriftsRecorded /\ MessagesHonest /\ RecordsCurrent /\ NoFalseAlarm

-----------------------------------------------------------------------------
(* Records of one game that differ have a culprit in that game. *)
LEMMA DifferHasCulprit ==
  ASSUME NEW recs \in Seq(Record), Differ(recs),
         \A i \in 1 .. Len(recs) : recs[i].timebase[1] = game /\ Honest(recs[i].timebase)
  PROVE  \E p \in Player : <<game, p>> \in offs
  <1>1. PICK i \in 1 .. Len(recs) : recs[i].timebase # recs[1].timebase
    BY DEF Differ
  <1>2. 1 \in 1 .. Len(recs) /\ recs[1] \in Record /\ recs[i] \in Record
    BY <1>1
  <1>3. recs[i].timebase \in Stamp /\ recs[1].timebase \in Stamp
    BY <1>2 DEF Record
  <1>4. recs[i].timebase[1] = game /\ recs[1].timebase[1] = game
    BY <1>1, <1>2
  <1>5. recs[i].timebase[2] # recs[1].timebase[2]
    BY <1>1, <1>3, <1>4 DEF Stamp
  <1>6. recs[i].timebase[2] \in Player \/ recs[1].timebase[2] \in Player
    BY <1>3, <1>5 DEF Stamp, Player
  <1>7. ASSUME NEW j \in 1 .. Len(recs), recs[j].timebase[2] \in Player
        PROVE  <<game, recs[j].timebase[2]>> \in offs
    <2>1. recs[j].timebase[2] # 0
      BY <1>7 DEF Player
    <2> QED
      BY <2>1 DEF Honest
  <1> QED
    BY <1>1, <1>2, <1>6, <1>7

(* What has been said of who drifted stays true. *)
LEMMA HonestStays ==
  ASSUME NEW t, Honest(t), offs \subseteq offs'
  PROVE  Honest(t)'
  BY DEF Honest

-----------------------------------------------------------------------------
LEMMA AlarmInit == Init => AlarmInv
  BY BoundAssumption
     DEF Init, AlarmInv, Types, DriftsRecorded, MessagesHonest, RecordsCurrent,
         NoFalseAlarm, NoRecords

(* The parts of the invariant no step of these variables can disturb. *)
LEMMA ServerSideKept ==
  ASSUME AlarmInv, offs \subseteq offs', UNCHANGED <<game, gui, records, stale, alarm>>
  PROVE  RecordsCurrent' /\ NoFalseAlarm'
  <1>1. RecordsCurrent'
    BY HonestStays DEF AlarmInv, RecordsCurrent, Honest
  <1>2. NoFalseAlarm'
    BY DEF AlarmInv, NoFalseAlarm
  <1> QED
    BY <1>1, <1>2

LEMMA BootStep ==
  ASSUME AlarmInv, NEW p \in Player, Boot(p)
  PROVE  AlarmInv'
  <1>1. UNCHANGED <<game, gui, records, stale, alarm, up, offs>>
    BY DEF Boot, srv, hist
  <1>2. Types'
    BY <1>1, BoundAssumption DEF Boot, AlarmInv, Types
  <1>3. DriftsRecorded'
    BY <1>1 DEF Boot, AlarmInv, Types, DriftsRecorded
  <1>4. MessagesHonest'
    BY <1>1 DEF AlarmInv, MessagesHonest, Honest
  <1> QED
    BY <1>1, <1>2, <1>3, <1>4, ServerSideKept DEF AlarmInv

LEMMA DriftStep ==
  ASSUME AlarmInv, NEW p \in Player, Drift(p)
  PROVE  AlarmInv'
  <1>1. UNCHANGED <<game, gui, records, stale, alarm, up, emu, frame>>
    BY DEF Drift, srv, hist
  <1>2. offs \subseteq offs' /\ <<emu[p], p>> \in offs' /\ off' = [off EXCEPT ![p] = TRUE]
    BY DEF Drift
  <1>3. Types'
    BY <1>1, <1>2 DEF AlarmInv, Types
  <1>4. DriftsRecorded'
    BY <1>1, <1>2 DEF AlarmInv, Types, DriftsRecorded
  <1>5. MessagesHonest'
    BY <1>1, <1>2 DEF AlarmInv, MessagesHonest, Honest
  <1> QED
    BY <1>1, <1>2, <1>3, <1>4, <1>5, ServerSideKept DEF AlarmInv

LEMMA SendStep ==
  ASSUME AlarmInv, NEW p \in Player, SendTimeBase(p)
  PROVE  AlarmInv'
  <1> DEFINE m == [timebase |-> TimeBase(p), frame |-> frame[p] + 1]
  <1>0. N \in Nat /\ MaxFrame \in Nat
    BY NAssumption, BoundAssumption
  <1>1. UNCHANGED <<game, gui, records, stale, alarm, emu, off, offs>>
    BY DEF SendTimeBase, srv, hist
  <1>2. /\ frame' = [frame EXCEPT ![p] = frame[p] + 1]
        /\ frame[p] < MaxFrame
        /\ up' = [up EXCEPT ![p] = Append(up[p], m)]
    BY DEF SendTimeBase, AlarmInv, Types
  <1>3. TimeBase(p) \in Stamp /\ Honest(TimeBase(p))
    <2>1. CASE off[p]
      BY <1>0, <2>1 DEF AlarmInv, Types, DriftsRecorded, TimeBase, Stamp, Honest, Player
    <2>2. CASE ~off[p]
      BY <1>0, <2>2 DEF AlarmInv, Types, TimeBase, Stamp, Honest
    <2> QED
      BY <2>1, <2>2
  <1>4. m \in Message
    BY <1>0, <1>2, <1>3 DEF Message, AlarmInv, Types, Frame
  <1>5. m.timebase = TimeBase(p)
    OBVIOUS
  <1> HIDE DEF m
  <1>6. Types'
    BY <1>0, <1>1, <1>2, <1>4 DEF AlarmInv, Types
  <1>7. DriftsRecorded'
    BY <1>1 DEF AlarmInv, DriftsRecorded
  <1>8. MessagesHonest'
    <2>1. SUFFICES ASSUME NEW q \in Player, NEW i \in 1 .. Len(up'[q])
                   PROVE  Honest(up'[q][i].timebase)
      BY <1>1 DEF MessagesHonest, Honest
    <2>2. up[q] \in Seq(Message)
      BY DEF AlarmInv, Types
    <2>3. CASE q # p
      BY <1>2, <2>2, <2>3 DEF AlarmInv, Types, MessagesHonest
    <2>4. CASE q = p
      <3>1. up'[q] = Append(up[q], m)
        BY <1>2, <2>4 DEF AlarmInv, Types
      <3>2. up'[q][i] = m \/ (i \in 1 .. Len(up[q]) /\ up'[q][i] = up[q][i])
        BY <1>4, <2>2, <3>1
      <3> QED
        BY <1>3, <1>5, <3>2 DEF AlarmInv, MessagesHonest
    <2> QED
      BY <2>3, <2>4
  <1> QED
    BY <1>1, <1>6, <1>7, <1>8, ServerSideKept DEF AlarmInv

(* Messages that are handled or lost leave honest ones behind. *)
LEMMA TailHonest ==
  ASSUME AlarmInv, NEW p \in Player, up[p] # <<>>, UNCHANGED offs,
         up' = [up EXCEPT ![p] = Tail(@)]
  PROVE  up' \in [Player -> Seq(Message)] /\ MessagesHonest'
  <1>1. up \in [Player -> Seq(Message)]
    BY DEF AlarmInv, Types
  <1>2. up' \in [Player -> Seq(Message)]
    BY <1>1
  <1>3. MessagesHonest'
    <2>1. SUFFICES ASSUME NEW q \in Player, NEW i \in 1 .. Len(up'[q])
                   PROVE  Honest(up'[q][i].timebase)
      BY DEF MessagesHonest, Honest
    <2>2. \E j \in 1 .. Len(up[q]) : up'[q][i] = up[q][j]
      <3>1. CASE q # p
        BY <1>1, <3>1
      <3>2. CASE q = p
        <4>1. up'[q] = Tail(up[q]) /\ up[q] \in Seq(Message) /\ up[q] # <<>>
          BY <1>1, <3>2
        <4>2. Len(Tail(up[q])) = Len(up[q]) - 1 /\ Len(up[q]) \in Nat \ {0}
          BY <4>1
        <4>3. i + 1 \in 1 .. Len(up[q]) /\ i \in 1 .. Len(Tail(up[q]))
          <5>1. i \in 1 .. Len(Tail(up[q]))
            BY <4>1, Zenon
          <5> QED
            BY <5>1, <4>2
        <4>4. Tail(up[q])[i] = up[q][i + 1]
          BY <4>1, <4>3
        <4> QED
          BY <4>1, <4>3, <4>4
      <3> QED
        BY <3>1, <3>2
    <2> QED
      BY <2>2 DEF AlarmInv, MessagesHonest
  <1> QED
    BY <1>2, <1>3

LEMMA OnTimeBaseStep ==
  ASSUME AlarmInv, NEW p \in Player, OnTimeBase(p)
  PROVE  AlarmInv'
  <1> DEFINE m == Head(up[p])
             rec == [pid |-> p, timebase |-> m.timebase]
             recs == Append(records[m.frame], rec)
  <1>1. UNCHANGED <<game, gui, emu, frame, off, offs>>
    BY DEF OnTimeBase, srv, cli
  <1>2. up[p] # <<>> /\ up' = [up EXCEPT ![p] = Tail(@)]
    BY DEF OnTimeBase
  <1>3. up' \in [Player -> Seq(Message)] /\ MessagesHonest'
    BY <1>1, <1>2, TailHonest
  <1>4. DriftsRecorded'
    BY <1>1 DEF AlarmInv, DriftsRecorded
  <1>5. m \in Message /\ Honest(m.timebase)
    <2>1. up[p] \in Seq(Message) /\ 1 \in 1 .. Len(up[p]) /\ m = up[p][1]
      BY <1>2 DEF AlarmInv, Types
    <2> QED
      BY <2>1 DEF AlarmInv, MessagesHonest
  <1>6. m.frame \in Frame /\ rec \in Record /\ records[m.frame] \in Seq(Record)
    BY <1>5 DEF Message, Record, AlarmInv, Types
  <1>7. rec.timebase = m.timebase
    OBVIOUS
  <1>8. CASE detected
    <2>1. UNCHANGED <<records, alarm, stale>>
      BY <1>8 DEF OnTimeBase
    <2>2. RecordsCurrent' /\ NoFalseAlarm'
      BY <1>1, <2>1, ServerSideKept
    <2>3. Types'
      BY <1>1, <1>3, <2>1 DEF AlarmInv, Types
    <2> QED
      BY <1>3, <1>4, <2>2, <2>3 DEF AlarmInv
  <1>9. CASE ~detected
    <2>1. /\ Complete(recs) => /\ records' = [records EXCEPT ![m.frame] = <<>>]
                               /\ ~Differ(recs) => alarm' = alarm
                               /\ Differ(recs) => alarm'.game = game
          /\ ~Complete(recs) => records' = [records EXCEPT ![m.frame] = recs] /\ alarm' = alarm
          /\ stale' = (stale \/ gui = "cleared" \/ m.timebase[1] # game)
      BY <1>9 DEF OnTimeBase
    <2>2. ~stale' => ~stale /\ gui # "cleared" /\ m.timebase[1] = game
      BY <2>1
    <2> HIDE DEF m, rec
    <2>3. recs \in Seq(Record)
      BY <1>6
    <2>4. ~stale' => \A i \in 1 .. Len(recs) :
                       recs[i].timebase[1] = game /\ Honest(recs[i].timebase)
      <3>1. SUFFICES ASSUME ~stale', NEW i \in 1 .. Len(recs)
                     PROVE  recs[i].timebase[1] = game /\ Honest(recs[i].timebase)
        OBVIOUS
      <3>2. recs[i] = rec \/ (i \in 1 .. Len(records[m.frame]) /\ recs[i] = records[m.frame][i])
        BY <1>6
      <3> QED
        BY <1>5, <1>6, <1>7, <2>2, <3>1, <3>2 DEF AlarmInv, RecordsCurrent
    <2> HIDE DEF recs
    <2>5. \A k \in Frame : records'[k] = recs \/ records'[k] = <<>> \/ records'[k] = records[k]
      <3>1. records' = [records EXCEPT ![m.frame] = <<>>]
            \/ records' = [records EXCEPT ![m.frame] = recs]
        BY <2>1
      <3>2. DOMAIN records = Frame
        BY DEF AlarmInv, Types
      <3> QED
        BY <3>1, <3>2
    <2>6. Types'
      <3>1. records' = [records EXCEPT ![m.frame] = <<>>]
            \/ records' = [records EXCEPT ![m.frame] = recs]
        BY <2>1
      <3>2. records' \in [Frame -> Seq(Record)]
        <4>1. records \in [Frame -> Seq(Record)] /\ <<>> \in Seq(Record)
          BY DEF AlarmInv, Types
        <4> QED
          BY <2>3, <3>1, <4>1, Zenon
      <3> QED
        BY <1>1, <1>3, <3>2 DEF AlarmInv, Types
    <2>7. RecordsCurrent'
      <3>1. SUFFICES ASSUME ~stale', NEW k \in Frame, NEW i \in 1 .. Len(records'[k])
                     PROVE  /\ gui # "cleared" /\ records'[k][i].timebase[1] = game
                            /\ Honest(records'[k][i].timebase)
        BY <1>1 DEF RecordsCurrent, Honest
      <3>2. CASE records'[k] = recs
        BY <2>2, <2>4, <3>1, <3>2
      <3>3. CASE records'[k] = <<>>
        BY <3>1, <3>3
      <3>4. CASE records'[k] = records[k]
        BY <2>2, <3>1, <3>4 DEF AlarmInv, RecordsCurrent
      <3> QED
        BY <2>5, <3>2, <3>3, <3>4
    <2>8. NoFalseAlarm'
      <3>1. SUFFICES ASSUME ~stale', alarm' # None
                     PROVE  \E q \in Player : <<alarm'.game, q>> \in offs
        BY <1>1 DEF NoFalseAlarm
      <3>2. CASE alarm' = alarm
        BY <2>2, <3>1, <3>2 DEF AlarmInv, NoFalseAlarm
      <3>3. CASE Differ(recs) /\ alarm'.game = game
        <4>1. \E q \in Player : <<game, q>> \in offs
          BY <2>3, <2>4, <3>1, <3>3, DifferHasCulprit
        <4> QED
          BY <3>3, <4>1
      <3> QED
        BY <2>1, <3>2, <3>3
    <2> QED
      BY <1>3, <1>4, <2>6, <2>7, <2>8 DEF AlarmInv
  <1> QED
    BY <1>8, <1>9

LEMMA OnDisconnectStep ==
  ASSUME AlarmInv, NEW p \in Player, NEW ends \in BOOLEAN, OnDisconnect(p, ends)
  PROVE  AlarmInv'
  <1>1. UNCHANGED <<game, gui, records, stale, alarm, emu, frame, off, offs>>
    BY DEF OnDisconnect
  <1>2. up' = [up EXCEPT ![p] = <<>>]
    BY DEF OnDisconnect
  <1>3. Types'
    BY <1>1, <1>2 DEF AlarmInv, Types
  <1>4. DriftsRecorded'
    BY <1>1 DEF AlarmInv, DriftsRecorded
  <1>5. MessagesHonest'
    <2>1. SUFFICES ASSUME NEW q \in Player, NEW i \in 1 .. Len(up'[q])
                   PROVE  Honest(up'[q][i].timebase)
      BY <1>1 DEF MessagesHonest, Honest
    <2>2. up'[q] = up[q]
      BY <1>2 DEF AlarmInv, Types
    <2> QED
      BY <2>2 DEF AlarmInv, MessagesHonest
  <1> QED
    BY <1>1, <1>3, <1>4, <1>5, ServerSideKept DEF AlarmInv

LEMMA QuietStep ==
  ASSUME AlarmInv, UNCHANGED <<game, gui, records, stale, alarm, emu, frame, off, offs, up>>
  PROVE  AlarmInv'
  <1>1. Types' /\ DriftsRecorded' /\ MessagesHonest'
    BY DEF AlarmInv, Types, DriftsRecorded, MessagesHonest, Honest
  <1> QED
    BY <1>1, ServerSideKept DEF AlarmInv

(* The GUI thread throws the records away, then the next game begins. *)
LEMMA StartGameStep ==
  ASSUME AlarmInv, StartGameClear \/ StartGame
  PROVE  AlarmInv'
  <1>1. UNCHANGED <<stale, alarm, emu, frame, off, offs, up>>
    BY DEF StartGameClear, StartGame, cli, hist
  <1>2. DriftsRecorded' /\ MessagesHonest' /\ NoFalseAlarm'
    BY <1>1 DEF AlarmInv, DriftsRecorded, MessagesHonest, NoFalseAlarm, Honest
  <1>3. CASE StartGameClear
    <2>1. records' = NoRecords /\ game' = game
      BY <1>3 DEF StartGameClear
    <2>2. Types'
      BY <1>1, <2>1 DEF AlarmInv, Types, NoRecords
    <2>3. RecordsCurrent'
      BY <2>1 DEF RecordsCurrent, NoRecords
    <2> QED
      BY <1>2, <2>2, <2>3 DEF AlarmInv
  <1>4. CASE StartGame
    <2>1. records' = records /\ game' = game + 1 /\ gui = "cleared"
      BY <1>4 DEF StartGame
    <2>2. Types'
      BY <1>1, <2>1 DEF AlarmInv, Types
    <2>3. RecordsCurrent'
      BY <1>1, <2>1 DEF AlarmInv, RecordsCurrent
    <2> QED
      BY <1>2, <2>2, <2>3 DEF AlarmInv
  <1> QED
    BY <1>3, <1>4

LEMMA AlarmStep == AlarmInv /\ [Next]_vars => AlarmInv'
  <1> SUFFICES ASSUME AlarmInv, [Next]_vars PROVE AlarmInv'
    OBVIOUS
  <1>1. ASSUME NEW p \in Player, StopClient(p)
        PROVE  AlarmInv'
    BY <1>1, QuietStep DEF StopClient, srv, hist
  <1>2. CASE EndGame
    BY <1>2, QuietStep DEF EndGame, cli, hist
  <1>3. CASE UNCHANGED vars
    BY <1>3, QuietStep DEF vars, srv, cli, hist
  <1> QED
    BY <1>1, <1>2, <1>3, BootStep, DriftStep, SendStep, OnTimeBaseStep, OnDisconnectStep,
       StartGameStep DEF Next

(* Nobody is told of a desync of emulators that agree, in any game, with   *)
(* any number of players, whoever leaves (OnData of TimeBase), until a     *)
(* record is received that StartGame should have thrown away.              *)
THEOREM NoFalseAlarmCorrect == Spec => []NoFalseAlarm
  <1>1. Init => AlarmInv
    BY AlarmInit
  <1>2. AlarmInv /\ [Next]_vars => AlarmInv'
    BY AlarmStep
  <1>3. AlarmInv => NoFalseAlarm
    BY DEF AlarmInv
  <1> QED
    BY <1>1, <1>2, <1>3, PTL DEF Spec

-----------------------------------------------------------------------------
(* Why a difference is found, and why the right player is blamed.          *)

Tags(recs) == {<<recs[i].pid, recs[i].timebase>> : i \in 1 .. Len(recs)}
Pids(recs) == {recs[i].pid : i \in 1 .. Len(recs)}
OnePerPlayer(recs) == \A i, j \in 1 .. Len(recs) : recs[i].pid = recs[j].pid => i = j
OwnDrift(recs) == \A i \in 1 .. Len(recs) : recs[i].timebase[2] \in {0, recs[i].pid}

MembersInv ==
  /\ 1 \in members /\ members \subseteq Player
  /\ gui \in {"idle", "cleared"} /\ game \in 0 .. MaxGame
  /\ gui = "cleared" => game < MaxGame
  /\ \A p \in Player \ members : up[p] = <<>>
  /\ \A p \in Player : emu[p] <= game
  /\ handled \in [Frame -> SUBSET (Player \X Stamp)] /\ short \subseteq Frame

(* A client sends the frames of a game in order, each once. *)
MessagesOrdered ==
  \A p \in Player :
    /\ \A i \in 1 .. Len(up[p]) : /\ up[p][i].timebase[1] <= emu[p]
                                  /\ up[p][i].timebase[2] \in {0, p}
                                  /\ up[p][i].timebase[1] = emu[p] => up[p][i].frame <= frame[p]
    /\ \A i, j \in 1 .. Len(up[p]) :
         i < j /\ up[p][i].timebase[1] = up[p][j].timebase[1] => up[p][i].frame < up[p][j].frame

(* A player whose record of a frame was received sends no other one.       *)
HandledPast ==
  ~stale => \A k \in Frame : \A r \in handled[k] :
    /\ gui # "cleared" /\ r[2][1] = game
    /\ emu[r[1]] = game /\ k <= frame[r[1]]
    /\ \A i \in 1 .. Len(up[r[1]]) : up[r[1]][i].timebase[1] = game => k < up[r[1]][i].frame

RecordsSound ==
  ~stale => \A k \in Frame : /\ Tags(records[k]) \subseteq handled[k]
                             /\ OnePerPlayer(records[k]) /\ OwnDrift(records[k])

RecordsFit == \A k \in Frame : Len(records[k]) < N

(* A frame nobody left in the middle of is not complete, has not been      *)
(* reported by anybody, or was reported by all and compared.               *)
Collecting(k) ==
  /\ records[k] # <<>> /\ handled[k] = Tags(records[k]) /\ Pids(records[k]) \subseteq members
  /\ Len(records[k]) < Cardinality(members)

Untouched(k) == records[k] = <<>> /\ handled[k] = {}

Compared(k) ==
  /\ records[k] = <<>> /\ members \subseteq {r[1] : r \in handled[k]}
  /\ \A r, s \in handled[k] : r[2] = s[2]

FrameState ==
  ~stale /\ ~detected => \A k \in Frame \ short : Collecting(k) \/ Untouched(k) \/ Compared(k)

AlarmType == alarm # None => alarm.game \in Nat /\ alarm.blame \in 0 .. N /\ alarm.size \in Nat

FoundInv == /\ AlarmInv /\ MembersInv /\ MessagesOrdered /\ HandledPast /\ RecordsSound
            /\ RecordsFit /\ FrameState /\ AlarmType /\ BlameIsRight

-----------------------------------------------------------------------------
(* About numbers and sets of players. *)

LEMMA LeastNatural ==
  ASSUME NEW S, S \subseteq Nat, S # {}
  PROVE  \E i \in S : \A j \in S : i <= j
  <1>1. PICK i \in S : \A j \in S : ~(<<j, i>> \in OpToRel(<, Nat))
    BY NatLessThanWellFounded, WFMin
  <1>2. \A j \in S : ~(j < i)
    BY <1>1 DEF OpToRel
  <1> QED
    BY <1>2

LEMMA MembersFinite ==
  ASSUME NEW S, S \subseteq Player
  PROVE  IsFiniteSet(S) /\ Cardinality(S) \in Nat /\ Cardinality(S) <= N
  <1>1. IsFiniteSet(Player) /\ Cardinality(Player) = N
    BY FS_Interval, NAssumption DEF Player
  <1> QED
    BY <1>1, FS_Subset, FS_CardinalityType

LEMMA PidsCount ==
  ASSUME NEW recs \in Seq(Record)
  PROVE  /\ Pids(recs) \subseteq Player
         /\ Cardinality(Pids(recs)) <= Len(recs)
         /\ OnePerPlayer(recs) => Cardinality(Pids(recs)) = Len(recs)
  <1> DEFINE S == 1 .. Len(recs)
             f == [i \in S |-> recs[i].pid]
  <1>1. Len(recs) \in Nat /\ \A i \in S : recs[i] \in Record
    OBVIOUS
  <1>2. Pids(recs) \subseteq Player
    BY <1>1 DEF Pids, Record
  <1>3. IsFiniteSet(S) /\ Cardinality(S) = Len(recs)
    <2>1. \A n \in Nat : IsFiniteSet(1 .. n) /\ Cardinality(1 .. n) = n
      BY FS_Interval
    <2> QED
      BY <1>1, <2>1, Zenon
  <1>4. f \in Surjection(S, Pids(recs))
    BY DEF Surjection, Pids
  <1>5. OnePerPlayer(recs) => f \in Injection(S, Pids(recs))
    BY DEF OnePerPlayer, Injection, IsInjective, Pids
  <1> HIDE DEF f, S
  <1>6. /\ Cardinality(Pids(recs)) <= Cardinality(S)
        /\ Cardinality(Pids(recs)) = Cardinality(S) <=> f \in Injection(S, Pids(recs))
    BY <1>3, <1>4, FS_Surjection
  <1> QED
    BY <1>2, <1>3, <1>5, <1>6

(* The player that is blamed is one that has a record. *)
LEMMA BlameType ==
  ASSUME NEW recs \in Seq(Record)
  PROVE  Blame(recs) \in 0 .. N
  <1> DEFINE alone == {i \in DOMAIN recs : \A j \in DOMAIN recs :
                         recs[j].pid = recs[i].pid \/ recs[j].timebase # recs[i].timebase}
             first == CHOOSE i \in alone : \A j \in alone : i <= j
  <1>1. alone \subseteq 1 .. Len(recs) /\ alone \subseteq Nat
    OBVIOUS
  <1>2. Blame(recs) = IF alone = {} THEN 0 ELSE recs[first].pid
    BY DEF Blame
  <1> HIDE DEF alone
  <1>3. CASE alone = {}
    BY <1>2, <1>3, NAssumption
  <1>4. CASE alone # {}
    <2>1. \E i \in alone : \A j \in alone : i <= j
      BY <1>1, <1>4, LeastNatural
    <2>2. first \in alone
      BY <2>1
    <2> HIDE DEF first
    <2>3. recs[first] \in Record
      BY <1>1, <2>2
    <2> QED
      BY <1>2, <1>4, <2>3, NAssumption DEF Record, Player
  <1> QED
    BY <1>3, <1>4

(* Of three or more records of one game, one of each player, the one that  *)
(* differs is found when only one emulator has drifted.                    *)
LEMMA BlameFindsIt ==
  ASSUME NEW recs \in Seq(Record), OnePerPlayer(recs), OwnDrift(recs), Differ(recs),
         Len(recs) >= 3, NEW g, NEW p \in Player,
         \A i \in 1 .. Len(recs) : recs[i].timebase[1] = g /\ recs[i].timebase[2] \in {0, p}
  PROVE  Blame(recs) = p
  <1> DEFINE alone == {i \in DOMAIN recs : \A j \in DOMAIN recs :
                         recs[j].pid = recs[i].pid \/ recs[j].timebase # recs[i].timebase}
  <1>1. /\ DOMAIN recs = 1 .. Len(recs) /\ Len(recs) \in Nat
        /\ \A i \in 1 .. Len(recs) : recs[i].timebase \in Stamp /\ recs[i].pid \in Player
    <2>1. \A i \in 1 .. Len(recs) : recs[i] \in Record
      OBVIOUS
    <2> QED
      BY <2>1 DEF Record
  <1>2. \A i, j \in 1 .. Len(recs) : recs[i].timebase[2] = recs[j].timebase[2] =>
                                       recs[i].timebase = recs[j].timebase
    BY <1>1 DEF Stamp
  <1>3. PICK d \in 1 .. Len(recs) : recs[d].timebase[2] = p /\ recs[d].pid = p
    <2>1. PICK i \in 1 .. Len(recs) : recs[i].timebase # recs[1].timebase
      BY <1>1 DEF Differ
    <2>2. recs[i].timebase[2] # recs[1].timebase[2] /\ 1 \in 1 .. Len(recs)
      BY <1>1, <1>2, <2>1
    <2>3. recs[i].timebase[2] = p \/ recs[1].timebase[2] = p
      BY <2>1, <2>2
    <2>4. p # 0
      BY DEF Player
    <2> QED
      BY <2>1, <2>2, <2>3, <2>4 DEF OwnDrift
  <1>4. \A i \in 1 .. Len(recs) : i # d => recs[i].pid # p /\ recs[i].timebase[2] = 0
    BY <1>3 DEF OnePerPlayer, OwnDrift
  <1>5. p # 0
    BY DEF Player
  <1>6. d \in alone
    BY <1>1, <1>3, <1>4, <1>5
  <1>7. ASSUME NEW i \in alone PROVE i = d
    <2>1. SUFFICES ASSUME i # d PROVE FALSE
      OBVIOUS
    <2>2. i \in 1 .. Len(recs)
      BY <1>1
    <2>3. PICK j \in 1 .. Len(recs) : j # d /\ j # i
      <3>1. 1 \in 1 .. Len(recs) /\ 2 \in 1 .. Len(recs) /\ 3 \in 1 .. Len(recs)
        BY <1>1
      <3> QED
        BY <3>1
    <2>4. recs[j].timebase = recs[i].timebase
      BY <1>2, <1>4, <2>1, <2>2, <2>3
    <2>5. recs[j].pid # recs[i].pid
      BY <2>2, <2>3 DEF OnePerPlayer
    <2> QED
      BY <1>1, <2>3, <2>4, <2>5
  <1>8. alone = {d}
    BY <1>6, <1>7
  <1>9. Blame(recs) = IF alone = {} THEN 0
                      ELSE recs[CHOOSE i \in alone : \A j \in alone : i <= j].pid
    BY DEF Blame
  <1> HIDE DEF alone
  <1>10. (CHOOSE i \in alone : \A j \in alone : i <= j) = d
    BY <1>1, <1>8
  <1> QED
    BY <1>3, <1>8, <1>9, <1>10

-----------------------------------------------------------------------------
LEMMA FoundInit == Init => FoundInv
  <1> SUFFICES ASSUME Init PROVE FoundInv
    OBVIOUS
  <1>1. MembersInv
    BY NAssumption, BoundAssumption DEF Init, MembersInv, Player
  <1>2. MessagesOrdered /\ HandledPast
    BY DEF Init, MessagesOrdered, HandledPast
  <1>3. RecordsSound
    BY DEF Init, RecordsSound, NoRecords, Tags, OnePerPlayer, OwnDrift
  <1>4. RecordsFit /\ FrameState /\ AlarmType /\ BlameIsRight
    BY NAssumption DEF Init, RecordsFit, FrameState, AlarmType, BlameIsRight, NoRecords, Untouched
  <1> QED
    BY <1>1, <1>2, <1>3, <1>4, AlarmInit DEF FoundInv

(* The server's side, when a step does not touch it. *)
LEMMA CollectionKept ==
  ASSUME FoundInv, UNCHANGED <<records, handled, short, members, stale, detected, alarm>>
  PROVE  RecordsSound' /\ RecordsFit' /\ FrameState' /\ AlarmType'
  BY DEF FoundInv, RecordsSound, RecordsFit, FrameState, AlarmType, Collecting, Untouched, Compared

(* A verdict stays right: a game that had a culprit can only get more.     *)
LEMMA VerdictKept ==
  ASSUME FoundInv, offs \subseteq offs', UNCHANGED <<alarm, stale>>
  PROVE  BlameIsRight'
  <1> SUFFICES ASSUME alarm # None, ~stale, alarm.size >= 3, NEW p \in Player,
                      {q \in Player : <<alarm.game, q>> \in offs'} = {p}
               PROVE  alarm.blame = p
    BY DEF BlameIsRight
  <1>1. PICK c \in Player : <<alarm.game, c>> \in offs
    BY DEF FoundInv, AlarmInv, NoFalseAlarm
  <1>2. {q \in Player : <<alarm.game, q>> \in offs} = {p}
    BY <1>1
  <1> QED
    BY <1>2 DEF FoundInv, BlameIsRight

LEMMA BootFound ==
  ASSUME FoundInv, NEW p \in Player, Boot(p)
  PROVE  FoundInv'
  <1>1. /\ UNCHANGED <<members, game, gui, records, detected, up, offs, handled, short, stale, alarm>>
        /\ emu[p] < game /\ emu' = [emu EXCEPT ![p] = game] /\ frame' = [frame EXCEPT ![p] = 0]
    BY DEF Boot, srv, hist
  <1>2. AlarmInv'
    BY BootStep DEF FoundInv
  <1>3. Types
    BY DEF FoundInv, AlarmInv
  <1>4. /\ emu'[p] = game /\ frame'[p] = 0
        /\ \A q \in Player \ {p} : emu'[q] = emu[q] /\ frame'[q] = frame[q]
    BY <1>1, <1>3 DEF Types
  <1>5. MembersInv'
    BY <1>1, <1>3, <1>4 DEF FoundInv, MembersInv, Types
  <1>6. MessagesOrdered'
    <2>1. \A q \in Player : up[q] \in Seq(Message) /\ emu[q] \in Nat /\ game \in Nat
      BY <1>3 DEF Types
    <2>2. \A i \in 1 .. Len(up[p]) : up[p][i].timebase[1] \in Nat
      <3>1. \A i \in 1 .. Len(up[p]) : up[p][i] \in Message
        BY <2>1
      <3> QED
        BY <3>1 DEF Message, Stamp
    <2>3. \A i \in 1 .. Len(up[p]) : up[p][i].timebase[1] <= emu'[p] /\ up[p][i].timebase[1] # emu'[p]
      BY <1>1, <1>4, <2>1, <2>2 DEF FoundInv, MessagesOrdered
    <2> QED
      BY <1>1, <1>4, <2>3 DEF FoundInv, MessagesOrdered
  <1>7. HandledPast'
    <2>1. ASSUME ~stale, NEW k \in Frame, NEW r \in handled[k]
          PROVE  emu'[r[1]] = emu[r[1]] /\ frame'[r[1]] = frame[r[1]]
      <3>1. r[1] \in Player /\ emu[r[1]] = game
        BY <2>1 DEF FoundInv, HandledPast, MembersInv
      <3>2. r[1] # p
        BY <1>1, <1>3, <3>1 DEF Types
      <3> QED
        BY <1>4, <3>1, <3>2
    <2> QED
      BY <1>1, <2>1 DEF FoundInv, HandledPast
  <1> QED
    BY <1>1, <1>2, <1>5, <1>6, <1>7, CollectionKept, VerdictKept DEF FoundInv

LEMMA QuietFound ==
  ASSUME FoundInv, AlarmInv', offs \subseteq offs',
         UNCHANGED <<members, game, gui, records, detected, up, handled, short, stale, alarm, emu, frame>>
  PROVE  FoundInv'
  <1>1. MembersInv' /\ MessagesOrdered' /\ HandledPast'
    BY DEF FoundInv, MembersInv, MessagesOrdered, HandledPast
  <1> QED
    BY <1>1, CollectionKept, VerdictKept DEF FoundInv

LEMMA SendFound ==
  ASSUME FoundInv, NEW p \in Player, SendTimeBase(p)
  PROVE  FoundInv'
  <1> DEFINE m == [timebase |-> TimeBase(p), frame |-> frame[p] + 1]
  <1>1. /\ UNCHANGED <<members, game, gui, records, detected, offs, handled, short, stale, alarm, emu>>
        /\ p \in members /\ frame[p] < MaxFrame
    BY DEF SendTimeBase, srv, hist
  <1>2. AlarmInv'
    BY SendStep DEF FoundInv
  <1>3. Types /\ Types'
    BY <1>2 DEF FoundInv, AlarmInv
  <1>4. /\ frame' = [frame EXCEPT ![p] = frame[p] + 1]
        /\ up' = [up EXCEPT ![p] = Append(up[p], m)]
    BY <1>3 DEF SendTimeBase, Types
  <1>5. m.timebase[1] = emu[p] /\ m.timebase[2] \in {0, p} /\ m.frame = frame[p] + 1
    BY DEF TimeBase
  <1> HIDE DEF m
  <1>6. /\ frame'[p] = frame[p] + 1 /\ up'[p] = Append(up[p], m)
        /\ \A q \in Player \ {p} : up'[q] = up[q] /\ frame'[q] = frame[q]
        /\ frame[p] \in Nat /\ up[p] \in Seq(Message) /\ up'[p] \in Seq(Message)
    BY <1>3, <1>4 DEF Types
  <1>7. /\ Len(up'[p]) = Len(up[p]) + 1 /\ Len(up[p]) \in Nat
        /\ \A i \in 1 .. Len(up[p]) : up'[p][i] = up[p][i]
        /\ up'[p][Len(up[p]) + 1] = m
    BY <1>6
  <1>8. \A i \in 1 .. Len(up'[p]) : i \in 1 .. Len(up[p]) \/ i = Len(up[p]) + 1
    <2>1. Len(up'[p]) = Len(up[p]) + 1 /\ Len(up[p]) \in Nat
      BY <1>7
    <2> QED
      BY <2>1
  <1>9. \A i \in 1 .. Len(up[p]) : up[p][i].frame \in Nat /\ up[p][i].timebase[1] \in Nat
    <2>1. \A i \in 1 .. Len(up[p]) : up[p][i] \in Message
      BY <1>6
    <2> QED
      BY <2>1, BoundAssumption DEF Message, Stamp, Frame
  <1>10. MembersInv'
    BY <1>1, <1>6 DEF FoundInv, MembersInv
  <1>11. MessagesOrdered'
    <2>1. ASSUME NEW i \in 1 .. Len(up[p])
          PROVE  /\ up[p][i].timebase[1] <= emu[p] /\ up[p][i].timebase[2] \in {0, p}
                 /\ up[p][i].timebase[1] = emu[p] => up[p][i].frame < frame[p] + 1
      BY <1>6, <1>9 DEF FoundInv, MessagesOrdered
    <2>2. ASSUME NEW i \in 1 .. Len(up'[p])
          PROVE  /\ up'[p][i].timebase[1] <= emu[p] /\ up'[p][i].timebase[2] \in {0, p}
                 /\ up'[p][i].timebase[1] = emu[p] => up'[p][i].frame <= frame'[p]
      <3>1. CASE i \in 1 .. Len(up[p])
        BY <1>6, <1>7, <1>9, <2>1, <3>1
      <3>2. CASE i = Len(up[p]) + 1
        <4>1. up'[p][i] = m /\ emu[p] \in Nat
          BY <1>3, <1>7, <3>2 DEF Types
        <4> QED
          BY <1>5, <1>6, <4>1
      <3> QED
        BY <1>8, <3>1, <3>2
    <2>3. ASSUME NEW i \in 1 .. Len(up'[p]), NEW j \in 1 .. Len(up'[p]), i < j,
                 up'[p][i].timebase[1] = up'[p][j].timebase[1]
          PROVE  up'[p][i].frame < up'[p][j].frame
      <3>1. i \in 1 .. Len(up[p])
        BY <1>7, <1>8, <2>3
      <3>2. CASE j \in 1 .. Len(up[p])
        BY <1>7, <2>3, <3>1, <3>2 DEF FoundInv, MessagesOrdered
      <3>3. CASE j = Len(up[p]) + 1
        BY <1>5, <1>7, <2>1, <2>3, <3>1, <3>3
      <3> QED
        BY <1>8, <3>2, <3>3
    <2>4. ASSUME NEW q \in Player \ {p}
          PROVE  up'[q] = up[q] /\ frame'[q] = frame[q]
      BY <1>6
    <2> QED
      BY <1>1, <2>2, <2>3, <2>4 DEF FoundInv, MessagesOrdered
  <1>12. HandledPast'
    <2> SUFFICES ASSUME ~stale, NEW k \in Frame, NEW r \in handled[k]
                 PROVE  /\ gui # "cleared" /\ r[2][1] = game
                        /\ emu[r[1]] = game /\ k <= frame'[r[1]]
                        /\ \A i \in 1 .. Len(up'[r[1]]) :
                             up'[r[1]][i].timebase[1] = game => k < up'[r[1]][i].frame
      BY <1>1 DEF HandledPast
    <2>1. /\ gui # "cleared" /\ r[2][1] = game
          /\ emu[r[1]] = game /\ k <= frame[r[1]] /\ r[1] \in Player
          /\ \A i \in 1 .. Len(up[r[1]]) : up[r[1]][i].timebase[1] = game => k < up[r[1]][i].frame
      BY DEF FoundInv, HandledPast, MembersInv
    <2>2. k \in Nat
      BY DEF Frame
    <2>3. CASE r[1] # p
      BY <1>6, <2>1, <2>3
    <2>4. CASE r[1] = p
      <3>1. k <= frame'[p] /\ k < frame[p] + 1
        BY <1>6, <2>1, <2>2, <2>4
      <3>2. ASSUME NEW i \in 1 .. Len(up'[p]), up'[p][i].timebase[1] = game
            PROVE  k < up'[p][i].frame
        <4>1. CASE i \in 1 .. Len(up[p])
          BY <1>7, <2>1, <2>4, <3>2, <4>1
        <4>2. CASE i = Len(up[p]) + 1
          BY <1>5, <1>7, <3>1, <4>2
        <4> QED
          BY <1>8, <4>1, <4>2
      <3> QED
        BY <2>1, <2>4, <3>1, <3>2
    <2> QED
      BY <2>3, <2>4
  <1> QED
    BY <1>1, <1>2, <1>10, <1>11, <1>12, CollectionKept, VerdictKept DEF FoundInv

(* What is left when the first message of a queue is taken. *)
LEMMA RestOfQueue ==
  ASSUME Types, NEW p \in Player, up[p] # <<>>, up' = [up EXCEPT ![p] = Tail(@)]
  PROVE  /\ \A q \in Player \ {p} : up'[q] = up[q]
         /\ \A i \in 1 .. Len(up'[p]) : i + 1 \in 1 .. Len(up[p]) /\ up'[p][i] = up[p][i + 1]
         /\ 1 \in 1 .. Len(up[p]) /\ Head(up[p]) = up[p][1] /\ Head(up[p]) \in Message
  <1>1. up[p] \in Seq(Message) /\ up'[p] = Tail(up[p]) /\ \A q \in Player \ {p} : up'[q] = up[q]
    BY DEF Types
  <1>2. Len(Tail(up[p])) = Len(up[p]) - 1 /\ Len(up[p]) \in Nat \ {0}
    BY <1>1
  <1>3. ASSUME NEW i \in 1 .. Len(up'[p])
        PROVE  i + 1 \in 1 .. Len(up[p]) /\ up'[p][i] = up[p][i + 1]
    <2>1. i \in 1 .. Len(Tail(up[p]))
      BY <1>1, <1>3, Zenon
    <2>2. i + 1 \in 1 .. Len(up[p])
      BY <1>2, <2>1
    <2>3. Tail(up[p])[i] = up[p][i + 1]
      BY <1>1, <2>1
    <2> QED
      BY <1>1, <2>2, <2>3
  <1>4. 1 \in 1 .. Len(up[p]) /\ Head(up[p]) = up[p][1] /\ Head(up[p]) \in Message
    BY <1>1, <1>2
  <1> QED
    BY <1>1, <1>3, <1>4

LEMMA RestOrdered ==
  ASSUME FoundInv, NEW p \in Player, up[p] # <<>>, up' = [up EXCEPT ![p] = Tail(@)],
         UNCHANGED <<emu, frame>>
  PROVE  MessagesOrdered'
  <1>1. /\ \A q \in Player \ {p} : up'[q] = up[q]
        /\ \A i \in 1 .. Len(up'[p]) : i + 1 \in 1 .. Len(up[p]) /\ up'[p][i] = up[p][i + 1]
    BY RestOfQueue DEF FoundInv, AlarmInv
  <1>2. \A i, j \in 1 .. Len(up'[p]) : i < j => i + 1 < j + 1
    OBVIOUS
  <1>3. ASSUME NEW i \in 1 .. Len(up'[p])
        PROVE  /\ up'[p][i].timebase[1] <= emu[p] /\ up'[p][i].timebase[2] \in {0, p}
               /\ up'[p][i].timebase[1] = emu[p] => up'[p][i].frame <= frame[p]
    BY <1>1 DEF FoundInv, MessagesOrdered
  <1>4. ASSUME NEW i \in 1 .. Len(up'[p]), NEW j \in 1 .. Len(up'[p]), i < j,
               up'[p][i].timebase[1] = up'[p][j].timebase[1]
        PROVE  up'[p][i].frame < up'[p][j].frame
    BY <1>1, <1>2, <1>4 DEF FoundInv, MessagesOrdered
  <1> QED
    BY <1>1, <1>3, <1>4 DEF FoundInv, MessagesOrdered

(* The records of a frame with one more. *)
LEMMA MoreRecords ==
  ASSUME NEW old \in Seq(Record), NEW rec \in Record, NEW recs, recs = Append(old, rec)
  PROVE  /\ recs \in Seq(Record) /\ Len(recs) = Len(old) + 1 /\ Len(old) \in Nat
         /\ \A i \in 1 .. Len(recs) :
              \/ i = Len(old) + 1 /\ recs[i] = rec
              \/ i \in 1 .. Len(old) /\ recs[i] = old[i]
         /\ Tags(recs) = Tags(old) \cup {<<rec.pid, rec.timebase>>}
         /\ Pids(recs) = Pids(old) \cup {rec.pid}
         /\ OnePerPlayer(old) /\ rec.pid \notin Pids(old) => OnePerPlayer(recs)
         /\ OwnDrift(old) /\ rec.timebase[2] \in {0, rec.pid} => OwnDrift(recs)
  <1>1. recs \in Seq(Record) /\ Len(recs) = Len(old) + 1 /\ Len(old) \in Nat
    OBVIOUS
  <1>2. /\ recs[Len(old) + 1] = rec /\ \A i \in 1 .. Len(old) : recs[i] = old[i]
    OBVIOUS
  <1>3. 1 .. Len(recs) = (1 .. Len(old)) \cup {Len(old) + 1}
    BY <1>1
  <1>4. Tags(recs) = Tags(old) \cup {<<rec.pid, rec.timebase>>}
    BY <1>2, <1>3 DEF Tags
  <1>5. Pids(recs) = Pids(old) \cup {rec.pid}
    BY <1>2, <1>3 DEF Pids
  <1>6. OnePerPlayer(old) /\ rec.pid \notin Pids(old) => OnePerPlayer(recs)
    BY <1>2, <1>3 DEF OnePerPlayer, Pids
  <1>7. OwnDrift(old) /\ rec.timebase[2] \in {0, rec.pid} => OwnDrift(recs)
    BY <1>2, <1>3 DEF OwnDrift
  <1>8. ASSUME NEW i \in 1 .. Len(recs)
        PROVE  \/ i = Len(old) + 1 /\ recs[i] = rec
               \/ i \in 1 .. Len(old) /\ recs[i] = old[i]
    BY <1>2, <1>3
  <1> QED
    BY <1>1, <1>4, <1>5, <1>6, <1>7, <1>8

LEMMA TagsNamePids ==
  ASSUME NEW recs
  PROVE  Pids(recs) = {r[1] : r \in Tags(recs)}
  <1>1. ASSUME NEW q \in Pids(recs) PROVE q \in {r[1] : r \in Tags(recs)}
    <2>1. PICK i \in 1 .. Len(recs) : q = recs[i].pid
      BY <1>1 DEF Pids
    <2>2. <<recs[i].pid, recs[i].timebase>> \in Tags(recs)
      BY DEF Tags
    <2>3. <<recs[i].pid, recs[i].timebase>>[1] = q
      BY <2>1
    <2> QED
      BY <2>2, <2>3, Zenon
  <1>2. ASSUME NEW r \in Tags(recs) PROVE r[1] \in Pids(recs)
    <2>1. PICK i \in 1 .. Len(recs) : r = <<recs[i].pid, recs[i].timebase>>
      BY <1>2 DEF Tags
    <2> QED
      BY <2>1 DEF Pids
  <1> QED
    BY <1>1, <1>2

(* A message that is not stale is the first of its player for its frame.   *)
LEMMA HeadIsNew ==
  ASSUME FoundInv, ~stale, NEW p \in Player, up[p] # <<>>, NEW m, m = Head(up[p]),
         m.timebase[1] = game, m \in Message, 1 \in 1 .. Len(up[p]), m = up[p][1]
  PROVE  /\ \A r \in handled[m.frame] : r[1] # p
         /\ p \in members /\ emu[p] = game /\ m.frame <= frame[p] /\ m.timebase[2] \in {0, p}
         /\ p \notin Pids(records[m.frame])
  <1>1. m.frame \in Frame /\ m.frame \in Nat
    BY DEF Message, Frame
  <1>2. \A r \in handled[m.frame] : r[1] # p
    <2>1. SUFFICES ASSUME NEW r \in handled[m.frame], r[1] = p PROVE FALSE
      OBVIOUS
    <2>2. m.frame < m.frame
      BY <1>1, <2>1 DEF FoundInv, HandledPast
    <2> QED
      BY <1>1, <2>2
  <1>3. p \in members
    BY DEF FoundInv, MembersInv
  <1>4. emu[p] \in Nat /\ game \in Nat
    BY DEF FoundInv, AlarmInv, Types
  <1>5. emu[p] = game
    <2>1. game <= emu[p] /\ emu[p] <= game
      BY DEF FoundInv, MessagesOrdered, MembersInv
    <2> QED
      BY <1>4, <2>1
  <1>6. m.frame <= frame[p] /\ m.timebase[2] \in {0, p}
    BY <1>5 DEF FoundInv, MessagesOrdered
  <1>7. p \notin Pids(records[m.frame])
    <2>1. Tags(records[m.frame]) \subseteq handled[m.frame]
      BY <1>1 DEF FoundInv, RecordsSound
    <2> QED
      BY <1>2, <2>1, TagsNamePids
  <1> QED
    BY <1>2, <1>3, <1>5, <1>6, <1>7

LEMMA OnTimeBaseFound ==
  ASSUME FoundInv, NEW p \in Player, OnTimeBase(p)
  PROVE  FoundInv'
  <1> DEFINE m == Head(up[p])
             k == m.frame
             rec == [pid |-> p, timebase |-> m.timebase]
             recs == Append(records[k], rec)
  <1>1. /\ UNCHANGED <<members, game, gui, emu, frame, off, offs, short>>
        /\ up[p] # <<>> /\ up' = [up EXCEPT ![p] = Tail(@)]
    BY DEF OnTimeBase, srv, cli
  <1>2. AlarmInv'
    BY OnTimeBaseStep DEF FoundInv
  <1>3. Types /\ Types'
    BY <1>2 DEF FoundInv, AlarmInv
  <1>4. MessagesOrdered'
    BY <1>1, RestOrdered
  <1>5. /\ \A q \in Player \ {p} : up'[q] = up[q]
        /\ \A i \in 1 .. Len(up'[p]) : i + 1 \in 1 .. Len(up[p]) /\ up'[p][i] = up[p][i + 1]
        /\ 1 \in 1 .. Len(up[p]) /\ m = up[p][1] /\ m \in Message
    BY <1>1, <1>3, RestOfQueue
  <1>6. /\ k \in Frame /\ rec \in Record /\ records[k] \in Seq(Record)
        /\ rec.pid = p /\ rec.timebase = m.timebase
    BY <1>3, <1>5 DEF Message, Record, Types
  <1>7. p \in members
    BY <1>1 DEF FoundInv, MembersInv
  <1>8. ASSUME handled' \in [Frame -> SUBSET (Player \X Stamp)]
        PROVE  MembersInv'
    BY <1>1, <1>5, <1>7, <1>8 DEF FoundInv, MembersInv
  <1>9. CASE detected
    <2>1. UNCHANGED <<records, detected, alarm, handled, stale>>
      BY <1>9 DEF OnTimeBase
    <2>2. MembersInv'
      BY <1>8, <2>1 DEF FoundInv, MembersInv
    <2>3. HandledPast'
      <3>1. \A q \in Player : \A i \in 1 .. Len(up'[q]) : \E j \in 1 .. Len(up[q]) : up'[q][i] = up[q][j]
        BY <1>5
      <3>2. \A j \in Frame : \A r \in handled[j] : r[1] \in Player
        BY DEF FoundInv, MembersInv
      <3> QED
        BY <1>1, <2>1, <3>1, <3>2 DEF FoundInv, HandledPast
    <2> QED
      BY <1>1, <1>2, <1>4, <2>1, <2>2, <2>3, CollectionKept, VerdictKept DEF FoundInv
  <1>10. CASE ~detected
    <2>1. /\ Complete(recs) => /\ records' = [records EXCEPT ![k] = <<>>]
                               /\ detected' = Differ(recs)
                               /\ alarm' = IF Differ(recs)
                                           THEN [game |-> game, blame |-> Blame(recs), size |-> Len(recs)]
                                           ELSE alarm
          /\ ~Complete(recs) => /\ records' = [records EXCEPT ![k] = recs]
                                /\ detected' = detected /\ alarm' = alarm
          /\ handled' = [handled EXCEPT ![k] = @ \cup {<<p, m.timebase>>}]
          /\ stale' = (stale \/ gui = "cleared" \/ m.timebase[1] # game)
      BY <1>10 DEF OnTimeBase
    <2>2. ~stale' => ~stale /\ gui # "cleared" /\ m.timebase[1] = game
      BY <2>1
    <2>3. m.timebase \in Stamp
      BY <1>5 DEF Message
    <2> HIDE DEF m, rec
    <2>4. /\ recs \in Seq(Record) /\ Len(recs) = Len(records[k]) + 1
          /\ \A i \in 1 .. Len(recs) : \/ i = Len(records[k]) + 1 /\ recs[i] = rec
                                       \/ i \in 1 .. Len(records[k]) /\ recs[i] = records[k][i]
          /\ Tags(recs) = Tags(records[k]) \cup {<<p, m.timebase>>}
          /\ Pids(recs) = Pids(records[k]) \cup {p}
          /\ OnePerPlayer(records[k]) /\ p \notin Pids(records[k]) => OnePerPlayer(recs)
          /\ OwnDrift(records[k]) /\ m.timebase[2] \in {0, p} => OwnDrift(recs)
      <3>1. /\ recs \in Seq(Record) /\ Len(recs) = Len(records[k]) + 1
            /\ \A i \in 1 .. Len(recs) : \/ i = Len(records[k]) + 1 /\ recs[i] = rec
                                         \/ i \in 1 .. Len(records[k]) /\ recs[i] = records[k][i]
            /\ Tags(recs) = Tags(records[k]) \cup {<<rec.pid, rec.timebase>>}
            /\ Pids(recs) = Pids(records[k]) \cup {rec.pid}
            /\ OnePerPlayer(records[k]) /\ rec.pid \notin Pids(records[k]) => OnePerPlayer(recs)
            /\ OwnDrift(records[k]) /\ rec.timebase[2] \in {0, rec.pid} => OwnDrift(recs)
        <4>1. recs = Append(records[k], rec)
          OBVIOUS
        <4> HIDE DEF k, recs
        <4> DEFINE old == records[k]
        <4>2. old \in Seq(Record) /\ recs = Append(old, rec) /\ rec \in Record
          BY <1>6, <4>1
        <4> HIDE DEF old
        <4>3. recs \in Seq(Record) /\ Len(recs) = Len(old) + 1
          BY <4>2, MoreRecords
        <4>4. \A i \in 1 .. Len(recs) : \/ i = Len(old) + 1 /\ recs[i] = rec
                                        \/ i \in 1 .. Len(old) /\ recs[i] = old[i]
          BY <4>2, MoreRecords
        <4>5. Tags(recs) = Tags(old) \cup {<<rec.pid, rec.timebase>>}
          BY <4>2, MoreRecords
        <4>6. Pids(recs) = Pids(old) \cup {rec.pid}
          BY <4>2, MoreRecords
        <4>7. OnePerPlayer(old) /\ rec.pid \notin Pids(old) => OnePerPlayer(recs)
          BY <4>2, MoreRecords
        <4>8. OwnDrift(old) /\ rec.timebase[2] \in {0, rec.pid} => OwnDrift(recs)
          BY <4>2, MoreRecords
        <4> QED
          BY <4>3, <4>4, <4>5, <4>6, <4>7, <4>8 DEF old
      <3> HIDE DEF recs, k
      <3> QED
        BY <1>6, <3>1
    <2>5. ~stale' => /\ \A r \in handled[k] : r[1] # p
                     /\ emu[p] = game /\ k <= frame[p] /\ m.timebase[2] \in {0, p}
                     /\ p \notin Pids(records[k])
      BY <1>1, <1>5, <2>2, HeadIsNew DEF m
    <2>6. ~stale' => OnePerPlayer(recs) /\ OwnDrift(recs)
      BY <1>6, <2>2, <2>4, <2>5 DEF FoundInv, RecordsSound
    <2> HIDE DEF recs, k
    <2>7. /\ handled' \in [Frame -> SUBSET (Player \X Stamp)]
          /\ handled'[k] = handled[k] \cup {<<p, m.timebase>>}
          /\ \A j \in Frame \ {k} : handled'[j] = handled[j] /\ records'[j] = records[j]
          /\ Complete(recs) => records'[k] = <<>>
          /\ ~Complete(recs) => records'[k] = recs
      <3>1. handled \in [Frame -> SUBSET (Player \X Stamp)]
        BY DEF FoundInv, MembersInv
      <3>2. DOMAIN records = Frame
        BY <1>3 DEF Types
      <3>3. <<p, m.timebase>> \in Player \X Stamp
        BY <2>3
      <3>4. /\ handled' \in [Frame -> SUBSET (Player \X Stamp)]
            /\ handled'[k] = handled[k] \cup {<<p, m.timebase>>}
            /\ \A j \in Frame \ {k} : handled'[j] = handled[j]
        BY <1>6, <2>1, <3>1, <3>3
      <3>5. CASE Complete(recs)
        BY <1>6, <2>1, <3>2, <3>4, <3>5
      <3>6. CASE ~Complete(recs)
        BY <1>6, <2>1, <3>2, <3>4, <3>6
      <3> QED
        BY <3>5, <3>6
    <2>8. MembersInv'
      BY <1>8, <2>7
    <2>9. HandledPast'
      <3> SUFFICES ASSUME ~stale', NEW j \in Frame, NEW r \in handled'[j]
                   PROVE  /\ gui # "cleared" /\ r[2][1] = game
                          /\ emu[r[1]] = game /\ j <= frame[r[1]]
                          /\ \A i \in 1 .. Len(up'[r[1]]) :
                               up'[r[1]][i].timebase[1] = game => j < up'[r[1]][i].frame
        BY <1>1 DEF HandledPast
      <3>1. \A q \in Player : \A i \in 1 .. Len(up'[q]) : \E n \in 1 .. Len(up[q]) : up'[q][i] = up[q][n]
        BY <1>5
      <3>2. CASE r \in handled[j]
        <4>1. r[1] \in Player
          BY <3>2 DEF FoundInv, MembersInv
        <4> QED
          BY <2>2, <3>1, <3>2, <4>1 DEF FoundInv, HandledPast
      <3>3. CASE j = k /\ r = <<p, m.timebase>>
        <4>1. ASSUME NEW i \in 1 .. Len(up'[p]), up'[p][i].timebase[1] = game
              PROVE  k < up'[p][i].frame
          <5>1. i + 1 \in 1 .. Len(up[p]) /\ up'[p][i] = up[p][i + 1] /\ 1 < i + 1
            BY <1>5
          <5> QED
            BY <1>5, <2>2, <4>1, <5>1 DEF FoundInv, MessagesOrdered, k
        <4> QED
          BY <2>2, <2>5, <3>3, <4>1
      <3> QED
        BY <2>7, <3>2, <3>3
    <2>10. RecordsSound'
      <3> SUFFICES ASSUME ~stale', NEW j \in Frame
                   PROVE  /\ Tags(records'[j]) \subseteq handled'[j]
                          /\ OnePerPlayer(records'[j]) /\ OwnDrift(records'[j])
        BY DEF RecordsSound
      <3>1. CASE j # k
        BY <2>2, <2>7, <3>1 DEF FoundInv, RecordsSound
      <3>2. CASE j = k /\ records'[k] = <<>>
        BY <3>2 DEF Tags, OnePerPlayer, OwnDrift
      <3>3. CASE j = k /\ records'[k] = recs
        BY <2>2, <2>4, <2>6, <2>7, <3>3 DEF FoundInv, RecordsSound
      <3> QED
        BY <2>7, <3>1, <3>2, <3>3
    <2>11. Cardinality(members) \in Nat /\ Cardinality(members) <= N /\ IsFiniteSet(members)
      BY MembersFinite DEF FoundInv, MembersInv
    <2>12. Len(recs) \in Nat
      BY <2>4
    <2>13. RecordsFit'
      <3>1. ~Complete(recs) => Len(recs) < N
        BY <2>11, <2>12, NAssumption DEF Complete
      <3>2. Len(<<>>) < N
        BY NAssumption
      <3> QED
        BY <2>7, <3>1, <3>2 DEF FoundInv, RecordsFit
    <2>14. FrameState'
      <3> SUFFICES ASSUME ~stale', ~detected', NEW j \in Frame \ short
                   PROVE  Collecting(j)' \/ Untouched(j)' \/ Compared(j)'
        BY <1>1 DEF FrameState
      <3>1. Collecting(j) \/ Untouched(j) \/ Compared(j)
        BY <1>10, <2>2 DEF FoundInv, FrameState
      <3>2. CASE j # k
        BY <1>1, <2>7, <3>1, <3>2 DEF Collecting, Untouched, Compared
      <3>3. CASE j = k
        <4>1. ~Compared(k)
          BY <1>7, <2>5 DEF Compared
        <4>2. handled[k] = Tags(records[k]) /\ Pids(records[k]) \subseteq members
          BY <3>1, <3>3, <4>1 DEF Collecting, Untouched, Tags, Pids
        <4>3. handled'[k] = Tags(recs) /\ Pids(recs) \subseteq members
          BY <1>7, <2>4, <2>7, <4>2
        <4>4. CASE ~Complete(recs)
          <5>1. recs # <<>>
            BY <2>4, <1>6
          <5>2. Len(recs) < Cardinality(members)
            BY <2>11, <2>12, <4>4 DEF Complete
          <5> QED
            BY <1>1, <2>7, <3>3, <4>3, <4>4, <5>1, <5>2 DEF Collecting
        <4>5. CASE Complete(recs)
          <5>1. ~Differ(recs)
            BY <2>1, <4>5
          <5>2. \A i \in 1 .. Len(recs) : recs[i].timebase = recs[1].timebase
            BY <2>4, <5>1 DEF Differ
          <5>3. \A r, s \in Tags(recs) : r[2] = s[2]
            BY <5>2 DEF Tags
          <5>4. Cardinality(Pids(recs)) = Len(recs)
            BY <2>4, <2>6, PidsCount
          <5>5. Len(recs) >= Cardinality(members)
            BY <4>5 DEF Complete
          <5>6. Cardinality(Pids(recs)) <= Cardinality(members)
            BY <2>11, <4>3, FS_Subset
          <5>7. Cardinality(Pids(recs)) = Cardinality(members)
            BY <2>11, <2>12, <5>4, <5>5, <5>6
          <5>8. Pids(recs) = members
            BY <2>11, <4>3, <5>7, FS_Subset
          <5>9. Pids(recs) = {r[1] : r \in Tags(recs)}
            BY TagsNamePids
          <5> QED
            BY <1>1, <2>7, <3>3, <4>3, <4>5, <5>3, <5>8, <5>9 DEF Compared
        <4> QED
          BY <4>4, <4>5
      <3> QED
        BY <3>2, <3>3
    <2>15. AlarmType'
      <3>1. Blame(recs) \in 0 .. N /\ game \in Nat
        BY <1>3, <2>4, BlameType DEF Types
      <3> QED
        BY <2>1, <2>12, <3>1 DEF FoundInv, AlarmType
    <2>16. BlameIsRight'
      <3>1. CASE alarm' = alarm
        <4>1. stale' \/ ~stale
          BY <2>2
        <4> QED
          BY <1>1, <3>1, <4>1 DEF FoundInv, BlameIsRight
      <3>2. CASE Complete(recs) /\ Differ(recs)
        <4>1. alarm'.game = game /\ alarm'.blame = Blame(recs) /\ alarm'.size = Len(recs)
          BY <2>1, <3>2
        <4> SUFFICES ASSUME ~stale', Len(recs) >= 3, NEW c \in Player,
                            {q \in Player : <<game, q>> \in offs} = {c}
                     PROVE  Blame(recs) = c
          BY <1>1, <4>1 DEF BlameIsRight
        <4>2. ASSUME NEW i \in 1 .. Len(recs)
              PROVE  recs[i].timebase[1] = game /\ Honest(recs[i].timebase)
          <5>1. CASE recs[i] = rec
            <6>1. Honest(m.timebase)
              BY <1>5 DEF FoundInv, AlarmInv, MessagesHonest
            <6> QED
              BY <1>6, <2>2, <5>1, <6>1
          <5>2. CASE i \in 1 .. Len(records[k]) /\ recs[i] = records[k][i]
            BY <1>6, <2>2, <5>2 DEF FoundInv, AlarmInv, RecordsCurrent
          <5> QED
            BY <2>4, <5>1, <5>2
        <4>3. ASSUME NEW i \in 1 .. Len(recs)
              PROVE  recs[i].timebase[1] = game /\ recs[i].timebase[2] \in {0, c}
          <5>1. recs[i] \in Record
            BY <2>4
          <5>2. recs[i].timebase[2] \in 0 .. N
            BY <5>1 DEF Record, Stamp
          <5>3. recs[i].timebase[2] # 0 => recs[i].timebase[2] \in Player
            BY <5>2, NAssumption DEF Player
          <5> QED
            BY <4>2, <5>3 DEF Honest
        <4> QED
          BY <2>4, <2>6, <3>2, <4>3, BlameFindsIt
      <3> QED
        BY <2>1, <3>1, <3>2
    <2> QED
      BY <1>2, <1>4, <2>8, <2>9, <2>10, <2>13, <2>14, <2>15, <2>16 DEF FoundInv
  <1> QED
    BY <1>9, <1>10

LEMMA OnDisconnectFound ==
  ASSUME FoundInv, NEW p \in Player, NEW ends \in BOOLEAN, OnDisconnect(p, ends)
  PROVE  FoundInv'
  <1>1. /\ UNCHANGED <<game, gui, records, detected, emu, frame, off, offs, handled, stale, alarm>>
        /\ members' = members \ {p} /\ up' = [up EXCEPT ![p] = <<>>] /\ p # 1
        /\ short' = short \cup {k \in Frame : records[k] # <<>>}
    BY DEF OnDisconnect
  <1>2. AlarmInv'
    BY OnDisconnectStep DEF FoundInv
  <1>3. up'[p] = <<>> /\ \A q \in Player \ {p} : up'[q] = up[q]
    BY <1>1 DEF FoundInv, AlarmInv, Types
  <1>4. MembersInv'
    BY <1>1, <1>3 DEF FoundInv, MembersInv
  <1>5. MessagesOrdered'
    <2>1. \A i \in 1 .. Len(up'[p]) : FALSE
      BY <1>3
    <2> QED
      BY <1>1, <1>3, <2>1 DEF FoundInv, MessagesOrdered
  <1>6. HandledPast'
    <2>1. \A i \in 1 .. Len(up'[p]) : FALSE
      BY <1>3
    <2>2. \A k \in Frame : \A r \in handled[k] : r[1] \in Player
      BY DEF FoundInv, MembersInv
    <2> QED
      BY <1>1, <1>3, <2>1, <2>2 DEF FoundInv, HandledPast
  <1>7. RecordsSound' /\ RecordsFit' /\ AlarmType'
    BY <1>1 DEF FoundInv, RecordsSound, RecordsFit, AlarmType
  <1>8. FrameState'
    BY <1>1 DEF FoundInv, FrameState, Collecting, Untouched, Compared
  <1> QED
    BY <1>1, <1>2, <1>4, <1>5, <1>6, <1>7, <1>8, VerdictKept DEF FoundInv

LEMMA StartGameFound ==
  ASSUME FoundInv, StartGameClear \/ StartGame
  PROVE  FoundInv'
  <1>1. UNCHANGED <<stale, alarm, emu, frame, off, offs, up, members>>
    BY DEF StartGameClear, StartGame, cli, hist
  <1>2. AlarmInv'
    BY StartGameStep DEF FoundInv
  <1>3. MessagesOrdered' /\ AlarmType'
    BY <1>1 DEF FoundInv, MessagesOrdered, AlarmType
  <1>4. BlameIsRight'
    BY <1>1, VerdictKept
  <1>5. \A p \in Player : emu[p] \in Nat /\ game \in Nat
    BY DEF FoundInv, AlarmInv, Types
  <1>6. CASE StartGameClear
    <2>1. /\ records' = NoRecords /\ handled' = [k \in Frame |-> {}] /\ short' = {}
          /\ game' = game /\ game < MaxGame /\ gui' = "cleared" /\ detected' = detected
      BY <1>6 DEF StartGameClear
    <2>2. MembersInv'
      BY <1>1, <2>1 DEF FoundInv, MembersInv
    <2>3. \A k \in Frame : records'[k] = <<>> /\ handled'[k] = {}
      BY <2>1 DEF NoRecords
    <2>4. HandledPast' /\ FrameState'
      BY <2>3 DEF HandledPast, FrameState, Untouched
    <2>5. RecordsSound' /\ RecordsFit'
      BY <2>3, NAssumption DEF RecordsSound, RecordsFit, Tags, OnePerPlayer, OwnDrift
    <2> QED
      BY <1>2, <1>3, <1>4, <2>2, <2>4, <2>5 DEF FoundInv
  <1>7. CASE StartGame
    <2>1. /\ UNCHANGED <<records, handled, short>> /\ gui = "cleared" /\ detected' = FALSE
          /\ game' = game + 1 /\ gui' = "idle"
      BY <1>7 DEF StartGame, hist
    <2>2. MembersInv'
      BY <1>1, <1>5, <2>1, BoundAssumption DEF FoundInv, MembersInv
    <2>3. ~stale => \A k \in Frame : records[k] = <<>> /\ handled[k] = {}
      <3> SUFFICES ASSUME ~stale, NEW k \in Frame PROVE records[k] = <<>> /\ handled[k] = {}
        OBVIOUS
      <3>1. handled[k] = {}
        BY <2>1 DEF FoundInv, HandledPast
      <3>2. \A i \in 1 .. Len(records[k]) : FALSE
        BY <2>1 DEF FoundInv, AlarmInv, RecordsCurrent
      <3>3. records[k] \in Seq(Record)
        BY DEF FoundInv, AlarmInv, Types
      <3>4. Len(records[k]) = 0
        BY <3>2, <3>3
      <3> QED
        BY <3>1, <3>3, <3>4
    <2>4. HandledPast' /\ FrameState'
      BY <1>1, <2>1, <2>3 DEF HandledPast, FrameState, Untouched
    <2>5. RecordsSound' /\ RecordsFit'
      BY <1>1, <2>1 DEF FoundInv, RecordsSound, RecordsFit
    <2> QED
      BY <1>2, <1>3, <1>4, <2>2, <2>4, <2>5 DEF FoundInv
  <1> QED
    BY <1>6, <1>7

LEMMA FoundStep == FoundInv /\ [Next]_vars => FoundInv'
  <1> SUFFICES ASSUME FoundInv, [Next]_vars PROVE FoundInv'
    OBVIOUS
  <1>1. AlarmInv'
    BY AlarmStep DEF FoundInv
  <1>2. ASSUME NEW p \in Player, StopClient(p) \/ Drift(p)
        PROVE  FoundInv'
    BY <1>1, <1>2, QuietFound DEF StopClient, Drift, srv, hist
  <1>3. CASE EndGame
    BY <1>1, <1>3, QuietFound DEF EndGame, cli, hist
  <1>4. CASE UNCHANGED vars
    BY <1>1, <1>4, QuietFound DEF vars, srv, cli, hist
  <1> QED
    BY <1>2, <1>3, <1>4, BootFound, SendFound, OnTimeBaseFound, OnDisconnectFound,
       StartGameFound DEF Next

LEMMA FoundInvariant == Spec => []FoundInv
  BY FoundInit, FoundStep, PTL DEF Spec

(* Fewer records of a frame than players who are to report it. *)
LEMMA CollectingIsShort ==
  ASSUME FoundInv, NEW k \in Frame, Collecting(k)
  PROVE  ~(members \subseteq {r[1] : r \in handled[k]})
  <1>1. records[k] \in Seq(Record)
    BY DEF FoundInv, AlarmInv, Types
  <1>2. handled[k] = Tags(records[k]) /\ Len(records[k]) < Cardinality(members)
    BY DEF Collecting
  <1>3. {r[1] : r \in handled[k]} = Pids(records[k])
    BY <1>2, TagsNamePids
  <1>4. SUFFICES ASSUME members \subseteq Pids(records[k]) PROVE FALSE
    BY <1>3
  <1>5. Pids(records[k]) \subseteq Player /\ Cardinality(Pids(records[k])) <= Len(records[k])
    BY <1>1, PidsCount
  <1>6. IsFiniteSet(Pids(records[k])) /\ Cardinality(Pids(records[k])) \in Nat
    BY <1>5, MembersFinite
  <1>7. Cardinality(members) <= Cardinality(Pids(records[k])) /\ Cardinality(members) \in Nat
    BY <1>4, <1>6, FS_Subset, FS_CardinalityType
  <1>8. Len(records[k]) \in Nat
    BY <1>1
  <1> QED
    BY <1>2, <1>5, <1>6, <1>7, <1>8

(* The types, and no frame collects as many records as there are players. *)
THEOREM Typed == Spec => []TypeOK
  <1>1. FoundInv => TypeOK
    <2> SUFFICES ASSUME FoundInv PROVE TypeOK
      OBVIOUS
    <2>1. ASSUME NEW k \in Frame, NEW i \in DOMAIN records[k]
          PROVE  records[k][i].pid \in Player
      <3>1. records[k] \in Seq(Record)
        BY DEF FoundInv, AlarmInv, Types
      <3>2. records[k][i] \in Record
        BY <3>1
      <3> QED
        BY <3>2 DEF Record
    <2>2. \A p \in Player : frame[p] <= MaxFrame
      BY BoundAssumption DEF FoundInv, AlarmInv, Types
    <2> QED
      BY <2>1, <2>2 DEF FoundInv, MembersInv, RecordsFit, AlarmType, TypeOK
  <1> QED
    BY <1>1, FoundInvariant, PTL

(* When one emulator of three or more has drifted, it is the one that is   *)
(* blamed: for any number of players, whoever left and in whatever order   *)
(* the time bases were received.                                           *)
THEOREM BlameCorrect == Spec => []BlameIsRight
  <1>1. FoundInv => BlameIsRight
    BY DEF FoundInv
  <1> QED
    BY <1>1, FoundInvariant, PTL

(* A difference is found as soon as every player has reported the frame,   *)
(* unless somebody left while the frame had a record.                      *)
THEOREM DesyncIsFound == Spec => []DesyncFound
  <1>1. FoundInv => DesyncFound
    <2> SUFFICES ASSUME FoundInv, NEW k \in Frame \ short, ~stale, ~detected,
                        members \subseteq {r[1] : r \in handled[k]}
                 PROVE  \A r, s \in handled[k] : r[2] = s[2]
      BY DEF DesyncFound
    <2>1. Collecting(k) \/ Untouched(k) \/ Compared(k)
      BY DEF FoundInv, FrameState
    <2> QED
      BY <2>1, CollectingIsShort DEF Untouched, Compared
  <1> QED
    BY <1>1, FoundInvariant, PTL

=============================================================================
