---------------------------- MODULE NetPlayDesync ----------------------------
(***************************************************************************)
(* How the server finds out that the emulators have drifted apart: every   *)
(* client sends the time base of every sixtieth frame, and the server      *)
(* compares the records of a frame when it has as many as there are        *)
(* players.  The records say nothing of the game they are of, players      *)
(* leave, and the host's GUI thread starts the next game while records of  *)
(* the last one are on their way.                                          *)
(***************************************************************************)
EXTENDS Naturals, Sequences, FiniteSets

CONSTANTS N,         \* the players are 1 .. N, player 1 is the host
          None,
          MaxFrame,  \* bound: frames with a time base in a game
          MaxGame,   \* bound: games
          MaxLeave,  \* bound: players who leave
          MaxDrift   \* bound: emulators that drift, over all games

ASSUME NAssumption == N \in Nat \ {0}
ASSUME BoundAssumption == {MaxFrame, MaxGame, MaxLeave, MaxDrift} \subseteq Nat

Player == 1 .. N
Frame == 1 .. MaxFrame

VARIABLES
  members,  \* the server's m_players
  srun,     \* the server's m_is_running
  game,     \* m_current_game
  gui,      \* the host's GUI thread: "cleared" in the middle of StartGame
  records,  \* m_timebase_by_frame
  detected, \* m_desync_detected
  up,       \* the TimeBase messages on their way
  emu,      \* the game each client has booted
  alive,    \* whether it still emulates it
  frame,    \* the frames of it that are done (m_timebase_frame / 60)
  off,      \* whether it has drifted from the others
  offs,     \* history: who has drifted in which game
  handled,  \* history: the records of this game, by frame
  short,    \* history: frames with a record from before somebody left
  stale,    \* history: a record of one game was kept in the next one
  alarm     \* history: the last DesyncDetected

srv == <<members, srun, game, gui>>
cli == <<emu, alive, frame, off, offs>>
hist == <<handled, short, stale>>
vars == <<srv, records, detected, up, cli, hist, alarm>>

NoRecords == [k \in Frame |-> <<>>]

Init ==
  /\ members = Player /\ srun = FALSE /\ game = 0 /\ gui = "idle"
  /\ records = NoRecords /\ detected = FALSE
  /\ up = [p \in Player |-> <<>>]
  /\ emu = [p \in Player |-> 0] /\ frame = emu
  /\ alive = [p \in Player |-> FALSE] /\ off = alive /\ offs = {}
  /\ handled = [k \in Frame |-> {}] /\ short = {} /\ stale = FALSE
  /\ alarm = None

-----------------------------------------------------------------------------
(* The clients. *)

(* StartGame of a client, once the last game is over for it. *)
Boot(p) ==
  /\ p \in members /\ ~alive[p] /\ emu[p] < game
  /\ emu' = [emu EXCEPT ![p] = game]
  /\ alive' = [alive EXCEPT ![p] = TRUE]
  /\ frame' = [frame EXCEPT ![p] = 0]
  /\ off' = [off EXCEPT ![p] = FALSE]
  /\ UNCHANGED <<srv, records, detected, up, offs, hist, alarm>>

(* The client hears that the game is over. *)
StopClient(p) ==
  /\ alive[p] /\ (~srun \/ emu[p] < game)
  /\ alive' = [alive EXCEPT ![p] = FALSE]
  /\ UNCHANGED <<srv, records, detected, up, emu, frame, off, offs, hist, alarm>>

(* The emulators of a game agree until one of them drifts. *)
Drift(p) ==
  /\ alive[p] /\ ~off[p] /\ p \in members /\ Cardinality(offs) < MaxDrift
  /\ off' = [off EXCEPT ![p] = TRUE]
  /\ offs' = offs \cup {<<emu[p], p>>}
  /\ UNCHANGED <<srv, records, detected, up, emu, alive, frame, hist, alarm>>

(* The time base tells games apart, because it starts from the clock, and  *)
(* the emulators that have drifted.                                        *)
TimeBase(p) == <<emu[p], IF off[p] THEN p ELSE 0>>

SendTimeBase(p) ==
  /\ alive[p] /\ p \in members /\ frame[p] < MaxFrame
  /\ frame' = [frame EXCEPT ![p] = @ + 1]
  /\ up' = [up EXCEPT ![p] = Append(@, [timebase |-> TimeBase(p), frame |-> frame'[p]])]
  /\ UNCHANGED <<srv, records, detected, emu, alive, off, offs, hist, alarm>>

-----------------------------------------------------------------------------
(* The server. *)

(* Whether the records of a frame are compared now. *)
CompleteLate(recs) == Len(recs) > Cardinality(members)

Complete(recs) == Len(recs) >= Cardinality(members)

Differ(recs) == \E i \in DOMAIN recs : recs[i].timebase # recs[1].timebase

(* Mutant: the first record that is not like the first of all. *)
BlameFirstOther(recs) ==
  recs[CHOOSE i \in DOMAIN recs : recs[i].timebase # recs[1].timebase].pid

(* The player of the first record no other player's record is like; 0 for  *)
(* nobody.                                                                 *)
Blame(recs) ==
  LET alone == {i \in DOMAIN recs : \A j \in DOMAIN recs :
                  recs[j].pid = recs[i].pid \/ recs[j].timebase # recs[i].timebase}
  IN  IF alone = {} THEN 0
      ELSE recs[CHOOSE i \in alone : \A j \in alone : i <= j].pid

(* OnData of a TimeBase message. *)
OnTimeBase(p) ==
  /\ up[p] # <<>>
  /\ up' = [up EXCEPT ![p] = Tail(@)]
  /\ LET m == Head(up[p])
         recs == Append(records[m.frame], [pid |-> p, timebase |-> m.timebase])
     IN  IF detected THEN UNCHANGED <<records, detected, alarm, handled, stale>>
         ELSE /\ IF Complete(recs)
                 THEN /\ records' = [records EXCEPT ![m.frame] = <<>>]
                      /\ detected' = Differ(recs)
                      /\ alarm' = IF Differ(recs)
                                  THEN [game |-> game, blame |-> Blame(recs), size |-> Len(recs)]
                                  ELSE alarm
                 ELSE /\ records' = [records EXCEPT ![m.frame] = recs]
                      /\ UNCHANGED <<detected, alarm>>
              /\ handled' = [handled EXCEPT ![m.frame] = @ \cup {<<p, m.timebase>>}]
              /\ stale' = (stale \/ gui = "cleared" \/ m.timebase[1] # game)
  /\ UNCHANGED <<srv, cli, short>>

(* OnDisconnect: nothing that was on its way is received, the records stay,*)
(* and the game goes on if the player had no pad.                          *)
OnDisconnect(p, ends) ==
  /\ p \in members \ {1} /\ Cardinality(Player \ members) < MaxLeave
  /\ members' = members \ {p}
  /\ srun' = (srun /\ ~ends)
  /\ up' = [up EXCEPT ![p] = <<>>]
  /\ alive' = [alive EXCEPT ![p] = FALSE]
  /\ short' = short \cup {k \in Frame : records[k] # <<>>}
  /\ UNCHANGED <<game, gui, records, detected, emu, frame, off, offs, handled, stale, alarm>>

EndGame ==
  /\ srun /\ srun' = FALSE
  /\ UNCHANGED <<members, game, gui, records, detected, up, cli, hist, alarm>>

(* Mutant: the records of the last game stay. *)
StartGameClearKeeps ==
  /\ ~srun /\ gui = "idle" /\ game < MaxGame
  /\ gui' = "cleared"
  /\ handled' = [k \in Frame |-> {}] /\ short' = {}
  /\ UNCHANGED <<members, srun, game, records, detected, up, cli, stale, alarm>>

(* StartGame on the GUI thread, without a lock: the records are thrown     *)
(* away ...                                                                *)
StartGameClear ==
  /\ ~srun /\ gui = "idle" /\ game < MaxGame
  /\ gui' = "cleared"
  /\ records' = NoRecords
  /\ handled' = [k \in Frame |-> {}] /\ short' = {}
  /\ UNCHANGED <<members, srun, game, detected, up, cli, stale, alarm>>

(* ... and the game is started. *)
StartGame ==
  /\ gui = "cleared"
  /\ detected' = FALSE
  /\ game' = game + 1 /\ srun' = TRUE /\ gui' = "idle"
  /\ UNCHANGED <<members, records, up, cli, hist, alarm>>

Next ==
  \/ \E p \in Player : \/ Boot(p) \/ StopClient(p) \/ Drift(p) \/ SendTimeBase(p)
                       \/ OnTimeBase(p)
                       \/ \E ends \in BOOLEAN : OnDisconnect(p, ends)
  \/ EndGame \/ StartGameClear \/ StartGame

Spec == Init /\ [][Next]_vars

(* Nothing is claimed once a record of one game is kept in the next one,   *)
(* and that never ends: a run may stop there.                              *)
NotStale == ~stale

-----------------------------------------------------------------------------
(* The types; a frame that is kept is short of at least one player's record. *)
TypeOK ==
  /\ members \subseteq Player /\ game \in 0 .. MaxGame /\ gui \in {"idle", "cleared"}
  /\ \A k \in Frame : /\ Len(records[k]) < N
                      /\ \A i \in DOMAIN records[k] : records[k][i].pid \in Player
  /\ \A p \in Player : emu[p] <= game /\ frame[p] <= MaxFrame
  /\ alarm # None => alarm.blame \in 0 .. N

(* Nobody is told of a desync of emulators that agree: unless a record of  *)
(* the last game was received after the records were thrown away, there is *)
(* an emulator of this very game that has drifted.                         *)
NoFalseAlarm ==
  alarm # None /\ ~stale => \E p \in Player : <<alarm.game, p>> \in offs

(* When one emulator of three or more has drifted, it is the one that is   *)
(* blamed, whoever left and in whatever order the records came.            *)
BlameIsRight ==
  alarm # None /\ ~stale /\ alarm.size >= 3 =>
    \A p \in Player : {q \in Player : <<alarm.game, q>> \in offs} = {p} => alarm.blame = p

(* A difference is found as soon as all players have reported the frame,   *)
(* unless somebody left while the frame had a record.                      *)
DesyncFound ==
  \A k \in Frame \ short :
    ~stale /\ members \subseteq {r[1] : r \in handled[k]} =>
      detected \/ \A r, s \in handled[k] : r[2] = s[2]

=============================================================================
