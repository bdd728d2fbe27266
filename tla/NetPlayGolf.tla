----------------------------- MODULE NetPlayGolf -----------------------------
(***************************************************************************)
(* Host input authority and golf mode: one player at a time, the golfer,   *)
(* decides the inputs of all pads.  The golfer polls the last state of     *)
(* every pad and sends it to the others; the others send it their own pads.*)
(* Control changes hands by Prepare, Switch(0), Release, Switch(golfer)    *)
(* and Acquire, while each client's CPU thread goes on polling and queues  *)
(* inputs that its NETPLAY thread sends between two events.                *)
(* One game; every player has a pad, and an input stands for all pads.     *)
(***************************************************************************)
EXTENDS Naturals, Sequences, FiniteSets

CONSTANTS N,          \* the players are 1 .. N, player 1 is the host
          MaxPoll,    \* bound: polls of all CPU threads together
          MaxRequest  \* bound: requests for control

ASSUME NAssumption == N \in Nat \ {0}
ASSUME BoundAssumption == MaxPoll \in Nat /\ MaxRequest \in Nat

Player == 1 .. N

VARIABLES
  current,  \* the server's m_current_golfer, 0 for nobody
  pending,  \* m_pending_golfer
  srun,     \* the server's m_is_running
  members,  \* the server's m_players
  up,       \* what is on its way to the server, m_async_queue at its end
  down,     \* what is on its way to each client
  booted,   \* whether the GUI thread has run StartGame
  running,  \* m_is_running of each client
  view,     \* m_current_golfer of each client
  wait,     \* m_wait_on_input
  received, \* m_wait_on_input_received
  event,    \* m_wait_on_input_event
  first,    \* m_first_pad_status_received: the players whose pad is known
  fevent,   \* m_first_pad_status_received_event
  buffer,   \* m_pad_buffer
  cpu,      \* where the CPU thread is in GetNetPads
  packet,   \* the input in the packet SendPadHostPoll has built, 0 for none
  taken,    \* history: the inputs each emulator has applied
  polls, requests, inputs,  \* how often what is bounded has happened
  early,    \* history: a client has handled a message of the game before StartGame
  late      \* history: control was released ahead of an input

server == <<current, pending, srun, members>>
net == <<up, down>>
pause == <<wait, received, event>>
pads == <<first, fevent, buffer, packet, taken>>
hist == <<polls, requests, inputs, early, late>>
vars == <<server, net, booted, running, view, pause, pads, cpu, hist>>

(* The server has started the game and every client's GUI thread has the   *)
(* start queued (OnMsgStartGame).  m_current_golfer is 1 from construction.*)
Init ==
  /\ current = 1 /\ pending = 0 /\ srun = TRUE /\ members = Player
  /\ up = [p \in Player |-> <<>>] /\ down = up
  /\ booted = [p \in Player |-> FALSE] /\ running = booted
  /\ view = [p \in Player |-> 1]
  /\ wait = [p \in Player |-> FALSE] /\ received = wait /\ event = wait
  /\ first = [p \in Player |-> {}] /\ fevent = [p \in Player |-> FALSE]
  /\ buffer = [p \in Player |-> <<>>] /\ taken = buffer
  /\ packet = [p \in Player |-> 0] /\ cpu = [p \in Player |-> "off"]
  /\ polls = 0 /\ requests = 0 /\ inputs = 0
  /\ early = FALSE /\ late = FALSE

PadData(v) == [type |-> "PadData", value |-> v]
PadHostData(v) == [type |-> "PadHostData", value |-> v]
GolfRequest(p) == [type |-> "GolfRequest", value |-> p]
GolfSwitch(p) == [type |-> "GolfSwitch", value |-> p]
Signal(type) == [type |-> type, value |-> 0]

(* What a client sends; nobody listens to one who is no longer a player. *)
Sent(p, m) == IF p \in members THEN Append(up[p], m) ELSE up[p]

(* SendAsync.  The NETPLAY thread sends the queue in order and handles an  *)
(* event only after it has found the queue empty.                          *)
SendAsync(p, m) == up' = [up EXCEPT ![p] = Sent(p, m)]

(* How much may have been sent: what is left to send is the end of what    *)
(* the threads have given to SendAsync.                                    *)
Queued(m) == m.type \in {"PadData", "PadHostData", "GolfRequest"}
Flushed(p) == {k \in 0 .. Len(up[p]) : \A j \in k + 1 .. Len(up[p]) : Queued(up[p][j])}

(* Send, by whichever thread, overtakes what is still queued: the NETPLAY  *)
(* thread empties the queue before OnData, not before a Send in OnData.    *)
Send(p, k, m) ==
  up' = [up EXCEPT ![p] = IF p \in members
                          THEN SubSeq(@, 1, k) \o <<m>> \o SubSeq(@, k + 1, Len(@)) ELSE @]

SendTo(S, m) == down' = [p \in Player |-> IF p \in S THEN Append(down[p], m) ELSE down[p]]

-----------------------------------------------------------------------------
(* The CPU thread of client p. *)

(* The head of GetNetPads.  A client told to wait says so to the server    *)
(* itself; one whose game has ended returns, and is asked again.           *)
Pause(p) ==
  /\ cpu[p] = "top" /\ wait[p] /\ running[p]
  /\ IF received[p]
     THEN /\ \E k \in Flushed(p) : Send(p, k, Signal("GolfPrepare"))
          /\ cpu' = [cpu EXCEPT ![p] = "answered"]
     ELSE cpu' = [cpu EXCEPT ![p] = "paused"] /\ UNCHANGED up
  /\ UNCHANGED <<server, down, booted, running, view, pause, pads, hist>>

(* NetPlay_Disable: the core of a stopped game asks for no more pads. *)
Leave(p) ==
  /\ cpu[p] = "top" /\ ~running[p]
  /\ cpu' = [cpu EXCEPT ![p] = "off"]
  /\ UNCHANGED <<server, net, booted, running, view, pause, pads, hist>>

(* m_wait_on_input_received = false, after the send. *)
ClearReceived(p) ==
  /\ cpu[p] = "answered"
  /\ received' = [received EXCEPT ![p] = FALSE]
  /\ cpu' = [cpu EXCEPT ![p] = "paused"]
  /\ UNCHANGED <<server, net, booted, running, view, wait, event, pads, hist>>

(* m_wait_on_input_event.Wait() returns. *)
Woken(p) ==
  /\ cpu[p] = "paused" /\ event[p]
  /\ event' = [event EXCEPT ![p] = FALSE]
  /\ cpu' = [cpu EXCEPT ![p] = "top"]
  /\ UNCHANGED <<server, net, booted, running, view, wait, received, pads, hist>>

(* PollLocalPad: a golfer keeps its own state, the others send theirs. *)
PollLocalPad(p) ==
  /\ cpu[p] = "top" /\ ~wait[p] /\ polls < MaxPoll
  /\ polls' = polls + 1
  /\ IF view[p] = p
     THEN first' = [first EXCEPT ![p] = @ \cup {p}] /\ UNCHANGED up
     ELSE SendAsync(p, PadData(p)) /\ UNCHANGED first
  /\ cpu' = [cpu EXCEPT ![p] = "host"]
  /\ UNCHANGED <<server, down, booted, running, view, pause, fevent, buffer, packet, taken,
                 requests, inputs, early, late>>

(* SendPadHostPoll: one who is not the golfer has nothing to do ... *)
SkipHostPoll(p) ==
  /\ cpu[p] = "host" /\ view[p] # p
  /\ cpu' = [cpu EXCEPT ![p] = "buffer"]
  /\ UNCHANGED <<server, net, booted, running, view, pause, pads, hist>>

(* ... the golfer goes on, and does not look again whether it still is one *)
(* after it has slept until all pads are known.                            *)
AsGolfer(p) == cpu[p] = "check" \/ (cpu[p] = "host" /\ view[p] = p)

WaitFirst(p) ==
  /\ \/ /\ AsGolfer(p) /\ first[p] # Player
        /\ cpu' = [cpu EXCEPT ![p] = IF running[p] THEN "first" ELSE "buffer"]
        /\ UNCHANGED fevent
     \/ /\ cpu[p] = "first" /\ fevent[p]
        /\ fevent' = [fevent EXCEPT ![p] = FALSE]
        /\ cpu' = [cpu EXCEPT ![p] = "check"]
  /\ UNCHANGED <<server, net, booted, running, view, pause, first, buffer, packet, taken, hist>>

(* Mutant: the input is sent but not kept. *)
BuildInputForOthers(p) ==
  /\ AsGolfer(p) /\ first[p] = Player
  /\ packet' = [packet EXCEPT ![p] = inputs + 1]
  /\ cpu' = [cpu EXCEPT ![p] = "built"]
  /\ UNCHANGED <<server, net, booted, running, view, pause, first, fevent, buffer, taken, hist>>

(* A new input, unless some are left of the golfer before. *)
BuildInput(p) ==
  /\ AsGolfer(p) /\ first[p] = Player
  /\ IF buffer[p] = <<>>
     THEN /\ inputs' = inputs + 1
          /\ buffer' = [buffer EXCEPT ![p] = <<inputs'>>]
          /\ packet' = [packet EXCEPT ![p] = inputs']
     ELSE UNCHANGED <<inputs, buffer, packet>>
  /\ cpu' = [cpu EXCEPT ![p] = "built"]
  /\ UNCHANGED <<server, net, booted, running, view, pause, first, fevent, taken, polls,
                 requests, early, late>>

(* SendAsync; the packet is sent even when there is no input in it. *)
SendInput(p) ==
  /\ cpu[p] = "built"
  /\ SendAsync(p, PadHostData(packet[p]))
  /\ packet' = [packet EXCEPT ![p] = 0]
  /\ cpu' = [cpu EXCEPT ![p] = "buffer"]
  /\ UNCHANGED <<server, down, booted, running, view, pause, first, fevent, buffer,
                 taken, hist>>

(* The end of GetNetPads, which returns without an input when the game has *)
(* ended.  m_gc_pad_event is NetPlayGame's subject.                        *)
Pop(p) ==
  /\ cpu[p] = "buffer"
  /\ IF buffer[p] # <<>>
     THEN /\ taken' = [taken EXCEPT ![p] = Append(@, Head(buffer[p]))]
          /\ buffer' = [buffer EXCEPT ![p] = Tail(@)]
     ELSE ~running[p] /\ UNCHANGED <<taken, buffer>>
  /\ cpu' = [cpu EXCEPT ![p] = "top"]
  /\ UNCHANGED <<server, net, booted, running, view, pause, first, fevent, packet, hist>>

CPU(p) ==
  \/ Pause(p) \/ Leave(p) \/ ClearReceived(p) \/ Woken(p) \/ PollLocalPad(p)
  \/ SkipHostPoll(p) \/ WaitFirst(p) \/ BuildInput(p) \/ SendInput(p) \/ Pop(p)

-----------------------------------------------------------------------------
(* The GUI thread of client p. *)

(* StartGame, with ClearBuffers; m_wait_on_input_received stays as it is. *)
StartGame(p) ==
  /\ ~booted[p]
  /\ booted' = [booted EXCEPT ![p] = TRUE]
  /\ running' = [running EXCEPT ![p] = TRUE]
  /\ view' = [view EXCEPT ![p] = 1]
  /\ wait' = [wait EXCEPT ![p] = FALSE]
  /\ first' = [first EXCEPT ![p] = {}]
  /\ buffer' = [buffer EXCEPT ![p] = <<>>]
  /\ cpu' = [cpu EXCEPT ![p] = "top"]
  /\ UNCHANGED <<server, net, received, event, fevent, packet, taken, hist>>

(* The overlay of a running game, or the hotkey. *)
RequestGolfControl(p, q) ==
  /\ running[p] /\ requests < MaxRequest
  /\ SendAsync(p, GolfRequest(q))
  /\ requests' = requests + 1
  /\ UNCHANGED <<server, down, booted, running, view, pause, pads, cpu, polls, inputs,
                 early, late>>

-----------------------------------------------------------------------------
(* The NETPLAY thread of client p. *)

(* The next message, if it is of this type. *)
Message(p, type) ==
  IF down[p] # <<>> /\ Head(down[p]).type = type THEN {Head(down[p])} ELSE {}

(* What the handlers of the NETPLAY thread have in common. *)
Received(p) ==
  /\ down' = [down EXCEPT ![p] = Tail(@)]
  /\ early' = (early \/ ~booted[p])
  /\ UNCHANGED <<server, booted, cpu, packet, taken, polls, requests, inputs>>

(* SendPadHostPoll has an input under way that comes after what is sent    *)
(* ahead of all but the first k: it is queued, or will be, as the thread   *)
(* does not ask again who the golfer is.                                   *)
Overtaken(p, k) ==
  \/ cpu[p] \in {"first", "check", "built"}
  \/ \E j \in k + 1 .. Len(up[p]) : up[p][j].type = "PadHostData"

(* The last golfer releases, the next one acquires and goes on. *)
OnGolfSwitch(p) ==
  \E m \in Message(p, "GolfSwitch"), k \in Flushed(p) :
    /\ view' = [view EXCEPT ![p] = m.value]
    /\ \/ /\ view[p] = p
          /\ Send(p, k, Signal("GolfRelease"))
          /\ late' = (late \/ Overtaken(p, k))
          /\ UNCHANGED <<first, wait, event>>
       \/ /\ view[p] # p /\ m.value = p
          /\ Send(p, k, Signal("GolfAcquire"))
          /\ first' = [first EXCEPT ![p] = Player]
          /\ wait' = [wait EXCEPT ![p] = FALSE]
          /\ event' = [event EXCEPT ![p] = TRUE]
          /\ UNCHANGED late
       \/ /\ view[p] # p /\ m.value # p
          /\ UNCHANGED <<up, first, wait, event, late>>
    /\ Received(p)
    /\ UNCHANGED <<running, received, fevent, buffer>>

(* Mutant: the client answers at once, wherever its CPU thread is. *)
OnGolfPrepareAnswers(p) ==
  \E m \in Message(p, "GolfPrepare") :
    /\ Received(p) /\ \E k \in Flushed(p) : Send(p, k, m)
    /\ wait' = [wait EXCEPT ![p] = TRUE]
    /\ UNCHANGED <<running, view, received, event, first, fevent, buffer, late>>

OnGolfPrepare(p) ==
  \E m \in Message(p, "GolfPrepare") :
    /\ Received(p) /\ UNCHANGED up
    /\ received' = [received EXCEPT ![p] = TRUE]
    /\ wait' = [wait EXCEPT ![p] = TRUE]
    /\ UNCHANGED <<running, view, event, first, fevent, buffer, late>>

(* An input for the buffer. *)
OnPadData(p) ==
  \E m \in Message(p, "PadData") :
    /\ Received(p) /\ UNCHANGED up
    /\ buffer' = [buffer EXCEPT ![p] = Append(@, m.value)]
    /\ UNCHANGED <<running, view, pause, first, fevent, late>>

(* The state of another player's pad. *)
OnPadHostData(p) ==
  \E m \in Message(p, "PadHostData") :
    /\ Received(p) /\ UNCHANGED up
    /\ first' = [first EXCEPT ![p] = @ \cup {m.value}]
    /\ fevent' = [fevent EXCEPT ![p] = @ \/ m.value \notin first[p]]
    /\ UNCHANGED <<running, view, pause, buffer, late>>

(* Mutant: the thread that waits for its turn is not woken. *)
OnStopForgets(p) ==
  \E m \in Message(p, "Stop") :
    /\ Received(p) /\ UNCHANGED up
    /\ running' = [running EXCEPT ![p] = FALSE]
    /\ fevent' = [fevent EXCEPT ![p] = TRUE]
    /\ UNCHANGED <<view, pause, first, buffer, late>>

(* StopGame, DisableGame or the loss of the connection: InvokeStop. *)
OnStop(p) ==
  \E m \in Message(p, "Stop") :
    /\ Received(p) /\ UNCHANGED up
    /\ running' = [running EXCEPT ![p] = FALSE]
    /\ event' = [event EXCEPT ![p] = TRUE]
    /\ fevent' = [fevent EXCEPT ![p] = TRUE]
    /\ UNCHANGED <<view, wait, received, first, buffer, late>>

Client(p) ==
  \/ OnGolfSwitch(p) \/ OnGolfPrepare(p) \/ OnPadData(p) \/ OnPadHostData(p)
  \/ OnStop(p)

-----------------------------------------------------------------------------
(* The server's NETPLAY thread. *)

From(p, type) ==
  /\ up[p] # <<>> /\ Head(up[p]).type = type
  /\ up' = [up EXCEPT ![p] = Tail(@)]

Rest == <<booted, running, view, pause, pads, cpu, hist>>

(* The state of a pad goes to the golfer, if there is one. *)
ServerOnPadData(p) ==
  /\ From(p, "PadData")
  /\ SendTo({current} \cap members, PadHostData(p))
  /\ UNCHANGED <<server, Rest>>

(* Mutant: the golfer gets its own input back. *)
ServerOnPadHostDataToAll(p) ==
  /\ From(p, "PadHostData") /\ current \in {0, p}
  /\ IF Head(up[p]).value = 0 THEN UNCHANGED down
     ELSE SendTo(members, PadData(Head(up[p]).value))
  /\ UNCHANGED <<server, Rest>>

(* An input goes to everybody else. *)
ServerOnPadHostData(p) ==
  /\ From(p, "PadHostData") /\ current \in {0, p}
  /\ IF Head(up[p]).value = 0 THEN UNCHANGED down
     ELSE SendTo(members \ {p}, PadData(Head(up[p]).value))
  /\ UNCHANGED <<server, Rest>>

(* "Kick player if they're not the golfer": OnDisconnect, which ends the   *)
(* game for all unless it is the host's.                                   *)
ServerKicks(p) ==
  /\ up[p] # <<>> /\ Head(up[p]).type = "PadHostData" /\ current \notin {0, p}
  /\ up' = [up EXCEPT ![p] = <<>>]
  /\ members' = members \ {p}
  /\ srun' = (srun /\ p = 1)
  /\ SendTo(IF srun /\ p # 1 THEN members ELSE {p}, Signal("Stop"))
  /\ UNCHANGED <<current, pending, Rest>>

ServerOnGolfRequest(p) ==
  /\ From(p, "GolfRequest")
  /\ LET q == Head(up[p]).value
     IN  IF q \in members /\ pending = 0 /\ current # q
         THEN pending' = q /\ SendTo({q}, Signal("GolfPrepare"))
         ELSE UNCHANGED <<pending, down>>
  /\ UNCHANGED <<current, srun, members, Rest>>

(* Mutant: the next golfer is told without waiting for the last one. *)
ServerOnGolfPrepareAtOnce(p) ==
  /\ From(p, "GolfPrepare")
  /\ IF pending = 0 THEN UNCHANGED <<current, down>>
     ELSE current' = 0 /\ SendTo(members, GolfSwitch(pending))
  /\ UNCHANGED <<pending, srun, members, Rest>>

(* Mutant: the next golfer is the golfer as soon as it is ready. *)
ServerOnGolfPrepareEarly(p) ==
  /\ From(p, "GolfPrepare")
  /\ IF pending = 0 THEN UNCHANGED <<current, down>>
     ELSE current' = pending /\ SendTo(members, GolfSwitch(0))
  /\ UNCHANGED <<pending, srun, members, Rest>>

(* The next golfer waits: nobody is the golfer any more. *)
ServerOnGolfPrepare(p) ==
  /\ From(p, "GolfPrepare")
  /\ IF pending = 0 THEN UNCHANGED <<current, down>>
     ELSE current' = 0 /\ SendTo(members, GolfSwitch(0))
  /\ UNCHANGED <<pending, srun, members, Rest>>

ServerOnGolfRelease(p) ==
  /\ From(p, "GolfRelease")
  /\ IF pending = 0 THEN UNCHANGED down ELSE SendTo(members, GolfSwitch(pending))
  /\ UNCHANGED <<server, Rest>>

ServerOnGolfAcquire(p) ==
  /\ From(p, "GolfAcquire")
  /\ IF pending = 0 THEN UNCHANGED <<current, pending>>
     ELSE current' = pending /\ pending' = 0
  /\ UNCHANGED <<srun, members, down, Rest>>

(* A StopGame packet of any player. *)
ServerStops ==
  /\ srun /\ srun' = FALSE
  /\ SendTo(members, Signal("Stop"))
  /\ UNCHANGED <<current, pending, members, up, Rest>>

Server(p) ==
  \/ ServerOnPadData(p) \/ ServerOnPadHostData(p) \/ ServerKicks(p) \/ ServerOnGolfRequest(p)
  \/ ServerOnGolfPrepare(p) \/ ServerOnGolfRelease(p) \/ ServerOnGolfAcquire(p)

Next ==
  \/ \E p \in Player : \/ CPU(p) \/ Client(p) \/ Server(p) \/ StartGame(p)
                       \/ \E q \in Player : RequestGolfControl(p, q)
  \/ ServerStops

Spec == Init /\ [][Next]_vars

(* Every thread runs; nothing is assumed of the people. *)
Fairness ==
  \A p \in Player : /\ WF_vars(CPU(p)) /\ WF_vars(Client(p))
                    /\ WF_vars(Server(p)) /\ WF_vars(StartGame(p))

FairSpec == Spec /\ Fairness

-----------------------------------------------------------------------------
Where == {"off", "top", "answered", "paused", "host", "check", "first", "built", "buffer"}

(* The types; no buffer or packet holds an input that nobody has made.     *)
TypeOK ==
  /\ current \in 0 .. N /\ pending \in 0 .. N /\ members \subseteq Player
  /\ view \in [Player -> 0 .. N] /\ cpu \in [Player -> Where]
  /\ first \in [Player -> SUBSET Player]
  /\ \A p \in Player : packet[p] <= inputs /\ buffer[p] \in Seq(1 .. inputs)

(* What follows an early message is left out of the runs: the properties   *)
(* below do not speak of it.                                               *)
NotEarly == ~early

(* Two clients never take themselves for the golfer at the same time: the  *)
(* next one is told only when the last one has let go.  A client whose GUI *)
(* thread starts the game after the first switch sets itself back.         *)
OneGolfer ==
  ~early => \A p, q \in Player : view[p] = p /\ view[q] = q => p = q

(* All emulators apply the same inputs in the same order, through every    *)
(* change of control, unless a golfer's release overtakes its own input.   *)
Prefix(s, t) == Len(s) <= Len(t) /\ s = SubSeq(t, 1, Len(s))

InputsAgree ==
  ~early /\ ~late => \A p, q \in Player : Prefix(taken[p], taken[q]) \/ Prefix(taken[q], taken[p])

(* A player is thrown out for an input only when its release has overtaken *)
(* that input (or the game was started late): what it sent before is never *)
(* held against it.                                                        *)
NoKickInTime == members # Player => early \/ late

(* A golfer never waits for inputs that it would have to send itself: the  *)
(* next golfer was stopped at the head of GetNetPads, not at its end.      *)
GolferFed ==
  ~early => \A p \in Player :
    running[p] /\ view[p] = p /\ cpu[p] = "buffer" => buffer[p] # <<>>

(* A client whose game has ended never sleeps in GetNetPads: the events    *)
(* InvokeStop sets are not lost, whatever the switch is at.                *)
StopWakes ==
  \A p \in Player : booted[p] /\ ~running[p] =>
    /\ cpu[p] \in {"paused", "answered"} => event[p]
    /\ cpu[p] = "first" => fevent[p]

(* "When here when told to so we don't deadlock in certain situations"     *)
(* (GetNetPads): while the game goes on, a thread that waits for its turn, *)
(* or for the pads of the others, goes on some time.                       *)
Waiting(p) == cpu[p] \in {"paused", "first"} /\ srun /\ ~early

WaitEnds == \A p \in Player : Waiting(p) ~> ~Waiting(p)

=============================================================================
