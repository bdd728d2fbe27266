---------------------------- MODULE NetPlayGame ----------------------------
(***************************************************************************)
(* The life of a NetPlay game in delay mode (host input authority off):    *)
(* the server starts it, every client boots it, the clients exchange pad   *)
(* data through the server in lockstep, and somebody stops it or drops     *)
(* out.                                                                    *)
(*                                                                         *)
(* Each client runs three threads, whose steps interleave here:            *)
(*   CPU      the emulated game; polls the pads in GetNetPads, holding     *)
(*            crit_netplay_client while it waits for the other players;    *)
(*   NETPLAY  ThreadFunc; handles what the server sends;                   *)
(*   GUI      handles queued events one by one: StartGame, ForceStop, and  *)
(*            the emulation state changes that ask the server to stop.     *)
(* The server has a NETPLAY thread and shares the GUI thread of the host,  *)
(* player 1.  A client's async queue and the ENet channel behind it are    *)
(* one FIFO queue; the server's async queue is a queue of its own, because *)
(* the server's NETPLAY thread also sends without it.                      *)
(***************************************************************************)
EXTENDS Integers, Sequences, FiniteSets

CONSTANTS
  Player,      (* the connected players; 1 is the host                      *)
  PadCount,    (* in-game pads 0 .. PadCount-1 are mapped, the rest are not *)
  PadMap,      (* the player each in-game pad belongs to at first           *)
  Batching,    (* pads are polled by SI::UpdateDevices, not by MMIO         *)
  Targets,     (* the values the host gives m_target_buffer_size            *)
  MaxGame,     (* bound: games the host starts                              *)
  MaxFrame,    (* bound: frames a client emulates in one game               *)
  MaxAdjust,   (* bound: changes of the buffer size                         *)
  MaxStop,     (* bound: times a player stops the emulation                 *)
  MaxDrop      (* bound: connections lost                                   *)

Pad == 0 .. (PadCount - 1)

ASSUME PlayerAssumption == Player \subseteq Nat \ {0} /\ 1 \in Player
ASSUME PadAssumption    == PadCount \in 1 .. 4 /\ PadMap \in [Pad -> Player]
ASSUME TargetAssumption == Targets \subseteq Nat /\ Targets # {}
ASSUME BatchAssumption  == Batching \in BOOLEAN
ASSUME BoundAssumption  ==
         {MaxGame, MaxFrame, MaxAdjust, MaxStop, MaxDrop} \subseteq Nat

VARIABLES
  \* client, set by its threads
  running,     (* m_is_running                                              *)
  netplay,     (* netplay_client # nullptr: GetInput goes to GetNetPads     *)
  gotStop,     (* NetPlayDialog::m_got_stop_request                         *)
  current,     (* m_current_game                                            *)
  target,      (* m_target_buffer_size                                      *)
  padMap,      (* m_pad_map: the player each in-game pad belongs to, or 0   *)
  buf,         (* m_pad_buffer                                              *)
  event,       (* m_gc_pad_event is set                                     *)
  \* where each thread is
  net,         (* NETPLAY: loop, or inside StopGame: set, disable, dialog   *)
  gui,         (* GUI: idle, or in StartGame: enable, boot; or in Core::Stop*)
  guiq,        (* events queued on the GUI thread                           *)
  cpu,         (* CPU: off, run, or in GetNetPads: size, check, wait        *)
  powerDown,   (* CPUManager::m_state = PowerDown                           *)
  pendingBoot, (* MainWindow::m_pending_boot                                *)
  pad,         (* the in-game pad the CPU thread polls next                 *)
  frame,       (* frames emulated since the game booted                     *)
  \* the emulation of each client, for the labels of its inputs
  emu,         (* how often the client has booted a game                    *)
  egame,       (* the game it announced with StartGame                      *)
  made,        (* inputs this emulation has produced for each local pad     *)
  last,        (* the last input this emulation has consumed for each pad   *)
  \* network and server
  up, down,    (* queues from and to each client                            *)
  lost,        (* the client has noticed that its connection is gone        *)
  link,        (* the connection of the client works                        *)
  players,     (* the keys of the server's m_players                        *)
  playerGame,  (* Client::current_game of each player                       *)
  sRunning,    (* the server's m_is_running                                 *)
  sGame,       (* the server's m_current_game                               *)
  sTarget,     (* the server's m_target_buffer_size                         *)
  async,       (* the server's m_async_queue                                *)
  startButton, (* the host may press Start                                  *)
  adjusts,     (* changes of the buffer size so far                         *)
  stops,       (* times a player has stopped the emulation                  *)
  \* history
  missed       (* clients told to stop a game their GUI thread had not      *)
               (* finished booting                                          *)

clientVars == <<running, netplay, gotStop, current, target, padMap, buf,
                event>>
threadVars == <<net, gui, guiq, cpu, powerDown, pendingBoot, pad, frame>>
emuVars    == <<emu, egame, made, last>>
serverVars == <<players, playerGame, sRunning, sGame, sTarget, async,
                startButton>>
netVars    == <<up, down, lost, link>>

history    == <<adjusts, stops, missed>>

vars == <<clientVars, threadVars, emuVars, serverVars, netVars, history>>

----------------------------------------------------------------------------
(* Inputs.  An input is labelled with the emulation that produced it, the  *)
(* game that emulation announced and its place in that stream.             *)

Input   == [e : Nat, g : Nat, n : Nat]
NoInput == [e |-> 0, g |-> 0, n |-> 0]

UpMsg == [type : {"StartGame"}, game : Nat]
         \cup [type : {"StopGame"}]
         \cup [type : {"PadData"}, data : [Pad -> Seq(Input)]]

DownMsg == [type : {"PadBuffer"}, size : Nat]
           \cup [type : {"PadMapping"}, map : [Pad -> Player \cup {0}]]
           \cup [type : {"StartGame"}, game : Nat]
           \cup [type : {"StopGame", "DisableGame"}]
           \cup [type : {"PadData"}, data : [Pad -> Seq(Input)]]

GuiEvent == {"start", "forcestop", "running", "stopping", "uninitialized"}

LocalPads(c) == {p \in Pad : padMap[c][p] = c}

(* The server's m_pad_map: the pads of players who left belong to nobody.  *)
ServerPadMap(ps) == [p \in Pad |-> IF PadMap[p] \in ps THEN PadMap[p] ELSE 0]

LocalPlayerHasControllerMapped(c) == LocalPads(c) # {}

(* SendToClients; what is sent over a dead connection is gone. *)
Broadcast(msgs, to) ==
  down' = [c \in Player |-> IF c \in to /\ link[c] THEN down[c] \o msgs
                                                 ELSE down[c]]

(* SendAsync of a client. *)
Send(c, msg) ==
  up' = IF link[c] THEN [up EXCEPT ![c] = Append(@, msg)] ELSE up

(* crit_netplay_client is held by the CPU thread for all of GetNetPads.    *)
InGetNetPads(c) == cpu[c] \in {"size", "check", "wait"}

(* m_crit.game is held by the GUI thread for all of NetPlayClient::StartGame *)
InStartGame(c) == gui[c] \in {"enable", "boot"}

(* A start has reached the client and its GUI thread is not done with it.  *)
StartUnderway(c) ==
  InStartGame(c) \/ \E i \in DOMAIN guiq[c] : guiq[c][i] = "start"

----------------------------------------------------------------------------
Init ==
  /\ running = [c \in Player |-> FALSE]
  /\ netplay = [c \in Player |-> FALSE]
  /\ gotStop = [c \in Player |-> TRUE]
  /\ current = [c \in Player |-> 0]
  /\ \E t \in Targets : sTarget = t /\ target = [c \in Player |-> t]
  /\ padMap = [c \in Player |-> PadMap]
  /\ buf = [c \in Player |-> [p \in Pad |-> <<>>]]
  /\ event = [c \in Player |-> FALSE]
  /\ net = [c \in Player |-> "loop"]
  /\ gui = [c \in Player |-> "idle"]
  /\ guiq = [c \in Player |-> <<>>]
  /\ cpu = [c \in Player |-> "off"]
  /\ powerDown = [c \in Player |-> FALSE]
  /\ pendingBoot = [c \in Player |-> FALSE]
  /\ pad = [c \in Player |-> 0]
  /\ frame = [c \in Player |-> 0]
  /\ emu = [c \in Player |-> 0]
  /\ egame = [c \in Player |-> 0]
  /\ made = [c \in Player |-> [p \in Pad |-> 0]]
  /\ last = [c \in Player |-> [p \in Pad |-> NoInput]]
  /\ up = [c \in Player |-> <<>>]
  /\ down = [c \in Player |-> <<>>]
  /\ lost = [c \in Player |-> FALSE]
  /\ link = [c \in Player |-> TRUE]
  /\ players = Player
  /\ playerGame = [c \in Player |-> 0]
  /\ sRunning = FALSE
  /\ sGame = 0
  /\ async = <<>>
  /\ startButton = TRUE
  /\ adjusts = 0
  /\ stops = 0
  /\ missed = {}

----------------------------------------------------------------------------
(* Server.                                                                 *)

(* The host presses Start and every check and sync is done: StartGame.  It *)
(* resends the buffer size and then the game, both through the async queue. *)
ServerStartGame ==
  /\ gui[1] = "idle" /\ startButton /\ sGame < MaxGame
  /\ sGame' = sGame + 1
  /\ async' = async \o <<[type |-> "PadBuffer", size |-> sTarget],
                         [type |-> "StartGame", game |-> sGame + 1]>>
  /\ sRunning' = TRUE
  /\ startButton' = FALSE
  /\ UNCHANGED <<clientVars, threadVars, emuVars, netVars, history,
                 players, playerGame, sTarget>>

(* The host moves the buffer spin box. *)
AdjustPadBufferSize(size) ==
  /\ gui[1] = "idle" /\ adjusts < MaxAdjust /\ size # sTarget
  /\ adjusts' = adjusts + 1
  /\ sTarget' = size
  /\ async' = Append(async, [type |-> "PadBuffer", size |-> size])
  /\ UNCHANGED <<clientVars, threadVars, emuVars, netVars, stops, missed,
                 players, playerGame, sRunning, sGame, startButton>>

(* ThreadFunc sends one entry of the async queue to everybody. *)
ServerDrainAsync ==
  /\ async # <<>>
  /\ Broadcast(<<Head(async)>>, players)
  /\ async' = Tail(async)
  /\ UNCHANGED <<clientVars, threadVars, emuVars, up, lost, link, history,
                 players, playerGame, sRunning, sGame, sTarget, startButton>>

(* Mutant: pad data of the last game is relayed too. *)
ServerOnPadDataAll(c, msg) ==
  /\ msg.type = "PadData"
  /\ Broadcast(<<msg>>, players \ {c})
  /\ UNCHANGED <<playerGame, sRunning>>

(* Pad data of the last game is ignored, the rest goes to the others. *)
ServerOnPadData(c, msg) ==
  /\ msg.type = "PadData"
  /\ IF playerGame[c] = sGame THEN Broadcast(<<msg>>, players \ {c})
                              ELSE UNCHANGED down
  /\ UNCHANGED <<playerGame, sRunning>>

ServerOnStartGame(c, msg) ==
  /\ msg.type = "StartGame"
  /\ playerGame' = [playerGame EXCEPT ![c] = msg.game]
  /\ UNCHANGED <<down, sRunning>>

ServerOnStopGame(c, msg) ==
  /\ msg.type = "StopGame"
  /\ IF sRunning THEN Broadcast(<<[type |-> "StopGame"]>>, players)
                 ELSE UNCHANGED down
  /\ sRunning' = FALSE
  /\ UNCHANGED playerGame

(* A receive event of a known peer. *)
ServerOnData(c) ==
  /\ c \in players /\ up[c] # <<>>
  /\ up' = [up EXCEPT ![c] = Tail(@)]
  /\ LET msg == Head(up[c])
     IN \/ ServerOnPadData(c, msg)
        \/ ServerOnStartGame(c, msg)
        \/ ServerOnStopGame(c, msg)
  /\ UNCHANGED <<clientVars, threadVars, emuVars, lost, link, history, players,
                 sGame, sTarget, async, startButton>>

(* Mutant: the game goes on without the player. *)
ServerOnDisconnectSilent(c) ==
  /\ c \in players /\ ~link[c]
  /\ players' = players \ {c}
  /\ Broadcast(<<[type |-> "PadMapping", map |-> ServerPadMap(players \ {c})]>>,
               players \ {c})
  /\ UNCHANGED <<clientVars, threadVars, emuVars, up, lost, link, history,
                 sRunning, playerGame, sGame, sTarget, async, startButton>>

(* A disconnect event.  A running game ends when the player had a pad (the *)
(* host, player 1, cannot be disconnected from its own server), and the    *)
(* pads of the player are unmapped; the messages that say so, one for each *)
(* pad and all sent here, are one.                                         *)
ServerOnDisconnect(c) ==
  /\ c \in players /\ ~link[c]
  /\ LET own  == {p \in Pad : PadMap[p] = c}
         ends == sRunning /\ own # {} /\ c # 1
         rest == players \ {c}
     IN /\ sRunning' = (sRunning /\ ~ends)
        /\ players' = rest
        /\ Broadcast((IF ends THEN <<[type |-> "DisableGame"]>> ELSE <<>>)
                       \o (IF own # {} THEN <<[type |-> "PadMapping",
                                               map |-> ServerPadMap(rest)]>>
                                       ELSE <<>>),
                     rest)
  /\ UNCHANGED <<clientVars, threadVars, emuVars, up, lost, link, history,
                 playerGame, sGame, sTarget, async, startButton>>

(* The network loses the connection of a player other than the host, and   *)
(* what is still under way on it; what will arrive has arrived before.     *)
LoseConnection(c) ==
  /\ c # 1 /\ link[c] /\ Cardinality({d \in Player : ~link[d]}) < MaxDrop
  /\ link' = [link EXCEPT ![c] = FALSE]
  /\ up' = [up EXCEPT ![c] = <<>>]
  /\ down' = [down EXCEPT ![c] = <<>>]
  /\ UNCHANGED <<clientVars, threadVars, emuVars, serverVars, lost, history>>

----------------------------------------------------------------------------
(* Client, NETPLAY thread.                                                 *)

OnPadBuffer(c, msg) ==
  /\ msg.type = "PadBuffer"
  /\ target' = [target EXCEPT ![c] = msg.size]
  /\ UNCHANGED <<running, current, padMap, buf, event, net, guiq, missed>>

OnPadMapping(c, msg) ==
  /\ msg.type = "PadMapping"
  /\ padMap' = [padMap EXCEPT ![c] = msg.map]
  /\ UNCHANGED <<running, current, target, buf, event, net, guiq, missed>>

(* Mutant: the CPU thread is not woken. *)
OnPadDataQuiet(c, msg) ==
  /\ msg.type = "PadData"
  /\ buf' = [buf EXCEPT ![c] = [p \in Pad |-> buf[c][p] \o msg.data[p]]]
  /\ UNCHANGED <<running, current, target, padMap, event, net, guiq, missed>>

(* Every input is pushed, whether a game runs or not, and the CPU thread   *)
(* woken.                                                                  *)
OnPadData(c, msg) ==
  /\ msg.type = "PadData"
  /\ buf' = [buf EXCEPT ![c] = [p \in Pad |-> buf[c][p] \o msg.data[p]]]
  /\ event' = [event EXCEPT ![c] = TRUE]
  /\ UNCHANGED <<running, current, target, padMap, net, guiq, missed>>

(* Needs m_crit.game, then leaves the start to the GUI thread. *)
OnStartGame(c, msg) ==
  /\ msg.type = "StartGame" /\ ~InStartGame(c)
  /\ current' = [current EXCEPT ![c] = msg.game]
  /\ guiq' = [guiq EXCEPT ![c] = Append(@, "start")]
  /\ UNCHANGED <<running, target, padMap, buf, event, net, missed>>

(* StopGame: InvokeStop clears m_is_running first. *)
OnStopGame(c, msg) ==
  /\ msg.type \in {"StopGame", "DisableGame"}
  /\ running' = [running EXCEPT ![c] = FALSE]
  /\ net' = [net EXCEPT ![c] = "set"]
  /\ missed' = IF StartUnderway(c) THEN missed \cup {c} ELSE missed
  /\ UNCHANGED <<current, target, padMap, buf, event, guiq>>

ClientOnData(c) ==
  /\ net[c] = "loop" /\ down[c] # <<>>
  /\ down' = [down EXCEPT ![c] = Tail(@)]
  /\ LET msg == Head(down[c])
     IN \/ OnPadBuffer(c, msg)
        \/ OnPadMapping(c, msg)
        \/ OnPadData(c, msg)
        \/ OnStartGame(c, msg)
        \/ OnStopGame(c, msg)
  /\ UNCHANGED <<netplay, gotStop, gui, cpu, powerDown, pendingBoot, pad,
                 frame, emuVars, serverVars, up, lost, link, adjusts, stops>>

(* A disconnect event stops a running game. *)
ClientOnDisconnect(c) ==
  /\ net[c] = "loop" /\ ~link[c] /\ ~lost[c]
  /\ lost' = [lost EXCEPT ![c] = TRUE]
  /\ running' = [running EXCEPT ![c] = FALSE]
  /\ net' = IF running[c] THEN [net EXCEPT ![c] = "set"] ELSE net
  /\ missed' = IF StartUnderway(c) THEN missed \cup {c} ELSE missed
  /\ UNCHANGED <<netplay, gotStop, current, target, padMap, buf, event, gui,
                 guiq, cpu, powerDown, pendingBoot, pad, frame, emuVars,
                 serverVars, up, down, link, adjusts, stops>>

(* Mutant: the CPU thread is not woken. *)
InvokeStopQuiet(c) ==
  /\ net[c] = "set"
  /\ net' = [net EXCEPT ![c] = "disable"]
  /\ UNCHANGED <<clientVars, gui, guiq, cpu, powerDown, pendingBoot, pad,
                 frame, emuVars, serverVars, netVars, history>>

(* InvokeStop: then the CPU thread is woken. *)
InvokeStopSet(c) ==
  /\ net[c] = "set"
  /\ event' = [event EXCEPT ![c] = TRUE]
  /\ net' = [net EXCEPT ![c] = "disable"]
  /\ UNCHANGED <<running, netplay, gotStop, current, target, padMap, buf, gui,
                 guiq, cpu, powerDown, pendingBoot, pad, frame, emuVars,
                 serverVars, netVars, history>>

(* NetPlay_Disable waits for crit_netplay_client. *)
NetPlayDisable(c) ==
  /\ net[c] = "disable" /\ ~InGetNetPads(c)
  /\ netplay' = [netplay EXCEPT ![c] = FALSE]
  /\ net' = [net EXCEPT ![c] = "dialog"]
  /\ UNCHANGED <<running, gotStop, current, target, padMap, buf, event, gui,
                 guiq, cpu, powerDown, pendingBoot, pad, frame, emuVars,
                 serverVars, netVars, history>>

(* NetPlayDialog::StopGame asks the GUI thread to stop, once per boot. *)
DialogStopGame(c) ==
  /\ net[c] = "dialog"
  /\ guiq' = IF gotStop[c] THEN guiq
             ELSE [guiq EXCEPT ![c] = Append(@, "forcestop")]
  /\ gotStop' = [gotStop EXCEPT ![c] = TRUE]
  /\ net' = [net EXCEPT ![c] = "loop"]
  /\ UNCHANGED <<running, netplay, current, target, padMap, buf, event, gui,
                 cpu, powerDown, pendingBoot, pad, frame, emuVars, serverVars,
                 netVars, history>>

----------------------------------------------------------------------------
(* Client, GUI thread.                                                     *)

NextGuiEvent(c, e) == gui[c] = "idle" /\ guiq[c] # <<>> /\ Head(guiq[c]) = e

(* The core boots: a fresh emulation polls pad 0 first. *)
Boot(c) ==
  /\ cpu' = [cpu EXCEPT ![c] = "run"]
  /\ pad' = [pad EXCEPT ![c] = 0]
  /\ frame' = [frame EXCEPT ![c] = 0]
  /\ emu' = [emu EXCEPT ![c] = @ + 1]
  /\ egame' = [egame EXCEPT ![c] = current[c]]
  /\ made' = [made EXCEPT ![c] = [p \in Pad |-> 0]]
  /\ last' = [last EXCEPT ![c] = [p \in Pad |-> NoInput]]

(* The state change to Running matters to the host's Start button only. *)
Started(c) == IF c = 1 THEN <<"running">> ELSE <<>>

(* StartGame announces the game to the server and gives up when one runs.  *)
GuiStartGame(c) ==
  /\ NextGuiEvent(c, "start")
  /\ guiq' = [guiq EXCEPT ![c] = Tail(@)]
  /\ Send(c, [type |-> "StartGame", game |-> current[c]])
  /\ running' = [running EXCEPT ![c] = TRUE]
  /\ gui' = IF running[c] THEN gui ELSE [gui EXCEPT ![c] = "enable"]
  /\ UNCHANGED <<netplay, gotStop, current, target, padMap, buf, event, net,
                 cpu, powerDown, pendingBoot, pad, frame, emuVars, serverVars,
                 down, lost, link, history>>

(* NetPlay_Enable waits for crit_netplay_client; then ClearBuffers. *)
GuiEnable(c) ==
  /\ gui[c] = "enable" /\ ~InGetNetPads(c)
  /\ netplay' = [netplay EXCEPT ![c] = TRUE]
  /\ buf' = [buf EXCEPT ![c] = [p \in Pad |-> <<>>]]
  /\ gui' = [gui EXCEPT ![c] = "boot"]
  /\ UNCHANGED <<running, gotStop, current, target, padMap, event, net, guiq,
                 cpu, powerDown, pendingBoot, pad, frame, emuVars, serverVars,
                 netVars, history>>

(* BootGame: at once, or after the last emulation has been stopped. *)
GuiBootGame(c) ==
  /\ gui[c] = "boot"
  /\ gotStop' = [gotStop EXCEPT ![c] = FALSE]
  /\ \/ /\ cpu[c] = "off"
        /\ Boot(c)
        /\ guiq' = [guiq EXCEPT ![c] = @ \o Started(c)]
        /\ gui' = [gui EXCEPT ![c] = "idle"]
        /\ UNCHANGED <<powerDown, pendingBoot>>
     \/ /\ cpu[c] # "off"
        /\ powerDown' = [powerDown EXCEPT ![c] = TRUE]
        /\ pendingBoot' = [pendingBoot EXCEPT ![c] = TRUE]
        /\ guiq' = [guiq EXCEPT ![c] = Append(@, "stopping")]
        /\ gui' = [gui EXCEPT ![c] = "corestop"]
        /\ UNCHANGED <<cpu, pad, frame, emuVars>>
  /\ UNCHANGED <<running, netplay, current, target, padMap, buf, event, net,
                 serverVars, netVars, history>>

(* Core::Stop: the CPU thread is told to power down and waited for. *)
CoreStop(c, queue) ==
  IF cpu[c] = "off"
    THEN /\ guiq' = [guiq EXCEPT ![c] = queue]
         /\ UNCHANGED <<gui, powerDown>>
    ELSE /\ guiq' = [guiq EXCEPT ![c] = Append(queue, "stopping")]
         /\ gui' = [gui EXCEPT ![c] = "corestop"]
         /\ powerDown' = [powerDown EXCEPT ![c] = TRUE]

(* MainWindow::ForceStop, on the signal that DialogStopGame emitted. *)
GuiForceStop(c) ==
  /\ NextGuiEvent(c, "forcestop")
  /\ CoreStop(c, Tail(guiq[c]))
  /\ UNCHANGED <<clientVars, net, cpu, pendingBoot, pad, frame, emuVars,
                 serverVars, netVars, history>>

(* The player stops the emulation. *)
UserStop(c) ==
  /\ gui[c] = "idle" /\ cpu[c] # "off" /\ stops < MaxStop
  /\ stops' = stops + 1
  /\ CoreStop(c, guiq[c])
  /\ UNCHANGED <<clientVars, net, cpu, pendingBoot, pad, frame, emuVars,
                 serverVars, netVars, adjusts, missed>>

(* Core::Stop returns, the core is torn down and a waiting boot is done.   *)
GuiCoreStopped(c) ==
  /\ gui[c] = "corestop" /\ cpu[c] = "off"
  /\ gui' = [gui EXCEPT ![c] = "idle"]
  /\ pendingBoot' = [pendingBoot EXCEPT ![c] = FALSE]
  /\ \/ /\ pendingBoot[c]
        /\ Boot(c)
        /\ guiq' = [guiq EXCEPT ![c] = Append(@, "uninitialized") \o Started(c)]
     \/ /\ ~pendingBoot[c]
        /\ guiq' = [guiq EXCEPT ![c] = Append(@, "uninitialized")]
        /\ UNCHANGED <<cpu, pad, frame, emuVars>>
  /\ UNCHANGED <<clientVars, net, powerDown, serverVars, netVars, history>>

(* EmulationStateChanged: unless the server asked for the stop itself, ask *)
(* the server to stop; the host's Start button follows the core's state.   *)
GuiStateChanged(c) ==
  /\ \E e \in {"running", "stopping", "uninitialized"} :
       /\ NextGuiEvent(c, e)
       /\ IF e # "running" /\ ~gotStop[c] /\ LocalPlayerHasControllerMapped(c)
            THEN Send(c, [type |-> "StopGame"])
            ELSE UNCHANGED up
       /\ startButton' = IF c = 1 THEN e = "uninitialized" ELSE startButton
  /\ guiq' = [guiq EXCEPT ![c] = Tail(@)]
  /\ UNCHANGED <<clientVars, net, gui, cpu, powerDown, pendingBoot, pad, frame,
                 emuVars, players, playerGame, sRunning, sGame, sTarget, async,
                 down, lost, link, history>>

----------------------------------------------------------------------------
(* Client, CPU thread.                                                     *)

IsFirstInGamePad(c, p) == \A q \in Pad : q < p => padMap[c][q] = 0

(* The local pads that this call of GetNetPads polls. *)
Polled(c) ==
  IF Batching THEN {p \in LocalPads(c) : IsFirstInGamePad(c, pad[c])}
              ELSE {pad[c]} \cap LocalPads(c)

(* Mutant: one input too many. *)
PushesOneMore(c, p) ==
  IF p \in Polled(c) /\ Len(buf[c][p]) <= target[c] + 1
    THEN target[c] + 2 - Len(buf[c][p]) ELSE 0

(* PollLocalPad fills the buffer up to one more than the target. *)
Pushes(c, p) ==
  IF p \in Polled(c) /\ Len(buf[c][p]) <= target[c]
    THEN target[c] + 1 - Len(buf[c][p]) ELSE 0

PollLocalPad(c, p) ==
  [i \in 1 .. Pushes(c, p) |->
     [e |-> emu[c], g |-> egame[c], n |-> made[c][p] + i]]

(* Mutant: only the first input of each pad is added to the packet. *)
PadPacketFirstOnly(c) ==
  [p \in Pad |-> IF Pushes(c, p) > 1 THEN <<PollLocalPad(c, p)[1]>>
                                     ELSE PollLocalPad(c, p)]

(* What goes into the packet is what goes into the local buffer. *)
PadPacket(c) == [p \in Pad |-> PollLocalPad(c, p)]

(* Mutant: the pads do not start over. *)
NextPadNoWrap(c) ==
  /\ cpu' = [cpu EXCEPT ![c] = "run"]
  /\ pad' = [pad EXCEPT ![c] = @ + 1]
  /\ frame' = [frame EXCEPT ![c] = IF pad[c] = PadCount - 1 THEN @ + 1 ELSE @]

(* GetNetPads returns; a frame is over when the last pad has been polled.  *)
NextPad(c) ==
  /\ cpu' = [cpu EXCEPT ![c] = "run"]
  /\ pad' = [pad EXCEPT ![c] = (@ + 1) % PadCount]
  /\ frame' = [frame EXCEPT ![c] = IF pad[c] = PadCount - 1 THEN @ + 1 ELSE @]

(* The game polls a pad, unless nothing is plugged in there.  The CPU      *)
(* thread checks for PowerDown between frames only.  A whole frame without *)
(* NetPlay changes nothing here: such polls matter only to finish a frame. *)
CpuPoll(c) ==
  /\ cpu[c] = "run"
  /\ IF pad[c] = 0 THEN netplay[c] /\ ~powerDown[c] /\ frame[c] < MaxFrame
                   ELSE TRUE
  /\ IF netplay[c] /\ padMap[c][pad[c]] # 0
       THEN /\ buf' = [buf EXCEPT ![c] =
                         [p \in Pad |-> buf[c][p] \o PollLocalPad(c, p)]]
            /\ made' = [made EXCEPT ![c] =
                          [p \in Pad |-> made[c][p] + Pushes(c, p)]]
            /\ IF \E p \in Pad : Pushes(c, p) > 0
                 THEN Send(c, [type |-> "PadData", data |-> PadPacket(c)])
                 ELSE UNCHANGED up
            /\ cpu' = [cpu EXCEPT ![c] = "size"]
            /\ UNCHANGED <<pad, frame>>
       ELSE NextPad(c) /\ UNCHANGED <<buf, made, up>>
  /\ UNCHANGED <<running, netplay, gotStop, current, target, padMap, event,
                 net, gui, guiq, powerDown, pendingBoot, emu, egame, last,
                 serverVars, down, lost, link, history>>

(* An input is there: pop it. *)
CpuPop(c) ==
  /\ cpu[c] = "size" /\ buf[c][pad[c]] # <<>>
  /\ last' = [last EXCEPT ![c][pad[c]] = Head(buf[c][pad[c]])]
  /\ buf' = [buf EXCEPT ![c][pad[c]] = Tail(@)]
  /\ NextPad(c)
  /\ UNCHANGED <<running, netplay, gotStop, current, target, padMap, event,
                 net, gui, guiq, powerDown, pendingBoot, emu, egame, made,
                 serverVars, netVars, history>>

(* None is there: before waiting, look whether the game still runs. *)
CpuEmpty(c) ==
  /\ cpu[c] = "size" /\ buf[c][pad[c]] = <<>>
  /\ cpu' = [cpu EXCEPT ![c] = "check"]
  /\ UNCHANGED <<clientVars, net, gui, guiq, powerDown, pendingBoot, pad,
                 frame, emuVars, serverVars, netVars, history>>

(* Mutant: m_is_running is not looked at. *)
CpuCheckNotRunning(c) ==
  /\ cpu[c] = "check"
  /\ cpu' = [cpu EXCEPT ![c] = "wait"]
  /\ UNCHANGED <<clientVars, net, gui, guiq, powerDown, pendingBoot, pad,
                 frame, emuVars, serverVars, netVars, history>>

CpuCheck(c) ==
  /\ cpu[c] = "check"
  /\ IF running[c] THEN cpu' = [cpu EXCEPT ![c] = "wait"] /\ UNCHANGED <<pad, frame>>
                   ELSE NextPad(c)
  /\ UNCHANGED <<clientVars, net, gui, guiq, powerDown, pendingBoot,
                 emuVars, serverVars, netVars, history>>

(* m_gc_pad_event.Wait: returns when the event is set, and resets it. *)
CpuWait(c) ==
  /\ cpu[c] = "wait" /\ event[c]
  /\ event' = [event EXCEPT ![c] = FALSE]
  /\ cpu' = [cpu EXCEPT ![c] = "size"]
  /\ UNCHANGED <<running, netplay, gotStop, current, target, padMap, buf, net,
                 gui, guiq, powerDown, pendingBoot, pad, frame, emuVars,
                 serverVars, netVars, history>>

CpuPowerDown(c) ==
  /\ cpu[c] = "run" /\ pad[c] = 0 /\ powerDown[c]
  /\ cpu' = [cpu EXCEPT ![c] = "off"]
  /\ powerDown' = [powerDown EXCEPT ![c] = FALSE]
  /\ UNCHANGED <<clientVars, net, gui, guiq, pendingBoot, pad, frame, emuVars,
                 serverVars, netVars, history>>

----------------------------------------------------------------------------
ServerNext ==
  \/ ServerDrainAsync
  \/ \E c \in Player : ServerOnData(c) \/ ServerOnDisconnect(c)

NetNext(c) ==
  \/ ClientOnData(c) \/ ClientOnDisconnect(c)
  \/ InvokeStopSet(c) \/ NetPlayDisable(c) \/ DialogStopGame(c)

GuiNext(c) ==
  \/ GuiStartGame(c) \/ GuiEnable(c) \/ GuiBootGame(c)
  \/ GuiForceStop(c) \/ GuiCoreStopped(c) \/ GuiStateChanged(c)

CpuNext(c) ==
  \/ CpuPoll(c) \/ CpuPop(c) \/ CpuEmpty(c) \/ CpuCheck(c) \/ CpuWait(c)
  \/ CpuPowerDown(c)

UserNext ==
  \/ ServerStartGame
  \/ \E size \in Targets : AdjustPadBufferSize(size)
  \/ \E c \in Player : UserStop(c) \/ LoseConnection(c)

Next ==
  \/ ServerNext
  \/ \E c \in Player : NetNext(c) \/ GuiNext(c) \/ CpuNext(c)
  \/ UserNext

Spec == Init /\ [][Next]_vars

(* Every thread keeps running: the server's loop drains its async queue and *)
(* serves every peer; a client's NETPLAY and GUI threads handle what is     *)
(* queued for them; the CPU thread runs the game.  Nothing is assumed of    *)
(* the players and of the network's failures.                               *)
Fairness ==
  /\ WF_vars(ServerDrainAsync)
  /\ \A c \in Player : /\ WF_vars(ServerOnData(c))
                       /\ WF_vars(ServerOnDisconnect(c))
                       /\ WF_vars(NetNext(c))
                       /\ WF_vars(GuiNext(c))
                       /\ WF_vars(CpuNext(c))

FairSpec == Spec /\ Fairness

----------------------------------------------------------------------------
(* Properties.                                                             *)

(* The values the variables take, one conjunct for each group of them. *)
ClientTypeOK ==
  /\ running \in [Player -> BOOLEAN]
  /\ netplay \in [Player -> BOOLEAN]
  /\ gotStop \in [Player -> BOOLEAN]
  /\ current \in [Player -> Nat]
  /\ target \in [Player -> Nat]
  /\ padMap \in [Player -> [Pad -> Player \cup {0}]]
  /\ buf \in [Player -> [Pad -> Seq(Input)]]
  /\ event \in [Player -> BOOLEAN]

ThreadTypeOK ==
  /\ net \in [Player -> {"loop", "set", "disable", "dialog"}]
  /\ gui \in [Player -> {"idle", "enable", "boot", "corestop"}]
  /\ guiq \in [Player -> Seq(GuiEvent)]
  /\ cpu \in [Player -> {"off", "run", "size", "check", "wait"}]
  /\ powerDown \in [Player -> BOOLEAN]
  /\ pendingBoot \in [Player -> BOOLEAN]
  /\ pad \in [Player -> Pad]
  /\ frame \in [Player -> Nat]

EmuTypeOK ==
  /\ emu \in [Player -> Nat]
  /\ egame \in [Player -> Nat]
  /\ made \in [Player -> [Pad -> Nat]]
  /\ last \in [Player -> [Pad -> Input]]

NetTypeOK ==
  /\ up \in [Player -> Seq(UpMsg)]
  /\ down \in [Player -> Seq(DownMsg)]
  /\ lost \in [Player -> BOOLEAN]
  /\ link \in [Player -> BOOLEAN]

ServerTypeOK ==
  /\ players \in SUBSET Player
  /\ playerGame \in [Player -> Nat]
  /\ sRunning \in BOOLEAN
  /\ sGame \in Nat
  /\ sTarget \in Nat
  /\ async \in Seq(DownMsg)
  /\ startButton \in BOOLEAN

HistoryTypeOK ==
  /\ adjusts \in Nat
  /\ stops \in Nat
  /\ missed \in SUBSET Player

TypeOK ==
  /\ ClientTypeOK /\ ThreadTypeOK /\ EmuTypeOK
  /\ NetTypeOK /\ ServerTypeOK /\ HistoryTypeOK

(* A CPU thread that waits, or has decided to wait, for an input in         *)
(* GetNetPads always has its wake-up coming: m_gc_pad_event is set when the *)
(* input is there, and set or about to be set by InvokeStop when the game   *)
(* has been stopped.                                                        *)
NoLostWakeup ==
  \A c \in Player :
    /\ cpu[c] \in {"check", "wait"} /\ buf[c][pad[c]] # <<>> => event[c]
    /\ cpu[c] = "wait" /\ ~running[c] => event[c] \/ net[c] = "set"

(* While no client has been told to stop a game it had not finished         *)
(* booting, the inputs an emulation consumes for a pad all come from one    *)
(* emulation of the pad's owner, of the same game, and from the first one   *)
(* on they follow one another: none is repeated, skipped or taken from an   *)
(* earlier game.                                                            *)
InputsInOrder ==
  [][\A c \in Player, p \in Pad :
       missed = {} /\ emu'[c] = emu[c] /\ last'[c][p] # last[c][p] =>
         /\ last'[c][p].g = egame[c]
         /\ last[c][p] = NoInput \/ [last[c][p] EXCEPT !.n = @ + 1] = last'[c][p]
    ]_vars

(* No client consumes an input that its owner will itself consume more than *)
(* the buffer size plus one inputs later: the owner's own buffer delays it  *)
(* by no more than that, whatever the host does to the buffer size.         *)
InputDelayBounded ==
  \A c \in Player, p \in Pad :
    LET own == PadMap[p]
    IN missed = {} /\ last[c][p].e = emu[own] =>
         \E t \in Targets : last[c][p].n <= last[own][p].n + t + 1

(* No stop has overtaken a start, and the bound on frames stops nobody. *)
WithinBounds ==
  missed = {} /\ \A c \in Player : cpu[c] = "run" => frame[c] < MaxFrame

(* A player who stops the emulation is never left with a frozen window:     *)
(* Core::Stop, which waits for the CPU thread on the GUI thread, returns    *)
(* although that thread may be waiting for the other players' inputs.       *)
CoreStopReturns ==
  \A c \in Player :
    gui[c] = "corestop" /\ WithinBounds
      ~> (gui[c] # "corestop" \/ ~WithinBounds)

(* A player who waits for the input of somebody who has stopped the game or *)
(* lost the connection does not wait for ever.                              *)
WaitEnds ==
  \A c \in Player :
    cpu[c] = "wait" /\ WithinBounds
    /\ (LET own == PadMap[pad[c]] IN cpu[own] = "off" \/ ~link[own])
      ~> (cpu[c] # "wait" \/ ~WithinBounds)

(* What the comments of the code say and the code does not do.             *)

(* When the server has stopped a game, no client waits for its inputs for   *)
(* ever: the server's OnData means to "tell clients to stop game" and       *)
(* InvokeStop to "stop waiting for input".                                  *)
StopEndsWaiting ==
  \A c \in Player :
    cpu[c] = "wait" /\ ~sRunning ~> (cpu[c] # "wait" \/ sRunning)

============================================================================
