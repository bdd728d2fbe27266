------------------------- MODULE NetPlayGameProofs -------------------------
(***************************************************************************)
(* Proofs about NetPlayGame, for every set of players, every pad map and    *)
(* every set of buffer sizes.                                               *)
(*                                                                          *)
(* First the type invariant, and that no wake-up of a CPU thread waiting in *)
(* GetNetPads is ever lost.  Then the bound on the delay of an input: an    *)
(* input on its way or held anywhere was made by the owner of its pad       *)
(* (Upward, Downward, Announced, AtClients), the owner's own buffer ends    *)
(* with its inputs in a row up to the last one made (Delayed), and what     *)
(* ClearBuffers does cannot hurt a running emulation, as a start is never   *)
(* handled while the last emulation runs (Orderly).                         *)
(***************************************************************************)
EXTENDS NetPlayGame, TLAPS

(* Pads are natural numbers and pad 0 is one of them. *)
LEMMA PadFacts ==
  /\ PadCount \in Nat \ {0}
  /\ Pad \subseteq Nat
  /\ 0 \in Pad
  /\ \A p \in Pad : (p + 1) % PadCount \in Pad
BY PadAssumption DEF Pad

(* What the clients' NETPLAY threads may rely on in a message. *)
LEMMA DownFields ==
  ASSUME NEW m \in DownMsg
  PROVE  /\ m.type = "PadBuffer" => m.size \in Nat
         /\ m.type = "PadMapping" => m.map \in [Pad -> Player \cup {0}]
         /\ m.type = "StartGame" => m.game \in Nat
         /\ m.type = "PadData" => m.data \in [Pad -> Seq(Input)]
BY DEF DownMsg

(* The messages the server sends of its own are messages. *)
LEMMA DownMessages ==
  /\ [type |-> "StopGame"] \in DownMsg
  /\ [type |-> "DisableGame"] \in DownMsg
  /\ \A n \in Nat : /\ [type |-> "PadBuffer", size |-> n] \in DownMsg
                    /\ [type |-> "StartGame", game |-> n] \in DownMsg
  /\ \A ps \in SUBSET Player :
       [type |-> "PadMapping", map |-> ServerPadMap(ps)] \in DownMsg
<1>1. \A ps \in SUBSET Player : ServerPadMap(ps) \in [Pad -> Player \cup {0}]
  BY PadAssumption DEF ServerPadMap
<1>2. QED  BY <1>1 DEF DownMsg

(* Messages from the clients, and the one kind the server passes on. *)
LEMMA UpFields ==
  ASSUME NEW m \in UpMsg
  PROVE  /\ m.type = "StartGame" => m.game \in Nat
         /\ m.type = "PadData" => m \in DownMsg
BY DEF UpMsg, DownMsg

(* The messages the clients send are messages. *)
LEMMA UpMessages ==
  /\ [type |-> "StopGame"] \in UpMsg
  /\ \A n \in Nat : [type |-> "StartGame", game |-> n] \in UpMsg
  /\ \A d \in [Pad -> Seq(Input)] : [type |-> "PadData", data |-> d] \in UpMsg
BY DEF UpMsg

(* A broadcast keeps the queues to the clients well typed. *)
LEMMA BroadcastType ==
  ASSUME NEW msgs \in Seq(DownMsg), NEW to, NetTypeOK, Broadcast(msgs, to)
  PROVE  down' \in [Player -> Seq(DownMsg)]
<1>1. \A c \in Player : down[c] \o msgs \in Seq(DownMsg)
  BY DEF NetTypeOK
<1>2. QED  BY <1>1 DEF NetTypeOK, Broadcast

(* So does a message of a client to the server. *)
LEMMA SendType ==
  ASSUME NEW c \in Player, NEW msg \in UpMsg, NetTypeOK, Send(c, msg)
  PROVE  up' \in [Player -> Seq(UpMsg)]
<1>1. Append(up[c], msg) \in Seq(UpMsg)
  BY DEF NetTypeOK
<1>2. QED  BY <1>1 DEF NetTypeOK, Send

(* The inputs polled for a pad. *)
LEMMA PollType ==
  ASSUME NEW c \in Player, ClientTypeOK, EmuTypeOK
  PROVE  /\ \A p \in Pad : Pushes(c, p) \in Nat
         /\ \A p \in Pad : PollLocalPad(c, p) \in Seq(Input)
         /\ PadPacket(c) \in [Pad -> Seq(Input)]
<1>1. ASSUME NEW p \in Pad PROVE Pushes(c, p) \in Nat
  BY DEF Pushes, ClientTypeOK
<1>2. ASSUME NEW p \in Pad PROVE PollLocalPad(c, p) \in Seq(Input)
  <2>1. ASSUME NEW i \in 1 .. Pushes(c, p)
        PROVE  [e |-> emu[c], g |-> egame[c], n |-> made[c][p] + i] \in Input
    <3>1. made[c][p] + i \in Nat /\ emu[c] \in Nat /\ egame[c] \in Nat
      BY <1>1 DEF EmuTypeOK
    <3>2. QED  BY <3>1 DEF Input
  <2>2. QED  BY <1>1, <2>1 DEF PollLocalPad
<1>3. QED  BY <1>1, <1>2 DEF PadPacket

----------------------------------------------------------------------------
(* The type invariant holds at first. *)
LEMMA TypeInit == Init => TypeOK
<1> SUFFICES ASSUME Init PROVE TypeOK
  OBVIOUS
<1>1. ClientTypeOK
  <2>1. PadMap \in [Pad -> Player \cup {0}]
    BY PadAssumption
  <2>2. target \in [Player -> Nat]
    BY TargetAssumption DEF Init
  <2>3. QED  BY <2>1, <2>2 DEF Init, ClientTypeOK
<1>2. ThreadTypeOK
  BY PadFacts DEF Init, ThreadTypeOK
<1>3. EmuTypeOK
  <2>1. NoInput \in Input
    BY DEF NoInput, Input
  <2>2. QED  BY <2>1 DEF Init, EmuTypeOK
<1>4. NetTypeOK
  BY DEF Init, NetTypeOK
<1>5. ServerTypeOK
  <2>1. sTarget \in Nat
    BY TargetAssumption DEF Init
  <2>2. sRunning \in BOOLEAN /\ startButton \in BOOLEAN
    BY Zenon DEF Init
  <2>3. players \in SUBSET Player /\ playerGame \in [Player -> Nat]
        /\ sGame \in Nat /\ async \in Seq(DownMsg)
    BY DEF Init
  <2>4. QED  BY <2>1, <2>2, <2>3, Zenon DEF ServerTypeOK
<1>6. HistoryTypeOK
  BY DEF Init, HistoryTypeOK
<1>7. QED  BY <1>1, <1>2, <1>3, <1>4, <1>5, <1>6 DEF TypeOK

(* What an action leaves alone keeps its type: the client, ... *)
LEMMA ClientSame == ClientTypeOK /\ UNCHANGED clientVars => ClientTypeOK'
BY DEF ClientTypeOK, clientVars

(* ... the places of its threads, *)
LEMMA ThreadSame == ThreadTypeOK /\ UNCHANGED threadVars => ThreadTypeOK'
BY DEF ThreadTypeOK, threadVars

(* ... its emulation, *)
LEMMA EmuSame == EmuTypeOK /\ UNCHANGED emuVars => EmuTypeOK'
BY DEF EmuTypeOK, emuVars

(* ... the queues of the network, *)
LEMMA NetSame == NetTypeOK /\ UNCHANGED netVars => NetTypeOK'
BY DEF NetTypeOK, netVars

(* ... the server, *)
LEMMA ServerSame == ServerTypeOK /\ UNCHANGED serverVars => ServerTypeOK'
BY DEF ServerTypeOK, serverVars

(* ... and the history. *)
LEMMA HistorySame == HistoryTypeOK /\ UNCHANGED history => HistoryTypeOK'
BY DEF HistoryTypeOK, history

(* One lemma for each action: it preserves the type invariant. *)
LEMMA TypeServerStartGame == TypeOK /\ ServerStartGame => TypeOK'
<1> SUFFICES ASSUME TypeOK, ServerStartGame PROVE TypeOK'
  OBVIOUS
<1> USE DEF TypeOK
<1>1. async' \in Seq(DownMsg)
  <2> DEFINE two == <<[type |-> "PadBuffer", size |-> sTarget],
                      [type |-> "StartGame", game |-> sGame + 1]>>
  <2>1. sTarget \in Nat /\ sGame + 1 \in Nat /\ async \in Seq(DownMsg)
    BY DEF ServerTypeOK
  <2>2. two \in Seq(DownMsg)
    <3>1. /\ [type |-> "PadBuffer", size |-> sTarget] \in DownMsg
          /\ [type |-> "StartGame", game |-> sGame + 1] \in DownMsg
      BY <2>1, DownMessages
    <3>2. QED  BY <3>1
  <2>3. async' = async \o two
    BY DEF ServerStartGame
  <2> HIDE DEF two
  <2>4. QED  BY <2>1, <2>2, <2>3
<1>2. sGame' \in Nat /\ players' \in SUBSET Player /\ sTarget' \in Nat
      /\ playerGame' \in [Player -> Nat]
  BY DEF ServerStartGame, ServerTypeOK
<1>3. sRunning' \in BOOLEAN /\ startButton' \in BOOLEAN
  BY Zenon DEF ServerStartGame
<1>4. ServerTypeOK'
  BY <1>1, <1>2, <1>3, Zenon DEF ServerTypeOK
<1>5. QED
  BY <1>4, ClientSame, ThreadSame, EmuSame, NetSame, HistorySame
  DEF ServerStartGame

(* OnData of the server: the queues get messages it may pass on. *)
LEMMA TypeServerOnData ==
  ASSUME NEW c \in Player, TypeOK, ServerOnData(c)
  PROVE  TypeOK'
<1> USE DEF TypeOK
<1>1. Head(up[c]) \in UpMsg
  BY DEF ServerOnData, NetTypeOK
<1>2. up' \in [Player -> Seq(UpMsg)]
  BY DEF ServerOnData, NetTypeOK
<1>3. down' \in [Player -> Seq(DownMsg)]
  <2>1. CASE ServerOnPadData(c, Head(up[c]))
    <3>1. <<Head(up[c])>> \in Seq(DownMsg)
      BY <1>1, <2>1, UpFields DEF ServerOnPadData
    <3>2. QED  BY <2>1, <3>1, BroadcastType DEF ServerOnPadData, NetTypeOK
  <2>2. CASE ServerOnStartGame(c, Head(up[c]))
    BY <2>2 DEF ServerOnStartGame, NetTypeOK
  <2>3. CASE ServerOnStopGame(c, Head(up[c]))
    <3>1. <<[type |-> "StopGame"]>> \in Seq(DownMsg)
      BY DownMessages
    <3>2. QED  BY <2>3, <3>1, BroadcastType DEF ServerOnStopGame, NetTypeOK
  <2>4. QED  BY <2>1, <2>2, <2>3 DEF ServerOnData
<1>4. playerGame' \in [Player -> Nat]
  BY <1>1, UpFields
  DEF ServerOnData, ServerOnPadData, ServerOnStartGame, ServerOnStopGame,
      ServerTypeOK
<1>5. sRunning' \in BOOLEAN
  BY Zenon DEF ServerOnData, ServerOnPadData, ServerOnStartGame,
               ServerOnStopGame, ServerTypeOK
<1>6. QED
  BY <1>2, <1>3, <1>4, <1>5
  DEF ServerOnData, ClientTypeOK, ThreadTypeOK, EmuTypeOK, NetTypeOK,
      ServerTypeOK, HistoryTypeOK, clientVars, threadVars, emuVars, history

(* A new buffer size is announced by a message. *)
LEMMA TypeAdjustPadBufferSize ==
  ASSUME NEW size \in Targets, TypeOK, AdjustPadBufferSize(size)
  PROVE  TypeOK'
<1> USE DEF TypeOK
<1>1. size \in Nat
  BY TargetAssumption
<1>2. [type |-> "PadBuffer", size |-> size] \in DownMsg
  BY <1>1, DownMessages
<1>3. ServerTypeOK'
  BY <1>1, <1>2 DEF AdjustPadBufferSize, ServerTypeOK
<1>4. HistoryTypeOK'
  BY DEF AdjustPadBufferSize, HistoryTypeOK
<1>5. QED
  BY <1>3, <1>4, ClientSame, ThreadSame, EmuSame, NetSame
  DEF AdjustPadBufferSize

(* What the async queue holds may be sent to the clients. *)
LEMMA TypeServerDrainAsync == TypeOK /\ ServerDrainAsync => TypeOK'
<1> SUFFICES ASSUME TypeOK, ServerDrainAsync PROVE TypeOK'
  OBVIOUS
<1> USE DEF TypeOK
<1>1. <<Head(async)>> \in Seq(DownMsg) /\ async' \in Seq(DownMsg)
  BY DEF ServerDrainAsync, ServerTypeOK
<1>2. down' \in [Player -> Seq(DownMsg)]
  BY <1>1, BroadcastType DEF ServerDrainAsync
<1>3. NetTypeOK'
  BY <1>2 DEF ServerDrainAsync, NetTypeOK
<1>4. ServerTypeOK'
  BY <1>1 DEF ServerDrainAsync, ServerTypeOK
<1>5. QED
  BY <1>3, <1>4, ClientSame, ThreadSame, EmuSame, HistorySame
  DEF ServerDrainAsync

(* OnDisconnect of the server sends at most two messages. *)
LEMMA TypeServerOnDisconnect ==
  ASSUME NEW c \in Player, TypeOK, ServerOnDisconnect(c)
  PROVE  TypeOK'
<1> USE DEF TypeOK
<1> DEFINE own  == {p \in Pad : PadMap[p] = c}
           ends == sRunning /\ own # {} /\ c # 1
           rest == players \ {c}
           m1   == IF ends THEN <<[type |-> "DisableGame"]>> ELSE <<>>
           m2   == IF own # {} THEN <<[type |-> "PadMapping",
                                       map |-> ServerPadMap(rest)]>>
                               ELSE <<>>
<1>1. rest \in SUBSET Player
  BY DEF ServerTypeOK
<1>2. m1 \in Seq(DownMsg) /\ m2 \in Seq(DownMsg)
  BY <1>1, DownMessages
<1>3. /\ sRunning' = (sRunning /\ ~ends)
      /\ players' = rest
      /\ Broadcast(m1 \o m2, rest)
  BY Zenon DEF ServerOnDisconnect
<1> HIDE DEF own, ends, rest, m1, m2
<1>4. m1 \o m2 \in Seq(DownMsg)
  BY <1>2
<1>5. down' \in [Player -> Seq(DownMsg)]
  BY <1>3, <1>4, BroadcastType
<1>6. NetTypeOK'
  BY <1>5 DEF ServerOnDisconnect, NetTypeOK
<1>7. sRunning' \in BOOLEAN
  BY <1>3, Zenon
<1>8. ServerTypeOK'
  BY <1>1, <1>3, <1>7 DEF ServerOnDisconnect, ServerTypeOK
<1>9. QED
  BY <1>6, <1>8, ClientSame, ThreadSame, EmuSame, HistorySame
  DEF ServerOnDisconnect

(* A lost connection empties its queues. *)
LEMMA TypeLoseConnection ==
  ASSUME NEW c \in Player, TypeOK, LoseConnection(c)
  PROVE  TypeOK'
<1> USE DEF TypeOK
<1>1. NetTypeOK'
  BY DEF LoseConnection, NetTypeOK
<1>2. QED
  BY <1>1, ClientSame, ThreadSame, EmuSame, ServerSame, HistorySame
  DEF LoseConnection

(* OnData of a client takes the fields that the message's type promises. *)
LEMMA TypeClientOnData ==
  ASSUME NEW c \in Player, TypeOK, ClientOnData(c)
  PROVE  TypeOK'
<1> USE DEF TypeOK
<1> DEFINE msg == Head(down[c])
<1>1. msg \in DownMsg
  BY DEF ClientOnData, NetTypeOK
<1>2. NetTypeOK'
  BY DEF ClientOnData, NetTypeOK
<1>3. ClientTypeOK' /\ guiq' \in [Player -> Seq(GuiEvent)]
      /\ net' \in [Player -> {"loop", "set", "disable", "dialog"}]
      /\ missed' \in SUBSET Player
  <2> HIDE DEF msg
  <2>1. CASE OnPadBuffer(c, msg)
    BY <1>1, <2>1, DownFields
    DEF OnPadBuffer, ClientOnData, ClientTypeOK, ThreadTypeOK, HistoryTypeOK
  <2>2. CASE OnPadMapping(c, msg)
    BY <1>1, <2>2, DownFields
    DEF OnPadMapping, ClientOnData, ClientTypeOK, ThreadTypeOK, HistoryTypeOK
  <2>3. CASE OnPadData(c, msg)
    <3>1. \A p \in Pad : buf[c][p] \o msg.data[p] \in Seq(Input)
      BY <1>1, <2>3, DownFields DEF OnPadData, ClientTypeOK
    <3>2. buf' \in [Player -> [Pad -> Seq(Input)]]
      BY <2>3, <3>1 DEF OnPadData, ClientTypeOK
    <3>3. QED
      BY <2>3, <3>2
      DEF OnPadData, ClientOnData, ClientTypeOK, ThreadTypeOK, HistoryTypeOK
  <2>4. CASE OnStartGame(c, msg)
    <3>1. guiq' \in [Player -> Seq(GuiEvent)]
      BY <2>4 DEF OnStartGame, ThreadTypeOK, GuiEvent
    <3>2. QED
      BY <1>1, <2>4, <3>1, DownFields
      DEF OnStartGame, ClientOnData, ClientTypeOK, ThreadTypeOK, HistoryTypeOK
  <2>5. CASE OnStopGame(c, msg)
    <3>1. missed' \in SUBSET Player
      BY <2>5 DEF OnStopGame, HistoryTypeOK
    <3>2. QED
      BY <2>5, <3>1
      DEF OnStopGame, ClientOnData, ClientTypeOK, ThreadTypeOK
  <2>6. QED  BY <2>1, <2>2, <2>3, <2>4, <2>5 DEF ClientOnData, msg
<1>4. ThreadTypeOK' /\ HistoryTypeOK'
  BY <1>3 DEF ClientOnData, ThreadTypeOK, HistoryTypeOK
<1>5. QED
  BY <1>2, <1>3, <1>4, EmuSame, ServerSame DEF ClientOnData

(* The disconnect event of a client. *)
LEMMA TypeClientOnDisconnect ==
  ASSUME NEW c \in Player, TypeOK, ClientOnDisconnect(c)
  PROVE  TypeOK'
<1> USE DEF TypeOK
<1>1. ClientTypeOK' /\ ThreadTypeOK'
  BY DEF ClientOnDisconnect, ClientTypeOK, ThreadTypeOK
<1>2. NetTypeOK'
  BY DEF ClientOnDisconnect, NetTypeOK
<1>3. HistoryTypeOK'
  BY DEF ClientOnDisconnect, HistoryTypeOK
<1>4. QED  BY <1>1, <1>2, <1>3, EmuSame, ServerSame DEF ClientOnDisconnect

(* The rest of StopGame, on the NETPLAY thread. *)
LEMMA TypeStop ==
  ASSUME NEW c \in Player, TypeOK,
         InvokeStopSet(c) \/ NetPlayDisable(c) \/ DialogStopGame(c)
  PROVE  TypeOK'
<1> USE DEF TypeOK
<1>1. CASE InvokeStopSet(c) \/ NetPlayDisable(c)
  <2>1. ClientTypeOK' /\ ThreadTypeOK'
    BY <1>1 DEF InvokeStopSet, NetPlayDisable, ClientTypeOK, ThreadTypeOK
  <2>2. QED
    BY <1>1, <2>1, EmuSame, NetSame, ServerSame, HistorySame
    DEF InvokeStopSet, NetPlayDisable
<1>2. CASE DialogStopGame(c)
  <2>1. Append(guiq[c], "forcestop") \in Seq(GuiEvent)
    BY DEF ThreadTypeOK, GuiEvent
  <2>2. ClientTypeOK' /\ ThreadTypeOK'
    BY <1>2, <2>1 DEF DialogStopGame, ClientTypeOK, ThreadTypeOK
  <2>3. QED
    BY <1>2, <2>2, EmuSame, NetSame, ServerSame, HistorySame
    DEF DialogStopGame
<1>3. QED  BY <1>1, <1>2

(* StartGame announces the game. *)
LEMMA TypeGuiStartGame ==
  ASSUME NEW c \in Player, TypeOK, GuiStartGame(c)
  PROVE  TypeOK'
<1> USE DEF TypeOK
<1>1. [type |-> "StartGame", game |-> current[c]] \in UpMsg
  BY UpMessages DEF ClientTypeOK
<1>2. up' \in [Player -> Seq(UpMsg)]
  BY <1>1, SendType DEF GuiStartGame
<1>3. NetTypeOK'
  BY <1>2 DEF GuiStartGame, NetTypeOK
<1>4. ClientTypeOK'
  BY DEF GuiStartGame, ClientTypeOK
<1>5. ThreadTypeOK'
  BY DEF GuiStartGame, NextGuiEvent, ThreadTypeOK
<1>6. QED
  BY <1>3, <1>4, <1>5, EmuSame, ServerSame, HistorySame DEF GuiStartGame

(* NetPlay_Enable and ClearBuffers. *)
LEMMA TypeGuiEnable ==
  ASSUME NEW c \in Player, TypeOK, GuiEnable(c)
  PROVE  TypeOK'
<1> USE DEF TypeOK
<1>1. ClientTypeOK' /\ ThreadTypeOK'
  BY DEF GuiEnable, ClientTypeOK, ThreadTypeOK
<1>2. QED
  BY <1>1, EmuSame, NetSame, ServerSame, HistorySame DEF GuiEnable

(* Booting sets every variable of the emulation to a value of its type. *)
LEMMA BootType ==
  ASSUME NEW c \in Player, TypeOK, Boot(c)
  PROVE  /\ EmuTypeOK'
         /\ cpu' \in [Player -> {"off", "run", "size", "check", "wait"}]
         /\ pad' \in [Player -> Pad]
         /\ frame' \in [Player -> Nat]
<1>1. NoInput \in Input
  BY DEF NoInput, Input
<1>2. EmuTypeOK'
  BY <1>1 DEF Boot, TypeOK, EmuTypeOK, ClientTypeOK
<1>3. 0 \in Pad
  BY PadFacts
<1>4. QED  BY <1>2, <1>3 DEF Boot, TypeOK, ThreadTypeOK

(* Queues of GUI events grow by GUI events. *)
LEMMA GuiQueueType ==
  ASSUME NEW q \in Seq(GuiEvent), NEW c \in Player
  PROVE  /\ Append(q, "stopping") \in Seq(GuiEvent)
         /\ Append(q, "uninitialized") \in Seq(GuiEvent)
         /\ q \o Started(c) \in Seq(GuiEvent)
         /\ Append(q, "uninitialized") \o Started(c) \in Seq(GuiEvent)
<1>1. /\ "stopping" \in GuiEvent
      /\ "uninitialized" \in GuiEvent
      /\ "running" \in GuiEvent
  BY DEF GuiEvent
<1>2. Started(c) \in Seq(GuiEvent)
  BY <1>1 DEF Started
<1>3. QED  BY <1>1, <1>2

(* BootGame, at once or after the last emulation. *)
LEMMA TypeGuiBootGame ==
  ASSUME NEW c \in Player, TypeOK, GuiBootGame(c)
  PROVE  TypeOK'
<1> USE DEF TypeOK
<1>1. ClientTypeOK'
  BY DEF GuiBootGame, ClientTypeOK
<1>2. guiq[c] \in Seq(GuiEvent)
  BY DEF ThreadTypeOK
<1>3. ThreadTypeOK' /\ EmuTypeOK'
  <2>1. CASE cpu[c] = "off"
    <3>1. Boot(c)
      BY <2>1 DEF GuiBootGame
    <3>2. guiq[c] \o Started(c) \in Seq(GuiEvent)
      BY <1>2, GuiQueueType
    <3>3. guiq' = [guiq EXCEPT ![c] = guiq[c] \o Started(c)]
      BY <2>1 DEF GuiBootGame
    <3>4. guiq' \in [Player -> Seq(GuiEvent)]
      BY <3>2, <3>3 DEF ThreadTypeOK
    <3>5. UNCHANGED <<net, powerDown, pendingBoot>>
          /\ gui' = [gui EXCEPT ![c] = "idle"]
      BY <2>1 DEF GuiBootGame
    <3>6. QED  BY <3>1, <3>4, <3>5, BootType DEF ThreadTypeOK
  <2>2. CASE cpu[c] # "off"
    <3>1. Append(guiq[c], "stopping") \in Seq(GuiEvent)
      BY <1>2, GuiQueueType
    <3>2. /\ powerDown' = [powerDown EXCEPT ![c] = TRUE]
          /\ pendingBoot' = [pendingBoot EXCEPT ![c] = TRUE]
          /\ guiq' = [guiq EXCEPT ![c] = Append(guiq[c], "stopping")]
          /\ gui' = [gui EXCEPT ![c] = "corestop"]
          /\ UNCHANGED <<cpu, pad, frame, net, emuVars>>
      BY <2>2 DEF GuiBootGame
    <3>3. ThreadTypeOK'
      BY <3>1, <3>2 DEF ThreadTypeOK
    <3>4. QED  BY <3>2, <3>3, EmuSame
  <2>3. QED  BY <2>1, <2>2
<1>4. QED  BY <1>1, <1>3, NetSame, ServerSame, HistorySame DEF GuiBootGame

(* Core::Stop keeps the queue of GUI events well typed. *)
LEMMA CoreStopType ==
  ASSUME NEW c \in Player, NEW q \in Seq(GuiEvent), ThreadTypeOK, CoreStop(c, q),
         UNCHANGED <<net, cpu, pendingBoot, pad, frame>>
  PROVE  ThreadTypeOK'
BY GuiQueueType DEF CoreStop, ThreadTypeOK

(* ForceStop and a stop by the player. *)
LEMMA TypeGuiStop ==
  ASSUME NEW c \in Player, TypeOK, GuiForceStop(c) \/ UserStop(c)
  PROVE  TypeOK'
<1> USE DEF TypeOK
<1>1. CASE GuiForceStop(c)
  <2>1. Tail(guiq[c]) \in Seq(GuiEvent)
    BY <1>1 DEF GuiForceStop, NextGuiEvent, ThreadTypeOK
  <2>2. ThreadTypeOK'
    BY <1>1, <2>1, CoreStopType DEF GuiForceStop
  <2>3. QED
    BY <1>1, <2>2, ClientSame, EmuSame, NetSame, ServerSame, HistorySame
    DEF GuiForceStop
<1>2. CASE UserStop(c)
  <2>1. guiq[c] \in Seq(GuiEvent)
    BY DEF ThreadTypeOK
  <2>2. ThreadTypeOK'
    BY <1>2, <2>1, CoreStopType DEF UserStop
  <2>3. HistoryTypeOK'
    BY <1>2 DEF UserStop, HistoryTypeOK
  <2>4. QED
    BY <1>2, <2>2, <2>3, ClientSame, EmuSame, NetSame, ServerSame DEF UserStop
<1>3. QED  BY <1>1, <1>2

(* Core::Stop has returned. *)
LEMMA TypeGuiCoreStopped ==
  ASSUME NEW c \in Player, TypeOK, GuiCoreStopped(c)
  PROVE  TypeOK'
<1> USE DEF TypeOK
<1>1. guiq[c] \in Seq(GuiEvent)
  BY DEF ThreadTypeOK
<1>2. ThreadTypeOK' /\ EmuTypeOK'
  <2>1. CASE pendingBoot[c]
    <3>1. Boot(c)
      BY <2>1 DEF GuiCoreStopped
    <3>2. Append(guiq[c], "uninitialized") \o Started(c) \in Seq(GuiEvent)
      BY <1>1, GuiQueueType
    <3>3. guiq' = [guiq EXCEPT ![c] =
                     Append(guiq[c], "uninitialized") \o Started(c)]
      BY <2>1 DEF GuiCoreStopped
    <3>4. guiq' \in [Player -> Seq(GuiEvent)]
      BY <3>2, <3>3 DEF ThreadTypeOK
    <3>5. /\ UNCHANGED <<net, powerDown>>
          /\ gui' = [gui EXCEPT ![c] = "idle"]
          /\ pendingBoot' = [pendingBoot EXCEPT ![c] = FALSE]
      BY DEF GuiCoreStopped
    <3>6. QED  BY <3>1, <3>4, <3>5, BootType DEF ThreadTypeOK
  <2>2. CASE ~pendingBoot[c]
    <3>1. ThreadTypeOK'
      BY <2>2, <1>1, GuiQueueType DEF GuiCoreStopped, ThreadTypeOK
    <3>2. QED  BY <2>2, <3>1, EmuSame DEF GuiCoreStopped
  <2>3. QED  BY <2>1, <2>2
<1>3. QED
  BY <1>2, ClientSame, NetSame, ServerSame, HistorySame DEF GuiCoreStopped

(* EmulationStateChanged may ask the server to stop. *)
LEMMA TypeGuiStateChanged ==
  ASSUME NEW c \in Player, TypeOK, GuiStateChanged(c)
  PROVE  TypeOK'
<1> USE DEF TypeOK
<1>1. PICK e \in {"running", "stopping", "uninitialized"} :
        /\ NextGuiEvent(c, e)
        /\ Send(c, [type |-> "StopGame"]) \/ UNCHANGED up
        /\ startButton' = IF c = 1 THEN e = "uninitialized" ELSE startButton
  BY Zenon DEF GuiStateChanged
<1>2. up' \in [Player -> Seq(UpMsg)]
  BY <1>1, SendType, UpMessages DEF NetTypeOK
<1>3. startButton' \in BOOLEAN
  BY <1>1, Zenon DEF ServerTypeOK
<1>4. ThreadTypeOK'
  BY <1>1 DEF GuiStateChanged, NextGuiEvent, ThreadTypeOK
<1>5. NetTypeOK'
  BY <1>2 DEF GuiStateChanged, NetTypeOK
<1>6. ServerTypeOK'
  BY <1>3 DEF GuiStateChanged, ServerTypeOK
<1>7. QED
  BY <1>4, <1>5, <1>6, ClientSame, EmuSame, HistorySame DEF GuiStateChanged

(* Returning from GetNetPads moves on to a pad. *)
LEMMA NextPadType ==
  ASSUME NEW c \in Player, ThreadTypeOK, NextPad(c)
  PROVE  /\ cpu' \in [Player -> {"off", "run", "size", "check", "wait"}]
         /\ pad' \in [Player -> Pad]
         /\ frame' \in [Player -> Nat]
<1>1. pad[c] \in Pad /\ frame[c] \in Nat
  BY DEF ThreadTypeOK
<1>2. (pad[c] + 1) % PadCount \in Pad
  BY <1>1, PadFacts
<1> DEFINE next == (pad[c] + 1) % PadCount
<1>3. pad' = [pad EXCEPT ![c] = next]
  BY DEF NextPad
<1>4. next \in Pad
  BY <1>2
<1> HIDE DEF next
<1>5. pad' \in [Player -> Pad]
  BY <1>3, <1>4 DEF ThreadTypeOK
<1>6. QED  BY <1>1, <1>5 DEF NextPad, ThreadTypeOK

(* Polling pushes inputs and moves on, or skips the pad. *)
LEMMA TypeCpuPoll ==
  ASSUME NEW c \in Player, TypeOK, CpuPoll(c)
  PROVE  TypeOK'
<1> USE DEF TypeOK
<1>1. CASE netplay[c] /\ padMap[c][pad[c]] # 0
  <2>1. [p \in Pad |-> buf[c][p] \o PollLocalPad(c, p)] \in [Pad -> Seq(Input)]
    <3>1. \A p \in Pad : PollLocalPad(c, p) \in Seq(Input)
      BY PollType
    <3>2. QED  BY <3>1 DEF ClientTypeOK
  <2> DEFINE b == [p \in Pad |-> buf[c][p] \o PollLocalPad(c, p)]
  <2>a. buf' = [buf EXCEPT ![c] = b] /\ b \in [Pad -> Seq(Input)]
    BY <1>1, <2>1 DEF CpuPoll
  <2> HIDE DEF b
  <2>b. buf' \in [Player -> [Pad -> Seq(Input)]]
    BY <2>a DEF ClientTypeOK
  <2>2. ClientTypeOK'
    BY <2>b DEF CpuPoll, ClientTypeOK
  <2>3. ThreadTypeOK'
    BY <1>1 DEF CpuPoll, ThreadTypeOK
  <2>4. [p \in Pad |-> made[c][p] + Pushes(c, p)] \in [Pad -> Nat]
    <3>1. \A p \in Pad : Pushes(c, p) \in Nat
      BY PollType
    <3>2. QED  BY <3>1 DEF EmuTypeOK
  <2> DEFINE d == [p \in Pad |-> made[c][p] + Pushes(c, p)]
  <2>c. made' = [made EXCEPT ![c] = d] /\ d \in [Pad -> Nat]
    BY <1>1, <2>4 DEF CpuPoll
  <2> HIDE DEF d
  <2>5. EmuTypeOK'
    BY <2>c DEF CpuPoll, EmuTypeOK
  <2>6. up' \in [Player -> Seq(UpMsg)]
    <3>1. [type |-> "PadData", data |-> PadPacket(c)] \in UpMsg
      BY PollType, UpMessages
    <3>2. QED  BY <1>1, <3>1, SendType DEF CpuPoll, NetTypeOK
  <2>7. NetTypeOK'
    BY <2>6 DEF CpuPoll, NetTypeOK
  <2>8. QED
    BY <2>2, <2>3, <2>5, <2>7, ServerSame, HistorySame DEF CpuPoll
<1>2. CASE ~(netplay[c] /\ padMap[c][pad[c]] # 0)
  <2>1. NextPad(c) /\ UNCHANGED <<buf, made, up>>
    BY <1>2, Zenon DEF CpuPoll
  <2>2. ThreadTypeOK'
    BY <2>1, NextPadType DEF CpuPoll, ThreadTypeOK
  <2>3. QED
    BY <2>1, <2>2, ServerSame, HistorySame, ClientSame, EmuSame, NetSame
    DEF CpuPoll, clientVars, emuVars, netVars
<1>3. QED  BY <1>1, <1>2

(* GetNetPads pops an input of the pad it polls. *)
LEMMA TypeCpuPop ==
  ASSUME NEW c \in Player, TypeOK, CpuPop(c)
  PROVE  TypeOK'
<1> USE DEF TypeOK
<1>1. pad[c] \in Pad
  BY DEF ThreadTypeOK
<1>2. /\ Head(buf[c][pad[c]]) \in Input
      /\ Tail(buf[c][pad[c]]) \in Seq(Input)
  BY <1>1 DEF CpuPop, ClientTypeOK
<1>3. ClientTypeOK'
  BY <1>1, <1>2 DEF CpuPop, ClientTypeOK
<1>4. EmuTypeOK'
  BY <1>1, <1>2 DEF CpuPop, EmuTypeOK
<1>5. ThreadTypeOK'
  BY NextPadType DEF CpuPop, ThreadTypeOK
<1>6. QED
  BY <1>3, <1>4, <1>5, NetSame, ServerSame, HistorySame DEF CpuPop

(* The other steps of the CPU thread. *)
LEMMA TypeCpuOther ==
  ASSUME NEW c \in Player, TypeOK,
         CpuEmpty(c) \/ CpuCheck(c) \/ CpuWait(c) \/ CpuPowerDown(c)
  PROVE  TypeOK'
<1> USE DEF TypeOK
<1>1. ThreadTypeOK'
  <2>1. CASE CpuCheck(c)
    BY <2>1, NextPadType DEF CpuCheck, ThreadTypeOK
  <2>2. CASE CpuEmpty(c) \/ CpuWait(c) \/ CpuPowerDown(c)
    BY <2>2 DEF CpuEmpty, CpuWait, CpuPowerDown, ThreadTypeOK
  <2>3. QED  BY <2>1, <2>2
<1>2. ClientTypeOK'
  <2>1. CASE CpuWait(c)
    BY <2>1 DEF CpuWait, ClientTypeOK
  <2>2. CASE CpuEmpty(c) \/ CpuCheck(c) \/ CpuPowerDown(c)
    BY <2>2, ClientSame DEF CpuEmpty, CpuCheck, CpuPowerDown
  <2>3. QED  BY <2>1, <2>2
<1>3. QED
  BY <1>1, <1>2, EmuSame, NetSame, ServerSame, HistorySame
  DEF CpuEmpty, CpuCheck, CpuWait, CpuPowerDown

(* Every step preserves the type invariant. *)
LEMMA TypeStep == TypeOK /\ [Next]_vars => TypeOK'
<1> SUFFICES ASSUME TypeOK, [Next]_vars PROVE TypeOK'
  OBVIOUS
<1>1. CASE UNCHANGED vars
  BY <1>1, ClientSame, ThreadSame, EmuSame, NetSame, ServerSame, HistorySame
  DEF vars, TypeOK
<1>2. CASE ServerNext
  BY <1>2, TypeServerDrainAsync, TypeServerOnData, TypeServerOnDisconnect
  DEF ServerNext
<1>3. ASSUME NEW c \in Player, NetNext(c) PROVE TypeOK'
  BY <1>3, TypeClientOnData, TypeClientOnDisconnect, TypeStop DEF NetNext
<1>4. ASSUME NEW c \in Player, GuiNext(c) PROVE TypeOK'
  BY <1>4, TypeGuiStartGame, TypeGuiEnable, TypeGuiBootGame, TypeGuiStop,
     TypeGuiCoreStopped, TypeGuiStateChanged
  DEF GuiNext
<1>5. ASSUME NEW c \in Player, CpuNext(c) PROVE TypeOK'
  BY <1>5, TypeCpuPoll, TypeCpuPop, TypeCpuOther DEF CpuNext
<1>6. CASE UserNext
  BY <1>6, TypeServerStartGame, TypeAdjustPadBufferSize, TypeGuiStop,
     TypeLoseConnection
  DEF UserNext
<1>7. QED  BY <1>1, <1>2, <1>3, <1>4, <1>5, <1>6 DEF Next

(* The type invariant holds in every state: no thread, no handler and no    *)
(* message of the server or of a client ever leaves its variables' types.   *)
THEOREM TypeCorrect == Spec => []TypeOK
BY TypeInit, TypeStep, PTL DEF Spec

----------------------------------------------------------------------------
(* NoLostWakeup is inductive together with the type invariant.  A step may  *)
(* only disturb it by changing one of the variables it is about; the        *)
(* actions are grouped by the thread that takes them.                       *)

(* Nothing that leaves these variables alone can lose a wake-up. *)
LEMMA WakeupSame ==
  NoLostWakeup /\ UNCHANGED <<cpu, buf, pad, event, running, net>> => NoLostWakeup'
BY DEF NoLostWakeup

(* The clause of NoLostWakeup about one client. *)
Awake(c) ==
  /\ cpu[c] \in {"check", "wait"} /\ buf[c][pad[c]] # <<>> => event[c]
  /\ cpu[c] = "wait" /\ ~running[c] => event[c] \/ net[c] = "set"

(* A step of one client's threads needs to be looked at for that client     *)
(* only.                                                                    *)
LEMMA WakeupLocal ==
  ASSUME NEW c \in Player, NoLostWakeup, Awake(c)',
         \A d \in Player \ {c} :
           /\ cpu'[d] = cpu[d] /\ buf'[d] = buf[d] /\ pad'[d] = pad[d]
           /\ event'[d] = event[d] /\ running'[d] = running[d]
           /\ net'[d] = net[d]
  PROVE  NoLostWakeup'
BY DEF NoLostWakeup, Awake

(* What the NETPLAY thread of a client does loses no wake-up: it pushes     *)
(* inputs before it sets the event, and clears m_is_running before it does. *)
LEMMA WakeupNet ==
  ASSUME NEW c \in Player, TypeOK, NoLostWakeup, NetNext(c)
  PROVE  NoLostWakeup'
<1> USE DEF TypeOK, ClientTypeOK, ThreadTypeOK
<1>1. CASE ClientOnData(c)
  <2>1. Awake(c)'
    <3> DEFINE msg == Head(down[c])
    <3>1. /\ UNCHANGED <<cpu, pad>>
          /\ \/ OnPadBuffer(c, msg) \/ OnPadMapping(c, msg) \/ OnPadData(c, msg)
             \/ OnStartGame(c, msg) \/ OnStopGame(c, msg)
      BY <1>1, Zenon DEF ClientOnData
    <3> HIDE DEF msg
    <3>2. CASE OnPadData(c, msg)
      BY <3>1, <3>2 DEF OnPadData, NoLostWakeup, Awake
    <3>3. CASE OnStopGame(c, msg)
      BY <3>1, <3>3 DEF OnStopGame, NoLostWakeup, Awake
    <3>4. CASE OnPadBuffer(c, msg) \/ OnPadMapping(c, msg) \/ OnStartGame(c, msg)
      BY <3>1, <3>4 DEF OnPadBuffer, OnPadMapping, OnStartGame, NoLostWakeup, Awake
    <3>5. QED  BY <3>1, <3>2, <3>3, <3>4
  <2>2. QED
    BY <1>1, <2>1, WakeupLocal
    DEF ClientOnData, OnPadBuffer, OnPadMapping, OnPadData, OnStartGame,
        OnStopGame
<1>2. CASE ClientOnDisconnect(c)
  <2>1. Awake(c)'
    BY <1>2 DEF ClientOnDisconnect, NoLostWakeup, Awake
  <2>2. QED  BY <1>2, <2>1, WakeupLocal DEF ClientOnDisconnect
<1>3. CASE InvokeStopSet(c)
  BY <1>3 DEF InvokeStopSet, NoLostWakeup
<1>4. CASE NetPlayDisable(c)
  BY <1>4 DEF NetPlayDisable, InGetNetPads, NoLostWakeup
<1>5. CASE DialogStopGame(c)
  BY <1>5 DEF DialogStopGame, NoLostWakeup
<1>6. QED  BY <1>1, <1>2, <1>3, <1>4, <1>5 DEF NetNext

(* Nor does the GUI thread: it clears the buffers only while the CPU thread *)
(* is outside GetNetPads, and a boot starts outside it.                     *)
LEMMA WakeupGui ==
  ASSUME NEW c \in Player, TypeOK, NoLostWakeup, GuiNext(c) \/ UserStop(c)
  PROVE  NoLostWakeup'
<1> USE DEF TypeOK, ClientTypeOK, ThreadTypeOK
<1>1. CASE GuiStartGame(c)
  BY <1>1 DEF GuiStartGame, NoLostWakeup
<1>2. CASE GuiEnable(c)
  BY <1>2 DEF GuiEnable, InGetNetPads, NoLostWakeup
<1>3. CASE GuiBootGame(c)
  <2>1. Awake(c)'
    BY <1>3 DEF GuiBootGame, Boot, NoLostWakeup, Awake
  <2>2. QED  BY <1>3, <2>1, WakeupLocal DEF GuiBootGame, Boot
<1>4. CASE GuiForceStop(c) \/ UserStop(c) \/ GuiStateChanged(c)
  BY <1>4, WakeupSame DEF GuiForceStop, UserStop, GuiStateChanged, clientVars
<1>5. CASE GuiCoreStopped(c)
  <2>1. Awake(c)'
    BY <1>5 DEF GuiCoreStopped, Boot, NoLostWakeup, Awake, clientVars
  <2>2. QED  BY <1>5, <2>1, WakeupLocal DEF GuiCoreStopped, Boot, clientVars
<1>6. QED  BY <1>1, <1>2, <1>3, <1>4, <1>5 DEF GuiNext

(* Nor does the CPU thread itself: it goes to wait only with an empty       *)
(* buffer and a running game, and looks again after it has reset the event. *)
LEMMA WakeupCpu ==
  ASSUME NEW c \in Player, TypeOK, NoLostWakeup, CpuNext(c)
  PROVE  NoLostWakeup'
<1> USE DEF TypeOK, ClientTypeOK, ThreadTypeOK
<1>1. CASE CpuPoll(c)
  <2>1. Awake(c)'
    BY <1>1 DEF CpuPoll, NextPad, Awake
  <2>2. QED  BY <1>1, <2>1, WakeupLocal DEF CpuPoll, NextPad
<1>2. CASE CpuPop(c)
  <2>1. Awake(c)'
    BY <1>2 DEF CpuPop, NextPad, Awake
  <2>2. QED  BY <1>2, <2>1, WakeupLocal DEF CpuPop, NextPad
<1>3. CASE CpuEmpty(c)
  <2>1. Awake(c)'
    BY <1>3 DEF CpuEmpty, Awake, clientVars
  <2>2. QED  BY <1>3, <2>1, WakeupLocal DEF CpuEmpty, clientVars
<1>4. CASE CpuCheck(c)
  <2>1. Awake(c)'
    BY <1>4 DEF CpuCheck, NextPad, NoLostWakeup, Awake, clientVars
  <2>2. QED  BY <1>4, <2>1, WakeupLocal DEF CpuCheck, NextPad, clientVars
<1>5. CASE CpuWait(c)
  <2>1. Awake(c)'
    BY <1>5 DEF CpuWait, Awake
  <2>2. QED  BY <1>5, <2>1, WakeupLocal DEF CpuWait
<1>6. CASE CpuPowerDown(c)
  <2>1. Awake(c)'
    BY <1>6 DEF CpuPowerDown, Awake
  <2>2. QED  BY <1>6, <2>1, WakeupLocal DEF CpuPowerDown, clientVars
<1>7. QED  BY <1>1, <1>2, <1>3, <1>4, <1>5, <1>6 DEF CpuNext

(* The server and the network touch nothing of this. *)
LEMMA WakeupServer ==
  ASSUME NoLostWakeup,
         ServerNext \/ ServerStartGame
           \/ (\E size \in Targets : AdjustPadBufferSize(size))
           \/ (\E c \in Player : LoseConnection(c))
  PROVE  NoLostWakeup'
BY WakeupSame
DEF ServerNext, ServerDrainAsync, ServerOnData, ServerOnDisconnect,
    ServerStartGame, AdjustPadBufferSize, LoseConnection, clientVars, threadVars

(* A CPU thread that waits in GetNetPads for a remote player's input, or is *)
(* about to, never misses the m_gc_pad_event.Set of the NETPLAY thread that *)
(* brings the input or the stop, in any interleaving of the three threads,  *)
(* for any number of players, pads and games.                               *)
THEOREM NoLostWakeupCorrect == Spec => []NoLostWakeup
<1>1. Init => NoLostWakeup
  BY DEF Init, NoLostWakeup
<1>2. TypeOK /\ NoLostWakeup /\ [Next]_vars => NoLostWakeup'
  <2> SUFFICES ASSUME TypeOK, NoLostWakeup, [Next]_vars PROVE NoLostWakeup'
    OBVIOUS
  <2>1. CASE UNCHANGED vars
    BY <2>1, WakeupSame DEF vars, clientVars, threadVars
  <2>2. CASE Next
    BY <2>2, WakeupNet, WakeupGui, WakeupCpu, WakeupServer DEF Next, UserNext
  <2>3. QED  BY <2>1, <2>2
<1>3. QED  BY <1>1, <1>2, TypeCorrect, PTL DEF Spec

----------------------------------------------------------------------------
(* A client whose core runs a game it has been told to stop is on the way  *)
(* to stop it, and no start comes first: the NETPLAY thread is still in    *)
(* StopGame, the GUI thread has ForceStop queued, or it is in Core::Stop.  *)
At(q, i, e) == i \in 1 .. Len(q) /\ q[i] = e
StopComes(q) ==
  \E i \in Nat : At(q, i, "forcestop") /\ \A j \in Nat : At(q, j, "start") => i < j
Told(c) == net[c] # "loop" /\ ~gotStop[c]
Ending(c) == Told(c) \/ StopComes(guiq[c]) \/ gui[c] = "corestop"

Orderly ==
  missed = {} => \A c \in Player :
    /\ net[c] # "loop" => ~running[c] /\ ~StartUnderway(c)
    /\ InStartGame(c) => running[c] /\ cpu[c] = "off"
    /\ ~pendingBoot[c]
    /\ cpu[c] # "off" => IF running[c] THEN ~gotStop[c] ELSE Ending(c)

(* An input of this pad that its owner has really made. *)
Known(p, x) ==
  /\ x.e <= emu[PadMap[p]]
  /\ x.e = emu[PadMap[p]] => x.n <= made[PadMap[p]][p]
AllKnown(p, s) == \A i \in 1 .. Len(s) : Known(p, s[i])

(* What may be on its way from client c, and to it. *)
FromOwner(c, m) ==
  m.type = "PadData" => \A p \in Pad : /\ AllKnown(p, m.data[p])
                                       /\ PadMap[p] # c => m.data[p] = <<>>
ToOthers(c, m) ==
  /\ m.type = "PadBuffer" => m.size \in Targets
  /\ m.type = "PadMapping" => \A p \in Pad : m.map[p] \in {0, PadMap[p]}
  /\ m.type = "PadData" => \A p \in Pad : /\ AllKnown(p, m.data[p])
                                          /\ PadMap[p] = c => m.data[p] = <<>>

Upward == \A c \in Player : \A i \in 1 .. Len(up[c]) : FromOwner(c, up[c][i])
Downward == \A c \in Player : \A i \in 1 .. Len(down[c]) : ToOthers(c, down[c][i])
Announced == sTarget \in Targets /\ \A i \in 1 .. Len(async) :
               /\ async[i].type # "PadData"
               /\ \A c \in Player : ToOthers(c, async[i])
AtClients ==
  \A c \in Player : /\ target[c] \in Targets
                    /\ \A p \in Pad : /\ padMap[c][p] \in {0, PadMap[p]}
                                      /\ AllKnown(p, buf[c][p]) /\ Known(p, last[c][p])

(* The buffer of a pad at its owner ends with the inputs of the emulation  *)
(* that runs, in a row up to the last one made.                            *)
InRow(x, e, z, m, i) == IF x.e = e THEN x.n + z = m + i ELSE m + i <= z
Ahead(p) ==
  LET c == PadMap[p]
      b == buf[c][p]
      m == made[c][p]
  IN  /\ \A i \in 1 .. Len(b) : InRow(b[i], emu[c], Len(b), m, i)
      /\ \E t \in Targets : Len(b) <= t + 1
      /\ gui[c] = "boot" \/ m <= last[c][p].n + Len(b)
      /\ \E t \in Targets : m <= last[c][p].n + t + 1
Delayed == missed = {} => \A p \in Pad : Ahead(p)

----------------------------------------------------------------------------
(* The queue of the GUI thread: what is appended and what is handled. *)
HasStart(q) == \E i \in DOMAIN q : q[i] = "start"

(* An event is queued, ... *)
LEMMA QueueAppend ==
  ASSUME NEW q \in Seq(GuiEvent), NEW e \in GuiEvent
  PROVE  /\ HasStart(Append(q, e)) => HasStart(q) \/ e = "start"
         /\ StopComes(q) => StopComes(Append(q, e))
         /\ ~HasStart(q) /\ e = "forcestop" => StopComes(Append(q, e))
  <1>1. /\ DOMAIN q = 1 .. Len(q) /\ Len(q) \in Nat
        /\ DOMAIN Append(q, e) = 1 .. Len(q) + 1 /\ Len(Append(q, e)) = Len(q) + 1
        /\ Append(q, e)[Len(q) + 1] = e /\ \A i \in 1 .. Len(q) : Append(q, e)[i] = q[i]
    OBVIOUS
  <1>2. HasStart(Append(q, e)) => HasStart(q) \/ e = "start"
    BY <1>1 DEF HasStart
  <1>3. \A i \in Nat : At(Append(q, e), i, "start") => At(q, i, "start") \/ i = Len(q) + 1
    BY <1>1 DEF At
  <1>4. ASSUME StopComes(q) PROVE StopComes(Append(q, e))
    <2>1. PICK i \in Nat : At(q, i, "forcestop") /\ \A j \in Nat : At(q, j, "start") => i < j
      BY <1>4 DEF StopComes
    <2>2. At(Append(q, e), i, "forcestop") /\ i < Len(q) + 1
      BY <1>1, <2>1 DEF At
    <2> QED
      BY <1>3, <2>1, <2>2 DEF StopComes
  <1>5. ASSUME ~HasStart(q), e = "forcestop" PROVE StopComes(Append(q, e))
    <2>1. At(Append(q, e), Len(q) + 1, "forcestop") /\ Len(q) + 1 \in Nat
      BY <1>1, <1>5 DEF At
    <2>2. \A j \in Nat : ~At(Append(q, e), j, "start")
      BY <1>1, <1>3, <1>5 DEF At, HasStart
    <2> QED
      BY <2>1, <2>2 DEF StopComes
  <1> QED
    BY <1>2, <1>4, <1>5

(* ... taken off the queue, ... *)
LEMMA QueueTail ==
  ASSUME NEW q \in Seq(GuiEvent), q # <<>>
  PROVE  /\ Tail(q) \in Seq(GuiEvent) /\ Head(q) \in GuiEvent
         /\ HasStart(Tail(q)) => HasStart(q)
         /\ Head(q) = "start" => HasStart(q)
         /\ StopComes(q) => Head(q) # "start"
         /\ StopComes(q) /\ Head(q) # "forcestop" => StopComes(Tail(q))
  <1>1. /\ DOMAIN q = 1 .. Len(q) /\ Len(q) \in Nat /\ Len(q) # 0 /\ Head(q) = q[1]
        /\ DOMAIN Tail(q) = 1 .. Len(q) - 1 /\ Len(Tail(q)) = Len(q) - 1
        /\ \A i \in 1 .. Len(q) - 1 : Tail(q)[i] = q[i + 1]
    OBVIOUS
  <1>2. HasStart(Tail(q)) => HasStart(q)
    <2> SUFFICES ASSUME NEW i \in DOMAIN Tail(q), Tail(q)[i] = "start" PROVE HasStart(q)
      BY DEF HasStart
    <2>1. i + 1 \in DOMAIN q /\ q[i + 1] = "start"
      BY <1>1
    <2> QED
      BY <2>1 DEF HasStart
  <1>3. Head(q) = "start" => HasStart(q)
    BY <1>1 DEF HasStart
  <1>4. ASSUME StopComes(q) PROVE Head(q) # "start" /\ (Head(q) # "forcestop" => StopComes(Tail(q)))
    <2>1. PICK i \in Nat : At(q, i, "forcestop") /\ \A j \in Nat : At(q, j, "start") => i < j
      BY <1>4 DEF StopComes
    <2>2. Head(q) # "start"
      <3>1. i >= 1 /\ ~(i < 1)
        BY <2>1 DEF At
      <3> QED
        BY <1>1, <2>1, <3>1 DEF At
    <2>3. ASSUME Head(q) # "forcestop" PROVE StopComes(Tail(q))
      <3>1. i # 1 /\ i - 1 \in Nat /\ i - 1 \in 1 .. Len(q) - 1
        BY <1>1, <2>1, <2>3 DEF At
      <3>2. At(Tail(q), i - 1, "forcestop")
        BY <1>1, <2>1, <3>1 DEF At
      <3>3. ASSUME NEW j \in Nat, At(Tail(q), j, "start") PROVE i - 1 < j
        <4>1. At(q, j + 1, "start")
          BY <1>1, <3>3 DEF At
        <4> QED
          BY <2>1, <4>1
      <3> QED
        BY <3>1, <3>2, <3>3 DEF StopComes
    <2> QED
      BY <2>2, <2>3
  <1>5. Tail(q) \in Seq(GuiEvent) /\ Head(q) \in GuiEvent
    OBVIOUS
  <1> QED
    BY <1>2, <1>3, <1>4, <1>5

(* ... and the host is told that the game runs. *)
LEMMA QueueStarted ==
  ASSUME NEW q \in Seq(GuiEvent), NEW c \in Player
  PROVE  q \o Started(c) = q \/ q \o Started(c) = Append(q, "running")
  BY DEF Started, GuiEvent

----------------------------------------------------------------------------
(* A start is never handled while a stopped game still runs. *)
OrderlyAt(c) ==
  /\ net[c] # "loop" => ~running[c] /\ ~StartUnderway(c)
  /\ InStartGame(c) => running[c] /\ cpu[c] = "off"
  /\ ~pendingBoot[c]
  /\ cpu[c] # "off" => IF running[c] THEN ~gotStop[c] ELSE Ending(c)

(* Orderly, client by client. *)
LEMMA OrderlyParts == Orderly <=> (missed = {} => \A c \in Player : OrderlyAt(c))
  BY DEF Orderly, OrderlyAt

(* A step of one client disturbs only its own part, ... *)
LEMMA OrderlyLocal ==
  ASSUME NEW c \in Player, Orderly, missed \subseteq missed',
         missed = {} /\ missed' = {} => OrderlyAt(c)',
         \A d \in Player \ {c} :
           /\ net'[d] = net[d] /\ running'[d] = running[d] /\ gui'[d] = gui[d]
           /\ guiq'[d] = guiq[d] /\ gotStop'[d] = gotStop[d] /\ cpu'[d] = cpu[d]
           /\ pendingBoot'[d] = pendingBoot[d]
  PROVE  Orderly'
  <1> SUFFICES ASSUME missed' = {}, NEW d \in Player PROVE OrderlyAt(d)'
    BY DEF Orderly, OrderlyAt
  <1>1. missed = {}
    OBVIOUS
  <1>2. OrderlyAt(d)
    BY <1>1, OrderlyParts
  <1>3. CASE d # c
    <2>1. /\ StartUnderway(d)' <=> StartUnderway(d)
          /\ InStartGame(d)' <=> InStartGame(d)
          /\ Ending(d)' <=> Ending(d)
      BY <1>3 DEF StartUnderway, InStartGame, Ending, Told
    <2> QED
      BY <1>2, <1>3, <2>1 DEF OrderlyAt
  <1> QED
    BY <1>1, <1>3

(* ... and one that leaves the threads alone none. *)
LEMMA OrderlySame ==
  ASSUME Orderly, UNCHANGED <<net, running, gui, guiq, gotStop, cpu, pendingBoot, missed>>
  PROVE  Orderly'
  BY DEF Orderly, StartUnderway, InStartGame, Ending, Told

(* The NETPLAY thread stops a game between two starts, or it is missed. *)
LEMMA OrderlyNet ==
  ASSUME NEW c \in Player, TypeOK, Orderly, NetNext(c)
  PROVE  Orderly'
  <1>0. /\ guiq[c] \in Seq(GuiEvent) /\ guiq \in [Player -> Seq(GuiEvent)]
        /\ net \in [Player -> {"loop", "set", "disable", "dialog"}]
        /\ running \in [Player -> BOOLEAN] /\ gotStop \in [Player -> BOOLEAN]
        /\ missed \subseteq Player
    BY DEF TypeOK, ThreadTypeOK, ClientTypeOK, HistoryTypeOK
  <1>1. missed \subseteq missed' /\ UNCHANGED <<gui, cpu, pendingBoot>>
    BY DEF NetNext, ClientOnData, OnPadBuffer, OnPadMapping, OnPadData, OnStartGame,
         OnStopGame, ClientOnDisconnect, InvokeStopSet, NetPlayDisable, DialogStopGame, history
  <1>2. \A d \in Player \ {c} : /\ net'[d] = net[d] /\ running'[d] = running[d]
                                /\ guiq'[d] = guiq[d] /\ gotStop'[d] = gotStop[d]
    BY <1>0 DEF NetNext, ClientOnData, OnPadBuffer, OnPadMapping, OnPadData, OnStartGame,
         OnStopGame, ClientOnDisconnect, InvokeStopSet, NetPlayDisable, DialogStopGame
  <1>3. ASSUME missed = {}, missed' = {} PROVE OrderlyAt(c)'
    <2>0. OrderlyAt(c)
      BY <1>3, OrderlyParts
    <2>1. ASSUME NEW m, OnStartGame(c, m), ClientOnData(c) PROVE OrderlyAt(c)'
      <3>1. /\ guiq'[c] = Append(guiq[c], "start") /\ ~InStartGame(c) /\ net[c] = "loop"
            /\ UNCHANGED <<net, running, gotStop>>
        BY <1>0, <2>1 DEF OnStartGame, ClientOnData
      <3>2. StopComes(guiq[c]) => StopComes(guiq'[c])
        BY <1>0, <3>1, QueueAppend DEF GuiEvent
      <3> QED
        BY <1>1, <2>0, <3>1, <3>2 DEF OrderlyAt, InStartGame, Ending, Told
    <2>2. ASSUME net[c] = "loop", running'[c] = FALSE, ~StartUnderway(c), guiq' = guiq,
                 gotStop' = gotStop, running[c] => net'[c] = "set"
          PROVE  OrderlyAt(c)'
      <3>1. ~StartUnderway(c)' /\ ~InStartGame(c)'
        BY <1>1, <2>2 DEF StartUnderway, InStartGame
      <3>2. cpu[c] # "off" => Ending(c)'
        BY <1>1, <2>0, <2>2 DEF OrderlyAt, Ending, Told
      <3> QED
        BY <1>1, <2>0, <2>2, <3>1, <3>2 DEF OrderlyAt
    <2>3. ASSUME NEW m, OnStopGame(c, m), ClientOnData(c) PROVE OrderlyAt(c)'
      <3>1. ~StartUnderway(c)
        BY <1>3, <2>3 DEF OnStopGame
      <3>2. /\ net[c] = "loop" /\ running'[c] = FALSE /\ net'[c] = "set"
            /\ UNCHANGED <<guiq, gotStop>>
        BY <1>0, <2>3 DEF OnStopGame, ClientOnData
      <3> QED
        BY <2>2, <3>1, <3>2
    <2>4. CASE ClientOnDisconnect(c)
      <3>1. ~StartUnderway(c)
        BY <1>3, <2>4 DEF ClientOnDisconnect
      <3>2. /\ net[c] = "loop" /\ running'[c] = FALSE /\ (running[c] => net'[c] = "set")
            /\ UNCHANGED <<guiq, gotStop>>
        BY <1>0, <2>4 DEF ClientOnDisconnect
      <3> QED
        BY <2>2, <3>1, <3>2
    <2>5. CASE InvokeStopSet(c) \/ NetPlayDisable(c)
      <3>1. net[c] # "loop" /\ net'[c] # "loop" /\ UNCHANGED <<guiq, gotStop, running>>
        BY <1>0, <2>5 DEF InvokeStopSet, NetPlayDisable
      <3> QED
        BY <1>1, <2>0, <3>1 DEF OrderlyAt, StartUnderway, InStartGame, Ending, Told
    <2>6. CASE DialogStopGame(c)
      <3>1. net[c] # "loop" /\ net'[c] = "loop" /\ UNCHANGED running
        BY <1>0, <2>6 DEF DialogStopGame
      <3>2. ~running[c] /\ ~StartUnderway(c)
        BY <2>0, <3>1 DEF OrderlyAt
      <3>3. ~InStartGame(c)' /\ ~HasStart(guiq[c])
        BY <1>1, <3>2 DEF StartUnderway, InStartGame, HasStart
      <3>4. cpu[c] # "off" => Ending(c)'
        <4>1. CASE gotStop[c]
          <5>1. guiq' = guiq
            BY <2>6, <4>1 DEF DialogStopGame
          <5> QED
            BY <1>1, <2>0, <3>2, <4>1, <5>1 DEF OrderlyAt, Ending, Told
        <4>2. CASE ~gotStop[c]
          <5>1. guiq'[c] = Append(guiq[c], "forcestop")
            BY <1>0, <2>6, <4>2 DEF DialogStopGame
          <5>2. StopComes(guiq'[c])
            BY <1>0, <3>3, <5>1, QueueAppend DEF GuiEvent
          <5> QED
            BY <5>2 DEF Ending
        <4> QED
          BY <4>1, <4>2
      <3> QED
        BY <1>1, <2>0, <3>1, <3>2, <3>3, <3>4 DEF OrderlyAt
    <2>7. ASSUME NEW m, OnPadBuffer(c, m) \/ OnPadMapping(c, m) \/ OnPadData(c, m), ClientOnData(c)
          PROVE  OrderlyAt(c)'
      <3>1. UNCHANGED <<net, guiq, gotStop, running>>
        BY <2>7 DEF ClientOnData, OnPadBuffer, OnPadMapping, OnPadData
      <3>2. /\ StartUnderway(c)' <=> StartUnderway(c)
            /\ InStartGame(c)' <=> InStartGame(c)
        BY <1>1, <3>1 DEF StartUnderway, InStartGame
      <3> QED
        BY <1>1, <2>0, <3>1, <3>2 DEF OrderlyAt, Ending, Told
    <2> QED
      BY <2>1, <2>3, <2>4, <2>5, <2>6, <2>7 DEF NetNext, ClientOnData
  <1> QED
    BY <1>1, <1>2, <1>3, OrderlyLocal

(* The CPU thread starts nothing. *)
LEMMA OrderlyCpu ==
  ASSUME NEW c \in Player, TypeOK, Orderly, CpuNext(c)
  PROVE  Orderly'
  <1>1. UNCHANGED <<net, running, gui, guiq, gotStop, pendingBoot, missed>>
    BY DEF CpuNext, CpuPoll, CpuPop, CpuEmpty, CpuCheck, CpuWait, CpuPowerDown, clientVars, history
  <1>2. /\ cpu[c] # "off" /\ \A d \in Player \ {c} : cpu'[d] = cpu[d]
    BY DEF CpuNext, CpuPoll, CpuPop, CpuEmpty, CpuCheck, CpuWait, CpuPowerDown, NextPad, TypeOK,
         ThreadTypeOK
  <1>3. ASSUME missed = {} PROVE OrderlyAt(c)'
    <2>1. OrderlyAt(c)
      BY <1>3, OrderlyParts
    <2>2. ~InStartGame(c)
      BY <1>2, <2>1 DEF OrderlyAt
    <2> QED
      BY <1>1, <1>2, <2>1, <2>2 DEF OrderlyAt, StartUnderway, InStartGame, Ending, Told
  <1> QED
    BY <1>1, <1>2, <1>3, OrderlyLocal

(* The GUI thread starts a game only when no emulation runs. *)
LEMMA OrderlyGui ==
  ASSUME NEW c \in Player, TypeOK, Orderly, GuiNext(c) \/ UserStop(c)
  PROVE  Orderly'
  <1>0. /\ guiq[c] \in Seq(GuiEvent) /\ guiq \in [Player -> Seq(GuiEvent)]
        /\ gui \in [Player -> {"idle", "enable", "boot", "corestop"}]
        /\ running \in [Player -> BOOLEAN] /\ gotStop \in [Player -> BOOLEAN]
        /\ cpu \in [Player -> {"off", "run", "size", "check", "wait"}]
        /\ pendingBoot \in [Player -> BOOLEAN]
    BY DEF TypeOK, ThreadTypeOK, ClientTypeOK
  <1>1. missed' = missed /\ net' = net
    BY DEF GuiNext, UserStop, GuiStartGame, GuiEnable, GuiBootGame, GuiForceStop,
         GuiCoreStopped, GuiStateChanged, history
  <1>2. \A d \in Player \ {c} :
           /\ running'[d] = running[d] /\ gui'[d] = gui[d] /\ guiq'[d] = guiq[d]
           /\ gotStop'[d] = gotStop[d] /\ cpu'[d] = cpu[d] /\ pendingBoot'[d] = pendingBoot[d]
    <2>1. CASE GuiStartGame(c) \/ GuiEnable(c) \/ GuiStateChanged(c)
      BY <1>0, <2>1 DEF GuiStartGame, GuiEnable, GuiStateChanged, clientVars
    <2>2. CASE GuiForceStop(c) \/ UserStop(c)
      BY <1>0, <2>2 DEF GuiForceStop, UserStop, CoreStop, clientVars
    <2>3. CASE GuiBootGame(c)
      BY <1>0, <2>3 DEF GuiBootGame, Boot
    <2>4. CASE GuiCoreStopped(c)
      BY <1>0, <2>4 DEF GuiCoreStopped, Boot, clientVars
    <2> QED
      BY <2>1, <2>2, <2>3, <2>4 DEF GuiNext
  <1>3. ASSUME missed = {} PROVE OrderlyAt(c)'
    <2>0. OrderlyAt(c)
      BY <1>3, OrderlyParts
    <2>1. CASE GuiStartGame(c)
      <3>1. /\ gui[c] = "idle" /\ guiq[c] # <<>> /\ Head(guiq[c]) = "start"
            /\ guiq'[c] = Tail(guiq[c]) /\ running'[c] = TRUE
            /\ gui'[c] = (IF running[c] THEN gui[c] ELSE "enable")
            /\ UNCHANGED <<gotStop, cpu, pendingBoot>>
        BY <1>0, <2>1 DEF GuiStartGame, NextGuiEvent
      <3>2. HasStart(guiq[c]) /\ ~StopComes(guiq[c])
        BY <1>0, <3>1, QueueTail
      <3>3. net[c] = "loop"
        BY <2>0, <3>2 DEF OrderlyAt, StartUnderway, HasStart
      <3>4. running[c] \/ cpu[c] = "off"
        BY <2>0, <3>1, <3>2, <3>3 DEF OrderlyAt, Ending, Told
      <3> QED
        BY <1>1, <2>0, <3>1, <3>3, <3>4 DEF OrderlyAt, InStartGame
    <2>2. CASE GuiEnable(c)
      <3>1. /\ gui[c] = "enable" /\ gui'[c] = "boot"
            /\ UNCHANGED <<guiq, running, gotStop, cpu, pendingBoot>>
        BY <1>0, <2>2 DEF GuiEnable
      <3> QED
        BY <1>1, <2>0, <3>1 DEF OrderlyAt, StartUnderway, InStartGame
    <2>3. CASE GuiBootGame(c)
      <3>1. gui[c] = "boot" /\ gotStop'[c] = FALSE /\ UNCHANGED running
        BY <1>0, <2>3 DEF GuiBootGame
      <3>2. running[c] /\ cpu[c] = "off" /\ net[c] = "loop"
        BY <2>0, <3>1 DEF OrderlyAt, InStartGame
      <3>3. gui'[c] = "idle" /\ UNCHANGED pendingBoot
        BY <1>0, <2>3, <3>2 DEF GuiBootGame
      <3> QED
        BY <1>1, <2>0, <3>1, <3>2, <3>3 DEF OrderlyAt, InStartGame
    <2>4. CASE GuiForceStop(c) \/ UserStop(c)
      <3>1. /\ gui[c] = "idle" /\ UNCHANGED <<running, gotStop, cpu, pendingBoot>>
            /\ \/ guiq[c] # <<>> /\ CoreStop(c, Tail(guiq[c]))
               \/ CoreStop(c, guiq[c])
        BY <2>4 DEF GuiForceStop, UserStop, NextGuiEvent, clientVars
      <3>2. \E q \in Seq(GuiEvent) : CoreStop(c, q) /\ (HasStart(q) => HasStart(guiq[c]))
        BY <1>0, <3>1, QueueTail
      <3>3. PICK q \in Seq(GuiEvent) : CoreStop(c, q) /\ (HasStart(q) => HasStart(guiq[c]))
        BY <3>2
      <3>4. HasStart(guiq'[c]) => HasStart(guiq[c])
        <4>1. guiq'[c] = q \/ guiq'[c] = Append(q, "stopping")
          BY <1>0, <3>3 DEF CoreStop
        <4>2. HasStart(Append(q, "stopping")) => HasStart(q)
          BY QueueAppend DEF GuiEvent
        <4> QED
          BY <3>3, <4>1, <4>2
      <3>5. gui'[c] \in {"idle", "corestop"} /\ (cpu[c] # "off" => gui'[c] = "corestop")
        BY <1>0, <3>1, <3>3 DEF CoreStop
      <3>6. StartUnderway(c)' => StartUnderway(c)
        BY <3>1, <3>4, <3>5 DEF StartUnderway, InStartGame, HasStart
      <3> QED
        BY <1>1, <2>0, <3>1, <3>5, <3>6 DEF OrderlyAt, InStartGame, Ending
    <2>5. CASE GuiCoreStopped(c)
      <3>1. /\ gui[c] = "corestop" /\ cpu[c] = "off" /\ gui'[c] = "idle" /\ ~pendingBoot[c]
            /\ UNCHANGED <<running, gotStop>>
        BY <1>0, <2>0, <2>5 DEF GuiCoreStopped, OrderlyAt, clientVars
      <3>2. /\ guiq'[c] = Append(guiq[c], "uninitialized") /\ cpu' = cpu
            /\ pendingBoot'[c] = FALSE
        BY <1>0, <2>5, <3>1 DEF GuiCoreStopped
      <3>3. HasStart(guiq'[c]) => HasStart(guiq[c])
        BY <1>0, <3>2, QueueAppend DEF GuiEvent
      <3>4. StartUnderway(c)' => StartUnderway(c)
        BY <3>1, <3>3 DEF StartUnderway, InStartGame, HasStart
      <3> QED
        BY <1>1, <2>0, <3>1, <3>2, <3>4 DEF OrderlyAt, InStartGame
    <2>6. CASE GuiStateChanged(c)
      <3>1. /\ gui[c] = "idle" /\ guiq[c] # <<>> /\ Head(guiq[c]) # "forcestop"
            /\ guiq'[c] = Tail(guiq[c])
            /\ UNCHANGED <<running, gui, gotStop, cpu, pendingBoot>>
        BY <1>0, <2>6 DEF GuiStateChanged, NextGuiEvent, clientVars
      <3>2. /\ HasStart(guiq'[c]) => HasStart(guiq[c])
            /\ StopComes(guiq[c]) => StopComes(guiq'[c])
        BY <1>0, <3>1, QueueTail
      <3>3. StartUnderway(c)' => StartUnderway(c)
        BY <3>1, <3>2 DEF StartUnderway, InStartGame, HasStart
      <3> QED
        BY <1>1, <2>0, <3>1, <3>2, <3>3 DEF OrderlyAt, InStartGame, Ending, Told
    <2> QED
      BY <2>1, <2>2, <2>3, <2>4, <2>5, <2>6 DEF GuiNext
  <1> QED
    BY <1>1, <1>2, <1>3, OrderlyLocal

(* Every step keeps the order. *)
LEMMA OrderlyStep ==
  ASSUME TypeOK, Orderly, [Next]_vars
  PROVE  Orderly'
  <1>1. CASE UNCHANGED vars
    BY <1>1, OrderlySame DEF vars, clientVars, threadVars, history
  <1>2. CASE ServerNext \/ ServerStartGame \/ (\E size \in Targets : AdjustPadBufferSize(size))
             \/ (\E c \in Player : LoseConnection(c))
    BY <1>2, OrderlySame
    DEF ServerNext, ServerDrainAsync, ServerOnData, ServerOnDisconnect, ServerStartGame,
        AdjustPadBufferSize, LoseConnection, clientVars, threadVars, history
  <1> QED
    BY <1>1, <1>2, OrderlyNet, OrderlyCpu, OrderlyGui DEF Next, UserNext

----------------------------------------------------------------------------
(* What an owner has made stays made: an emulation only adds inputs, and a *)
(* boot begins a new one.                                                  *)
LEMMA EmulationGrows ==
  ASSUME TypeOK, [Next]_vars, NEW c \in Player
  PROVE  \/ emu'[c] = emu[c] /\ \A p \in Pad : made'[c][p] >= made[c][p]
         \/ emu'[c] = emu[c] + 1
  <1>0. /\ emu \in [Player -> Nat] /\ made \in [Player -> [Pad -> Nat]]
    BY DEF TypeOK, EmuTypeOK
  <1>1. CASE UNCHANGED <<emu, made>>
    BY <1>0, <1>1
  <1>2. ASSUME NEW d \in Player, Boot(d)
        PROVE  \/ emu'[c] = emu[c] /\ \A p \in Pad : made'[c][p] >= made[c][p]
               \/ emu'[c] = emu[c] + 1
    <2>1. emu'[d] = emu[d] + 1
      BY <1>0, <1>2 DEF Boot
    <2>2. d # c => emu'[c] = emu[c] /\ made'[c] = made[c]
      BY <1>0, <1>2 DEF Boot
    <2> QED
      BY <1>0, <2>1, <2>2
  <1>3. ASSUME NEW d \in Player, CpuPoll(d)
        PROVE  emu'[c] = emu[c] /\ \A p \in Pad : made'[c][p] >= made[c][p]
    <2>1. emu' = emu
      BY <1>3 DEF CpuPoll
    <2>2. \A p \in Pad : Pushes(d, p) \in Nat
      BY PollType DEF TypeOK
    <2>3. CASE made' = made
      BY <1>0, <2>1, <2>3
    <2>4. CASE made' = [made EXCEPT ![d] = [p \in Pad |-> made[d][p] + Pushes(d, p)]]
      <3>1. \A p \in Pad : made'[d][p] = made[d][p] + Pushes(d, p)
        BY <1>0, <2>4
      <3>2. d # c => made'[c] = made[c]
        BY <1>0, <2>4
      <3> QED
        BY <1>0, <2>1, <2>2, <3>1, <3>2
    <2> QED
      BY <1>3, <2>3, <2>4 DEF CpuPoll
  <1>4. \/ UNCHANGED <<emu, made>>
        \/ \E d \in Player : Boot(d) \/ CpuPoll(d)
    <2>1. CASE UNCHANGED vars
      BY <2>1 DEF vars, emuVars
    <2>2. CASE ServerNext \/ UserNext
      BY <2>2 DEF ServerNext, UserNext, ServerDrainAsync, ServerOnData, ServerOnDisconnect,
           ServerStartGame, AdjustPadBufferSize, LoseConnection, UserStop, emuVars
    <2>3. ASSUME NEW d \in Player, NetNext(d) PROVE UNCHANGED <<emu, made>>
      BY <2>3 DEF NetNext, ClientOnData, ClientOnDisconnect, InvokeStopSet, NetPlayDisable,
           DialogStopGame, emuVars
    <2>4. ASSUME NEW d \in Player, GuiNext(d) PROVE UNCHANGED <<emu, made>> \/ Boot(d)
      BY <2>4 DEF GuiNext, GuiStartGame, GuiEnable, GuiBootGame, GuiForceStop, GuiCoreStopped,
           GuiStateChanged, emuVars
    <2>5. ASSUME NEW d \in Player, CpuNext(d) PROVE UNCHANGED <<emu, made>> \/ CpuPoll(d)
      BY <2>5 DEF CpuNext, CpuPop, CpuEmpty, CpuCheck, CpuWait, CpuPowerDown, emuVars
    <2> QED
      BY <2>1, <2>2, <2>3, <2>4, <2>5 DEF Next
  <1> QED
    BY <1>1, <1>2, <1>3, <1>4

(* So an input that was made stays made, ... *)
LEMMA KnownGrows ==
  ASSUME TypeOK, [Next]_vars, NEW p \in Pad
  PROVE  \A x \in Input : Known(p, x) => Known(p, x)'
  <1> DEFINE c == PadMap[p]
  <1>1. c \in Player
    BY PadAssumption
  <1>2. emu[c] \in Nat /\ made[c][p] \in Nat
    BY <1>1 DEF TypeOK, EmuTypeOK
  <1>3. \/ emu'[c] = emu[c] /\ \A q \in Pad : made'[c][q] >= made[c][q]
        \/ emu'[c] = emu[c] + 1
    BY <1>1, EmulationGrows
  <1>4. (emu'[c] = emu[c] /\ made'[c][p] >= made[c][p]) \/ emu'[c] = emu[c] + 1
    BY <1>3
  <1>5. TypeOK'
    BY TypeStep
  <1>6. emu'[c] \in Nat /\ made'[c][p] \in Nat
    BY <1>1, <1>5 DEF TypeOK, EmuTypeOK
  <1> SUFFICES ASSUME NEW x \in Input, Known(p, x)
               PROVE  /\ x.e <= emu'[c]
                      /\ x.e = emu'[c] => x.n <= made'[c][p]
    BY DEF Known
  <1>7. x.e \in Nat /\ x.n \in Nat /\ x.e <= emu[c] /\ (x.e = emu[c] => x.n <= made[c][p])
    BY DEF Known, Input
  <1> HIDE DEF c
  <1> QED
    BY <1>2, <1>4, <1>6, <1>7

(* ... and a queue of such inputs too. *)
LEMMA AllKnownGrows ==
  ASSUME TypeOK, [Next]_vars, NEW p \in Pad
  PROVE  \A s \in Seq(Input) : AllKnown(p, s) => AllKnown(p, s)'
  <1> SUFFICES ASSUME NEW s \in Seq(Input), AllKnown(p, s), NEW i \in 1 .. Len(s)
               PROVE  Known(p, s[i])'
    BY DEF AllKnown
  <1>1. s[i] \in Input /\ Known(p, s[i])
    BY DEF AllKnown
  <1> QED
    BY <1>1, KnownGrows

(* So what was a message of known inputs still is one. *)
LEMMA MessagesKeep ==
  ASSUME TypeOK, [Next]_vars, NEW c \in Player
  PROVE  /\ \A m \in UpMsg : FromOwner(c, m) => FromOwner(c, m)'
         /\ \A m \in DownMsg : ToOthers(c, m) => ToOthers(c, m)'
  <1>1. ASSUME NEW m \in UpMsg, FromOwner(c, m) PROVE FromOwner(c, m)'
    <2>1. m.type = "PadData" => m.data \in [Pad -> Seq(Input)]
      BY UpFields, DownFields
    <2>2. ASSUME m.type = "PadData", NEW p \in Pad
          PROVE  AllKnown(p, m.data[p])' /\ (PadMap[p] # c => m.data[p] = <<>>)
      <3>1. m.data[p] \in Seq(Input) /\ AllKnown(p, m.data[p])
        BY <1>1, <2>1, <2>2 DEF FromOwner
      <3>2. PadMap[p] # c => m.data[p] = <<>>
        BY <1>1, <2>2 DEF FromOwner
      <3> QED
        BY <3>1, <3>2, AllKnownGrows
    <2> QED
      BY <2>2 DEF FromOwner
  <1>2. ASSUME NEW m \in DownMsg, ToOthers(c, m) PROVE ToOthers(c, m)'
    <2>1. m.type = "PadData" => m.data \in [Pad -> Seq(Input)]
      BY DownFields
    <2>2. ASSUME m.type = "PadData", NEW p \in Pad
          PROVE  AllKnown(p, m.data[p])' /\ (PadMap[p] = c => m.data[p] = <<>>)
      <3>1. m.data[p] \in Seq(Input) /\ AllKnown(p, m.data[p])
        BY <1>2, <2>1, <2>2 DEF ToOthers
      <3>2. PadMap[p] = c => m.data[p] = <<>>
        BY <1>2, <2>2 DEF ToOthers
      <3> QED
        BY <3>1, <3>2, AllKnownGrows
    <2>3. /\ m.type = "PadBuffer" => m.size \in Targets
          /\ m.type = "PadMapping" => \A p \in Pad : m.map[p] \in {0, PadMap[p]}
      BY <1>2 DEF ToOthers
    <2> QED
      BY <2>2, <2>3 DEF ToOthers
  <1> QED
    BY <1>1, <1>2

----------------------------------------------------------------------------
(* Queues of inputs and messages that are added to or taken from. *)
LEMMA KnownQueues ==
  ASSUME NEW p \in Pad
  PROVE  /\ AllKnown(p, <<>>)'
         /\ \A s, t \in Seq(Input) :
              AllKnown(p, s)' /\ AllKnown(p, t)' => AllKnown(p, s \o t)'
         /\ \A s \in Seq(Input) : s # <<>> /\ AllKnown(p, s)' =>
              AllKnown(p, Tail(s))' /\ Known(p, Head(s))'
  <1>1. AllKnown(p, <<>>)'
    BY DEF AllKnown
  <1>2. ASSUME NEW s \in Seq(Input), NEW t \in Seq(Input), AllKnown(p, s)', AllKnown(p, t)'
        PROVE  AllKnown(p, s \o t)'
    <2> SUFFICES ASSUME NEW i \in 1 .. Len(s \o t) PROVE Known(p, (s \o t)[i])'
      BY DEF AllKnown
    <2>1. CASE i <= Len(s)
      <3>1. (s \o t)[i] = s[i] /\ i \in 1 .. Len(s)
        BY <2>1
      <3> QED
        BY <1>2, <3>1 DEF AllKnown
    <2>2. CASE i > Len(s)
      <3>1. (s \o t)[i] = t[i - Len(s)] /\ i - Len(s) \in 1 .. Len(t)
        BY <2>2
      <3> QED
        BY <1>2, <3>1 DEF AllKnown
    <2> QED
      BY <2>1, <2>2
  <1>3. ASSUME NEW s \in Seq(Input), s # <<>>, AllKnown(p, s)'
        PROVE  AllKnown(p, Tail(s))' /\ Known(p, Head(s))'
    <2>1. /\ Head(s) = s[1] /\ 1 \in 1 .. Len(s) /\ Len(Tail(s)) = Len(s) - 1
          /\ \A i \in 1 .. Len(s) - 1 : Tail(s)[i] = s[i + 1] /\ i + 1 \in 1 .. Len(s)
      BY <1>3
    <2> QED
      BY <1>3, <2>1 DEF AllKnown
  <1> QED
    BY <1>1, <1>2, <1>3

(* Only the owner of a pad makes inputs for it. *)
LEMMA PollKnown ==
  ASSUME NEW c \in Player, TypeOK, AtClients, NEW p \in Pad
  PROVE  /\ PollLocalPad(c, p) \in Seq(Input) /\ Pushes(c, p) \in Nat
         /\ Len(PollLocalPad(c, p)) = Pushes(c, p)
         /\ \A i \in 1 .. Pushes(c, p) :
              PollLocalPad(c, p)[i] = [e |-> emu[c], g |-> egame[c], n |-> made[c][p] + i]
         /\ PadMap[p] # c => PollLocalPad(c, p) = <<>> /\ Pushes(c, p) = 0
  <1>1. PollLocalPad(c, p) \in Seq(Input) /\ Pushes(c, p) \in Nat
    BY PollType DEF TypeOK
  <1>2. Len(PollLocalPad(c, p)) = Pushes(c, p)
    BY <1>1 DEF PollLocalPad
  <1>3. \A i \in 1 .. Pushes(c, p) :
          PollLocalPad(c, p)[i] = [e |-> emu[c], g |-> egame[c], n |-> made[c][p] + i]
    BY DEF PollLocalPad
  <1>4. ASSUME PadMap[p] # c PROVE Pushes(c, p) = 0
    <2>1. padMap[c][p] # c
      BY <1>4, PlayerAssumption DEF AtClients
    <2>2. p \notin Polled(c)
      BY <2>1 DEF Polled, LocalPads
    <2> QED
      BY <2>2 DEF Pushes
  <1>5. Pushes(c, p) = 0 => PollLocalPad(c, p) = <<>>
    <2> SUFFICES ASSUME Pushes(c, p) = 0 PROVE PollLocalPad(c, p) = <<>>
      OBVIOUS
    <2>1. Len(PollLocalPad(c, p)) = 0
      BY <1>2
    <2> QED
      BY <1>1, <2>1
  <1> QED
    BY <1>1, <1>2, <1>3, <1>4, <1>5

(* What is polled is known as soon as it is counted. *)
LEMMA PollKnownNext ==
  ASSUME NEW c \in Player, TypeOK, AtClients, NEW p \in Pad, emu' = emu,
         made'[c][p] = made[c][p] + Pushes(c, p)
  PROVE  \A s \in Seq(Input) : s = PollLocalPad(c, p) => AllKnown(p, s)'
  <1>0. emu[c] \in Nat /\ made[c][p] \in Nat
    BY DEF TypeOK, EmuTypeOK
  <1> SUFFICES ASSUME NEW s \in Seq(Input), s = PollLocalPad(c, p) PROVE AllKnown(p, s)'
    OBVIOUS
  <1> DEFINE k == Pushes(c, p)
  <1>1. /\ k \in Nat /\ Len(s) = k
        /\ \A i \in 1 .. k : s[i] = [e |-> emu[c], g |-> egame[c], n |-> made[c][p] + i]
        /\ PadMap[p] # c => k = 0
    BY PollKnown
  <1>2. made'[c][p] = made[c][p] + k
    OBVIOUS
  <1> HIDE DEF k
  <1>3. ASSUME NEW i \in 1 .. Len(s)
        PROVE  /\ s[i].e <= emu'[PadMap[p]]
               /\ s[i].e = emu'[PadMap[p]] => s[i].n <= made'[PadMap[p]][p]
    <2>1. PadMap[p] = c
      BY <1>1
    <2>2. s[i].e = emu[c] /\ s[i].n = made[c][p] + i /\ i \in 1 .. k
      BY <1>1
    <2> QED
      BY <1>0, <1>1, <1>2, <2>1, <2>2
  <1> QED
    BY <1>3 DEF AllKnown, Known

----------------------------------------------------------------------------
(* What a step does to the inputs a client holds. *)
Receives(c) ==
  /\ down[c] # <<>> /\ Head(down[c]).type = "PadData"
  /\ buf' = [buf EXCEPT ![c] = [p \in Pad |-> buf[c][p] \o Head(down[c]).data[p]]]
  /\ UNCHANGED <<emu, made, last, gui>>
Boots(c) == Boot(c) /\ buf' = buf /\ gui' = [gui EXCEPT ![c] = "idle"]
Still(c) ==
  /\ buf'[c] = buf[c] /\ emu'[c] = emu[c] /\ made'[c] = made[c] /\ last'[c] = last[c]
  /\ gui[c] = "boot" /\ cpu[c] = "off" => gui'[c] = "boot"

(* Every step does one of these. *)
LEMMA InputMoves ==
  ASSUME TypeOK, [Next]_vars, NEW c \in Player
  PROVE  CpuPoll(c) \/ CpuPop(c) \/ GuiEnable(c) \/ Receives(c) \/ Boots(c) \/ Still(c)
  <1>0. /\ buf \in [Player -> [Pad -> Seq(Input)]] /\ emu \in [Player -> Nat]
        /\ made \in [Player -> [Pad -> Nat]] /\ last \in [Player -> [Pad -> Input]]
        /\ gui \in [Player -> {"idle", "enable", "boot", "corestop"}]
    BY DEF TypeOK, ClientTypeOK, ThreadTypeOK, EmuTypeOK
  <1>1. UNCHANGED <<buf, emu, made, last, gui>> => Still(c)
    BY DEF Still
  <1>2. CASE UNCHANGED vars
    BY <1>1, <1>2 DEF vars, clientVars, threadVars, emuVars
  <1>3. CASE ServerNext \/ ServerStartGame \/ (\E size \in Targets : AdjustPadBufferSize(size))
             \/ (\E d \in Player : LoseConnection(d))
    BY <1>1, <1>3 DEF ServerNext, ServerDrainAsync, ServerOnData, ServerOnDisconnect,
         ServerStartGame, AdjustPadBufferSize, LoseConnection, clientVars, threadVars, emuVars
  <1>4. ASSUME NEW d \in Player, NetNext(d) PROVE Receives(c) \/ Still(c)
    <2>1. CASE UNCHANGED <<buf, emu, made, last, gui>>
      BY <1>1, <2>1
    <2>2. ASSUME OnPadData(d, Head(down[d])), ClientOnData(d) PROVE Receives(c) \/ Still(c)
      <3>1. CASE d = c
        BY <2>2, <3>1 DEF OnPadData, ClientOnData, Receives, emuVars
      <3>2. CASE d # c
        BY <1>0, <2>2, <3>2 DEF OnPadData, ClientOnData, Still, emuVars
      <3> QED
        BY <3>1, <3>2
    <2>3. \/ UNCHANGED <<buf, emu, made, last, gui>>
          \/ OnPadData(d, Head(down[d])) /\ ClientOnData(d)
      BY <1>4 DEF NetNext, ClientOnData, OnPadBuffer, OnPadMapping, OnStartGame, OnStopGame,
           ClientOnDisconnect, InvokeStopSet, NetPlayDisable, DialogStopGame, clientVars, emuVars
    <2> QED
      BY <2>1, <2>2, <2>3
  <1>5. ASSUME NEW d \in Player, Boots(d) PROVE Boots(c) \/ Still(c)
    BY <1>0, <1>5 DEF Boots, Boot, Still
  <1>6. ASSUME NEW d \in Player, GuiNext(d) \/ UserStop(d)
        PROVE  GuiEnable(c) \/ Boots(c) \/ Still(c)
    <2>1. CASE GuiStartGame(d) \/ GuiForceStop(d) \/ UserStop(d) \/ GuiStateChanged(d)
      <3>1. UNCHANGED <<buf, emu, made, last>>
        BY <2>1 DEF GuiStartGame, GuiForceStop, UserStop, GuiStateChanged, clientVars, emuVars
      <3>2. gui[d] = "idle" /\ (c # d => gui'[c] = gui[c])
        BY <1>0, <2>1 DEF GuiStartGame, GuiForceStop, UserStop, GuiStateChanged, NextGuiEvent,
             CoreStop
      <3> QED
        BY <3>1, <3>2 DEF Still
    <2>2. CASE GuiEnable(d)
      BY <1>0, <2>2 DEF GuiEnable, Still, emuVars
    <2>3. CASE GuiBootGame(d)
      <3>1. CASE cpu[d] = "off"
        <4>1. Boots(d)
          BY <2>3, <3>1 DEF GuiBootGame, Boots
        <4> QED
          BY <1>5, <4>1
      <3>2. CASE cpu[d] # "off"
        BY <1>0, <2>3, <3>2 DEF GuiBootGame, Still, emuVars
      <3> QED
        BY <3>1, <3>2
    <2>4. CASE GuiCoreStopped(d)
      <3>1. CASE pendingBoot[d]
        <4>1. Boots(d)
          BY <2>4, <3>1 DEF GuiCoreStopped, Boots, clientVars
        <4> QED
          BY <1>5, <4>1
      <3>2. CASE ~pendingBoot[d]
        BY <1>0, <2>4, <3>2 DEF GuiCoreStopped, Still, clientVars, emuVars
      <3> QED
        BY <3>1, <3>2
    <2> QED
      BY <1>6, <2>1, <2>2, <2>3, <2>4 DEF GuiNext
  <1>7. ASSUME NEW d \in Player, CpuNext(d) PROVE CpuPoll(c) \/ CpuPop(c) \/ Still(c)
    <2>1. CASE CpuPoll(d) \/ CpuPop(d)
      BY <1>0, <2>1 DEF CpuPoll, CpuPop, Still
    <2>2. CASE CpuEmpty(d) \/ CpuCheck(d) \/ CpuWait(d) \/ CpuPowerDown(d)
      BY <1>1, <2>2 DEF CpuEmpty, CpuCheck, CpuWait, CpuPowerDown, clientVars, emuVars
    <2> QED
      BY <1>7, <2>1, <2>2 DEF CpuNext
  <1> QED
    BY <1>2, <1>3, <1>4, <1>6, <1>7 DEF Next, UserNext

(* Where a client gets its buffer size and its pad map from. *)
LEMMA SettingMoves ==
  ASSUME TypeOK, [Next]_vars, NEW c \in Player
  PROVE  /\ \/ target'[c] = target[c]
            \/ /\ down[c] # <<>> /\ Head(down[c]).type = "PadBuffer"
               /\ target'[c] = Head(down[c]).size
         /\ \/ padMap'[c] = padMap[c]
            \/ /\ down[c] # <<>> /\ Head(down[c]).type = "PadMapping"
               /\ padMap'[c] = Head(down[c]).map
  <1>0. DOMAIN target = Player /\ DOMAIN padMap = Player
    BY DEF TypeOK, ClientTypeOK
  <1>1. \/ UNCHANGED <<target, padMap>>
        \/ \E d \in Player : /\ down[d] # <<>>
                             /\ \/ OnPadBuffer(d, Head(down[d])) \/ OnPadMapping(d, Head(down[d]))
    <2>1. CASE UNCHANGED vars
      BY <2>1 DEF vars, clientVars
    <2>2. CASE ServerNext \/ UserNext
      BY <2>2 DEF ServerNext, UserNext, ServerDrainAsync, ServerOnData, ServerOnDisconnect,
           ServerStartGame, AdjustPadBufferSize, LoseConnection, UserStop, clientVars
    <2>3. ASSUME NEW d \in Player, NetNext(d)
          PROVE  \/ UNCHANGED <<target, padMap>>
                 \/ /\ down[d] # <<>>
                    /\ \/ OnPadBuffer(d, Head(down[d])) \/ OnPadMapping(d, Head(down[d]))
      BY <2>3 DEF NetNext, ClientOnData, OnPadData, OnStartGame, OnStopGame,
           ClientOnDisconnect, InvokeStopSet, NetPlayDisable, DialogStopGame
    <2>4. ASSUME NEW d \in Player, GuiNext(d) PROVE UNCHANGED <<target, padMap>>
      BY <2>4 DEF GuiNext, GuiStartGame, GuiEnable, GuiBootGame, GuiForceStop, GuiCoreStopped,
           GuiStateChanged, clientVars
    <2>5. ASSUME NEW d \in Player, CpuNext(d) PROVE UNCHANGED <<target, padMap>>
      BY <2>5 DEF CpuNext, CpuPoll, CpuPop, CpuEmpty, CpuCheck, CpuWait, CpuPowerDown, clientVars
    <2> QED
      BY <2>1, <2>2, <2>3, <2>4, <2>5 DEF Next
  <1> QED
    BY <1>0, <1>1 DEF OnPadBuffer, OnPadMapping

(* The next message of a client is one meant for it. *)
LEMMA NextMessage ==
  ASSUME NEW c \in Player, TypeOK, Downward, down[c] # <<>>
  PROVE  Head(down[c]) \in DownMsg /\ ToOthers(c, Head(down[c]))
  <1>1. /\ down[c] \in Seq(DownMsg) /\ Head(down[c]) = down[c][1]
        /\ 1 \in 1 .. Len(down[c]) /\ Head(down[c]) \in DownMsg
    BY DEF TypeOK, NetTypeOK
  <1> QED
    BY <1>1 DEF Downward

(* What the clients hold stays known. *)
LEMMA AtClientsStep ==
  ASSUME TypeOK, Downward, AtClients, [Next]_vars
  PROVE  AtClients'
  <1> SUFFICES ASSUME NEW c \in Player
               PROVE  /\ target'[c] \in Targets
                      /\ \A p \in Pad : /\ padMap'[c][p] \in {0, PadMap[p]}
                                        /\ AllKnown(p, buf[c][p])' /\ Known(p, last[c][p])'
    BY DEF AtClients
  <1>1. target'[c] \in Targets /\ \A p \in Pad : padMap'[c][p] \in {0, PadMap[p]}
    BY SettingMoves, NextMessage DEF AtClients, ToOthers
  <1>2. ASSUME NEW p \in Pad PROVE AllKnown(p, buf[c][p])' /\ Known(p, last[c][p])'
    <2>0. /\ buf[c][p] \in Seq(Input) /\ last[c][p] \in Input
          /\ AllKnown(p, buf[c][p]) /\ Known(p, last[c][p]) /\ PadMap[p] \in Player
          /\ c \in DOMAIN buf /\ p \in DOMAIN buf[c] /\ c \in DOMAIN last /\ p \in DOMAIN last[c]
      BY PadAssumption DEF TypeOK, ClientTypeOK, EmuTypeOK, AtClients
    <2>1. /\ \A s \in Seq(Input) : s = buf[c][p] => AllKnown(p, s)'
          /\ \A x \in Input : x = last[c][p] => Known(p, x)'
      BY <2>0, AllKnownGrows, KnownGrows
    <2>2. ASSUME NEW s \in Seq(Input), AllKnown(p, s)', NEW x \in Input, Known(p, x)',
                 buf'[c][p] = s, last'[c][p] = x
          PROVE  AllKnown(p, buf[c][p])' /\ Known(p, last[c][p])'
      BY <2>2 DEF AllKnown, Known
    <2>3. CASE buf'[c][p] = buf[c][p] /\ last'[c][p] = last[c][p]
      BY <2>0, <2>1, <2>2, <2>3
    <2>4. CASE CpuPoll(c)
      <3>1. last' = last /\ emu' = emu
        BY <2>4 DEF CpuPoll
      <3>2. CASE UNCHANGED <<buf, made>>
        BY <2>3, <3>1, <3>2
      <3>3. CASE ~UNCHANGED <<buf, made>>
        <4>1. /\ buf' = [buf EXCEPT ![c] = [q \in Pad |-> buf[c][q] \o PollLocalPad(c, q)]]
              /\ made' = [made EXCEPT ![c] = [q \in Pad |-> made[c][q] + Pushes(c, q)]]
          BY <2>4, <3>3 DEF CpuPoll
        <4>2. buf'[c][p] = buf[c][p] \o PollLocalPad(c, p)
          BY <2>0, <4>1
        <4>3. made'[c][p] = made[c][p] + Pushes(c, p)
          BY <4>1 DEF TypeOK, EmuTypeOK
        <4>4. PollLocalPad(c, p) \in Seq(Input)
          BY PollKnown
        <4>5. \A s \in Seq(Input) : s = PollLocalPad(c, p) => AllKnown(p, s)'
          BY <3>1, <4>3, PollKnownNext
        <4>6. \A s, t \in Seq(Input) :
                s = buf[c][p] /\ t = PollLocalPad(c, p) => AllKnown(p, s \o t)' /\ s \o t \in Seq(Input)
          BY <2>1, <4>5, KnownQueues
        <4> QED
          BY <2>0, <2>1, <2>2, <3>1, <4>2, <4>4, <4>6
      <3> QED
        BY <3>2, <3>3
    <2>5. CASE CpuPop(c)
      <3>1. CASE pad[c] = p
        <4>1. /\ buf[c][p] # <<>> /\ last'[c][p] = Head(buf[c][p]) /\ buf'[c][p] = Tail(buf[c][p])
          BY <2>0, <2>5, <3>1 DEF CpuPop
        <4>2. \A s \in Seq(Input) : s = buf[c][p] =>
                /\ AllKnown(p, Tail(s))' /\ Known(p, Head(s))'
                /\ Tail(s) \in Seq(Input) /\ Head(s) \in Input
          BY <2>1, <4>1, KnownQueues
        <4> QED
          BY <2>0, <2>2, <4>1, <4>2
      <3>2. CASE pad[c] # p
        <4>1. last'[c][p] = last[c][p] /\ buf'[c][p] = buf[c][p]
          BY <2>0, <2>5, <3>2 DEF CpuPop
        <4> QED
          BY <2>3, <4>1
      <3> QED
        BY <3>1, <3>2
    <2>6. CASE GuiEnable(c)
      <3>1. buf'[c][p] = <<>> /\ last'[c][p] = last[c][p] /\ <<>> \in Seq(Input)
        BY <2>0, <2>6 DEF GuiEnable, emuVars
      <3> QED
        BY <2>0, <2>1, <2>2, <3>1, KnownQueues
    <2>7. CASE Receives(c)
      <3>1. buf'[c][p] = buf[c][p] \o Head(down[c]).data[p] /\ last'[c][p] = last[c][p]
        BY <2>0, <2>7 DEF Receives
      <3>2. Head(down[c]) \in DownMsg /\ ToOthers(c, Head(down[c]))
        BY <2>7, NextMessage DEF Receives
      <3>3. Head(down[c]).data[p] \in Seq(Input) /\ AllKnown(p, Head(down[c]).data[p])
        BY <2>7, <3>2, DownFields DEF Receives, ToOthers
      <3>4. \A t \in Seq(Input) : t = Head(down[c]).data[p] => AllKnown(p, t)'
        BY <3>3, AllKnownGrows
      <3>5. \A s, t \in Seq(Input) :
                s = buf[c][p] /\ t = Head(down[c]).data[p] => AllKnown(p, s \o t)' /\ s \o t \in Seq(Input)
        BY <2>1, <3>4, KnownQueues
      <3> QED
        BY <2>0, <2>1, <2>2, <3>1, <3>3, <3>5
    <2>8. CASE Boots(c)
      <3>1. buf'[c][p] = buf[c][p] /\ last'[c][p] = NoInput
        BY <2>0, <2>8 DEF Boots, Boot
      <3>2. NoInput \in Input /\ NoInput.e = 0 /\ NoInput.n = 0
        BY DEF NoInput, Input
      <3>3. emu'[PadMap[p]] \in Nat /\ made'[PadMap[p]][p] \in Nat
        <4>1. TypeOK'
          BY TypeStep
        <4> QED
          BY <2>0, <4>1 DEF TypeOK, EmuTypeOK
      <3>4. \A x \in Input : x = NoInput => Known(p, x)'
        BY <3>2, <3>3 DEF Known
      <3> QED
        BY <2>0, <2>1, <2>2, <3>1, <3>2, <3>4
    <2>9. CASE Still(c)
      BY <2>3, <2>9 DEF Still
    <2> QED
      BY <2>4, <2>5, <2>6, <2>7, <2>8, <2>9, InputMoves
  <1> QED
    BY <1>1, <1>2

----------------------------------------------------------------------------
(* What a step adds to the queue of a client to the server. *)
LEMMA UpMoves ==
  ASSUME TypeOK, AtClients, [Next]_vars, NEW c \in Player
  PROVE  \/ up'[c] = up[c] \/ up'[c] = <<>>
         \/ up[c] # <<>> /\ up'[c] = Tail(up[c])
         \/ \E m \in UpMsg : up'[c] = Append(up[c], m) /\ FromOwner(c, m)'
  <1> DEFINE Goal == \/ up'[c] = up[c] \/ up'[c] = <<>>
                     \/ up[c] # <<>> /\ up'[c] = Tail(up[c])
                     \/ \E m \in UpMsg : up'[c] = Append(up[c], m) /\ FromOwner(c, m)'
  <1> SUFFICES Goal
    OBVIOUS
  <1>0. up \in [Player -> Seq(UpMsg)]
    BY DEF TypeOK, NetTypeOK
  <1>1. CASE up' = up
    BY <1>1
  <1>2. ASSUME NEW d \in Player, ServerOnData(d) \/ LoseConnection(d) PROVE Goal
    BY <1>0, <1>2 DEF ServerOnData, LoseConnection
  <1>3. ASSUME NEW d \in Player, NEW m \in UpMsg, Send(d, m), m.type # "PadData" PROVE Goal
    <2>1. up'[c] = up[c] \/ (d = c /\ up'[c] = Append(up[c], m))
      BY <1>0, <1>3 DEF Send
    <2>2. FromOwner(c, m)'
      BY <1>3 DEF FromOwner
    <2> QED
      BY <2>1, <2>2
  <1>4. ASSUME NEW d \in Player, CpuPoll(d) PROVE Goal
    <2>1. CASE up' # up
      <3>1. /\ Send(d, [type |-> "PadData", data |-> PadPacket(d)])
            /\ made' = [made EXCEPT ![d] = [p \in Pad |-> made[d][p] + Pushes(d, p)]]
            /\ emu' = emu
        BY <1>4, <2>1 DEF CpuPoll
      <3>2. PadPacket(d) \in [Pad -> Seq(Input)]
        BY PollType DEF TypeOK
      <3>3. [type |-> "PadData", data |-> PadPacket(d)] \in UpMsg
        BY <3>2, UpMessages
      <3>4. up'[c] = up[c] \/ (d = c /\ up'[c] = Append(up[c], [type |-> "PadData", data |-> PadPacket(d)]))
        BY <1>0, <3>1 DEF Send
      <3>5. ASSUME d = c, NEW m \in UpMsg, m = [type |-> "PadData", data |-> PadPacket(d)]
            PROVE  FromOwner(c, m)'
        <4>1. ASSUME NEW p \in Pad
              PROVE  AllKnown(p, m.data[p])' /\ (PadMap[p] # c => m.data[p] = <<>>)
          <5>1. m.data[p] = PollLocalPad(c, p) /\ m.data[p] \in Seq(Input)
            BY <3>2, <3>5 DEF PadPacket
          <5>2. made'[c][p] = made[c][p] + Pushes(c, p)
            BY <3>1, <3>5 DEF TypeOK, EmuTypeOK
          <5>3. \A s \in Seq(Input) : s = PollLocalPad(c, p) => AllKnown(p, s)'
            BY <3>1, <5>2, PollKnownNext
          <5>4. PadMap[p] # c => m.data[p] = <<>>
            BY <5>1, PollKnown
          <5> QED
            BY <5>1, <5>3, <5>4
        <4> QED
          BY <4>1 DEF FromOwner
      <3> QED
        BY <3>3, <3>4, <3>5
    <2> QED
      BY <1>1, <2>1
  <1>5. ASSUME NEW d \in Player, GuiNext(d) PROVE Goal
    <2>1. CASE GuiStartGame(d)
      <3>1. Send(d, [type |-> "StartGame", game |-> current[d]]) /\ current[d] \in Nat
        BY <2>1 DEF GuiStartGame, TypeOK, ClientTypeOK
      <3> QED
        BY <1>3, <3>1, UpMessages
    <2>2. CASE GuiStateChanged(d)
      <3>1. up' = up \/ Send(d, [type |-> "StopGame"])
        BY <2>2 DEF GuiStateChanged
      <3> QED
        BY <1>1, <1>3, <3>1, UpMessages
    <2>3. CASE GuiEnable(d) \/ GuiBootGame(d) \/ GuiForceStop(d) \/ GuiCoreStopped(d)
      BY <1>1, <2>3 DEF GuiEnable, GuiBootGame, GuiForceStop, GuiCoreStopped, netVars
    <2> QED
      BY <1>5, <2>1, <2>2, <2>3 DEF GuiNext
  <1>6. ASSUME NEW d \in Player, NetNext(d) PROVE up' = up
    BY <1>6 DEF NetNext, ClientOnData, ClientOnDisconnect, InvokeStopSet, NetPlayDisable,
         DialogStopGame, netVars
  <1>7. ASSUME NEW d \in Player, CpuNext(d) PROVE up' = up \/ CpuPoll(d)
    BY <1>7 DEF CpuNext, CpuPop, CpuEmpty, CpuCheck, CpuWait, CpuPowerDown, netVars
  <1>8. \/ up' = up \/ \E d \in Player : ServerOnData(d) \/ LoseConnection(d) \/ GuiNext(d) \/ CpuPoll(d)
    <2>1. CASE UNCHANGED vars
      BY <2>1 DEF vars, netVars
    <2>2. CASE ServerNext \/ UserNext
      BY <2>2 DEF ServerNext, UserNext, ServerDrainAsync, ServerOnDisconnect, ServerStartGame,
           AdjustPadBufferSize, UserStop, netVars
    <2> QED
      BY <1>6, <1>7, <2>1, <2>2 DEF Next
  <1> QED
    BY <1>1, <1>2, <1>4, <1>5, <1>8

(* What is on its way from a client was made by it. *)
LEMMA UpwardStep ==
  ASSUME TypeOK, AtClients, Upward, [Next]_vars
  PROVE  Upward'
  <1> SUFFICES ASSUME NEW c \in Player, NEW i \in 1 .. Len(up'[c]) PROVE FromOwner(c, up[c][i])'
    BY DEF Upward
  <1>0. up[c] \in Seq(UpMsg) /\ \A j \in 1 .. Len(up[c]) : up[c][j] \in UpMsg /\ FromOwner(c, up[c][j])
    BY DEF TypeOK, NetTypeOK, Upward
  <1>1. \A m \in UpMsg : FromOwner(c, m) => FromOwner(c, m)'
    BY MessagesKeep
  <1>2. ASSUME NEW m \in UpMsg, up'[c][i] = m, FromOwner(c, m)' PROVE FromOwner(c, up[c][i])'
    BY <1>2 DEF FromOwner, AllKnown, Known
  <1>3. ASSUME NEW j \in 1 .. Len(up[c]), up'[c][i] = up[c][j] PROVE FromOwner(c, up[c][i])'
    BY <1>0, <1>1, <1>2, <1>3
  <1>4. CASE up'[c] = up[c]
    BY <1>3, <1>4
  <1>5. CASE up'[c] = <<>>
    <2>1. Len(up'[c]) = 0
      BY <1>5
    <2> QED
      BY <2>1
  <1>6. CASE up[c] # <<>> /\ up'[c] = Tail(up[c])
    <2>1. i + 1 \in 1 .. Len(up[c]) /\ up'[c][i] = up[c][i + 1]
      BY <1>0, <1>6
    <2> QED
      BY <1>3, <2>1
  <1>7. ASSUME NEW m \in UpMsg, up'[c] = Append(up[c], m), FromOwner(c, m)'
        PROVE  FromOwner(c, up[c][i])'
    <2>1. (i \in 1 .. Len(up[c]) /\ up'[c][i] = up[c][i]) \/ up'[c][i] = m
      BY <1>0, <1>7
    <2> QED
      BY <1>2, <1>3, <1>7, <2>1
  <1> QED
    BY <1>4, <1>5, <1>6, <1>7, UpMoves

----------------------------------------------------------------------------
(* The server announces buffer sizes it may choose, and passes on no input *)
(* to the client it comes from.                                            *)
Announcement(m) == m \in DownMsg /\ m.type # "PadData" /\ \A c \in Player : ToOthers(c, m)

(* The async queue holds announcements only. *)
LEMMA AnnouncedStep ==
  ASSUME TypeOK, Announced, [Next]_vars
  PROVE  Announced'
  <1>0. async \in Seq(DownMsg) /\ sTarget \in Targets /\ sGame \in Nat
    BY DEF TypeOK, ServerTypeOK, Announced
  <1>1. \A i \in 1 .. Len(async) : Announcement(async[i])
    BY <1>0 DEF Announced, Announcement
  <1>2. ASSUME sTarget' \in Targets,
               \A i \in 1 .. Len(async') : \E m \in DownMsg : async'[i] = m /\ Announcement(m)
        PROVE  Announced'
    <2> SUFFICES ASSUME NEW i \in 1 .. Len(async')
                 PROVE  async'[i].type # "PadData" /\ \A c \in Player : ToOthers(c, async[i])'
      BY <1>2 DEF Announced
    <2>1. PICK m \in DownMsg : async'[i] = m /\ Announcement(m)
      BY <1>2
    <2> QED
      BY <2>1 DEF Announcement, ToOthers
  <1>3. ASSUME NEW t \in Targets PROVE Announcement([type |-> "PadBuffer", size |-> t])
    BY <1>3, TargetAssumption DEF Announcement, ToOthers, DownMsg
  <1>4. Announcement([type |-> "StartGame", game |-> sGame + 1])
    <2>1. sGame + 1 \in Nat
      BY <1>0
    <2> QED
      BY <2>1 DEF Announcement, ToOthers, DownMsg
  <1>5. CASE UNCHANGED <<async, sTarget>>
    BY <1>0, <1>1, <1>2, <1>5
  <1>6. CASE ServerStartGame
    <2> DEFINE m1 == [type |-> "PadBuffer", size |-> sTarget]
               m2 == [type |-> "StartGame", game |-> sGame + 1]
    <2>1. async' = async \o <<m1, m2>> /\ sTarget' = sTarget
      BY <1>6 DEF ServerStartGame
    <2>2. Announcement(m1) /\ Announcement(m2)
      BY <1>0, <1>3, <1>4
    <2>3. m1 \in DownMsg /\ m2 \in DownMsg
      BY <2>2, Zenon DEF Announcement
    <2> HIDE DEF m1, m2
    <2>4. ASSUME NEW i \in 1 .. Len(async')
          PROVE  async'[i] = m1 \/ async'[i] = m2 \/ (i \in 1 .. Len(async) /\ async'[i] = async[i])
      BY <1>0, <2>1, <2>3
    <2>5. \A i \in 1 .. Len(async) : async[i] \in DownMsg
      BY <1>0
    <2> QED
      BY <1>0, <1>1, <1>2, <2>1, <2>2, <2>3, <2>4, <2>5
  <1>7. ASSUME NEW size \in Targets, AdjustPadBufferSize(size) PROVE Announced'
    <2> DEFINE m1 == [type |-> "PadBuffer", size |-> size]
    <2>1. async' = Append(async, m1) /\ sTarget' = size
      BY <1>7 DEF AdjustPadBufferSize
    <2>2. Announcement(m1)
      BY <1>3
    <2>3. m1 \in DownMsg
      BY <2>2, Zenon DEF Announcement
    <2> HIDE DEF m1
    <2>4. ASSUME NEW i \in 1 .. Len(async')
          PROVE  async'[i] = m1 \/ (i \in 1 .. Len(async) /\ async'[i] = async[i])
      BY <1>0, <2>1, <2>3
    <2>5. \A i \in 1 .. Len(async) : async[i] \in DownMsg
      BY <1>0
    <2> QED
      BY <1>1, <1>2, <1>7, <2>1, <2>2, <2>3, <2>4, <2>5
  <1>8. CASE ServerDrainAsync
    <2>1. async # <<>> /\ async' = Tail(async) /\ sTarget' = sTarget
      BY <1>8 DEF ServerDrainAsync
    <2>2. ASSUME NEW i \in 1 .. Len(async')
          PROVE  i + 1 \in 1 .. Len(async) /\ async'[i] = async[i + 1] /\ async[i + 1] \in DownMsg
      BY <1>0, <2>1
    <2> QED
      BY <1>0, <1>1, <1>2, <2>1, <2>2
  <1>9. \/ UNCHANGED <<async, sTarget>> \/ ServerDrainAsync \/ ServerStartGame
        \/ \E size \in Targets : AdjustPadBufferSize(size)
    <2>1. CASE UNCHANGED vars
      BY <2>1 DEF vars, serverVars
    <2>2. CASE ServerNext \/ UserNext
      BY <2>2 DEF ServerNext, UserNext, ServerOnData, ServerOnDisconnect, LoseConnection,
           UserStop, serverVars
    <2>3. ASSUME NEW d \in Player, NetNext(d) \/ GuiNext(d) \/ CpuNext(d)
          PROVE  UNCHANGED <<async, sTarget>>
      <3>1. CASE NetNext(d)
        BY <3>1 DEF NetNext, ClientOnData, ClientOnDisconnect, InvokeStopSet, NetPlayDisable,
             DialogStopGame, serverVars
      <3>2. CASE GuiNext(d)
        BY <3>2 DEF GuiNext, GuiStartGame, GuiEnable, GuiBootGame, GuiForceStop, GuiCoreStopped,
             GuiStateChanged, serverVars
      <3>3. CASE CpuNext(d)
        BY <3>3 DEF CpuNext, CpuPoll, CpuPop, CpuEmpty, CpuCheck, CpuWait, CpuPowerDown, serverVars
      <3> QED
        BY <2>3, <3>1, <3>2, <3>3
    <2> QED
      BY <2>1, <2>2, <2>3 DEF Next
  <1> QED
    BY <1>5, <1>6, <1>7, <1>8, <1>9

(* What a step adds to the queue of the server to a client. *)
LEMMA DownMoves ==
  ASSUME TypeOK, Upward, Announced, [Next]_vars, NEW c \in Player
  PROVE  \/ down'[c] = down[c] \/ down'[c] = <<>>
         \/ down[c] # <<>> /\ down'[c] = Tail(down[c])
         \/ \E ms \in Seq(DownMsg) : /\ down'[c] = down[c] \o ms
                                     /\ \A i \in 1 .. Len(ms) : ToOthers(c, ms[i])
  <1> DEFINE Goal ==
         \/ down'[c] = down[c] \/ down'[c] = <<>>
         \/ down[c] # <<>> /\ down'[c] = Tail(down[c])
         \/ \E ms \in Seq(DownMsg) : /\ down'[c] = down[c] \o ms
                                     /\ \A i \in 1 .. Len(ms) : ToOthers(c, ms[i])
  <1> SUFFICES Goal
    OBVIOUS
  <1>0. down \in [Player -> Seq(DownMsg)] /\ async \in Seq(DownMsg) /\ up \in [Player -> Seq(UpMsg)]
        /\ players \subseteq Player
    BY DEF TypeOK, NetTypeOK, ServerTypeOK
  <1>1. CASE down' = down
    BY <1>1
  <1>2. ASSUME NEW ms \in Seq(DownMsg), NEW to, Broadcast(ms, to),
               c \in to => \A i \in 1 .. Len(ms) : ToOthers(c, ms[i])
        PROVE  Goal
    <2>1. down'[c] = down[c] \/ (c \in to /\ down'[c] = down[c] \o ms)
      BY <1>2 DEF Broadcast
    <2> QED
      BY <1>2, <2>1
  <1>3. ASSUME NEW m \in DownMsg, NEW to, Broadcast(<<m>>, to), c \in to => ToOthers(c, m)
        PROVE  Goal
    <2>1. <<m>> \in Seq(DownMsg) /\ Len(<<m>>) = 1 /\ <<m>>[1] = m
      OBVIOUS
    <2>2. c \in to => \A i \in 1 .. Len(<<m>>) : ToOthers(c, <<m>>[i])
      BY <1>3, <2>1
    <2> QED
      BY <1>2, <1>3, <2>1, <2>2
  <1>4. CASE ServerDrainAsync
    <2>1. async # <<>> /\ Broadcast(<<Head(async)>>, players)
      BY <1>4 DEF ServerDrainAsync
    <2>2. Head(async) \in DownMsg /\ Head(async) = async[1] /\ 1 \in 1 .. Len(async)
      BY <1>0, <2>1
    <2>3. ToOthers(c, Head(async))
      BY <2>2 DEF Announced
    <2> QED
      BY <1>3, <2>1, <2>2, <2>3
  <1>5. ASSUME NEW d \in Player, ServerOnData(d) PROVE Goal
    <2>1. /\ up[d] # <<>> /\ Head(up[d]) \in UpMsg /\ Head(up[d]) = up[d][1] /\ 1 \in 1 .. Len(up[d])
      BY <1>0, <1>5 DEF ServerOnData
    <2>2. FromOwner(d, Head(up[d]))
      BY <2>1 DEF Upward
    <2>3. CASE ServerOnPadData(d, Head(up[d]))
      <3>1. Head(up[d]) \in DownMsg /\ Head(up[d]).type = "PadData"
        BY <2>1, <2>3, UpFields DEF ServerOnPadData
      <3>2. c # d => ToOthers(c, Head(up[d]))
        BY <2>2, <3>1 DEF FromOwner, ToOthers
      <3>3. down' = down \/ Broadcast(<<Head(up[d])>>, players \ {d})
        BY <2>3 DEF ServerOnPadData
      <3> QED
        BY <1>1, <1>3, <3>1, <3>2, <3>3
    <2>4. CASE ServerOnStartGame(d, Head(up[d]))
      BY <1>1, <2>4 DEF ServerOnStartGame
    <2>5. CASE ServerOnStopGame(d, Head(up[d]))
      <3>1. down' = down \/ Broadcast(<<[type |-> "StopGame"]>>, players)
        BY <2>5 DEF ServerOnStopGame
      <3>2. [type |-> "StopGame"] \in DownMsg /\ ToOthers(c, [type |-> "StopGame"])
        BY DownMessages DEF ToOthers
      <3> QED
        BY <1>1, <1>3, <3>1, <3>2
    <2> QED
      BY <1>5, <2>3, <2>4, <2>5 DEF ServerOnData
  <1>6. ASSUME NEW d \in Player, ServerOnDisconnect(d) PROVE Goal
    <2> DEFINE own  == {p \in Pad : PadMap[p] = d}
               ends == sRunning /\ own # {} /\ d # 1
               rest == players \ {d}
               m1   == IF ends THEN <<[type |-> "DisableGame"]>> ELSE <<>>
               m2   == IF own # {} THEN <<[type |-> "PadMapping",
                                           map |-> ServerPadMap(rest)]>>
                                   ELSE <<>>
    <2>1. Broadcast(m1 \o m2, rest)
      BY <1>6, Zenon DEF ServerOnDisconnect
    <2>2. \A p \in Pad : ServerPadMap(rest)[p] \in {0, PadMap[p]}
      BY DEF ServerPadMap
    <2>3. rest \in SUBSET Player
      BY <1>0
    <2>4. /\ m1 \in Seq(DownMsg) /\ \A i \in 1 .. Len(m1) : ToOthers(c, m1[i])
      <3>1. [type |-> "DisableGame"] \in DownMsg /\ ToOthers(c, [type |-> "DisableGame"])
        BY DownMessages DEF ToOthers
      <3> QED
        BY <3>1
    <2>5. /\ m2 \in Seq(DownMsg) /\ \A i \in 1 .. Len(m2) : ToOthers(c, m2[i])
      <3> DEFINE m == [type |-> "PadMapping", map |-> ServerPadMap(rest)]
      <3>1. m \in DownMsg
        BY <2>3, DownMessages
      <3>2. m.type = "PadMapping" /\ m.map = ServerPadMap(rest)
        OBVIOUS
      <3>3. ToOthers(c, m)
        BY <2>2, <3>2 DEF ToOthers
      <3>4. m2 = IF own # {} THEN <<m>> ELSE <<>>
        OBVIOUS
      <3> HIDE DEF m, m2, own
      <3> QED
        BY <3>1, <3>3, <3>4
    <2> HIDE DEF own, ends, rest, m1, m2
    <2>6. m1 \o m2 \in Seq(DownMsg) /\ \A i \in 1 .. Len(m1 \o m2) : ToOthers(c, (m1 \o m2)[i])
      <3>1. m1 \o m2 \in Seq(DownMsg)
        BY <2>4, <2>5
      <3>2. ASSUME NEW i \in 1 .. Len(m1 \o m2)
            PROVE  \/ i \in 1 .. Len(m1) /\ (m1 \o m2)[i] = m1[i]
                   \/ i - Len(m1) \in 1 .. Len(m2) /\ (m1 \o m2)[i] = m2[i - Len(m1)]
        BY <2>4, <2>5
      <3> QED
        BY <2>4, <2>5, <3>1, <3>2
    <2> QED
      BY <1>2, <2>1, <2>6
  <1>7. ASSUME NEW d \in Player, LoseConnection(d) \/ ClientOnData(d) PROVE Goal
    BY <1>0, <1>7 DEF LoseConnection, ClientOnData
  <1>8. \/ down' = down \/ ServerDrainAsync
        \/ \E d \in Player : \/ ServerOnData(d) \/ ServerOnDisconnect(d) \/ LoseConnection(d)
                             \/ ClientOnData(d)
    <2>1. CASE UNCHANGED vars
      BY <2>1 DEF vars, netVars
    <2>2. CASE ServerNext \/ UserNext
      BY <2>2 DEF ServerNext, UserNext, ServerStartGame, AdjustPadBufferSize, UserStop, netVars
    <2>3. ASSUME NEW d \in Player, NetNext(d) \/ GuiNext(d) \/ CpuNext(d)
          PROVE  down' = down \/ ClientOnData(d)
      <3>1. CASE NetNext(d)
        BY <3>1 DEF NetNext, ClientOnDisconnect, InvokeStopSet, NetPlayDisable, DialogStopGame,
             netVars
      <3>2. CASE GuiNext(d)
        BY <3>2 DEF GuiNext, GuiStartGame, GuiEnable, GuiBootGame, GuiForceStop, GuiCoreStopped,
             GuiStateChanged, netVars
      <3>3. CASE CpuNext(d)
        BY <3>3 DEF CpuNext, CpuPoll, CpuPop, CpuEmpty, CpuCheck, CpuWait, CpuPowerDown, netVars
      <3> QED
        BY <2>3, <3>1, <3>2, <3>3
    <2> QED
      BY <2>1, <2>2, <2>3 DEF Next
  <1> QED
    BY <1>1, <1>4, <1>5, <1>6, <1>7, <1>8

(* What is on its way to a client was made by others. *)
LEMMA DownwardStep ==
  ASSUME TypeOK, Upward, Announced, Downward, [Next]_vars
  PROVE  Downward'
  <1> SUFFICES ASSUME NEW c \in Player, NEW i \in 1 .. Len(down'[c]) PROVE ToOthers(c, down[c][i])'
    BY DEF Downward
  <1>0. down[c] \in Seq(DownMsg)
        /\ \A j \in 1 .. Len(down[c]) : down[c][j] \in DownMsg /\ ToOthers(c, down[c][j])
    BY DEF TypeOK, NetTypeOK, Downward
  <1>1. \A m \in DownMsg : ToOthers(c, m) => ToOthers(c, m)'
    BY MessagesKeep
  <1>2. ASSUME NEW m \in DownMsg, down'[c][i] = m, ToOthers(c, m) PROVE ToOthers(c, down[c][i])'
    <2>1. ToOthers(c, m)'
      BY <1>1, <1>2
    <2> QED
      BY <1>2, <2>1 DEF ToOthers, AllKnown, Known
  <1>3. ASSUME NEW j \in 1 .. Len(down[c]), down'[c][i] = down[c][j] PROVE ToOthers(c, down[c][i])'
    BY <1>0, <1>2, <1>3
  <1>4. CASE down'[c] = down[c]
    BY <1>3, <1>4
  <1>5. CASE down'[c] = <<>>
    <2>1. Len(down'[c]) = 0
      BY <1>5
    <2> QED
      BY <2>1
  <1>6. CASE down[c] # <<>> /\ down'[c] = Tail(down[c])
    <2>1. i + 1 \in 1 .. Len(down[c]) /\ down'[c][i] = down[c][i + 1]
      BY <1>0, <1>6
    <2> QED
      BY <1>3, <2>1
  <1>7. ASSUME NEW ms \in Seq(DownMsg), down'[c] = down[c] \o ms,
               \A k \in 1 .. Len(ms) : ToOthers(c, ms[k])
        PROVE  ToOthers(c, down[c][i])'
    <2>1. \/ i \in 1 .. Len(down[c]) /\ down'[c][i] = down[c][i]
          \/ i - Len(down[c]) \in 1 .. Len(ms) /\ down'[c][i] = ms[i - Len(down[c])]
      BY <1>0, <1>7
    <2>2. \A k \in 1 .. Len(ms) : ms[k] \in DownMsg
      OBVIOUS
    <2> QED
      BY <1>2, <1>3, <1>7, <2>1, <2>2
  <1> QED
    BY <1>4, <1>5, <1>6, <1>7, DownMoves

----------------------------------------------------------------------------
(* The buffer of a pad at its owner. *)
AheadOf(b, e, m, n, booting) ==
  /\ \A i \in 1 .. Len(b) : InRow(b[i], e, Len(b), m, i)
  /\ \E t \in Targets : Len(b) <= t + 1
  /\ booting \/ m <= n + Len(b)
  /\ \E t \in Targets : m <= n + t + 1

(* Sums and sequences that the next lemmas need. *)
LEMMA RowMoves ==
  ASSUME NEW x \in Input, NEW e \in Nat, NEW z \in Nat, NEW m \in Nat, NEW i \in Nat
  PROVE  /\ \A k \in Nat : InRow(x, e, z, m, i) => InRow(x, e, z + k, m + k, i)
         /\ InRow(x, e, z, m, i + 1) => InRow(x, e, z - 1, m, i)
         /\ x.e = e /\ x.n + z = m + i => InRow(x, e, z, m, i)
  <1>1. x.n \in Nat
    BY DEF Input
  <1> QED
    BY <1>1 DEF InRow

(* The items of two queues in a row. *)
LEMMA JoinedQueues ==
  ASSUME NEW b \in Seq(Input), NEW s \in Seq(Input)
  PROVE  /\ Len(b) \in Nat /\ Len(s) \in Nat /\ Len(b \o s) = Len(b) + Len(s)
         /\ \A i \in 1 .. Len(b \o s) :
              \/ i \in 1 .. Len(b) /\ (b \o s)[i] = b[i] /\ b[i] \in Input
              \/ i - Len(b) \in 1 .. Len(s) /\ (b \o s)[i] = s[i - Len(b)]
  <1>1. Len(b) \in Nat /\ Len(s) \in Nat /\ Len(b \o s) = Len(b) + Len(s)
    OBVIOUS
  <1>2. ASSUME NEW i \in 1 .. Len(b \o s)
        PROVE  \/ i \in 1 .. Len(b) /\ (b \o s)[i] = b[i] /\ b[i] \in Input
               \/ i - Len(b) \in 1 .. Len(s) /\ (b \o s)[i] = s[i - Len(b)]
    <2>1. CASE i <= Len(b)
      BY <2>1
    <2>2. CASE i > Len(b)
      BY <2>2
    <2> QED
      BY <2>1, <2>2
  <1> QED
    BY <1>1, <1>2

(* It is polled, ... *)
LEMMA AheadPoll ==
  ASSUME NEW b \in Seq(Input), NEW e \in Nat, NEW m \in Nat, NEW n \in Nat,
         AheadOf(b, e, m, n, FALSE),
         NEW s \in Seq(Input), NEW k \in Nat, Len(s) = k,
         \A i \in 1 .. k : s[i].e = e /\ s[i].n = m + i,
         k = 0 \/ \E t \in Targets : Len(b) + k = t + 1
  PROVE  AheadOf(b \o s, e, m + k, n, FALSE)
  <1> DEFINE z == Len(b)
             r == b \o s
  <1>1. z \in Nat /\ Len(r) = z + k
    BY JoinedQueues
  <1>2. \A i \in 1 .. Len(r) : \/ i \in 1 .. z /\ r[i] = b[i] /\ b[i] \in Input
                               \/ i - z \in 1 .. k /\ r[i] = s[i - z]
    BY JoinedQueues
  <1>3. \A i \in 1 .. z : InRow(b[i], e, z, m, i)
    BY DEF AheadOf
  <1>4. \E t \in Targets : z + k <= t + 1
    BY <1>1, TargetAssumption DEF AheadOf
  <1>5. m <= n + z
    BY DEF AheadOf
  <1> HIDE DEF z, r
  <1>6. ASSUME NEW i \in 1 .. Len(r) PROVE InRow(r[i], e, z + k, m + k, i)
    <2>0. i \in Nat /\ m + k \in Nat /\ z + k \in Nat
      BY <1>1
    <2>1. CASE i \in 1 .. z /\ r[i] = b[i] /\ b[i] \in Input
      <3>1. InRow(b[i], e, z, m, i)
        BY <1>3, <2>1
      <3>2. InRow(b[i], e, z + k, m + k, i)
        BY <1>1, <2>0, <2>1, <3>1, RowMoves, Zenon
      <3> QED
        BY <2>1, <3>2
    <2>2. CASE i - z \in 1 .. k /\ r[i] = s[i - z]
      <3>1. r[i].e = e /\ r[i].n = m + (i - z) /\ r[i] \in Input
        BY <1>1, <2>2
      <3>2. r[i].n + (z + k) = (m + k) + i
        BY <1>1, <2>0, <3>1
      <3> QED
        BY <2>0, <3>1, <3>2, RowMoves, Zenon
    <2> QED
      BY <1>2, <2>1, <2>2
  <1>7. m + k <= n + Len(r)
    BY <1>1, <1>5
  <1>8. \E t \in Targets : m + k <= n + t + 1
    BY <1>1, <1>4, <1>7, TargetAssumption
  <1>9. \E t \in Targets : Len(r) <= t + 1
    BY <1>1, <1>4
  <1> QED
    BY <1>1, <1>6, <1>7, <1>8, <1>9 DEF AheadOf, r

(* ... popped, ... *)
LEMMA AheadPop ==
  ASSUME NEW b \in Seq(Input), NEW e \in Nat, NEW m \in Nat, NEW n \in Nat,
         AheadOf(b, e, m, n, FALSE), b # <<>>
  PROVE  AheadOf(Tail(b), e, m, Head(b).n, FALSE)
  <1> DEFINE z == Len(b)
             r == Tail(b)
             h == Head(b).n
  <1>1. /\ z \in Nat /\ z # 0 /\ Len(r) = z - 1 /\ 1 \in 1 .. z /\ Head(b) = b[1]
        /\ \A i \in 1 .. Len(r) : i + 1 \in 1 .. z /\ r[i] = b[i + 1]
        /\ \A i \in 1 .. z : b[i] \in Input /\ b[i].n \in Nat
    <2>1. z \in Nat /\ z # 0 /\ Len(r) = z - 1 /\ Head(b) = b[1] /\ \A i \in 1 .. z : b[i] \in Input
      OBVIOUS
    <2>2. \A i \in 1 .. Len(b) - 1 : Tail(b)[i] = b[i + 1]
      OBVIOUS
    <2>3. \A i \in 1 .. z : b[i].n \in Nat
      BY <2>1 DEF Input
    <2>4. \A i \in 1 .. z - 1 : i + 1 \in 1 .. z
      BY <2>1
    <2>5. 1 \in 1 .. z
      BY <2>1
    <2> QED
      BY <2>1, <2>2, <2>3, <2>4, <2>5
  <1>2. \A i \in 1 .. z : InRow(b[i], e, z, m, i)
    BY DEF AheadOf
  <1>3. PICK t \in Targets : z <= t + 1
    BY DEF AheadOf
  <1>4. t \in Nat
    BY TargetAssumption
  <1>5. h = b[1].n /\ h \in Nat
    BY <1>1
  <1> HIDE DEF z, r, h
  <1>6. ASSUME NEW i \in 1 .. Len(r) PROVE InRow(r[i], e, z - 1, m, i)
    <2>1. i + 1 \in 1 .. z /\ r[i] = b[i + 1] /\ b[i + 1] \in Input /\ i \in Nat
      BY <1>1
    <2>2. InRow(b[i + 1], e, z, m, i + 1)
      BY <1>2, <2>1
    <2> QED
      BY <1>1, <2>1, <2>2, RowMoves, Zenon
  <1>7. m <= h + Len(r)
    <2>1. IF b[1].e = e THEN h + z = m + 1 ELSE m + 1 <= z
      BY <1>1, <1>2, <1>5 DEF InRow
    <2> QED
      BY <1>1, <1>5, <2>1
  <1>8. Len(r) <= t + 1 /\ m <= h + t + 1
    BY <1>1, <1>3, <1>4, <1>5, <1>7
  <1> QED
    BY <1>1, <1>6, <1>7, <1>8 DEF AheadOf, r, h

(* ... cleared by ClearBuffers, and left over when a new emulation boots. *)
LEMMA AheadClear ==
  ASSUME NEW b \in Seq(Input), NEW e \in Nat, NEW m \in Nat, NEW n \in Nat, NEW booting,
         AheadOf(b, e, m, n, booting)
  PROVE  AheadOf(<<>>, e, m, n, TRUE)
  <1>1. \E t \in Targets : Len(<<>>) <= t + 1
    <2>1. PICK t \in Targets : t \in Nat
      BY TargetAssumption
    <2>2. Len(<<>>) <= t + 1
      BY <2>1
    <2> QED
      BY <2>2
  <1>2. Len(<<>>) = 0
    OBVIOUS
  <1> QED
    BY <1>1, <1>2 DEF AheadOf

(* An emulation that boots finds only inputs of earlier ones. *)
LEMMA AheadBoot ==
  ASSUME NEW b \in Seq(Input), NEW e \in Nat, NEW m \in Nat, NEW n \in Nat, NEW booting,
         AheadOf(b, e, m, n, booting), \A i \in 1 .. Len(b) : b[i].e <= e
  PROVE  AheadOf(b, e + 1, 0, 0, FALSE)
  <1>1. \A i \in 1 .. Len(b) : b[i] \in Input
    OBVIOUS
  <1>2. \A i \in 1 .. Len(b) : b[i].e \in Nat
    BY <1>1 DEF Input
  <1>3. \E t \in Targets : 0 <= 0 + t + 1
    <2>1. PICK t \in Targets : t \in Nat
      BY TargetAssumption
    <2>2. 0 <= 0 + t + 1
      BY <2>1
    <2> QED
      BY <2>2
  <1>4. \A i \in 1 .. Len(b) : b[i].e # e + 1
    BY <1>2
  <1>5. \A i \in 1 .. Len(b) : 0 + i <= Len(b)
    OBVIOUS
  <1>6. 0 <= 0 + Len(b)
    OBVIOUS
  <1> QED
    BY <1>3, <1>4, <1>5, <1>6 DEF AheadOf, InRow

(* A client once told to stop too early is remembered. *)
LEMMA MissedGrows ==
  ASSUME [Next]_vars
  PROVE  missed \subseteq missed'
  <1>1. CASE UNCHANGED vars
    BY <1>1 DEF vars, history
  <1>2. CASE ServerNext \/ UserNext
    BY <1>2 DEF ServerNext, UserNext, ServerDrainAsync, ServerOnData, ServerOnDisconnect,
           ServerStartGame, AdjustPadBufferSize, LoseConnection, UserStop, history
  <1>3. ASSUME NEW d \in Player, NetNext(d) PROVE missed \subseteq missed'
    BY <1>3 DEF NetNext, ClientOnData, OnPadBuffer, OnPadMapping, OnPadData, OnStartGame,
         OnStopGame, ClientOnDisconnect, InvokeStopSet, NetPlayDisable, DialogStopGame, history
  <1>4. ASSUME NEW d \in Player, GuiNext(d) PROVE missed \subseteq missed'
    BY <1>4 DEF GuiNext, GuiStartGame, GuiEnable, GuiBootGame, GuiForceStop, GuiCoreStopped,
           GuiStateChanged, history
  <1>5. ASSUME NEW d \in Player, CpuNext(d) PROVE missed \subseteq missed'
    BY <1>5 DEF CpuNext, CpuPoll, CpuPop, CpuEmpty, CpuCheck, CpuWait, CpuPowerDown, history
  <1> QED
    BY <1>1, <1>2, <1>3, <1>4, <1>5 DEF Next

(* The owner is never further ahead of itself than its buffer allows. *)
LEMMA DelayedStep ==
  ASSUME TypeOK, Orderly, Downward, AtClients, Delayed, [Next]_vars
  PROVE  Delayed'
  <1> SUFFICES ASSUME missed' = {}, NEW p \in Pad PROVE Ahead(p)'
    BY DEF Delayed
  <1> DEFINE c == PadMap[p]
  <1>0. c \in Player /\ missed = {}
    BY PadAssumption, MissedGrows
  <1>1. /\ buf[c][p] \in Seq(Input) /\ emu[c] \in Nat /\ made[c][p] \in Nat
        /\ last[c][p] \in Input /\ last[c][p].n \in Nat
        /\ c \in DOMAIN buf /\ p \in DOMAIN buf[c] /\ c \in DOMAIN last /\ p \in DOMAIN last[c]
        /\ c \in DOMAIN made /\ p \in DOMAIN made[c] /\ c \in DOMAIN emu /\ c \in DOMAIN gui
    BY <1>0 DEF TypeOK, ClientTypeOK, EmuTypeOK, ThreadTypeOK, Input
  <1>2. AheadOf(buf[c][p], emu[c], made[c][p], last[c][p].n, gui[c] = "boot")
    BY <1>0 DEF Delayed, Ahead, AheadOf
  <1>3. Ahead(p)' <=> AheadOf(buf'[c][p], emu'[c], made'[c][p], last'[c][p].n, gui'[c] = "boot")
    BY DEF Ahead, AheadOf
  <1>4. OrderlyAt(c)
    BY <1>0, OrderlyParts
  <1>5. ASSUME NEW b, NEW e, NEW m, NEW n, AheadOf(b, e, m, n, FALSE), NEW x
        PROVE  AheadOf(b, e, m, n, x)
    BY <1>5 DEF AheadOf
  <1>6. ASSUME buf'[c][p] = buf[c][p], emu'[c] = emu[c], made'[c][p] = made[c][p],
               last'[c][p] = last[c][p], gui[c] = "boot" => gui'[c] = "boot"
        PROVE  Ahead(p)'
    <2>1. AheadOf(buf[c][p], emu[c], made[c][p], last[c][p].n, gui'[c] = "boot")
      BY <1>2, <1>6 DEF AheadOf
    <2> QED
      BY <1>3, <1>6, <2>1
  <1>7. CASE CpuPoll(c)
    <2>1. /\ cpu[c] # "off" /\ last' = last /\ emu' = emu /\ gui' = gui
      BY <1>7 DEF CpuPoll
    <2>2. gui[c] # "boot"
      BY <1>4, <2>1 DEF OrderlyAt, InStartGame
    <2>3. CASE UNCHANGED <<buf, made>>
      BY <1>6, <2>1, <2>3
    <2>4. CASE ~UNCHANGED <<buf, made>>
      <3>1. /\ buf' = [buf EXCEPT ![c] = [q \in Pad |-> buf[c][q] \o PollLocalPad(c, q)]]
            /\ made' = [made EXCEPT ![c] = [q \in Pad |-> made[c][q] + Pushes(c, q)]]
        BY <1>7, <2>4 DEF CpuPoll
      <3>2. buf'[c][p] = buf[c][p] \o PollLocalPad(c, p)
        BY <1>1, <3>1
      <3>3. made'[c][p] = made[c][p] + Pushes(c, p)
        BY <1>1, <3>1
      <3>4. /\ PollLocalPad(c, p) \in Seq(Input) /\ Pushes(c, p) \in Nat
            /\ Len(PollLocalPad(c, p)) = Pushes(c, p)
            /\ \A i \in 1 .. Pushes(c, p) :
                 PollLocalPad(c, p)[i] = [e |-> emu[c], g |-> egame[c], n |-> made[c][p] + i]
        BY <1>0, PollKnown
      <3>5. \A i \in 1 .. Pushes(c, p) : PollLocalPad(c, p)[i].e = emu[c]
                                         /\ PollLocalPad(c, p)[i].n = made[c][p] + i
        <4>1. \A i \in 1 .. Pushes(c, p) :
                /\ [e |-> emu[c], g |-> egame[c], n |-> made[c][p] + i].e = emu[c]
                /\ [e |-> emu[c], g |-> egame[c], n |-> made[c][p] + i].n = made[c][p] + i
          OBVIOUS
        <4> QED
          BY <3>4, <4>1, Zenon
      <3>6. Pushes(c, p) = 0 \/ \E t \in Targets : Len(buf[c][p]) + Pushes(c, p) = t + 1
        <4>1. target[c] \in Targets /\ target[c] \in Nat
          BY <1>0, TargetAssumption DEF AtClients
        <4>2. CASE Pushes(c, p) # 0
          <5>1. Pushes(c, p) = target[c] + 1 - Len(buf[c][p])
            BY <4>2 DEF Pushes
          <5>2. Len(buf[c][p]) \in Nat
            BY <1>1
          <5>3. Len(buf[c][p]) + Pushes(c, p) = target[c] + 1
            BY <4>1, <5>1, <5>2
          <5> QED
            BY <4>1, <5>3
        <4> QED
          BY <4>2
      <3>7. AheadOf(buf[c][p], emu[c], made[c][p], last[c][p].n, FALSE)
        BY <1>2, <2>2 DEF AheadOf
      <3> HIDE DEF c
      <3>8. AheadOf(buf[c][p] \o PollLocalPad(c, p), emu[c], made[c][p] + Pushes(c, p),
                    last[c][p].n, FALSE)
        BY <1>1, <3>4, <3>5, <3>6, <3>7, AheadPoll
      <3>9. AheadOf(buf'[c][p], emu'[c], made'[c][p], last'[c][p].n, FALSE)
        BY <2>1, <3>2, <3>3, <3>8
      <3> QED
        BY <1>3, <1>5, <3>9
    <2> QED
      BY <2>3, <2>4
  <1>8. CASE CpuPop(c)
    <2>1. cpu[c] # "off" /\ emu' = emu /\ made' = made /\ gui' = gui
      BY <1>8 DEF CpuPop
    <2>2. gui[c] # "boot"
      BY <1>4, <2>1 DEF OrderlyAt, InStartGame
    <2>3. CASE pad[c] = p
      <3>1. /\ buf[c][p] # <<>> /\ last'[c][p] = Head(buf[c][p]) /\ buf'[c][p] = Tail(buf[c][p])
        BY <1>1, <1>8, <2>3 DEF CpuPop
      <3>2. AheadOf(buf[c][p], emu[c], made[c][p], last[c][p].n, FALSE)
        BY <1>2, <2>2 DEF AheadOf
      <3> HIDE DEF c
      <3>3. AheadOf(Tail(buf[c][p]), emu[c], made[c][p], Head(buf[c][p]).n, FALSE)
        BY <1>1, <3>1, <3>2, AheadPop
      <3>4. AheadOf(buf'[c][p], emu'[c], made'[c][p], last'[c][p].n, FALSE)
        BY <2>1, <3>1, <3>3
      <3> QED
        BY <1>3, <1>5, <3>4
    <2>4. CASE pad[c] # p
      <3>1. last'[c][p] = last[c][p] /\ buf'[c][p] = buf[c][p]
        BY <1>1, <1>8, <2>4 DEF CpuPop
      <3> QED
        BY <1>6, <2>1, <3>1
    <2> QED
      BY <2>3, <2>4
  <1>9. CASE GuiEnable(c)
    <2>1. /\ buf'[c][p] = <<>> /\ gui'[c] = "boot" /\ UNCHANGED <<emu, made, last>>
      BY <1>1, <1>9 DEF GuiEnable, emuVars
    <2> HIDE DEF c
    <2>2. AheadOf(<<>>, emu[c], made[c][p], last[c][p].n, TRUE)
      BY <1>1, <1>2, AheadClear
    <2>3. AheadOf(buf'[c][p], emu'[c], made'[c][p], last'[c][p].n, gui'[c] = "boot")
      BY <2>1, <2>2 DEF AheadOf
    <2> QED
      BY <1>3, <2>3
  <1>10. CASE Receives(c)
    <2>1. buf'[c][p] = buf[c][p] \o Head(down[c]).data[p] /\ UNCHANGED <<emu, made, last, gui>>
      BY <1>1, <1>10 DEF Receives
    <2>2. ToOthers(c, Head(down[c])) /\ Head(down[c]).type = "PadData"
      BY <1>0, <1>10, NextMessage DEF Receives
    <2>3. Head(down[c]).data[p] = <<>>
      BY <2>2 DEF ToOthers
    <2>4. buf'[c][p] = buf[c][p]
      <3>1. \A s \in Seq(Input) : s \o <<>> = s
        OBVIOUS
      <3> QED
        BY <1>1, <2>1, <2>3, <3>1, Zenon
    <2> QED
      BY <1>6, <2>1, <2>4
  <1>11. CASE Boots(c)
    <2>1. /\ buf'[c][p] = buf[c][p] /\ emu'[c] = emu[c] + 1 /\ made'[c][p] = 0
          /\ last'[c][p] = NoInput
      BY <1>1, <1>11 DEF Boots, Boot
    <2>2. \A i \in 1 .. Len(buf[c][p]) : buf[c][p][i].e <= emu[c]
      BY <1>0 DEF AtClients, AllKnown, Known
    <2>3. NoInput.n = 0
      BY DEF NoInput
    <2> HIDE DEF c
    <2>4. AheadOf(buf[c][p], emu[c] + 1, 0, 0, FALSE)
      BY <1>1, <1>2, <2>2, AheadBoot
    <2>5. AheadOf(buf'[c][p], emu'[c], made'[c][p], last'[c][p].n, FALSE)
      BY <2>1, <2>3, <2>4
    <2> QED
      BY <1>3, <1>5, <2>5
  <1>12. CASE Still(c)
    <2>1. gui[c] = "boot" => cpu[c] = "off"
      BY <1>4 DEF OrderlyAt, InStartGame
    <2> QED
      BY <1>6, <1>12, <2>1 DEF Still
  <1> QED
    BY <1>0, <1>7, <1>8, <1>9, <1>10, <1>11, <1>12, InputMoves

----------------------------------------------------------------------------
(* What the delay of an input rests on. *)
DelayInv == Orderly /\ Upward /\ Downward /\ Announced /\ AtClients /\ Delayed

(* It holds at first, ... *)
LEMMA DelayInit == Init => DelayInv
  <1> SUFFICES ASSUME Init PROVE DelayInv
    OBVIOUS
  <1>1. Orderly
    BY DEF Init, Orderly, StartUnderway, InStartGame
  <1>2. Upward /\ Downward
    BY DEF Init, Upward, Downward
  <1>3. Announced
    BY DEF Init, Announced
  <1>4. PadMap \in [Pad -> Player]
    BY PadAssumption
  <1>5. AtClients
    <2> SUFFICES ASSUME NEW c \in Player
                 PROVE  /\ target[c] \in Targets
                        /\ \A p \in Pad : /\ padMap[c][p] \in {0, PadMap[p]}
                                          /\ AllKnown(p, buf[c][p]) /\ Known(p, last[c][p])
      BY DEF AtClients
    <2>1. target[c] \in Targets
      BY DEF Init
    <2>2. ASSUME NEW p \in Pad
          PROVE  /\ padMap[c][p] \in {0, PadMap[p]}
                 /\ AllKnown(p, buf[c][p]) /\ Known(p, last[c][p])
      <3>1. /\ padMap[c][p] = PadMap[p] /\ buf[c][p] = <<>> /\ last[c][p] = NoInput
            /\ emu[PadMap[p]] = 0 /\ made[PadMap[p]][p] = 0
        BY <1>4 DEF Init
      <3> QED
        BY <3>1 DEF AllKnown, Known, NoInput
    <2> QED
      BY <2>1, <2>2
  <1>6. Delayed
    <2> SUFFICES ASSUME NEW p \in Pad PROVE Ahead(p)
      BY DEF Delayed
    <2>1. /\ buf[PadMap[p]][p] = <<>> /\ last[PadMap[p]][p] = NoInput
          /\ emu[PadMap[p]] = 0 /\ made[PadMap[p]][p] = 0
      BY <1>4 DEF Init
    <2>2. NoInput.n = 0 /\ Len(<<>>) = 0
      BY DEF NoInput
    <2>3. PICK t \in Targets : t \in Nat
      BY TargetAssumption
    <2>4. 0 <= t + 1 /\ 0 <= 0 + t + 1 /\ 0 <= 0 + 0
      BY <2>3
    <2> QED
      BY <2>1, <2>2, <2>4 DEF Ahead
  <1> QED
    BY <1>1, <1>2, <1>3, <1>5, <1>6 DEF DelayInv

(* ... and every step preserves it. *)
LEMMA DelayStep ==
  ASSUME TypeOK, DelayInv, [Next]_vars
  PROVE  DelayInv'
  BY OrderlyStep, UpwardStep, DownwardStep, AnnouncedStep, AtClientsStep, DelayedStep DEF DelayInv

(* An input that anybody has consumed was made, so it is at most as far    *)
(* ahead of the owner's last input as the owner's buffer is.               *)
LEMMA DelayFollows == TypeOK /\ DelayInv => InputDelayBounded
  <1> SUFFICES ASSUME TypeOK, DelayInv, NEW c \in Player, NEW p \in Pad, missed = {},
                      last[c][p].e = emu[PadMap[p]]
               PROVE  \E t \in Targets : last[c][p].n <= last[PadMap[p]][p].n + t + 1
    BY DEF InputDelayBounded
  <1> DEFINE own == PadMap[p]
  <1>1. own \in Player
    BY PadAssumption
  <1>2. last[c][p].n \in Nat /\ made[own][p] \in Nat /\ last[own][p].n \in Nat
    BY <1>1 DEF TypeOK, EmuTypeOK, Input
  <1>3. last[c][p].n <= made[own][p]
    BY DEF DelayInv, AtClients, Known
  <1>4. PICK t \in Targets : made[own][p] <= last[own][p].n + t + 1
    BY DEF DelayInv, Delayed, Ahead
  <1>5. t \in Nat
    BY TargetAssumption
  <1> HIDE DEF own
  <1>6. last[c][p].n <= last[own][p].n + t + 1
    BY <1>2, <1>3, <1>4, <1>5
  <1> QED
    BY <1>6 DEF own

(* However the host changes the buffer size while games run, are stopped   *)
(* and start again, no client consumes an input further ahead of the       *)
(* owner's own than one more than a buffer size that may be chosen, for    *)
(* any number of players and pads: unless a stop overtook a start.         *)
THEOREM DelayIsBounded == Spec => []InputDelayBounded
<1>1. Init => DelayInv
  BY DelayInit
<1>2. TypeOK /\ DelayInv /\ [Next]_vars => DelayInv'
  BY DelayStep
<1>3. TypeOK /\ DelayInv => InputDelayBounded
  BY DelayFollows
<1>4. QED  BY <1>1, <1>2, <1>3, TypeCorrect, PTL DEF Spec

==============================================================================
