------------------------- MODULE NetPlaySyncProofs -------------------------
(***************************************************************************)
(* Proofs about NetPlaySync, for every set of players, every number of     *)
(* saves and every number of starts, aborts, failures and leaves: the      *)
(* Chunked Data thread never sleeps with work to do, every variable keeps  *)
(* its type, and until the first abort a game that waits for a sync begins *)
(* with the saves of this very start.                                      *)
(***************************************************************************)
EXTENDS NetPlaySync, FiniteSetTheorems, SequenceTheorems, TLAPS

(* What a guest answers. *)
Said == {"SaveSuccess", "SaveFailure", "CodesSuccess"}

(* What the argument needs of the other threads' variables. *)
Context ==
  /\ players \in SUBSET Player
  /\ joining \in Player \cup {0}
  /\ attempt \in Nat

(* The inductive invariant.  An abort is always announced on the event the *)
(* thread waits for when it is idle, unless the thread is handling it;     *)
(* without that, a thread that leaves its loop because of the abort could  *)
(* go to sleep on a full queue.                                            *)
AbortSignalled == abort => cev \/ ct = "clear"

ChunkInv == Context /\ ChunkTypeOK /\ AbortSignalled /\ ChunkThreadAwake

(* The number of guests is a natural number. *)
LEMMA GuestCount ==
  ASSUME Context
  PROVE  Cardinality(Guests) \in Nat
<1>1. Guests \subseteq Player
  BY DEF Context, Guests
<1>2. IsFiniteSet(Guests)
  BY <1>1, PlayerAssumption, FS_Subset
<1>3. QED  BY <1>2, FS_CardinalityType

(* The entries SyncSaveData queues: none without saves. *)
LEMMA QueuedEntries ==
  ASSUME NEW n \in Nat, ChunkTypeOK, attempt \in Nat,
         cq' = cq \o [s \in 1 .. n |-> [save |-> s, attempt |-> attempt]]
  PROVE  /\ cq' \in Seq(Entry)
         /\ n = 0 => cq' = cq
         /\ cq # <<>> => cq' # <<>>
<1> DEFINE new == [s \in 1 .. n |-> [save |-> s, attempt |-> attempt]]
<1>1. new \in Seq(Entry)
  BY DEF Entry
<1>2. n = 0 => new = <<>>
  OBVIOUS
<1> HIDE DEF new
<1>3. cq' = cq \o new
  BY DEF new
<1>4. cq \in Seq(Entry)
  BY DEF ChunkTypeOK
<1>5. cq' \in Seq(Entry)
  BY <1>1, <1>3, <1>4, ConcatProperties
<1>6. n = 0 => cq' = cq
  BY <1>2, <1>3, <1>4
<1>7. cq # <<>> => cq' # <<>>
  BY <1>1, <1>3, <1>4
<1>8. QED  BY <1>5, <1>6, <1>7

(* The invariant holds at first. *)
LEMMA ChunkInit == Init => ChunkInv
<1> SUFFICES ASSUME Init PROVE ChunkInv
  OBVIOUS
<1>1. Context
  BY DEF Init, Context
<1>2. ChunkTypeOK
  <2>1. cq \in Seq(Entry)
    BY EmptySeq DEF Init
  <2>2. complete \in Nat \cup {-1}
    BY DEF Init
  <2>3. cev \in BOOLEAN /\ compev \in BOOLEAN /\ abort \in BOOLEAN
    BY DEF Init
  <2>4. QED  BY <2>1, <2>2, <2>3 DEF Init, ChunkTypeOK
<1>3. AbortSignalled /\ ChunkThreadAwake
  BY DEF Init, AbortSignalled, ChunkThreadAwake, Sending
<1>4. QED  BY <1>1, <1>2, <1>3 DEF ChunkInv

(* A step that changes none of this keeps it. *)
LEMMA ChunkSame ==
  ChunkInv /\ UNCHANGED <<players, joining, attempt, chunkVars, flagVars>>
    => ChunkInv'
BY DEF ChunkInv, Context, ChunkTypeOK, AbortSignalled, ChunkThreadAwake, Sending,
       chunkVars, flagVars

(* ChunkedDataAbort sets the flag and both events. *)
LEMMA ChunkAborts ==
  ASSUME ChunkInv, ChunkedDataAbort, UNCHANGED chunkVars, Context'
  PROVE  ChunkInv'
BY DEF ChunkInv, ChunkedDataAbort, ChunkTypeOK, AbortSignalled, ChunkThreadAwake,
       Sending, chunkVars

(* SyncSaveData queues entries and sets the event, if it queues any. *)
LEMMA ChunkQueues ==
  ASSUME NEW n \in Nat, ChunkInv, SyncSaveData(n),
         UNCHANGED <<players, joining, attempt, ct, cid, complete, pcount, compev,
                     abort>>
  PROVE  ChunkInv'
<1>1. /\ cq' \in Seq(Entry)
      /\ n = 0 => cq' = cq
      /\ cq # <<>> => cq' # <<>>
  BY QueuedEntries DEF SyncSaveData, ChunkInv, Context
<1>2. cev' \in BOOLEAN /\ (cev => cev') /\ (n # 0 => cev')
  <2>1. cev' = (cev \/ n > 0)
    BY DEF SyncSaveData
  <2>2. CASE n > 0
    BY <2>1, <2>2
  <2>3. CASE ~(n > 0)
    BY <2>1, <2>3 DEF ChunkInv, ChunkTypeOK
  <2>4. QED  BY <2>2, <2>3
<1>3. Context' /\ ChunkTypeOK' /\ AbortSignalled'
  BY <1>1, <1>2 DEF ChunkInv, Context, ChunkTypeOK, AbortSignalled
<1>4. ChunkThreadAwake'
  BY <1>1, <1>2 DEF ChunkInv, ChunkTypeOK, ChunkThreadAwake, Sending
<1>5. QED  BY <1>3, <1>4 DEF ChunkInv

(* The GUI thread: it queues entries, or aborts. *)
LEMMA ChunkGui ==
  ASSUME ChunkInv,
         GuiThread \/ AbortGameStart \/ EndGame
           \/ (\E n \in 0 .. (Saves - 1) : RequestSavesFails(n))
           \/ (\E saves, cds \in BOOLEAN : PressStart(saves, cds))
  PROVE  ChunkInv'
<1>1. CASE \E saves, cds \in BOOLEAN : PressStart(saves, cds)
  BY <1>1
  DEF PressStart, ChunkInv, Context, ChunkTypeOK, AbortSignalled,
      ChunkThreadAwake, Sending, chunkVars, flagVars, sessVars
<1>2. CASE RequestSaves
  <2>1. CASE want.saves /\ Guests # {}
    BY <1>2, <2>1, SavesAssumption, ChunkQueues
    DEF RequestSaves, sessVars, pressVars
  <2>2. CASE ~(want.saves /\ Guests # {})
    BY <1>2, <2>2, ChunkSame
    DEF RequestSaves, chunkVars, flagVars, sessVars, pressVars
  <2>3. QED  BY <2>1, <2>2
<1>3. CASE RequestCodes \/ RequestNow \/ GuiEnableOptions \/ EndGame
  BY <1>3, ChunkSame
  DEF RequestCodes, RequestNow, GuiEnableOptions, EndGame, sessVars, pressVars
<1>4. CASE AbortGameStart
  BY <1>4, ChunkAborts
  DEF AbortGameStart, ChunkInv, Context, sessVars, pressVars
<1>5. ASSUME NEW n \in 0 .. (Saves - 1), RequestSavesFails(n) PROVE ChunkInv'
  <2>1. n \in Nat
    BY SavesAssumption
  <2>2. QED
    BY <1>5, <2>1, ChunkQueues DEF RequestSavesFails, sessVars, pressVars
<1>6. QED  BY <1>1, <1>2, <1>3, <1>4, <1>5 DEF GuiThread

(* The NETPLAY thread: answers, joins and leaves. *)
LEMMA ChunkNet ==
  ASSUME ChunkInv,
         ServerNet \/ (\E c \in Guest : OnConnect(c) \/ OnDisconnect(c))
  PROVE  ChunkInv'
<1>1. CASE DrainAsync \/ FailureClearsPending
  BY <1>1, ChunkSame
  DEF DrainAsync, FailureClearsPending, sessVars, guiVars, pressVars
<1>2. CASE OnConnectAdd
  <2>1. Context'
    BY <1>2 DEF OnConnectAdd, ChunkInv, Context, guiVars, pressVars
  <2>2. QED
    BY <1>2, <2>1
    DEF OnConnectAdd, ChunkInv, ChunkTypeOK, AbortSignalled, ChunkThreadAwake,
        Sending, chunkVars, flagVars
<1>3. ASSUME NEW c \in Guest, OnConnect(c) PROVE ChunkInv'
  <2>1. Context'
    BY <1>3 DEF OnConnect, ChunkInv, Context, Guest, guiVars, pressVars
  <2>2. QED
    BY <1>3, <2>1
    DEF OnConnect, ChunkInv, ChunkTypeOK, AbortSignalled, ChunkThreadAwake,
        Sending, chunkVars, flagVars
<1>4. ASSUME NEW c \in Guest, OnDisconnect(c) PROVE ChunkInv'
  <2>1. Context' /\ UNCHANGED chunkVars
    BY <1>4 DEF OnDisconnect, ChunkInv, Context, guiVars, pressVars
  <2>2. CASE pending
    BY <1>4, <2>1, <2>2, ChunkAborts DEF OnDisconnect
  <2>3. CASE ~pending
    <3>1. UNCHANGED flagVars
      BY <1>4, <2>3 DEF OnDisconnect
    <3>2. QED
      BY <2>1, <3>1
      DEF ChunkInv, ChunkTypeOK, AbortSignalled, ChunkThreadAwake, Sending,
          chunkVars, flagVars
  <2>4. QED  BY <2>2, <2>3
<1>5. ASSUME NEW c \in Guest, OnAnswer(c) PROVE ChunkInv'
  <2>1. Context' /\ UNCHANGED <<players, joining, attempt, chunkVars>>
    BY <1>5 DEF OnAnswer, ChunkInv, Context, guiVars, pressVars
  <2>2. CASE OnSaveSuccess \/ OnCodesSuccess
    BY <2>1, <2>2, ChunkSame DEF OnSaveSuccess, OnCodesSuccess
  <2>3. CASE OnSaveFailure
    BY <2>1, <2>3, ChunkAborts DEF OnSaveFailure
  <2>4. QED  BY <1>5, <2>2, <2>3 DEF OnAnswer
<1>6. ASSUME NEW c \in Guest, OnChunkedDataComplete(c) PROVE ChunkInv'
  <2>1. Context'
    BY <1>6 DEF OnChunkedDataComplete, ChunkInv, Context, sessVars, guiVars,
                pressVars
  <2>2. UNCHANGED <<ct, cq, cid, pcount, cev, abort>>
    BY <1>6 DEF OnChunkedDataComplete
  <2>3. CASE complete >= 0 /\ Head(completes[c]) = cid
    <3>1. complete' = complete + 1 /\ compev' = TRUE
      BY <1>6, <2>3 DEF OnChunkedDataComplete
    <3>2. QED
      BY <2>1, <2>2, <2>3, <3>1
      DEF ChunkInv, ChunkTypeOK, AbortSignalled, ChunkThreadAwake, Sending
  <2>4. CASE ~(complete >= 0 /\ Head(completes[c]) = cid)
    <3>1. UNCHANGED <<complete, compev>>
      BY <1>6, <2>4 DEF OnChunkedDataComplete
    <3>2. QED
      BY <2>1, <2>2, <3>1
      DEF ChunkInv, ChunkTypeOK, AbortSignalled, ChunkThreadAwake, Sending
  <2>5. QED  BY <2>3, <2>4
<1>7. QED  BY <1>1, <1>2, <1>3, <1>4, <1>5, <1>6 DEF ServerNet

(* The Chunked Data thread itself. *)
LEMMA ChunkOwn ==
  ASSUME ChunkInv, ChunkThread
  PROVE  ChunkInv'
<1>0. Context'
  BY DEF ChunkThread, ChunkedDataWake, ChunkedDataClear, ChunkedDataStart,
         ChunkedDataSend, ChunkedDataEnd, ChunkedDataCheck, ChunkedDataWait,
         ChunkInv, Context, sessVars, guiVars, pressVars
<1> USE <1>0 DEF ChunkInv, ChunkTypeOK, AbortSignalled, ChunkThreadAwake, Sending
<1>1. CASE ChunkedDataWake
  BY <1>1 DEF ChunkedDataWake
<1>2. CASE ChunkedDataClear
  <2>1. cq' \in Seq(Entry)
    BY <1>2, EmptySeq DEF ChunkedDataClear
  <2>2. abort' = FALSE /\ ct' = "loop"
        /\ UNCHANGED <<cid, complete, pcount, cev, compev>>
    BY <1>2 DEF ChunkedDataClear
  <2>3. QED  BY <2>1, <2>2
<1>3. CASE ChunkedDataStart
  BY <1>3, GuestCount DEF ChunkedDataStart, flagVars
<1>4. CASE ChunkedDataSend
  BY <1>4 DEF ChunkedDataSend, flagVars
<1>5. CASE ChunkedDataEnd
  BY <1>5 DEF ChunkedDataEnd, flagVars
<1>6. CASE ChunkedDataCheck
  BY <1>6 DEF ChunkedDataCheck, flagVars
<1>7. CASE ChunkedDataWait
  BY <1>7 DEF ChunkedDataWait
<1>8. QED  BY <1>1, <1>2, <1>3, <1>4, <1>5, <1>6, <1>7 DEF ChunkThread

(* The Chunked Data thread's invariant, in every step. *)
LEMMA ChunkStep ==
  ASSUME ChunkInv, [Next]_vars
  PROVE  ChunkInv'
<1>1. CASE UNCHANGED vars
  BY <1>1, ChunkSame DEF vars, sessVars, guiVars, pressVars
<1>2. ASSUME NEW c \in Guest, Guestly(c) PROVE ChunkInv'
  BY <1>2, ChunkSame
  DEF Guestly, GuestOnChunk, GuestOnCodes, sessVars, guiVars, pressVars
<1>3. QED
  BY <1>1, <1>2, ChunkGui, ChunkNet, ChunkOwn DEF Next, Outside

(* The Chunked Data thread of the server never sleeps on an event while     *)
(* there is save data to send, an abort to handle, or an entry that every   *)
(* guest has received: no Set of the GUI or the NETPLAY thread is lost, in  *)
(* any interleaving and for any number of guests, saves, starts and aborts. *)
THEOREM ChunkThreadAwakeCorrect == Spec => []ChunkThreadAwake
<1>1. ChunkInv /\ [Next]_vars => ChunkInv'
  BY ChunkStep
<1>2. ChunkInv => ChunkThreadAwake
  BY DEF ChunkInv
<1>3. QED  BY <1>1, <1>2, ChunkInit, PTL DEF Spec

----------------------------------------------------------------------------
(* Players come and go, but never the host. *)
LEMMA SessionType ==
  ASSUME SessionTypeOK, [Next]_vars
  PROVE  SessionTypeOK'
<1>1. UNCHANGED sessVars => SessionTypeOK'
  BY DEF SessionTypeOK, sessVars
<1>2. ASSUME NEW c \in Guest, OnConnect(c) PROVE SessionTypeOK'
  BY <1>2 DEF OnConnect, SessionTypeOK
<1>3. CASE OnConnectAdd
  BY <1>3 DEF OnConnectAdd, SessionTypeOK, Guest
<1>4. ASSUME NEW c \in Guest, OnDisconnect(c) PROVE SessionTypeOK'
  BY <1>4 DEF OnDisconnect, SessionTypeOK, Guest
<1>5. ASSUME NEW c \in Guest, OnAnswer(c) PROVE SessionTypeOK'
  BY <1>5 DEF OnAnswer, OnSaveSuccess, OnCodesSuccess, OnSaveFailure, SessionTypeOK
<1>6. CASE FailureClearsPending
  BY <1>6 DEF FailureClearsPending, SessionTypeOK
<1>7. CASE UNCHANGED vars
  BY <1>1, <1>7 DEF vars
<1>8. CASE ChunkThread \/ GuiThread
  BY <1>1, <1>8
  DEF ChunkThread, GuiThread, ChunkedDataWake, ChunkedDataClear, ChunkedDataStart,
      ChunkedDataSend, ChunkedDataEnd, ChunkedDataCheck, ChunkedDataWait,
      RequestSaves, RequestCodes, RequestNow, GuiEnableOptions
<1>9. ASSUME NEW c \in Guest, Guestly(c) \/ OnChunkedDataComplete(c) PROVE SessionTypeOK'
  BY <1>1, <1>9 DEF Guestly, GuestOnChunk, GuestOnCodes, OnChunkedDataComplete
<1>10. CASE \/ DrainAsync \/ AbortGameStart \/ EndGame
            \/ \E saves, cds \in BOOLEAN : PressStart(saves, cds)
            \/ \E n \in 0 .. (Saves - 1) : RequestSavesFails(n)
  BY <1>1, <1>10 DEF DrainAsync, AbortGameStart, EndGame, PressStart, RequestSavesFails
<1>11. QED
  BY <1>2, <1>3, <1>4, <1>5, <1>6, <1>7, <1>8, <1>9, <1>10
  DEF Next, ServerNet, Outside

(* The state of the start. *)
LEMMA StartType ==
  ASSUME StartTypeOK, [Next]_vars
  PROVE  StartTypeOK'
<1>1. UNCHANGED <<startVars, aborted>> => StartTypeOK'
  BY DEF StartTypeOK, startVars
<1>2. CASE UNCHANGED vars
  BY <1>1, <1>2 DEF vars
<1>3. CASE ChunkThread
  BY <1>1, <1>3
  DEF ChunkThread, ChunkedDataWake, ChunkedDataClear, ChunkedDataStart,
      ChunkedDataSend, ChunkedDataEnd, ChunkedDataCheck, ChunkedDataWait
<1>4. ASSUME NEW c \in Guest, Guestly(c) \/ OnChunkedDataComplete(c) \/ OnConnect(c)
      PROVE  StartTypeOK'
  BY <1>1, <1>4 DEF Guestly, GuestOnChunk, GuestOnCodes, OnChunkedDataComplete, OnConnect
<1>5. CASE \/ DrainAsync \/ OnConnectAdd \/ GuiEnableOptions
           \/ \E saves, cds \in BOOLEAN : PressStart(saves, cds)
  BY <1>1, <1>5 DEF DrainAsync, OnConnectAdd, GuiEnableOptions, PressStart
<1>6. CASE FailureClearsPending \/ AbortGameStart \/ EndGame
  BY <1>6 DEF FailureClearsPending, AbortGameStart, EndGame, StartTypeOK
<1>7. CASE RequestSaves \/ RequestCodes \/ RequestNow
  <2>1. /\ pending' \in BOOLEAN /\ running' \in BOOLEAN
        /\ savesSynced' \in BOOLEAN /\ codesSynced' \in BOOLEAN /\ aborted' \in BOOLEAN
    BY <1>7, Zenon
    DEF RequestSaves, RequestCodes, RequestNow, SyncSaveData, SyncCodes, StartGame,
        StartTypeOK
  <2>2. saveCount' \in Nat /\ codeCount' \in Nat /\ game' \in Nat
    <3>1. saveCount' \in {saveCount, 0} /\ codeCount' \in {codeCount, 0}
          /\ game' \in {game, game + 1}
      BY <1>7
      DEF RequestSaves, RequestCodes, RequestNow, SyncSaveData, SyncCodes, StartGame
    <3>2. QED  BY <3>1 DEF StartTypeOK
  <2>3. QED  BY <2>1, <2>2, Zenon DEF StartTypeOK
<1>8. ASSUME NEW n \in 0 .. (Saves - 1), RequestSavesFails(n) PROVE StartTypeOK'
  BY <1>8 DEF RequestSavesFails, SyncSaveData, StartTypeOK
<1>9. ASSUME NEW c \in Guest, OnDisconnect(c) PROVE StartTypeOK'
  BY <1>9 DEF OnDisconnect, StartTypeOK
<1>10. ASSUME NEW c \in Guest, OnAnswer(c) PROVE StartTypeOK'
  <2>1. CASE OnSaveSuccess
    <3>1. /\ pending' \in BOOLEAN /\ running' \in BOOLEAN /\ savesSynced' \in BOOLEAN
          /\ UNCHANGED <<codesSynced, codeCount, aborted>>
      BY <2>1, Zenon DEF OnSaveSuccess, StartGame, StartTypeOK
    <3>2. saveCount' \in Nat /\ game' \in Nat
      BY <2>1 DEF OnSaveSuccess, StartGame, StartTypeOK
    <3>3. QED  BY <3>1, <3>2, Zenon DEF StartTypeOK
  <2>2. CASE OnCodesSuccess
    <3>1. /\ pending' \in BOOLEAN /\ running' \in BOOLEAN /\ codesSynced' \in BOOLEAN
          /\ UNCHANGED <<savesSynced, saveCount, aborted>>
      BY <2>2, Zenon DEF OnCodesSuccess, StartGame, StartTypeOK
    <3>2. codeCount' \in Nat /\ game' \in Nat
      BY <2>2 DEF OnCodesSuccess, StartGame, StartTypeOK
    <3>3. QED  BY <3>1, <3>2, Zenon DEF StartTypeOK
  <2>3. CASE OnSaveFailure
    BY <2>3 DEF OnSaveFailure, StartTypeOK, startVars
  <2>4. QED  BY <1>10, <2>1, <2>2, <2>3 DEF OnAnswer
<1>11. QED
  BY <1>2, <1>3, <1>4, <1>5, <1>6, <1>7, <1>8, <1>9, <1>10
  DEF Next, ServerNet, GuiThread, Outside

(* What the host's dialog shows and has asked for. *)
LEMMA GuiType ==
  ASSUME SessionTypeOK, GuiTypeOK, [Next]_vars
  PROVE  GuiTypeOK'
<1>1. UNCHANGED <<guiVars, enableQ>> => GuiTypeOK'
  BY DEF GuiTypeOK, guiVars, pressVars
<1>2. CASE UNCHANGED vars
  BY <1>1, <1>2 DEF vars
<1>3. CASE ChunkThread
  BY <1>1, <1>3
  DEF ChunkThread, ChunkedDataWake, ChunkedDataClear, ChunkedDataStart,
      ChunkedDataSend, ChunkedDataEnd, ChunkedDataCheck, ChunkedDataWait
<1>4. ASSUME NEW c \in Guest, Guestly(c) \/ OnChunkedDataComplete(c) \/ OnConnect(c)
      PROVE  GuiTypeOK'
  BY <1>1, <1>4 DEF Guestly, GuestOnChunk, GuestOnCodes, OnChunkedDataComplete, OnConnect
<1>5. CASE DrainAsync \/ OnConnectAdd \/ FailureClearsPending
  BY <1>1, <1>5 DEF DrainAsync, OnConnectAdd, FailureClearsPending
<1>6. ASSUME NEW saves \in BOOLEAN, NEW cds \in BOOLEAN, PressStart(saves, cds)
      PROVE  GuiTypeOK'
  BY <1>6 DEF PressStart, GuiTypeOK, SessionTypeOK, Guests, Guest
<1>7. CASE RequestSaves \/ RequestCodes \/ RequestNow \/ GuiEnableOptions \/ EndGame
  BY <1>7
  DEF RequestSaves, RequestCodes, RequestNow, GuiEnableOptions, EndGame, GuiTypeOK, pressVars
<1>8. ASSUME NEW n \in 0 .. (Saves - 1), RequestSavesFails(n) PROVE GuiTypeOK'
  BY <1>8 DEF RequestSavesFails, GuiTypeOK, pressVars
<1>9. CASE AbortGameStart
  BY <1>9 DEF AbortGameStart, GuiTypeOK, pressVars
<1>10. ASSUME NEW c \in Guest, OnDisconnect(c) \/ OnAnswer(c) PROVE GuiTypeOK'
  <2>1. UNCHANGED guiVars /\ enableQ' \in {enableQ, TRUE}
    BY <1>10 DEF OnDisconnect, OnAnswer, OnSaveSuccess, OnCodesSuccess, OnSaveFailure
  <2>2. QED  BY <2>1 DEF GuiTypeOK, guiVars, pressVars
<1>11. QED
  BY <1>2, <1>3, <1>4, <1>5, <1>6, <1>7, <1>8, <1>9, <1>10
  DEF Next, ServerNet, GuiThread, Outside

----------------------------------------------------------------------------
(* The messages of the two channels are told apart by their type. *)
LEMMA MessageKinds ==
  /\ \A m \in ChunkMsg \cup CodesMsg :
       IF m.type = "Codes" THEN m \in CodesMsg ELSE m \in ChunkMsg
  /\ \A m \in CodesMsg : m.attempt \in Nat
  /\ \A m \in ChunkMsg : /\ m.type \in {"Start", "Abort", "End"} => m.id \in Nat
                         /\ m.type = "End" => m.save \in Nat /\ m.attempt \in Nat
  BY DEF ChunkMsg, CodesMsg

(* The messages the server sends are messages. *)
LEMMA MessageTypes ==
  /\ [type |-> "Notify"] \in ChunkMsg
  /\ \A n \in Nat : /\ [type |-> "Start", id |-> n] \in ChunkMsg
                    /\ [type |-> "Abort", id |-> n] \in ChunkMsg
                    /\ [type |-> "Codes", attempt |-> n] \in CodesMsg
  /\ \A n, s, a \in Nat : [type |-> "End", id |-> n, save |-> s, attempt |-> a] \in ChunkMsg
  BY DEF ChunkMsg, CodesMsg

(* The async queue gets messages, whoever appends them. *)
LEMMA AsyncType ==
  ASSUME WireTypeOK, GuiTypeOK, ChunkInv, [Next]_vars
  PROVE  async' \in Seq(ChunkMsg \cup CodesMsg)
<1> DEFINE Good == async' \in Seq(ChunkMsg \cup CodesMsg)
<1>0. async \in Seq(ChunkMsg \cup CodesMsg)
  BY DEF WireTypeOK
<1>1. async' = async => Good
  BY <1>0
<1>2. ASSUME NEW m \in ChunkMsg \cup CodesMsg, async' = Append(async, m) PROVE Good
  BY <1>0, <1>2
<1>3. ASSUME async # <<>>, async' = Tail(async) PROVE Good
  BY <1>0, <1>3
<1>4. attempt \in Nat /\ cid \in Nat /\ cid + 1 \in Nat
  BY DEF GuiTypeOK, ChunkInv, ChunkTypeOK
<1> SUFFICES Good
  OBVIOUS
<1> HIDE DEF Good
<1>5. CASE UNCHANGED vars
  BY <1>1, <1>5 DEF vars
<1>6. CASE DrainAsync
  BY <1>3, <1>6 DEF DrainAsync
<1>7. CASE RequestSaves \/ (\E n \in 0 .. (Saves - 1) : RequestSavesFails(n))
  <2>1. async' = async \/ async' = Append(async, [type |-> "Notify"])
    BY <1>7 DEF RequestSaves, RequestSavesFails, SyncSaveData
  <2>2. QED  BY <1>1, <1>2, <2>1, MessageTypes
<1>8. CASE RequestCodes
  <2>1. async' = async \/ async' = Append(async, [type |-> "Codes", attempt |-> attempt])
    BY <1>8 DEF RequestCodes, SyncCodes
  <2>2. [type |-> "Codes", attempt |-> attempt] \in CodesMsg
    BY <1>4, MessageTypes
  <2>3. QED  BY <1>1, <1>2, <2>1, <2>2
<1>9. CASE ChunkedDataStart
  <2>1. async' = async \/ async' = Append(async, [type |-> "Start", id |-> cid + 1])
    BY <1>9 DEF ChunkedDataStart
  <2>2. [type |-> "Start", id |-> cid + 1] \in ChunkMsg
    BY <1>4, MessageTypes
  <2>3. QED  BY <1>1, <1>2, <2>1, <2>2
<1>10. CASE ChunkedDataSend
  <2>1. async' = async \/ async' = Append(async, [type |-> "Abort", id |-> cid])
    BY <1>10 DEF ChunkedDataSend
  <2>2. [type |-> "Abort", id |-> cid] \in ChunkMsg
    BY <1>4, MessageTypes
  <2>3. QED  BY <1>1, <1>2, <2>1, <2>2
<1>11. CASE ChunkedDataEnd
  <2> DEFINE m == [type |-> "End", id |-> cid, save |-> Head(cq).save,
                   attempt |-> Head(cq).attempt]
  <2>1. async' = async \/ async' = Append(async, m)
    BY <1>11 DEF ChunkedDataEnd
  <2>2. cq \in Seq(Entry) /\ cq # <<>>
    BY <1>11 DEF ChunkedDataEnd, ChunkInv, ChunkTypeOK, ChunkThreadAwake, Sending
  <2>3. Head(cq) \in Entry
    BY <2>2
  <2>4. Head(cq).save \in Nat /\ Head(cq).attempt \in Nat
    BY <2>3 DEF Entry
  <2>5. m \in ChunkMsg
    BY <1>4, <2>4, MessageTypes
  <2> HIDE DEF m
  <2>6. QED  BY <1>1, <1>2, <2>1, <2>5
<1>12. ASSUME NEW c \in Guest,
              \/ Guestly(c) \/ OnAnswer(c) \/ OnChunkedDataComplete(c) \/ OnConnect(c)
              \/ OnDisconnect(c)
       PROVE  async' = async
  BY <1>12
  DEF Guestly, GuestOnChunk, GuestOnCodes, OnAnswer, OnChunkedDataComplete, OnConnect,
      OnDisconnect
<1>13. CASE \/ OnConnectAdd \/ FailureClearsPending \/ RequestNow \/ GuiEnableOptions
            \/ AbortGameStart \/ EndGame \/ ChunkedDataWake \/ ChunkedDataClear
            \/ ChunkedDataCheck \/ ChunkedDataWait
            \/ \E saves, cds \in BOOLEAN : PressStart(saves, cds)
  BY <1>1, <1>13
  DEF OnConnectAdd, FailureClearsPending, RequestNow, GuiEnableOptions, AbortGameStart,
      EndGame, ChunkedDataWake, ChunkedDataClear, ChunkedDataCheck, ChunkedDataWait,
      PressStart
<1>14. QED
  BY <1>1, <1>5, <1>6, <1>7, <1>8, <1>9, <1>10, <1>11, <1>12, <1>13
  DEF Next, ServerNet, ChunkThread, GuiThread, Outside

(* The steps that touch the channels and the guests. *)
LEMMA WireMoves ==
  ASSUME [Next]_vars
  PROVE  \/ UNCHANGED <<wireVars, guestVars>>
         \/ UNCHANGED <<wireVars, rq, got, store, codes>> /\ fails' = fails + 1
         \/ DrainAsync
         \/ \E c \in Guest : \/ OnDisconnect(c) \/ OnAnswer(c) \/ OnChunkedDataComplete(c)
                             \/ GuestOnChunk(c) \/ GuestOnCodes(c)
<1>1. CASE UNCHANGED vars
  BY <1>1 DEF vars
<1>2. CASE ChunkThread
  BY <1>2
  DEF ChunkThread, ChunkedDataWake, ChunkedDataClear, ChunkedDataStart,
      ChunkedDataSend, ChunkedDataEnd, ChunkedDataCheck, ChunkedDataWait
<1>3. CASE GuiThread
  BY <1>3 DEF GuiThread, RequestSaves, RequestCodes, RequestNow, GuiEnableOptions
<1>4. CASE OnConnectAdd \/ FailureClearsPending
  BY <1>4 DEF OnConnectAdd, FailureClearsPending
<1>5. CASE \/ AbortGameStart \/ EndGame \/ (\E c \in Guest : OnConnect(c))
           \/ \E saves, cds \in BOOLEAN : PressStart(saves, cds)
  BY <1>5 DEF AbortGameStart, EndGame, OnConnect, PressStart
<1>6. CASE \E n \in 0 .. (Saves - 1) : RequestSavesFails(n)
  BY <1>6 DEF RequestSavesFails, guestVars
<1>7. QED
  BY <1>1, <1>2, <1>3, <1>4, <1>5, <1>6 DEF Next, ServerNet, Outside, Guestly

(* What the guests and the network hold, when a chunk arrives at a guest. *)
LEMMA ChunkArrives ==
  ASSUME NEW c \in Guest, GuestTypeOK, WireTypeOK, GuestOnChunk(c)
  PROVE  /\ GuestTypeOK'
         /\ answers' \in [Guest -> Seq({"SaveSuccess", "SaveFailure", "CodesSuccess"})]
         /\ completes' \in [Guest -> Seq(Nat)]
         /\ chunks' \in [Guest -> Seq(ChunkMsg)]
         /\ codeMsgs' = codeMsgs
<1> DEFINE msg == Head(chunks[c])
<1>1. /\ chunks[c] \in Seq(ChunkMsg) /\ chunks[c] # <<>> /\ codes' = codes
      /\ chunks' = [chunks EXCEPT ![c] = Tail(chunks[c])] /\ codeMsgs' = codeMsgs
  BY DEF GuestOnChunk, WireTypeOK
<1>2. msg \in ChunkMsg /\ Tail(chunks[c]) \in Seq(ChunkMsg)
  BY <1>1
<1>3. chunks' \in [Guest -> Seq(ChunkMsg)]
  BY <1>1, <1>2 DEF WireTypeOK
<1>4. \/ OnSyncSaveDataNotify(c, msg) \/ OnChunkedDataStart(c, msg)
      \/ OnChunkedDataAbort(c, msg) \/ OnChunkedDataEnd(c, msg)
  BY Zenon DEF GuestOnChunk
<1> HIDE DEF msg
<1>5. msg.type \in {"Start", "Abort", "End"} => msg.id \in Nat
  BY <1>2, MessageKinds
<1>6. msg.type = "End" => msg.attempt \in Nat
  BY <1>2, MessageKinds
<1>7. answers \in [Guest -> Seq(Said)] /\ completes \in [Guest -> Seq(Nat)]
      /\ rq \in [Guest -> SUBSET Nat] /\ got \in [Guest -> Nat] /\ codes \in [Guest -> Nat]
      /\ store \in [Guest -> [1 .. Saves -> Nat]] /\ fails \in Nat
  BY DEF GuestTypeOK, WireTypeOK, Said
<1>8. ASSUME NEW a \in Said, Answer(c, a) PROVE answers' \in [Guest -> Seq(Said)]
  <2>1. Append(answers[c], a) \in Seq(Said)
    BY <1>7
  <2>2. answers' = [answers EXCEPT ![c] = Append(answers[c], a)]
    BY <1>8 DEF Answer
  <2>3. QED  BY <1>7, <2>1, <2>2
<1>9. "SaveSuccess" \in Said /\ "SaveFailure" \in Said
  BY DEF Said
<1>10. ASSUME NEW n \in Nat, SaveSuccess(c, n)
       PROVE  got' \in [Guest -> Nat] /\ answers' \in [Guest -> Seq(Said)]
  BY <1>7, <1>8, <1>9, <1>10 DEF SaveSuccess
<1>11. /\ got' \in [Guest -> Nat] /\ answers' \in [Guest -> Seq(Said)]
       /\ rq' \in [Guest -> SUBSET Nat] /\ store' \in [Guest -> [1 .. Saves -> Nat]]
       /\ fails' \in Nat /\ completes' \in [Guest -> Seq(Nat)]
  <2>1. CASE OnSyncSaveDataNotify(c, msg)
    <3>1. got' \in [Guest -> Nat] /\ answers' \in [Guest -> Seq(Said)]
      <4>1. CASE Saves = 0
        BY <1>10, <2>1, <4>1 DEF OnSyncSaveDataNotify
      <4>2. CASE Saves # 0
        <5>1. got' = [got EXCEPT ![c] = 0] /\ answers' = answers
          BY <2>1, <4>2, Zenon DEF OnSyncSaveDataNotify
        <5>2. got' \in [Guest -> Nat]
          BY <1>7, <5>1
        <5>3. QED  BY <1>7, <5>1, <5>2, Zenon
      <4>3. QED  BY <4>1, <4>2
    <3>2. QED  BY <1>7, <2>1, <3>1 DEF OnSyncSaveDataNotify
  <2>2. CASE OnChunkedDataStart(c, msg)
    <3>1. msg.id \in Nat
      BY <1>5, <2>2 DEF OnChunkedDataStart
    <3>2. rq' \in [Guest -> SUBSET Nat]
      BY <1>7, <2>2, <3>1 DEF OnChunkedDataStart
    <3>3. QED  BY <1>7, <2>2, <3>2 DEF OnChunkedDataStart
  <2>3. CASE OnChunkedDataAbort(c, msg)
    <3>1. rq' \in [Guest -> SUBSET Nat]
      BY <1>7, <2>3 DEF OnChunkedDataAbort
    <3>2. QED  BY <1>7, <2>3, <3>1 DEF OnChunkedDataAbort
  <2>4. CASE OnChunkedDataEnd(c, msg)
    <3>1. CASE msg.id \notin rq[c]
      BY <1>7, <2>4, <3>1 DEF OnChunkedDataEnd
    <3>2. CASE msg.id \in rq[c]
      <4>1. msg.id \in Nat /\ msg.attempt \in Nat /\ got[c] + 1 \in Nat
        BY <1>5, <1>6, <1>7, <2>4 DEF OnChunkedDataEnd
      <4>2. rq' \in [Guest -> SUBSET Nat]
        BY <1>7, <2>4, <3>2 DEF OnChunkedDataEnd
      <4>3. completes' \in [Guest -> Seq(Nat)]
        <5>1. completes' = [completes EXCEPT ![c] = Append(completes[c], msg.id)]
          BY <2>4, <3>2 DEF OnChunkedDataEnd
        <5>2. Append(completes[c], msg.id) \in Seq(Nat)
          BY <1>7, <4>1
        <5>3. QED  BY <1>7, <5>1, <5>2
      <4>4. CASE /\ store' = [store EXCEPT ![c][msg.save] = msg.attempt]
                 /\ SaveSuccess(c, got[c] + 1)
                 /\ UNCHANGED fails
        <5>1. store' \in [Guest -> [1 .. Saves -> Nat]]
          BY <1>7, <4>1, <4>4
        <5>2. QED  BY <1>7, <1>10, <4>1, <4>2, <4>3, <4>4, <5>1
      <4>5. CASE /\ fails' = fails + 1
                 /\ Answer(c, "SaveFailure")
                 /\ UNCHANGED <<store, got>>
        BY <1>7, <1>8, <1>9, <4>2, <4>3, <4>5
      <4>6. QED  BY <2>4, <3>2, <4>4, <4>5 DEF OnChunkedDataEnd
    <3>3. QED  BY <3>1, <3>2
  <2>5. QED  BY <1>4, <2>1, <2>2, <2>3, <2>4
<1>12. QED  BY <1>1, <1>3, <1>7, <1>11 DEF GuestTypeOK, Said

(* What the guests and the network hold, in every step. *)
LEMMA WireType ==
  ASSUME GuestTypeOK, WireTypeOK, GuiTypeOK, ChunkInv, [Next]_vars
  PROVE  GuestTypeOK' /\ WireTypeOK'
<1> USE DEF Said
<1>0. /\ async \in Seq(ChunkMsg \cup CodesMsg) /\ async' \in Seq(ChunkMsg \cup CodesMsg)
      /\ chunks \in [Guest -> Seq(ChunkMsg)] /\ codeMsgs \in [Guest -> Seq(CodesMsg)]
      /\ answers \in [Guest -> Seq(Said)] /\ completes \in [Guest -> Seq(Nat)]
  BY AsyncType DEF WireTypeOK
<1>1. UNCHANGED <<rq, got, store, codes>> /\ fails' \in {fails, fails + 1} => GuestTypeOK'
  BY DEF GuestTypeOK
<1>2. UNCHANGED wireVars => WireTypeOK'
  BY <1>0 DEF wireVars, WireTypeOK
<1>3. CASE UNCHANGED <<wireVars, guestVars>>
  BY <1>1, <1>2, <1>3 DEF guestVars
<1>4. CASE UNCHANGED <<wireVars, rq, got, store, codes>> /\ fails' = fails + 1
  BY <1>1, <1>2, <1>4
<1>5. CASE DrainAsync
  <2>1. /\ Head(async) \in ChunkMsg \cup CodesMsg
        /\ UNCHANGED <<guestVars, answers, completes>>
    BY <1>0, <1>5 DEF DrainAsync
  <2> DEFINE To(ch) == [c \in Guest |-> IF c \in players THEN Append(ch[c], Head(async))
                                                         ELSE ch[c]]
  <2>2. CASE Head(async).type = "Codes"
    <3>1. codeMsgs' = To(codeMsgs) /\ UNCHANGED chunks
      BY <1>5, <2>2 DEF DrainAsync
    <3>2. Head(async) \in CodesMsg
      BY <2>1, <2>2, MessageKinds
    <3>3. \A c \in Guest : Append(codeMsgs[c], Head(async)) \in Seq(CodesMsg)
      BY <1>0, <3>2
    <3>4. codeMsgs' \in [Guest -> Seq(CodesMsg)]
      BY <1>0, <3>1, <3>3
    <3>5. QED  BY <1>0, <1>1, <2>1, <3>1, <3>4 DEF WireTypeOK, guestVars
  <2>3. CASE Head(async).type # "Codes"
    <3>1. chunks' = To(chunks) /\ UNCHANGED codeMsgs
      BY <1>5, <2>3 DEF DrainAsync
    <3>2. Head(async) \in ChunkMsg
      BY <2>1, <2>3, MessageKinds
    <3>3. \A c \in Guest : Append(chunks[c], Head(async)) \in Seq(ChunkMsg)
      BY <1>0, <3>2
    <3>4. chunks' \in [Guest -> Seq(ChunkMsg)]
      BY <1>0, <3>1, <3>3
    <3>5. QED  BY <1>0, <1>1, <2>1, <3>1, <3>4 DEF WireTypeOK, guestVars
  <2>4. QED  BY <2>2, <2>3
<1>6. ASSUME NEW c \in Guest, OnDisconnect(c) PROVE GuestTypeOK' /\ WireTypeOK'
  <2>1. UNCHANGED guestVars
    BY <1>6 DEF OnDisconnect
  <2>2. /\ chunks' \in [Guest -> Seq(ChunkMsg)] /\ codeMsgs' \in [Guest -> Seq(CodesMsg)]
        /\ answers' \in [Guest -> Seq(Said)] /\ completes' \in [Guest -> Seq(Nat)]
    BY <1>0, <1>6 DEF OnDisconnect
  <2>3. QED  BY <1>0, <1>1, <2>1, <2>2 DEF WireTypeOK, guestVars
<1>7. ASSUME NEW c \in Guest, OnAnswer(c) PROVE GuestTypeOK' /\ WireTypeOK'
  <2>1. /\ UNCHANGED <<guestVars, chunks, codeMsgs, completes>> /\ answers[c] # <<>>
        /\ answers' = [answers EXCEPT ![c] = Tail(answers[c])]
    BY <1>7 DEF OnAnswer
  <2>2. Tail(answers[c]) \in Seq(Said)
    BY <1>0, <2>1
  <2>3. answers' \in [Guest -> Seq(Said)]
    BY <1>0, <2>1, <2>2
  <2>4. QED  BY <1>0, <1>1, <2>1, <2>3 DEF WireTypeOK, guestVars
<1>8. ASSUME NEW c \in Guest, OnChunkedDataComplete(c) PROVE GuestTypeOK' /\ WireTypeOK'
  <2>1. /\ UNCHANGED <<guestVars, chunks, codeMsgs, answers>> /\ completes[c] # <<>>
        /\ completes' = [completes EXCEPT ![c] = Tail(completes[c])]
    BY <1>8 DEF OnChunkedDataComplete
  <2>2. Tail(completes[c]) \in Seq(Nat)
    BY <1>0, <2>1
  <2>3. completes' \in [Guest -> Seq(Nat)]
    BY <1>0, <2>1, <2>2
  <2>4. QED  BY <1>0, <1>1, <2>1, <2>3 DEF WireTypeOK, guestVars
<1>9. ASSUME NEW c \in Guest, GuestOnChunk(c) PROVE GuestTypeOK' /\ WireTypeOK'
  BY <1>0, <1>9, ChunkArrives DEF WireTypeOK
<1>10. ASSUME NEW c \in Guest, GuestOnCodes(c) PROVE GuestTypeOK' /\ WireTypeOK'
  <2>1. /\ codeMsgs[c] # <<>> /\ UNCHANGED <<rq, got, store, fails, chunks, completes>>
        /\ codeMsgs' = [codeMsgs EXCEPT ![c] = Tail(codeMsgs[c])]
        /\ codes' = [codes EXCEPT ![c] = Head(codeMsgs[c]).attempt]
        /\ answers' = [answers EXCEPT ![c] = Append(answers[c], "CodesSuccess")]
    BY <1>10 DEF GuestOnCodes, Answer
  <2>2. Head(codeMsgs[c]) \in CodesMsg /\ Tail(codeMsgs[c]) \in Seq(CodesMsg)
    BY <1>0, <2>1
  <2>3. Head(codeMsgs[c]).attempt \in Nat
    BY <2>2, MessageKinds
  <2>4. Append(answers[c], "CodesSuccess") \in Seq(Said)
    BY <1>0
  <2>5. answers' \in [Guest -> Seq(Said)] /\ codeMsgs' \in [Guest -> Seq(CodesMsg)]
    BY <1>0, <2>1, <2>2, <2>4
  <2>6. codes' \in [Guest -> Nat]
    BY <2>1, <2>3 DEF GuestTypeOK
  <2>7. QED  BY <1>0, <2>1, <2>5, <2>6 DEF WireTypeOK, GuestTypeOK
<1>11. QED
  BY <1>3, <1>4, <1>5, <1>6, <1>7, <1>8, <1>9, <1>10, WireMoves

(* The types hold at first. *)
LEMMA TypeInit == Init => TypeOK
<1> SUFFICES ASSUME Init PROVE TypeOK
  OBVIOUS
<1>1. SessionTypeOK /\ GuestTypeOK
  BY DEF Init, SessionTypeOK, GuestTypeOK, Guest
<1>2. StartTypeOK
  BY DEF Init, StartTypeOK
<1>3. GuiTypeOK
  BY DEF Init, GuiTypeOK
<1>4. ChunkTypeOK
  BY ChunkInit DEF ChunkInv
<1>5. WireTypeOK
  BY DEF Init, WireTypeOK
<1>6. QED  BY <1>1, <1>2, <1>3, <1>4, <1>5 DEF TypeOK

(* Every variable of the start protocol keeps its type, whoever joins,      *)
(* leaves, fails or aborts in between; the entry that an End announces is   *)
(* there because the Chunked Data thread works on the head of its queue.    *)
THEOREM Typed == Spec => []TypeOK
<1>1. TypeOK /\ ChunkInv /\ [Next]_vars => TypeOK' /\ ChunkInv'
  <2> SUFFICES ASSUME TypeOK, ChunkInv, [Next]_vars PROVE TypeOK' /\ ChunkInv'
    OBVIOUS
  <2>1. ChunkInv'
    BY ChunkStep
  <2>2. ChunkTypeOK'
    BY <2>1 DEF ChunkInv
  <2>3. QED
    BY <2>1, <2>2, SessionType, StartType, GuiType, WireType DEF TypeOK
<1>2. Init => TypeOK /\ ChunkInv
  BY TypeInit, ChunkInit
<1>3. QED  BY <1>1, <1>2, PTL DEF Spec

----------------------------------------------------------------------------
(* How the saves of one start reach the guests.  The announcement and the  *)
(* saves have a rank, which is their order.                                *)
Message == ChunkMsg \cup CodesMsg
Ranked(m) == m.type \in {"Notify", "End"}
Rank(m) == IF m.type = "Notify" THEN 1 ELSE m.save + 1
In(s, k) == k \in 1 .. Len(s) /\ Ranked(s[k])
Silent(s) == \A k \in Nat : ~In(s, k)

(* A queue brings the ranks after a, up to b, in order, ... *)
Stream(s, a, b) ==
  /\ \A k \in Nat : In(s, k) => a < Rank(s[k]) /\ Rank(s[k]) <= b
  /\ \A k, l \in Nat : In(s, k) /\ In(s, l) /\ k < l => Rank(s[k]) < Rank(s[l])
  /\ \A v \in Nat : a < v /\ v <= b => \E k \in Nat : In(s, k) /\ Rank(s[k]) = v

(* ... and only saves of this attempt. *)
Fresh(s) ==
  \A k \in 1 .. Len(s) : s[k].type = "End" => s[k].save # 0 /\ s[k].attempt = attempt

(* What the Chunked Data thread has not sent yet: the saves from u on. *)
Unsent == IF ct \in {"check", "wait"} THEN Tail(cq) ELSE cq
Rest(u) ==
  /\ Len(Unsent) + u = Saves + 1
  /\ \A i \in 1 .. Len(Unsent) : Unsent[i].save + 1 = u + i /\ Unsent[i].attempt = attempt

(* A guest that has handled the first k ranks. *)
Holding(c) == \A s \in 1 .. Saves : store[c][s] = attempt
Handled(c, k) ==
  k # 0 => /\ got[c] < k
           /\ got[c] + 1 = k => \A s \in 1 .. Saves : s < k => store[c][s] = attempt
Fed(c, m) == Fresh(chunks[c]) /\ \E k \in 0 .. m : Handled(c, k) /\ Stream(chunks[c], k, m)

(* While a sync is under way, the first m ranks have gone to the guests    *)
(* and the next ones, up to u, are in the async queue.                     *)
Flow ==
  /\ Fresh(async)
  /\ \E u \in 1 .. Saves + 1 : \E m \in 0 .. u :
       /\ Stream(async, m, u) /\ Rest(u) /\ (joining # 0 => m = 0)
       /\ \A c \in Guests : Fed(c, m)

(* The answers that have been counted, or are on their way, are from as    *)
(* many guests, each of which has everything.                              *)
Success(q, i) == i \in 1 .. Len(q) /\ q[i] = "SaveSuccess"
NoSuccess(q) == \A i \in Nat : ~Success(q, i)
OneSuccess(q) == \A i, j \in Nat : Success(q, i) /\ Success(q, j) => i = j
AllSent == Silent(async) /\ Unsent = <<>>
Done(c) == AllSent /\ Silent(chunks[c]) /\ Holding(c)
Counted(D) ==
  /\ saveCount <= Cardinality(D)
  /\ \A c \in D : Done(c) /\ NoSuccess(answers[c])
  /\ \A c \in Guests \ D : OneSuccess(answers[c]) /\ (NoSuccess(answers[c]) \/ Done(c))
Tally == \E D \in SUBSET Guests : Counted(D)

(* Between two syncs nothing of the last one is left. *)
Quiet == AllSent /\ \A c \in Guests : Silent(chunks[c]) /\ NoSuccess(answers[c])

(* While nothing has been aborted: *)
Undisturbed == ~abort /\ net = "loop" /\ ~enableQ /\ ct # "clear"
Waiting ==
  /\ startNow \/ gui = "saves" \/ (gui = "idle" /\ button) => ~pending
  /\ ~savesSynced => pending
Absent ==
  /\ starters \subseteq players \cup gone /\ joining \notin players \cup gone
  /\ \A c \in Guest \ players : chunks[c] = <<>> /\ answers[c] = <<>>
Kept == want.saves /\ gui # "saves" /\ savesSynced => \A c \in starters \cap players : Holding(c)
Synced == IF savesSynced THEN Quiet ELSE Flow /\ Tally

Course == Undisturbed /\ Waiting /\ Absent /\ Kept /\ Synced
SaveInv == ~aborted /\ Saves # 0 => Course

----------------------------------------------------------------------------
(* Queues: what is appended and what is taken. *)
LEMMA AppendFacts ==
  ASSUME NEW S, NEW s \in Seq(S), NEW m \in S
  PROVE  /\ Append(s, m) \in Seq(S) /\ Append(s, m) # <<>>
         /\ Len(Append(s, m)) = Len(s) + 1 /\ Len(s) \in Nat
         /\ Append(s, m)[Len(s) + 1] = m
         /\ \A i \in 1 .. Len(s) : Append(s, m)[i] = s[i]
BY AppendProperties, LenProperties

(* What is left when the first element is taken. *)
LEMMA TailFacts ==
  ASSUME NEW S, NEW s \in Seq(S), s # <<>>
  PROVE  /\ Tail(s) \in Seq(S) /\ Len(Tail(s)) = Len(s) - 1
         /\ Len(s) \in Nat /\ Len(s) >= 1 /\ Head(s) = s[1] /\ Head(s) \in S
         /\ \A i \in 1 .. Len(s) - 1 : Tail(s)[i] = s[i + 1]
BY HeadTailProperties, LenProperties

(* Where the ranked messages are after one is appended, ... *)
LEMMA InAppend ==
  ASSUME NEW s \in Seq(Message), NEW m \in Message, NEW k \in Nat
  PROVE  /\ In(Append(s, m), k) <=> In(s, k) \/ (k = Len(s) + 1 /\ Ranked(m))
         /\ In(s, k) => Append(s, m)[k] = s[k] /\ k <= Len(s)
         /\ Append(s, m)[Len(s) + 1] = m /\ Len(s) \in Nat
<1>1. /\ Len(Append(s, m)) = Len(s) + 1 /\ Len(s) \in Nat /\ Append(s, m)[Len(s) + 1] = m
      /\ \A i \in 1 .. Len(s) : Append(s, m)[i] = s[i]
  BY AppendFacts
<1> QED
  BY <1>1 DEF In

(* ... and after one is taken. *)
LEMMA InTail ==
  ASSUME NEW s \in Seq(Message), s # <<>>, NEW k \in Nat
  PROVE  /\ In(Tail(s), k) <=> k # 0 /\ In(s, k + 1)
         /\ In(Tail(s), k) => Tail(s)[k] = s[k + 1]
         /\ In(s, 1) <=> Ranked(Head(s))
         /\ Head(s) = s[1]
<1>1. /\ Len(Tail(s)) = Len(s) - 1 /\ Len(s) \in Nat /\ Len(s) >= 1 /\ Head(s) = s[1]
      /\ \A i \in 1 .. Len(s) - 1 : Tail(s)[i] = s[i + 1]
  BY TailFacts
<1> QED
  BY <1>1 DEF In

(* A rank is at least 1. *)
LEMMA InValue ==
  ASSUME NEW s \in Seq(Message), NEW k \in Nat, In(s, k)
  PROVE  Rank(s[k]) \in Nat \ {0} /\ k # 0
<1>1. s[k] \in Message /\ Ranked(s[k]) /\ k # 0
  BY DEF In
<1>2. s[k].type = "End" => s[k].save \in Nat
  BY <1>1, MessageKinds DEF Message
<1> QED
  BY <1>1, <1>2 DEF Rank, Ranked

(* A stream takes no notice of messages that have no rank. *)
LEMMA StreamAppendOther ==
  ASSUME NEW s \in Seq(Message), NEW m \in Message, ~Ranked(m), NEW a \in Nat, NEW b \in Nat,
         Stream(s, a, b)
  PROVE  Stream(Append(s, m), a, b)
<1>1. \A k \in Nat : /\ In(Append(s, m), k) <=> In(s, k)
                     /\ In(s, k) => Append(s, m)[k] = s[k]
  <2> TAKE k \in Nat
  <2>1. /\ In(Append(s, m), k) <=> In(s, k) \/ (k = Len(s) + 1 /\ Ranked(m))
        /\ In(s, k) => Append(s, m)[k] = s[k] /\ k <= Len(s)
    BY InAppend
  <2> QED
    BY <2>1
<1> QED
  BY <1>1 DEF Stream

(* The same when such a message is taken. *)
LEMMA StreamTailOther ==
  ASSUME NEW s \in Seq(Message), s # <<>>, ~Ranked(Head(s)), NEW a \in Nat, NEW b \in Nat,
         Stream(s, a, b)
  PROVE  Stream(Tail(s), a, b)
<1> DEFINE t == Tail(s)
<1>1. \A k \in Nat : /\ In(t, k) <=> k # 0 /\ In(s, k + 1)
                     /\ In(t, k) => t[k] = s[k + 1]
  BY InTail
<1>2. \A k \in Nat : In(s, k) => k # 0 /\ k # 1
  BY InTail, InValue
<1> HIDE DEF t
<1>3. ASSUME NEW k \in Nat, In(t, k)
      PROVE  a < Rank(t[k]) /\ Rank(t[k]) <= b
  <2>1. In(s, k + 1) /\ t[k] = s[k + 1] /\ k + 1 \in Nat
    BY <1>1, <1>3
  <2> QED
    BY <2>1 DEF Stream
<1>4. ASSUME NEW k \in Nat, NEW l \in Nat, In(t, k), In(t, l), k < l
      PROVE  Rank(t[k]) < Rank(t[l])
  <2>1. /\ In(s, k + 1) /\ t[k] = s[k + 1] /\ k + 1 \in Nat
        /\ In(s, l + 1) /\ t[l] = s[l + 1] /\ l + 1 \in Nat /\ k + 1 < l + 1
    BY <1>1, <1>4
  <2> QED
    BY <2>1 DEF Stream
<1>5. \A v \in Nat : a < v /\ v <= b => \E k \in Nat : In(t, k) /\ Rank(t[k]) = v
  <2> SUFFICES ASSUME NEW v \in Nat, a < v, v <= b
               PROVE  \E k \in Nat : In(t, k) /\ Rank(t[k]) = v
    OBVIOUS
  <2>1. PICK k \in Nat : In(s, k) /\ Rank(s[k]) = v
    BY DEF Stream
  <2>2. k - 1 \in Nat /\ k - 1 # 0 /\ (k - 1) + 1 = k
    BY <1>2, <2>1
  <2>3. In(t, k - 1) /\ t[k - 1] = s[k]
    BY <1>1, <2>1, <2>2
  <2> QED
    BY <2>1, <2>2, <2>3
<1> QED
  BY <1>3, <1>4, <1>5 DEF Stream, t

(* The next rank extends a stream at its end, ... *)
LEMMA StreamAppendNext ==
  ASSUME NEW s \in Seq(Message), NEW m \in Message, Ranked(m), NEW a \in Nat, NEW b \in Nat,
         a <= b, Rank(m) = b + 1, Stream(s, a, b)
  PROVE  Stream(Append(s, m), a, b + 1)
<1> DEFINE t == Append(s, m)
<1>0. \A k \in Nat : In(s, k) => Rank(s[k]) \in Nat
  BY InValue
<1>1. \A k \in Nat : /\ In(t, k) <=> In(s, k) \/ k = Len(s) + 1
                     /\ In(s, k) => t[k] = s[k] /\ k <= Len(s)
  <2> TAKE k \in Nat
  <2>1. /\ In(Append(s, m), k) <=> In(s, k) \/ (k = Len(s) + 1 /\ Ranked(m))
        /\ In(s, k) => Append(s, m)[k] = s[k] /\ k <= Len(s)
        /\ Append(s, m)[Len(s) + 1] = m /\ Len(s) \in Nat
    BY InAppend, Zenon
  <2> QED
    BY <2>1
<1>2. t[Len(s) + 1] = m /\ Len(s) \in Nat /\ Len(s) + 1 \in Nat
  BY InAppend
<1> HIDE DEF t
<1>3. \A k \in Nat : In(t, k) => a < Rank(t[k]) /\ Rank(t[k]) <= b + 1
  BY <1>0, <1>1, <1>2 DEF Stream
<1>4. \A k, l \in Nat : In(t, k) /\ In(t, l) /\ k < l => Rank(t[k]) < Rank(t[l])
  <2> SUFFICES ASSUME NEW k \in Nat, NEW l \in Nat, In(t, k), In(t, l), k < l
               PROVE  Rank(t[k]) < Rank(t[l])
    OBVIOUS
  <2>1. CASE l = Len(s) + 1
    <3>1. In(s, k) /\ t[k] = s[k] /\ t[l] = m
      BY <1>1, <1>2, <2>1
    <3> QED
      BY <1>0, <3>1 DEF Stream
  <2>2. CASE l # Len(s) + 1
    <3>1. In(s, l) /\ l <= Len(s) /\ t[l] = s[l]
      BY <1>1, <2>2
    <3>2. In(s, k) /\ t[k] = s[k]
      BY <1>1, <1>2, <3>1
    <3> QED
      BY <3>1, <3>2 DEF Stream
  <2> QED
    BY <2>1, <2>2
<1>5. \A v \in Nat : a < v /\ v <= b + 1 => \E k \in Nat : In(t, k) /\ Rank(t[k]) = v
  <2> SUFFICES ASSUME NEW v \in Nat, a < v, v <= b + 1
               PROVE  \E k \in Nat : In(t, k) /\ Rank(t[k]) = v
    OBVIOUS
  <2>1. CASE v = b + 1
    BY <1>1, <1>2, <2>1
  <2>2. CASE v <= b
    BY <1>1, <2>2 DEF Stream
  <2> QED
    BY <2>1, <2>2
<1> QED
  BY <1>3, <1>4, <1>5 DEF Stream, t

(* ... and the first ranked message taken from it is the next one. *)
LEMMA StreamTailNext ==
  ASSUME NEW s \in Seq(Message), s # <<>>, Ranked(Head(s)), NEW a \in Nat, NEW b \in Nat,
         Stream(s, a, b)
  PROVE  Rank(Head(s)) = a + 1 /\ a < b /\ Stream(Tail(s), a + 1, b)
<1> DEFINE t == Tail(s)
<1>0. \A k \in Nat : In(s, k) => Rank(s[k]) \in Nat /\ k # 0
  BY InValue
<1>1. \A k \in Nat : /\ In(t, k) <=> k # 0 /\ In(s, k + 1)
                     /\ In(t, k) => t[k] = s[k + 1]
  BY InTail, Zenon
<1>2. In(s, 1) /\ Head(s) = s[1]
  BY InTail
<1>3. Rank(s[1]) \in Nat /\ a < Rank(s[1]) /\ Rank(s[1]) <= b
  BY <1>0, <1>2 DEF Stream
<1>4. Rank(s[1]) = a + 1
  <2>1. a + 1 \in Nat /\ a < a + 1 /\ a + 1 <= b
    BY <1>3
  <2>2. PICK k \in Nat : In(s, k) /\ Rank(s[k]) = a + 1
    BY <2>1 DEF Stream
  <2>3. CASE k = 1
    BY <2>2, <2>3
  <2>4. CASE k # 1
    <3>1. 1 < k
      BY <1>0, <2>2, <2>4
    <3>2. Rank(s[1]) < a + 1
      BY <1>2, <2>2, <3>1 DEF Stream
    <3> QED
      BY <1>3, <3>2
  <2> QED
    BY <2>3, <2>4
<1> HIDE DEF t
<1>5. \A k \in Nat : In(t, k) => a + 1 < Rank(t[k]) /\ Rank(t[k]) <= b
  <2> SUFFICES ASSUME NEW k \in Nat, In(t, k)
               PROVE  a + 1 < Rank(t[k]) /\ Rank(t[k]) <= b
    OBVIOUS
  <2>1. In(s, k + 1) /\ t[k] = s[k + 1] /\ 1 < k + 1 /\ k + 1 \in Nat
    BY <1>1
  <2> QED
    BY <1>2, <1>4, <2>1 DEF Stream
<1>6. ASSUME NEW k \in Nat, NEW l \in Nat, In(t, k), In(t, l), k < l
      PROVE  Rank(t[k]) < Rank(t[l])
  <2>1. /\ In(s, k + 1) /\ t[k] = s[k + 1] /\ k + 1 \in Nat
        /\ In(s, l + 1) /\ t[l] = s[l + 1] /\ l + 1 \in Nat /\ k + 1 < l + 1
    BY <1>1, <1>6
  <2> QED
    BY <2>1 DEF Stream
<1>7. \A v \in Nat : a + 1 < v /\ v <= b => \E k \in Nat : In(t, k) /\ Rank(t[k]) = v
  <2> SUFFICES ASSUME NEW v \in Nat, a + 1 < v, v <= b
               PROVE  \E k \in Nat : In(t, k) /\ Rank(t[k]) = v
    OBVIOUS
  <2>1. PICK k \in Nat : In(s, k) /\ Rank(s[k]) = v
    BY DEF Stream
  <2>2. k # 0 /\ k # 1
    BY <1>0, <1>4, <2>1
  <2>3. k - 1 \in Nat /\ k - 1 # 0 /\ (k - 1) + 1 = k
    BY <2>2
  <2> QED
    BY <1>1, <2>1, <2>3
<1> QED
  <2>1. Stream(t, a + 1, b)
    BY <1>5, <1>6, <1>7 DEF Stream
  <2> QED
    BY <1>2, <1>3, <1>4, <2>1 DEF t

(* A queue with nothing of a sync in it. *)
LEMMA StreamNone ==
  ASSUME NEW s \in Seq(Message), NEW a \in Nat, NEW b \in Nat
  PROVE  /\ Silent(s) /\ b <= a => Stream(s, a, b)
         /\ Stream(s, a, b) /\ b <= a => Silent(s)
         /\ Stream(s, a, b) /\ Silent(s) => b <= a
<1>1. Silent(s) /\ b <= a => Stream(s, a, b)
  BY DEF Stream, Silent
<1>2. ASSUME Stream(s, a, b), b <= a, NEW k \in Nat, In(s, k) PROVE FALSE
  BY <1>2, InValue DEF Stream
<1>3. ASSUME Stream(s, a, b), Silent(s) PROVE b <= a
  BY <1>3 DEF Stream, Silent
<1> QED
  BY <1>1, <1>2, <1>3 DEF Silent

(* A silent queue stays silent while nothing ranked is appended. *)
LEMMA SilentMoves ==
  ASSUME NEW s \in Seq(Message)
  PROVE  /\ s = <<>> => Silent(s)
         /\ \A m \in Message : ~Ranked(m) /\ Silent(s) => Silent(Append(s, m))
         /\ s # <<>> /\ Silent(s) => Silent(Tail(s)) /\ ~Ranked(Head(s))
<1>1. s = <<>> => Silent(s)
  BY DEF Silent, In
<1>2. ASSUME NEW m \in Message, ~Ranked(m), Silent(s) PROVE Silent(Append(s, m))
  BY <1>2, InAppend DEF Silent
<1>3. ASSUME s # <<>>, Silent(s) PROVE Silent(Tail(s)) /\ ~Ranked(Head(s))
  <2>1. ASSUME NEW k \in Nat, In(Tail(s), k) PROVE FALSE
    BY <1>3, <2>1, InTail DEF Silent
  <2>2. ~Ranked(Head(s))
    BY <1>3, InTail DEF Silent
  <2> QED
    BY <2>1, <2>2 DEF Silent
<1> QED
  BY <1>1, <1>2, <1>3

(* A queue stays fresh while only saves of this attempt are appended. *)
LEMMA FreshMoves ==
  ASSUME NEW s \in Seq(Message), Fresh(s)
  PROVE  /\ \A m \in Message : (m.type = "End" => m.save # 0 /\ m.attempt = attempt)
               => Fresh(Append(s, m))
         /\ s # <<>> => /\ Fresh(Tail(s))
                        /\ Head(s).type = "End" => Head(s).save # 0 /\ Head(s).attempt = attempt
<1>1. ASSUME NEW m \in Message, m.type = "End" => m.save # 0 /\ m.attempt = attempt
      PROVE  Fresh(Append(s, m))
  <2>1. /\ Len(Append(s, m)) = Len(s) + 1 /\ Len(s) \in Nat /\ Append(s, m)[Len(s) + 1] = m
        /\ \A i \in 1 .. Len(s) : Append(s, m)[i] = s[i]
    BY AppendFacts
  <2> QED
    BY <1>1, <2>1 DEF Fresh
<1>2. ASSUME s # <<>>
      PROVE  /\ Fresh(Tail(s))
             /\ Head(s).type = "End" => Head(s).save # 0 /\ Head(s).attempt = attempt
  <2>1. /\ Len(Tail(s)) = Len(s) - 1 /\ Len(s) \in Nat /\ Len(s) >= 1 /\ Head(s) = s[1]
        /\ \A i \in 1 .. Len(s) - 1 : Tail(s)[i] = s[i + 1]
    BY <1>2, TailFacts
  <2> QED
    BY <2>1 DEF Fresh
<1> QED
  BY <1>1, <1>2

(* Nothing of a sync that is over is fresh or stale. *)
LEMMA SilentFresh ==
  ASSUME NEW s \in Seq(Message), Silent(s)
  PROVE  Fresh(s)
BY DEF Silent, In, Ranked, Fresh

(* What an answer queue keeps when an answer is sent or read. *)
LEMMA SuccessMoves ==
  ASSUME NEW q \in Seq(Said)
  PROVE  /\ q = <<>> => NoSuccess(q)
         /\ NoSuccess(q) => OneSuccess(q) /\ OneSuccess(Append(q, "SaveSuccess"))
         /\ \A a \in Said \ {"SaveSuccess"} :
              /\ NoSuccess(q) => NoSuccess(Append(q, a))
              /\ OneSuccess(q) => OneSuccess(Append(q, a))
         /\ q # <<>> => /\ NoSuccess(q) => NoSuccess(Tail(q)) /\ Head(q) # "SaveSuccess"
                        /\ OneSuccess(q) => OneSuccess(Tail(q))
                        /\ OneSuccess(q) /\ Head(q) = "SaveSuccess" => NoSuccess(Tail(q))
<1>1. q = <<>> => NoSuccess(q)
  BY DEF NoSuccess, Success
<1>2. ASSUME NEW a \in Said
      PROVE  \A i \in Nat : /\ Success(Append(q, a), i) =>
                                 Success(q, i) \/ (i = Len(q) + 1 /\ a = "SaveSuccess")
                            /\ Success(q, i) => i <= Len(q)
  <2>1. /\ Len(Append(q, a)) = Len(q) + 1 /\ Len(q) \in Nat /\ Append(q, a)[Len(q) + 1] = a
        /\ \A i \in 1 .. Len(q) : Append(q, a)[i] = q[i]
    BY AppendFacts
  <2> QED
    BY <2>1 DEF Success
<1>3. NoSuccess(q) => OneSuccess(q) /\ OneSuccess(Append(q, "SaveSuccess"))
  BY <1>2 DEF NoSuccess, OneSuccess, Said
<1>4. ASSUME NEW a \in Said \ {"SaveSuccess"}
      PROVE  /\ NoSuccess(q) => NoSuccess(Append(q, a))
             /\ OneSuccess(q) => OneSuccess(Append(q, a))
  BY <1>2 DEF NoSuccess, OneSuccess
<1>5. ASSUME q # <<>>
      PROVE  /\ NoSuccess(q) => NoSuccess(Tail(q)) /\ Head(q) # "SaveSuccess"
             /\ OneSuccess(q) => OneSuccess(Tail(q))
             /\ OneSuccess(q) /\ Head(q) = "SaveSuccess" => NoSuccess(Tail(q))
  <2>1. /\ Len(Tail(q)) = Len(q) - 1 /\ Len(q) \in Nat /\ Len(q) >= 1 /\ Head(q) = q[1]
        /\ \A i \in 1 .. Len(q) - 1 : Tail(q)[i] = q[i + 1]
    BY <1>5, TailFacts
  <2>2. /\ \A i \in Nat : Success(Tail(q), i) => i # 0 /\ Success(q, i + 1)
        /\ Success(q, 1) <=> Head(q) = "SaveSuccess"
    BY <2>1 DEF Success
  <2>3. NoSuccess(q) => NoSuccess(Tail(q)) /\ Head(q) # "SaveSuccess"
    BY <2>2 DEF NoSuccess
  <2>4. ASSUME OneSuccess(q) PROVE OneSuccess(Tail(q))
    <3>1. ASSUME NEW i \in Nat, NEW j \in Nat, Success(Tail(q), i), Success(Tail(q), j)
          PROVE  i = j
      <4>1. Success(q, i + 1) /\ Success(q, j + 1) /\ i + 1 \in Nat /\ j + 1 \in Nat
        BY <2>2, <3>1
      <4>2. i + 1 = j + 1
        BY <2>4, <4>1 DEF OneSuccess
      <4> QED
        BY <4>2
    <3> QED
      BY <3>1 DEF OneSuccess
  <2>5. ASSUME OneSuccess(q), Head(q) = "SaveSuccess", NEW i \in Nat, Success(Tail(q), i)
        PROVE  FALSE
    <3>1. Success(q, i + 1) /\ Success(q, 1) /\ i + 1 \in Nat /\ i # 0
      BY <2>2, <2>5
    <3>2. i + 1 = 1
      BY <2>5, <3>1 DEF OneSuccess
    <3> QED
      BY <3>1, <3>2
  <2> QED
    BY <2>3, <2>4, <2>5 DEF NoSuccess
<1> QED
  BY <1>1, <1>3, <1>4, <1>5

----------------------------------------------------------------------------
(* The steps of a start that nothing disturbs. *)
LEMMA AbortedStays ==
  ASSUME [Next]_vars, aborted
  PROVE  aborted'
<1>1. CASE UNCHANGED vars
  BY <1>1, Zenon DEF vars
<1>2. CASE ChunkThread
  BY <1>2, Zenon
  DEF ChunkThread, ChunkedDataWake, ChunkedDataClear, ChunkedDataStart,
      ChunkedDataSend, ChunkedDataEnd, ChunkedDataCheck, ChunkedDataWait
<1>3. CASE GuiThread
  BY <1>3, Zenon DEF GuiThread, RequestSaves, RequestCodes, RequestNow, GuiEnableOptions
<1>4. ASSUME NEW c \in Guest, Guestly(c) PROVE aborted'
  BY <1>4, Zenon DEF Guestly, GuestOnChunk, GuestOnCodes
<1>5. CASE ServerNet
  <2>1. CASE DrainAsync \/ OnConnectAdd \/ FailureClearsPending
    BY <2>1, Zenon DEF DrainAsync, OnConnectAdd, FailureClearsPending
  <2>2. ASSUME NEW c \in Guest, OnAnswer(c) \/ OnChunkedDataComplete(c) PROVE aborted'
    BY <2>2, Zenon
    DEF OnAnswer, OnSaveSuccess, OnCodesSuccess, OnSaveFailure, OnChunkedDataComplete
  <2> QED
    BY <1>5, <2>1, <2>2 DEF ServerNet
<1>6. CASE Outside
  <2>1. ASSUME NEW c \in Guest, OnConnect(c) \/ OnDisconnect(c) PROVE aborted'
    BY <2>1, Zenon DEF OnConnect, OnDisconnect
  <2>2. CASE AbortGameStart \/ EndGame
    BY <2>2, Zenon DEF AbortGameStart, EndGame
  <2>3. ASSUME NEW n \in 0 .. (Saves - 1), RequestSavesFails(n) PROVE aborted'
    BY <2>3, Zenon DEF RequestSavesFails
  <2>4. ASSUME NEW saves \in BOOLEAN, NEW cds \in BOOLEAN, PressStart(saves, cds) PROVE aborted'
    BY <2>4, Zenon DEF PressStart
  <2> QED
    BY <1>6, <2>1, <2>2, <2>3, <2>4 DEF Outside
<1> QED
  BY <1>1, <1>2, <1>3, <1>4, <1>5, <1>6 DEF Next

(* What a step can be while nothing is aborted. *)
Regular ==
  \/ UNCHANGED vars
  \/ DrainAsync \/ OnConnectAdd
  \/ RequestSaves \/ RequestCodes \/ RequestNow \/ EndGame
  \/ ChunkedDataWake \/ ChunkedDataStart
  \/ ChunkedDataSend \/ ChunkedDataEnd \/ ChunkedDataCheck \/ ChunkedDataWait
  \/ \E saves, cds \in BOOLEAN : PressStart(saves, cds)
  \/ \E c \in Guest : \/ GuestOnChunk(c) \/ GuestOnCodes(c) \/ OnChunkedDataComplete(c)
                      \/ OnConnect(c) \/ (OnDisconnect(c) /\ ~pending)
                      \/ (OnAnswer(c) /\ Head(answers[c]) = "SaveSuccess" /\ OnSaveSuccess)
                      \/ (OnAnswer(c) /\ Head(answers[c]) = "CodesSuccess" /\ OnCodesSuccess)

(* A step after which nothing is aborted is regular. *)
LEMMA RegularStep ==
  ASSUME [Next]_vars, Undisturbed, ~aborted'
  PROVE  Regular
<1>1. CASE ChunkThread
  <2>1. ~ChunkedDataClear
    BY DEF ChunkedDataClear, Undisturbed
  <2> QED
    BY <1>1, <2>1 DEF ChunkThread, Regular
<1>2. CASE GuiThread
  <2>1. ~GuiEnableOptions
    BY DEF GuiEnableOptions, Undisturbed
  <2> QED
    BY <1>2, <2>1 DEF GuiThread, Regular
<1>3. ASSUME NEW c \in Guest, Guestly(c) PROVE Regular
  BY <1>3 DEF Guestly, Regular
<1>4. CASE ServerNet
  <2>1. ~FailureClearsPending
    BY DEF FailureClearsPending, Undisturbed
  <2>2. ASSUME NEW c \in Guest, OnAnswer(c) PROVE Regular
    <3>1. ~OnSaveFailure
      BY Zenon DEF OnSaveFailure
    <3>2. \/ Head(answers[c]) = "SaveSuccess" /\ OnSaveSuccess
          \/ Head(answers[c]) = "CodesSuccess" /\ OnCodesSuccess
      BY <2>2, <3>1, Zenon DEF OnAnswer
    <3> QED
      BY <2>2, <3>2 DEF Regular
  <2> QED
    BY <1>4, <2>1, <2>2 DEF ServerNet, Regular
<1>5. CASE Outside
  <2>1. ASSUME NEW c \in Guest, OnDisconnect(c) PROVE Regular
    <3>1. ~pending
      BY <2>1, Zenon DEF OnDisconnect
    <3> QED
      BY <2>1, <3>1 DEF Regular
  <2>2. ~AbortGameStart /\ \A n \in 0 .. (Saves - 1) : ~RequestSavesFails(n)
    BY Zenon DEF AbortGameStart, RequestSavesFails
  <2> QED
    BY <1>5, <2>1, <2>2, Zenon DEF Outside, Regular
<1> QED
  BY <1>1, <1>2, <1>3, <1>4, <1>5, Zenon DEF Next, Regular

(* A regular step disturbs nothing. *)
LEMMA UndisturbedStep ==
  ASSUME Regular, Undisturbed
  PROVE  Undisturbed'
<1>1. UNCHANGED <<abort, net, enableQ, ct>> => Undisturbed'
  BY DEF Undisturbed
<1>2. CASE UNCHANGED vars \/ DrainAsync \/ OnConnectAdd \/ EndGame
  BY <1>1, <1>2, Zenon
  DEF vars, chunkVars, flagVars, sessVars, DrainAsync, OnConnectAdd, EndGame
<1>3. CASE RequestSaves \/ RequestCodes \/ RequestNow
  BY <1>1, <1>3, Zenon DEF chunkVars, flagVars, sessVars, RequestSaves, RequestCodes, RequestNow
<1>4. CASE \/ ChunkedDataWake \/ ChunkedDataStart \/ ChunkedDataSend \/ ChunkedDataEnd
           \/ ChunkedDataCheck \/ ChunkedDataWait
  <2>1. ct' # "clear"
    BY <1>4
    DEF ChunkedDataWake, ChunkedDataStart, ChunkedDataSend, ChunkedDataEnd, ChunkedDataCheck,
        ChunkedDataWait, Undisturbed
  <2>2. UNCHANGED <<abort, net, enableQ>>
    BY <1>4, Zenon
    DEF ChunkedDataWake, ChunkedDataStart, ChunkedDataSend, ChunkedDataEnd, ChunkedDataCheck,
        ChunkedDataWait, flagVars, sessVars
  <2> QED
    BY <2>1, <2>2, Zenon DEF Undisturbed
<1>5. ASSUME NEW saves \in BOOLEAN, NEW cds \in BOOLEAN, PressStart(saves, cds) PROVE Undisturbed'
  BY <1>1, <1>5, Zenon DEF PressStart, chunkVars, flagVars, sessVars
<1>6. ASSUME NEW c \in Guest, GuestOnChunk(c) \/ GuestOnCodes(c) \/ OnChunkedDataComplete(c)
                              \/ OnConnect(c) \/ (OnDisconnect(c) /\ ~pending)
      PROVE  Undisturbed'
  BY <1>1, <1>6, Zenon
  DEF GuestOnChunk, GuestOnCodes, OnChunkedDataComplete, OnConnect, OnDisconnect, chunkVars,
      flagVars, sessVars
<1>7. ASSUME NEW c \in Guest, OnAnswer(c), OnSaveSuccess \/ OnCodesSuccess PROVE Undisturbed'
  BY <1>1, <1>7, Zenon DEF OnAnswer, OnSaveSuccess, OnCodesSuccess, chunkVars, flagVars
<1> QED
  BY <1>2, <1>3, <1>4, <1>5, <1>6, <1>7, Zenon DEF Regular

(* A start is pending for as long as its saves are. *)
LEMMA WaitingStep ==
  ASSUME Regular, Waiting, TypeOK
  PROVE  Waiting'
<1>1. UNCHANGED <<startNow, gui, button, pending, savesSynced>> => Waiting'
  BY DEF Waiting
<1>2. CASE UNCHANGED vars \/ DrainAsync \/ OnConnectAdd
  BY <1>1, <1>2, Zenon DEF vars, guiVars, startVars, DrainAsync, OnConnectAdd
<1>3. CASE RequestSaves
  <2>1. CASE want.saves /\ Guests # {}
    <3>1. startNow' = FALSE /\ gui' = "codes" /\ pending' = TRUE
      BY <1>3, <2>1, Zenon DEF RequestSaves
    <3> QED
      BY <3>1 DEF Waiting
  <2>2. CASE ~(want.saves /\ Guests # {})
    <3>1. UNCHANGED <<startNow, pending, savesSynced, button>> /\ gui' = "codes"
      BY <1>3, <2>2, Zenon DEF RequestSaves
    <3> QED
      BY <3>1 DEF Waiting
  <2> QED
    BY <2>1, <2>2
<1>4. CASE RequestCodes
  <2>1. CASE want.codes /\ Guests # {}
    <3>1. startNow' = FALSE /\ gui' = "now" /\ pending' = TRUE
      BY <1>4, <2>1, Zenon DEF RequestCodes
    <3> QED
      BY <3>1 DEF Waiting
  <2>2. CASE ~(want.codes /\ Guests # {})
    <3>1. UNCHANGED <<startNow, pending, savesSynced, button>> /\ gui' = "now"
      BY <1>4, <2>2, Zenon DEF RequestCodes
    <3> QED
      BY <3>1 DEF Waiting
  <2> QED
    BY <2>1, <2>2
<1>5. CASE RequestNow
  <2>1. gui' = "idle" /\ button' = FALSE /\ UNCHANGED <<startNow, savesSynced>>
    BY <1>5, Zenon DEF RequestNow
  <2>2. CASE startNow
    <3>1. pending' = FALSE
      BY <1>5, <2>2, Zenon DEF RequestNow, StartGame
    <3> QED
      BY <2>1, <2>2, <3>1 DEF Waiting
  <2>3. CASE ~startNow
    <3>1. pending' = pending
      BY <1>5, <2>3, Zenon DEF RequestNow
    <3> QED
      BY <2>1, <2>3, <3>1 DEF Waiting
  <2> QED
    BY <2>2, <2>3
<1>6. CASE EndGame
  <2>1. UNCHANGED <<pending, savesSynced>> /\ ~pending
    BY <1>6, Zenon DEF EndGame
  <2> QED
    BY <2>1 DEF Waiting
<1>7. CASE \/ ChunkedDataWake \/ ChunkedDataStart \/ ChunkedDataSend \/ ChunkedDataEnd
           \/ ChunkedDataCheck \/ ChunkedDataWait
  BY <1>1, <1>7, Zenon
  DEF ChunkedDataWake, ChunkedDataStart, ChunkedDataSend, ChunkedDataEnd, ChunkedDataCheck,
      ChunkedDataWait, guiVars, startVars
<1>8. ASSUME NEW saves \in BOOLEAN, NEW cds \in BOOLEAN, PressStart(saves, cds) PROVE Waiting'
  <2>1. gui = "idle" /\ button /\ UNCHANGED <<pending, savesSynced>>
    BY <1>8, Zenon DEF PressStart, startVars
  <2> QED
    BY <2>1 DEF Waiting
<1>9. ASSUME NEW c \in Guest, GuestOnChunk(c) \/ GuestOnCodes(c) \/ OnChunkedDataComplete(c)
                              \/ OnConnect(c)
      PROVE  Waiting'
  BY <1>1, <1>9, Zenon
  DEF GuestOnChunk, GuestOnCodes, OnChunkedDataComplete, OnConnect, guiVars, startVars
<1>10. ASSUME NEW c \in Guest, OnDisconnect(c), ~pending PROVE Waiting'
  <2>1. pending' = FALSE /\ savesSynced' = savesSynced
    BY <1>10, Zenon DEF OnDisconnect
  <2> QED
    BY <1>10, <2>1 DEF Waiting
<1>11. ASSUME NEW c \in Guest, OnAnswer(c), OnSaveSuccess \/ OnCodesSuccess PROVE Waiting'
  <2>1. UNCHANGED <<startNow, gui, button>>
    BY <1>11, Zenon DEF OnAnswer, guiVars
  <2>2. CASE ~pending
    <3>1. UNCHANGED <<pending, savesSynced>>
      BY <1>11, <2>2, Zenon DEF OnSaveSuccess, OnCodesSuccess
    <3> QED
      BY <1>1, <2>1, <3>1
  <2>3. CASE pending
    <3>1. \/ UNCHANGED pending
          \/ pending' = FALSE /\ savesSynced' = TRUE
      <4>1. CASE OnSaveSuccess
        BY <2>3, <4>1, Zenon DEF OnSaveSuccess, StartGame
      <4>2. CASE OnCodesSuccess
        BY <2>3, <4>2, Zenon DEF OnCodesSuccess, StartGame, TypeOK, StartTypeOK
      <4> QED
        BY <1>11, <4>1, <4>2
    <3> QED
      BY <2>1, <2>3, <3>1 DEF Waiting
  <2> QED
    BY <2>2, <2>3
<1> QED
  BY <1>2, <1>3, <1>4, <1>5, <1>6, <1>7, <1>8, <1>9, <1>10, <1>11, Zenon DEF Regular

(* Nothing is on its way to or from somebody who is not a player. *)
LEMMA AbsentStep ==
  ASSUME Regular, Absent, TypeOK
  PROVE  Absent'
<1>0. /\ players \subseteq Player /\ gone \subseteq Guest /\ starters \subseteq Guest
      /\ 0 \notin Player /\ 1 \notin Guest /\ Guest \subseteq Player
      /\ chunks \in [Guest -> Seq(ChunkMsg)] /\ answers \in [Guest -> Seq(Said)]
  BY PlayerAssumption DEF TypeOK, SessionTypeOK, GuiTypeOK, WireTypeOK, Guest, Said
<1>1. UNCHANGED <<starters, players, gone, joining, chunks, answers>> => Absent'
  BY DEF Absent
<1>2. CASE UNCHANGED vars \/ RequestSaves \/ RequestCodes \/ RequestNow \/ EndGame
  BY <1>1, <1>2, Zenon
  DEF vars, guiVars, pressVars, sessVars, wireVars, RequestSaves, RequestCodes, RequestNow, EndGame
<1>3. CASE \/ ChunkedDataWake \/ ChunkedDataStart \/ ChunkedDataSend \/ ChunkedDataEnd
           \/ ChunkedDataCheck \/ ChunkedDataWait
  BY <1>1, <1>3, Zenon
  DEF ChunkedDataWake, ChunkedDataStart, ChunkedDataSend, ChunkedDataEnd, ChunkedDataCheck,
      ChunkedDataWait, guiVars, pressVars, sessVars, wireVars
<1>4. ASSUME NEW saves \in BOOLEAN, NEW cds \in BOOLEAN, PressStart(saves, cds) PROVE Absent'
  <2>1. starters' = players \ {1} /\ UNCHANGED <<players, gone, joining, chunks, answers>>
    BY <1>4, Zenon DEF PressStart, Guests, sessVars, wireVars
  <2> QED
    BY <2>1 DEF Absent
<1>5. CASE DrainAsync
  <2>1. UNCHANGED <<starters, players, gone, joining, answers>>
    BY <1>5, Zenon DEF DrainAsync, guiVars, pressVars, sessVars
  <2>2. \A c \in Guest \ players : chunks'[c] = chunks[c]
    BY <1>0, <1>5 DEF DrainAsync
  <2> QED
    BY <2>1, <2>2 DEF Absent
<1>6. CASE OnConnectAdd
  <2>1. /\ players' = players \cup {joining} /\ joining' = 0
        /\ UNCHANGED <<starters, gone, chunks, answers>>
    BY <1>6, Zenon DEF OnConnectAdd, guiVars, pressVars, wireVars
  <2>2. joining \in Guest
    BY <1>6 DEF OnConnectAdd, TypeOK, SessionTypeOK
  <2> QED
    BY <1>0, <2>1, <2>2 DEF Absent
<1>7. ASSUME NEW c \in Guest, OnConnect(c) PROVE Absent'
  <2>1. /\ c \notin players \cup gone /\ joining' = c
        /\ UNCHANGED <<starters, players, gone, chunks, answers>>
    BY <1>7, Zenon DEF OnConnect, guiVars, pressVars, wireVars
  <2> QED
    BY <2>1 DEF Absent
<1>8. ASSUME NEW c \in Guest, OnDisconnect(c) PROVE Absent'
  <2>1. /\ players' = players \ {c} /\ gone' = gone \cup {c} /\ joining' = joining
        /\ chunks' = [chunks EXCEPT ![c] = <<>>] /\ answers' = [answers EXCEPT ![c] = <<>>]
        /\ starters' = starters /\ c \in players
    BY <1>8, Zenon DEF OnDisconnect, guiVars, pressVars, Guests
  <2> QED
    BY <1>0, <2>1 DEF Absent
<1>9. ASSUME NEW c \in Guest, \/ GuestOnChunk(c) \/ GuestOnCodes(c) \/ OnChunkedDataComplete(c)
                              \/ OnAnswer(c)
      PROVE  Absent'
  <2>1. UNCHANGED <<starters, players, gone, joining>> /\ c \in players
    BY <1>9, Zenon
    DEF GuestOnChunk, GuestOnCodes, OnChunkedDataComplete, OnAnswer, guiVars, pressVars, sessVars
  <2>2. \A d \in Guest \ {c} : chunks'[d] = chunks[d]
    BY <1>0, <1>9 DEF GuestOnChunk, GuestOnCodes, OnChunkedDataComplete, OnAnswer
  <2>3. \A d \in Guest \ {c} : answers'[d] = answers[d]
    <3>1. CASE GuestOnChunk(c)
      BY <1>0, <3>1
      DEF GuestOnChunk, OnSyncSaveDataNotify, OnChunkedDataStart, OnChunkedDataAbort,
          OnChunkedDataEnd, SaveSuccess, Answer
    <3>2. CASE GuestOnCodes(c) \/ OnChunkedDataComplete(c) \/ OnAnswer(c)
      BY <1>0, <3>2 DEF GuestOnCodes, OnChunkedDataComplete, OnAnswer, Answer
    <3> QED
      BY <1>9, <3>1, <3>2
  <2> QED
    BY <2>1, <2>2, <2>3 DEF Absent
<1> QED
  BY <1>2, <1>3, <1>4, <1>5, <1>6, <1>7, <1>8, <1>9, Zenon DEF Regular

----------------------------------------------------------------------------
(* Steps that move nothing of a sync. *)
Moves(s, t) ==
  \/ t = s
  \/ \E m \in Message : ~Ranked(m) /\ t = Append(s, m)
  \/ s # <<>> /\ ~Ranked(Head(s)) /\ t = Tail(s)
Says(q, t) ==
  \/ t = q
  \/ \E a \in Said \ {"SaveSuccess"} : t = Append(q, a)
  \/ q # <<>> /\ Head(q) # "SaveSuccess" /\ t = Tail(q)
Passive ==
  /\ UNCHANGED <<got, store, attempt, players, joining, saveCount, savesSynced, Unsent>>
  /\ Moves(async, async')
  /\ \A c \in Guests : Moves(chunks[c], chunks'[c]) /\ Says(answers[c], answers'[c])

(* Such a move keeps every property of a queue. *)
LEMMA Carried ==
  ASSUME NEW s \in Seq(Message), NEW t, Moves(s, t)
  PROVE  /\ Silent(s) => Silent(t)
         /\ Fresh(s) => Fresh(t)
         /\ \A a, b \in Nat : Stream(s, a, b) => Stream(t, a, b)
<1>1. CASE t = s
  BY <1>1
<1>2. ASSUME NEW m \in Message, ~Ranked(m), t = Append(s, m)
      PROVE  /\ Silent(s) => Silent(t)
             /\ Fresh(s) => Fresh(t)
             /\ \A a, b \in Nat : Stream(s, a, b) => Stream(t, a, b)
  <2>1. Silent(s) => Silent(t)
    BY <1>2, SilentMoves
  <2>2. Fresh(s) => Fresh(t)
    BY <1>2, FreshMoves DEF Ranked
  <2>3. \A a, b \in Nat : Stream(s, a, b) => Stream(t, a, b)
    BY <1>2, StreamAppendOther
  <2> QED
    BY <2>1, <2>2, <2>3
<1>3. CASE s # <<>> /\ ~Ranked(Head(s)) /\ t = Tail(s)
  <2>1. Silent(s) => Silent(t)
    BY <1>3, SilentMoves
  <2>2. Fresh(s) => Fresh(t)
    BY <1>3, FreshMoves
  <2>3. \A a, b \in Nat : Stream(s, a, b) => Stream(t, a, b)
    BY <1>3, StreamTailOther
  <2> QED
    BY <2>1, <2>2, <2>3
<1> QED
  BY <1>1, <1>2, <1>3 DEF Moves

(* Nor does it add a success to the answers. *)
LEMMA Repeated ==
  ASSUME NEW q \in Seq(Said), NEW t, Says(q, t)
  PROVE  (NoSuccess(q) => NoSuccess(t)) /\ (OneSuccess(q) => OneSuccess(t))
BY SuccessMoves DEF Says

(* The queues hold messages. *)
LEMMA Queues ==
  ASSUME TypeOK
  PROVE  /\ async \in Seq(Message)
         /\ \A c \in Guest : chunks[c] \in Seq(Message) /\ answers[c] \in Seq(Said)
         /\ Guests \subseteq Guest
<1>1. chunks \in [Guest -> Seq(ChunkMsg)] /\ answers \in [Guest -> Seq(Said)]
      /\ async \in Seq(Message)
  BY DEF TypeOK, WireTypeOK, Said, Message
<1>2. \A s \in Seq(ChunkMsg) : s \in Seq(Message)
  BY DEF Message
<1>3. Guests \subseteq Guest
  BY DEF TypeOK, SessionTypeOK, Guests, Guest
<1> QED
  BY <1>1, <1>2, <1>3

(* Passive steps keep what is said of the sync. *)
LEMMA PassiveStep ==
  ASSUME TypeOK, Synced, Passive
  PROVE  Synced'
<1>0. Guests' = Guests /\ Unsent' = Unsent /\ savesSynced' = savesSynced
      /\ UNCHANGED <<got, store, attempt, joining, saveCount>>
  BY DEF Passive, Guests
<1>1. /\ Silent(async) => Silent(async)'
      /\ Fresh(async) => Fresh(async)'
      /\ \A a, b \in Nat : Stream(async, a, b) => Stream(async, a, b)'
  <2>1. /\ Silent(async) => Silent(async')
        /\ Fresh(async) => Fresh(async')
        /\ \A a, b \in Nat : Stream(async, a, b) => Stream(async', a, b)
    BY Carried, Queues DEF Passive
  <2> QED
    BY <1>0, <2>1 DEF Silent, Fresh, Stream
<1>2. ASSUME NEW c \in Guests
      PROVE  /\ Silent(chunks[c]) => Silent(chunks[c])'
             /\ Fresh(chunks[c]) => Fresh(chunks[c])'
             /\ \A a, b \in Nat : Stream(chunks[c], a, b) => Stream(chunks[c], a, b)'
             /\ NoSuccess(answers[c]) => NoSuccess(answers[c])'
             /\ OneSuccess(answers[c]) => OneSuccess(answers[c])'
  <2>1. chunks[c] \in Seq(Message) /\ answers[c] \in Seq(Said)
    BY Queues
  <2>2. Moves(chunks[c], chunks'[c]) /\ Says(answers[c], answers'[c])
    BY DEF Passive
  <2>3. /\ Silent(chunks[c]) => Silent(chunks'[c])
        /\ Fresh(chunks[c]) => Fresh(chunks'[c])
        /\ \A a, b \in Nat : Stream(chunks[c], a, b) => Stream(chunks'[c], a, b)
    BY <2>1, <2>2, Carried
  <2>4. /\ NoSuccess(answers[c]) => NoSuccess(answers'[c])
        /\ OneSuccess(answers[c]) => OneSuccess(answers'[c])
    BY <2>1, <2>2, Repeated
  <2> QED
    BY <1>0, <2>3, <2>4 DEF Silent, Fresh, Stream, NoSuccess, OneSuccess
<1>3. AllSent => AllSent'
  BY <1>0, <1>1 DEF AllSent
<1>4. Quiet => Quiet'
  BY <1>0, <1>2, <1>3 DEF Quiet
<1>5. ASSUME NEW c \in Guests, NEW k PROVE Handled(c, k) => Handled(c, k)'
  BY <1>0 DEF Handled
<1>6. ASSUME NEW c \in Guests, NEW m \in Nat, Fed(c, m) PROVE Fed(c, m)'
  <2>1. PICK k \in 0 .. m : Handled(c, k) /\ Stream(chunks[c], k, m)
    BY <1>6 DEF Fed
  <2>2. Handled(c, k)' /\ Stream(chunks[c], k, m)'
    BY <1>2, <1>5, <2>1
  <2>3. Fresh(chunks[c])'
    BY <1>2, <1>6 DEF Fed
  <2> QED
    BY <2>2, <2>3 DEF Fed
<1>7. ASSUME NEW u PROVE Rest(u) => Rest(u)'
  BY <1>0 DEF Rest
<1>8. Flow => Flow'
  <2> SUFFICES ASSUME Flow PROVE Flow'
    OBVIOUS
  <2>1. PICK u \in 1 .. Saves + 1 : \E m \in 0 .. u :
          /\ Stream(async, m, u) /\ Rest(u) /\ (joining # 0 => m = 0)
          /\ \A c \in Guests : Fed(c, m)
    BY DEF Flow
  <2>2. PICK m \in 0 .. u :
          /\ Stream(async, m, u) /\ Rest(u) /\ (joining # 0 => m = 0)
          /\ \A c \in Guests : Fed(c, m)
    BY <2>1
  <2>3. m \in Nat /\ u \in Nat
    OBVIOUS
  <2>4. Stream(async, m, u)' /\ Rest(u)' /\ (joining # 0 => m = 0)'
    BY <1>0, <1>1, <1>7, <2>2, <2>3
  <2>5. \A c \in Guests : Fed(c, m)'
    BY <1>6, <2>2, <2>3
  <2>6. Fresh(async)'
    BY <1>1 DEF Flow
  <2> QED
    BY <1>0, <2>4, <2>5, <2>6 DEF Flow
<1>9. Tally => Tally'
  <2> SUFFICES ASSUME Tally PROVE Tally'
    OBVIOUS
  <2>1. PICK D \in SUBSET Guests : Counted(D)
    BY DEF Tally
  <2>2. \A c \in Guests : Done(c) => Done(c)'
    BY <1>0, <1>2, <1>3 DEF Done, Holding
  <2>3. Counted(D)'
    BY <1>0, <1>2, <2>1, <2>2 DEF Counted
  <2> QED
    BY <1>0, <2>3 DEF Tally
<1> QED
  BY <1>0, <1>4, <1>8, <1>9 DEF Synced

(* The passive steps of the server and of the GUI, ... *)
LEMMA PassiveServer ==
  ASSUME TypeOK, Undisturbed,
         \/ UNCHANGED vars \/ RequestCodes \/ RequestNow \/ EndGame
         \/ ChunkedDataWake \/ ChunkedDataStart \/ ChunkedDataSend \/ ChunkedDataCheck
         \/ ChunkedDataWait
         \/ (DrainAsync /\ ~Ranked(Head(async)))
         \/ \E c \in Guest : OnChunkedDataComplete(c)
  PROVE  Passive
<1>0. \A s, q : Moves(s, s) /\ Says(q, q)
  BY DEF Moves, Says
<1>1. UNCHANGED <<got, store, attempt, players, joining, saveCount, savesSynced>>
  BY Zenon
  DEF vars, guestVars, guiVars, pressVars, startVars, sessVars, RequestCodes, RequestNow, EndGame,
      ChunkedDataWake, ChunkedDataStart, ChunkedDataSend, ChunkedDataCheck, ChunkedDataWait,
      DrainAsync, OnChunkedDataComplete
<1>2. Unsent' = Unsent
  <2>1. ct' = ct /\ cq' = cq => Unsent' = Unsent
    BY DEF Unsent
  <2>2. CASE \/ UNCHANGED vars \/ RequestCodes \/ RequestNow \/ EndGame \/ DrainAsync
             \/ \E c \in Guest : OnChunkedDataComplete(c)
    BY <2>1, <2>2, Zenon
    DEF vars, chunkVars, RequestCodes, RequestNow, EndGame, DrainAsync, OnChunkedDataComplete
  <2>3. CASE ChunkedDataWake
    BY <2>3 DEF ChunkedDataWake, Undisturbed, Unsent
  <2>4. CASE ChunkedDataStart
    BY <2>4 DEF ChunkedDataStart, Unsent
  <2>5. CASE ChunkedDataSend
    BY <2>5 DEF ChunkedDataSend, Unsent
  <2>6. CASE ChunkedDataCheck
    BY <2>6 DEF ChunkedDataCheck, Unsent
  <2>7. CASE ChunkedDataWait
    BY <2>7 DEF ChunkedDataWait, Unsent
  <2> QED
    BY <2>2, <2>3, <2>4, <2>5, <2>6, <2>7
<1>3. Moves(async, async')
  <2>1. async' = async => Moves(async, async')
    BY <1>0
  <2>2. CASE \/ UNCHANGED vars \/ RequestNow \/ EndGame \/ ChunkedDataWake \/ ChunkedDataCheck
             \/ ChunkedDataWait \/ \E c \in Guest : OnChunkedDataComplete(c)
    BY <2>1, <2>2, Zenon
    DEF vars, RequestNow, EndGame, ChunkedDataWake, ChunkedDataCheck, ChunkedDataWait,
        OnChunkedDataComplete
  <2>3. CASE RequestCodes
    <3>1. attempt \in Nat
      BY DEF TypeOK, GuiTypeOK
    <3>2. [type |-> "Codes", attempt |-> attempt] \in Message
      BY <3>1, MessageTypes DEF Message
    <3>3. ~Ranked([type |-> "Codes", attempt |-> attempt])
      BY DEF Ranked
    <3>4. async' = async \/ async' = Append(async, [type |-> "Codes", attempt |-> attempt])
      BY <2>3, Zenon DEF RequestCodes, SyncCodes
    <3> QED
      BY <2>1, <3>2, <3>3, <3>4, Zenon DEF Moves
  <2>4. CASE ChunkedDataStart
    <3>1. cid + 1 \in Nat
      BY DEF TypeOK, ChunkTypeOK
    <3>2. [type |-> "Start", id |-> cid + 1] \in Message
      BY <3>1, MessageTypes DEF Message
    <3>3. ~Ranked([type |-> "Start", id |-> cid + 1])
      BY DEF Ranked
    <3>4. async' = async \/ async' = Append(async, [type |-> "Start", id |-> cid + 1])
      BY <2>4, Zenon DEF ChunkedDataStart
    <3> QED
      BY <2>1, <3>2, <3>3, <3>4, Zenon DEF Moves
  <2>5. CASE ChunkedDataSend
    BY <2>1, <2>5, Zenon DEF ChunkedDataSend, Undisturbed
  <2>6. CASE DrainAsync /\ ~Ranked(Head(async))
    BY <2>6, Zenon DEF DrainAsync, Moves
  <2> QED
    BY <2>2, <2>3, <2>4, <2>5, <2>6
<1>4. \A c \in Guests : Moves(chunks[c], chunks'[c]) /\ Says(answers[c], answers'[c])
  <2>1. CASE DrainAsync /\ ~Ranked(Head(async))
    <3>1. answers' = answers
      BY <2>1 DEF DrainAsync
    <3>2. Head(async) \in Message
      BY <2>1, Queues, TailFacts DEF DrainAsync
    <3>3. ASSUME NEW c \in Guest
          PROVE  chunks'[c] = chunks[c] \/ chunks'[c] = Append(chunks[c], Head(async))
      BY <2>1 DEF DrainAsync, TypeOK, WireTypeOK
    <3>4. \A c \in Guest : Moves(chunks[c], chunks'[c])
      BY <2>1, <3>2, <3>3, Zenon DEF Moves
    <3> QED
      BY <1>0, <3>1, <3>4, Queues
  <2>2. CASE ~(DrainAsync /\ ~Ranked(Head(async)))
    <3>1. chunks' = chunks /\ answers' = answers
      BY <2>2, Zenon
      DEF vars, wireVars, RequestCodes, RequestNow, EndGame, ChunkedDataWake, ChunkedDataStart,
          ChunkedDataSend, ChunkedDataCheck, ChunkedDataWait, OnChunkedDataComplete
    <3> QED
      BY <1>0, <3>1
  <2> QED
    BY <2>1, <2>2
<1> QED
  BY <1>1, <1>2, <1>3, <1>4, Zenon DEF Passive

(* ... and those of a guest. *)
LEMMA PassiveGuest ==
  ASSUME TypeOK, NEW c \in Guest,
         \/ GuestOnCodes(c)
         \/ (GuestOnChunk(c) /\ ~Ranked(Head(chunks[c])))
         \/ (OnAnswer(c) /\ Head(answers[c]) # "SaveSuccess" /\ OnCodesSuccess)
  PROVE  Passive
<1>0. \A s, q : Moves(s, s) /\ Says(q, q)
  BY DEF Moves, Says
<1>1. chunks \in [Guest -> Seq(ChunkMsg)] /\ answers \in [Guest -> Seq(Said)]
  BY DEF TypeOK, WireTypeOK, Said
<1>2. CASE GuestOnCodes(c)
  <2>1. /\ UNCHANGED <<got, store, attempt, players, joining, saveCount, savesSynced>>
        /\ UNCHANGED <<ct, cq, async, chunks>>
    BY <1>2, Zenon DEF GuestOnCodes, guiVars, pressVars, startVars, sessVars, chunkVars
  <2>2. answers' = [answers EXCEPT ![c] = Append(@, "CodesSuccess")]
    BY <1>2, Zenon DEF GuestOnCodes, Answer
  <2>3. \A d \in Guest : Says(answers[d], answers'[d])
    <3>1. \A d \in Guest : answers'[d] = answers[d] \/ answers'[d] = Append(answers[d], "CodesSuccess")
      BY <1>1, <2>2
    <3>2. "CodesSuccess" \in Said \ {"SaveSuccess"}
      BY DEF Said
    <3> QED
      BY <3>1, <3>2, Zenon DEF Says
  <2>4. Unsent' = Unsent
    BY <2>1 DEF Unsent
  <2> QED
    BY <1>0, <2>1, <2>3, <2>4, Queues DEF Passive
<1>3. CASE OnAnswer(c) /\ Head(answers[c]) # "SaveSuccess" /\ OnCodesSuccess
  <2>1. /\ UNCHANGED <<got, store, attempt, players, joining, saveCount, savesSynced>>
        /\ UNCHANGED <<ct, cq, async, chunks>>
    BY <1>3, Zenon
    DEF OnAnswer, OnCodesSuccess, guiVars, pressVars, guestVars, chunkVars
  <2>2. answers' = [answers EXCEPT ![c] = Tail(@)] /\ answers[c] # <<>>
    BY <1>3, Zenon DEF OnAnswer
  <2>3. \A d \in Guest : Says(answers[d], answers'[d])
    <3>1. \A d \in Guest \ {c} : answers'[d] = answers[d]
      BY <1>1, <2>2
    <3>2. answers'[c] = Tail(answers[c])
      BY <1>1, <2>2
    <3> QED
      BY <1>0, <1>3, <2>2, <3>1, <3>2, Zenon DEF Says
  <2>4. Unsent' = Unsent
    BY <2>1 DEF Unsent
  <2> QED
    BY <1>0, <2>1, <2>3, <2>4, Queues DEF Passive
<1>4. CASE GuestOnChunk(c) /\ ~Ranked(Head(chunks[c]))
  <2>1. /\ UNCHANGED <<attempt, players, joining, saveCount, savesSynced, ct, cq, async>>
        /\ chunks[c] # <<>> /\ chunks' = [chunks EXCEPT ![c] = Tail(@)]
    BY <1>4, Zenon
    DEF GuestOnChunk, guiVars, pressVars, startVars, sessVars, chunkVars
  <2>2. OnChunkedDataStart(c, Head(chunks[c])) \/ OnChunkedDataAbort(c, Head(chunks[c]))
    <3>1. Head(chunks[c]).type # "Notify" /\ Head(chunks[c]).type # "End"
      BY <1>4 DEF Ranked
    <3> QED
      BY <1>4, <3>1, Zenon DEF GuestOnChunk, OnSyncSaveDataNotify, OnChunkedDataEnd
  <2>3. UNCHANGED <<got, store, answers>>
    BY <2>2, Zenon DEF OnChunkedDataStart, OnChunkedDataAbort
  <2>4. \A d \in Guest : Moves(chunks[d], chunks'[d])
    <3>1. \A d \in Guest \ {c} : chunks'[d] = chunks[d]
      BY <1>1, <2>1
    <3>2. chunks'[c] = Tail(chunks[c])
      BY <1>1, <2>1
    <3> QED
      BY <1>0, <1>4, <2>1, <3>1, <3>2, Zenon DEF Moves
  <2>5. Unsent' = Unsent
    BY <2>1 DEF Unsent
  <2> QED
    BY <1>0, <2>1, <2>3, <2>4, <2>5, Queues DEF Passive
<1> QED
  BY <1>2, <1>3, <1>4

----------------------------------------------------------------------------
(* The server's steps with a sync: it begins, ... *)
LEMMA QuietSame ==
  ASSUME Quiet, Guests' \subseteq Guests, async' = async, Unsent' = Unsent,
         \A c \in Guests' : chunks'[c] = chunks[c] /\ answers'[c] = answers[c]
  PROVE  Quiet'
BY DEF Quiet, AllSent, Silent, NoSuccess, In, Success

(* A step that leaves the queues and the guests alone keeps the flow. *)
LEMMA FlowSame ==
  ASSUME Flow, UNCHANGED <<async, chunks, got, store, attempt, joining, players, Unsent>>
  PROVE  Flow'
<1>1. \A c, m : Fed(c, m) => Fed(c, m)'
  BY DEF Fed, Fresh, Handled, Stream
<1>2. \A u : Rest(u) => Rest(u)'
  BY DEF Rest
<1>3. \A m, u : Stream(async, m, u) => Stream(async, m, u)'
  BY DEF Stream
<1>4. Fresh(async)' /\ Guests' = Guests /\ joining' = joining
  BY DEF Flow, Fresh, Guests
<1> QED
  BY <1>1, <1>2, <1>3, <1>4 DEF Flow

(* SyncSaveData queues the saves when the last sync is all sent, ... *)
LEMMA UnsentAtSync ==
  ASSUME TypeOK, ChunkInv, Unsent = <<>>, ct' = ct,
         NEW new \in Seq(Entry), cq' = cq \o new
  PROVE  Unsent' = new
<1>1. cq \in Seq(Entry)
  BY DEF TypeOK, ChunkTypeOK
<1>2. CASE ct \in {"check", "wait"}
  <2>1. cq # <<>> /\ Tail(cq) = <<>>
    BY <1>2 DEF ChunkInv, ChunkThreadAwake, Sending, Unsent
  <2>2. Len(cq) = 1
    <3>1. Len(Tail(cq)) = Len(cq) - 1 /\ Len(cq) \in Nat
      BY <1>1, <2>1, TailFacts
    <3>2. Len(Tail(cq)) = 0
      <4>1. Len(<<>>) = 0
        OBVIOUS
      <4> QED
        BY <2>1, <4>1, Zenon
    <3> QED
      BY <3>1, <3>2
  <2>3. Tail(cq \o new) = new
    <3> DEFINE both == cq \o new
    <3>0. /\ both \in Seq(Entry) /\ Len(both) = Len(cq) + Len(new)
          /\ \A i \in 1 .. Len(cq) + Len(new) :
               both[i] = IF i <= Len(cq) THEN cq[i] ELSE new[i - Len(cq)]
      BY <1>1, ConcatProperties, Zenon
    <3> HIDE DEF both
    <3>1. /\ both \in Seq(Entry) /\ Len(both) = 1 + Len(new) /\ Len(new) \in Nat
          /\ \A i \in 1 .. Len(new) : both[i + 1] = new[i]
      <4>1. Len(new) \in Nat
        OBVIOUS
      <4>2. ASSUME NEW i \in 1 .. Len(new) PROVE both[i + 1] = new[i]
        BY <2>2, <3>0, <4>1, <4>2
      <4> QED
        BY <2>2, <3>0, <4>1, <4>2
    <3>2. both # <<>>
      BY <3>1
    <3>3. /\ Tail(both) \in Seq(Entry) /\ Len(Tail(both)) = Len(new)
          /\ \A i \in 1 .. Len(new) : Tail(both)[i] = new[i]
      BY <3>1, <3>2, TailFacts
    <3>4. Tail(both) = new
      BY <3>3, SeqEqual
    <3> QED
      BY <3>4 DEF both
  <2> QED
    BY <1>2, <2>3 DEF Unsent
<1>3. CASE ct \notin {"check", "wait"}
  BY <1>1, <1>3 DEF Unsent
<1> QED
  BY <1>2, <1>3

(* ... and the announcement before the thread sends the first of them; *)
LEMMA SyncBegins ==
  ASSUME TypeOK, ChunkInv, Quiet, SyncSaveData(Saves), Saves # 0,
         UNCHANGED <<players, joining, attempt, ct, chunks, answers, got, store>>
  PROVE  Synced'
<1> DEFINE new == [s \in 1 .. Saves |-> [save |-> s, attempt |-> attempt]]
           note == [type |-> "Notify"]
<1>0. Saves \in Nat /\ attempt \in Nat /\ Guests' = Guests
  BY SavesAssumption DEF TypeOK, GuiTypeOK, Guests
<1>1. /\ savesSynced' = FALSE /\ saveCount' = 0 /\ async' = Append(async, note) /\ cq' = cq \o new
  BY DEF SyncSaveData
<1>2. new \in Seq(Entry) /\ Len(new) = Saves /\ \A i \in 1 .. Saves : new[i].save = i /\ new[i].attempt = attempt
  BY <1>0 DEF Entry
<1>3. Unsent' = new
  <2> HIDE DEF new
  <2> QED
    BY <1>1, <1>2, UnsentAtSync DEF Quiet, AllSent
<1>4. Rest(1)'
  <2>1. attempt' = attempt
    OBVIOUS
  <2> HIDE DEF new
  <2> QED
    BY <1>0, <1>2, <1>3, <2>1 DEF Rest
<1>5. note \in Message /\ Ranked(note) /\ Rank(note) = 0 + 1 /\ note.type # "End"
  BY MessageTypes DEF Message, Ranked, Rank
<1> HIDE DEF new, note
<1>6. Stream(async', 0, 1) /\ Fresh(async')
  <2>1. async \in Seq(Message) /\ Silent(async)
    BY Queues DEF Quiet, AllSent
  <2>2. Stream(async, 0, 0) /\ Fresh(async)
    BY <2>1, StreamNone, SilentFresh
  <2>3. Stream(Append(async, note), 0, 0 + 1)
    BY <1>5, <2>1, <2>2, StreamAppendNext
  <2>4. Fresh(Append(async, note))
    BY <1>5, <2>1, <2>2, FreshMoves
  <2> QED
    BY <1>1, <2>3, <2>4
<1>7. Stream(async, 0, 1)' /\ Fresh(async)'
  BY <1>6 DEF Stream, Fresh
<1>8. ASSUME NEW c \in Guests PROVE Fed(c, 0)'
  <2>1. chunks[c] \in Seq(Message) /\ Silent(chunks[c])
    BY Queues DEF Quiet
  <2>2. Stream(chunks[c], 0, 0) /\ Fresh(chunks[c])
    BY <2>1, StreamNone, SilentFresh
  <2>3. Stream(chunks[c], 0, 0)' /\ Fresh(chunks[c])' /\ Handled(c, 0)'
    BY <2>2 DEF Stream, Fresh, Handled
  <2> QED
    BY <2>3 DEF Fed
<1>9. Flow'
  <2>1. 1 \in 1 .. Saves + 1 /\ 0 \in 0 .. 1
    BY <1>0
  <2> QED
    BY <1>0, <1>4, <1>7, <1>8, <2>1 DEF Flow
<1>10. Counted({})'
  <2>1. \A c \in Guests : NoSuccess(answers[c])' /\ OneSuccess(answers[c])'
    BY Queues, SuccessMoves DEF Quiet, NoSuccess, OneSuccess
  <2>2. Cardinality({}) = 0
    BY FS_EmptySet
  <2> QED
    BY <1>0, <1>1, <2>1, <2>2 DEF Counted
<1> QED
  BY <1>1, <1>9, <1>10 DEF Synced, Tally

(* ... the Chunked Data thread sends the next save, ... *)
LEMMA NotYetCounted ==
  ASSUME Tally, ~AllSent, UNCHANGED <<saveCount, answers, players>>
  PROVE  Tally'
<1>1. PICK D \in SUBSET Guests : Counted(D)
  BY DEF Tally
<1>2. \A c \in Guests : ~Done(c)
  BY DEF Done
<1>3. D = {}
  BY <1>1, <1>2 DEF Counted
<1>4. Guests' = Guests /\ saveCount' = saveCount /\ answers' = answers
  BY DEF Guests
<1>5. /\ saveCount <= Cardinality({})
      /\ \A c \in Guests : OneSuccess(answers[c]) /\ NoSuccess(answers[c])
  BY <1>1, <1>2, <1>3 DEF Counted
<1>6. Counted({})'
  BY <1>4, <1>5 DEF Counted, OneSuccess, NoSuccess
<1> QED
  BY <1>6 DEF Tally

(* it puts the save it has finished after the ones it sent before. *)
LEMMA SaveIsSent ==
  ASSUME TypeOK, ChunkInv, Undisturbed, Synced, ChunkedDataEnd
  PROVE  Synced'
<1>1. /\ ct = "end" /\ ct' = "check" /\ cq' = cq
      /\ UNCHANGED <<got, store, attempt, players, joining, saveCount, savesSynced, answers, chunks>>
  BY Zenon
  DEF ChunkedDataEnd, guestVars, guiVars, pressVars, sessVars, startVars, wireVars
<1>2. cq # <<>> /\ cq \in Seq(Entry) /\ cid \in Nat /\ Saves \in Nat
  BY <1>1, SavesAssumption DEF ChunkInv, ChunkThreadAwake, Sending, TypeOK, ChunkTypeOK
<1>3. Unsent = cq /\ Unsent' = Tail(cq)
  BY <1>1 DEF Unsent
<1>4. /\ Len(Tail(cq)) = Len(cq) - 1 /\ Len(cq) \in Nat /\ Len(cq) >= 1
      /\ Head(cq) = cq[1] /\ Head(cq) \in Entry
      /\ \A i \in 1 .. Len(cq) - 1 : Tail(cq)[i] = cq[i + 1]
  BY <1>2, TailFacts
<1> DEFINE msg == [type |-> "End", id |-> cid, save |-> Head(cq).save, attempt |-> Head(cq).attempt]
<1>5. async' = Append(async, msg)
  BY Zenon DEF ChunkedDataEnd, Undisturbed
<1>6. /\ msg \in Message /\ Ranked(msg) /\ Rank(msg) = Head(cq).save + 1
      /\ msg.save = Head(cq).save /\ msg.attempt = Head(cq).attempt
  <2>1. Head(cq).save \in Nat /\ Head(cq).attempt \in Nat
    BY <1>4 DEF Entry
  <2>2. msg \in ChunkMsg
    BY <1>2, <2>1, MessageTypes
  <2> QED
    BY <2>2 DEF Message, Ranked, Rank
<1> HIDE DEF msg
<1>7. ~savesSynced /\ Flow /\ Tally /\ ~AllSent
  BY <1>2, <1>3 DEF Synced, Quiet, AllSent
<1>8. PICK u \in 1 .. Saves + 1 : \E m \in 0 .. u :
        /\ Stream(async, m, u) /\ Rest(u) /\ (joining # 0 => m = 0)
        /\ \A c \in Guests : Fed(c, m)
  BY <1>7 DEF Flow
<1>9. PICK m \in 0 .. u :
        /\ Stream(async, m, u) /\ Rest(u) /\ (joining # 0 => m = 0)
        /\ \A c \in Guests : Fed(c, m)
  BY <1>8
<1>10. m \in Nat /\ u \in Nat /\ m <= u /\ u # 0 /\ u + 1 \in 1 .. Saves + 1 /\ m \in 0 .. u + 1
  BY <1>2, <1>3, <1>4, <1>9 DEF Rest
<1>11. Head(cq).save = u /\ Head(cq).attempt = attempt
  <2>1. Head(cq).save + 1 = u + 1 /\ Head(cq).attempt = attempt
    BY <1>3, <1>4, <1>9 DEF Rest
  <2>2. Head(cq).save \in Nat
    BY <1>4 DEF Entry
  <2> QED
    BY <1>10, <2>1, <2>2
<1>12. Stream(async', m, u + 1) /\ Fresh(async')
  <2>1. async \in Seq(Message) /\ Fresh(async)
    BY <1>7, Queues DEF Flow
  <2>2. Stream(Append(async, msg), m, u + 1)
    BY <1>6, <1>9, <1>10, <1>11, <2>1, StreamAppendNext
  <2>3. Fresh(Append(async, msg))
    BY <1>6, <1>10, <1>11, <2>1, FreshMoves
  <2> QED
    BY <1>5, <2>2, <2>3
<1>13. \A v : v = u + 1 => Rest(v)'
  <2>1. Len(Tail(cq)) + (u + 1) = Saves + 1
    <3>1. Len(cq) + u = Saves + 1
      BY <1>3, <1>9 DEF Rest
    <3>2. \A n \in Nat : n + u = Saves + 1 => (n - 1) + (u + 1) = Saves + 1
      BY <1>2, <1>10
    <3> QED
      BY <1>4, <3>1, <3>2
  <2>2. ASSUME NEW i \in 1 .. Len(Tail(cq))
        PROVE  Tail(cq)[i].save + 1 = (u + 1) + i /\ Tail(cq)[i].attempt = attempt
    <3>1. i + 1 \in 1 .. Len(cq) /\ Tail(cq)[i] = cq[i + 1] /\ i \in Nat
      BY <1>4
    <3>2. cq[i + 1].save + 1 = u + (i + 1) /\ cq[i + 1].attempt = attempt
      BY <1>3, <1>9, <3>1 DEF Rest
    <3> QED
      BY <1>10, <3>1, <3>2
  <2> QED
    BY <1>1, <1>3, <2>1, <2>2 DEF Rest
<1>14. \A c \in Guests : Fed(c, m)'
  BY <1>1, <1>9 DEF Fed, Fresh, Handled, Stream
<1>15. Flow'
  <2>1. \A v : v = u + 1 => Stream(async, m, v)'
    BY <1>12 DEF Stream
  <2>2. Fresh(async)'
    BY <1>1, <1>12 DEF Fresh
  <2>3. Guests' = Guests /\ (joining' # 0 => m = 0)
    BY <1>1, <1>9 DEF Guests
  <2>4. PICK v : v = u + 1
    OBVIOUS
  <2>5. v \in 1 .. Saves + 1 /\ m \in 0 .. v /\ Stream(async, m, v)' /\ Rest(v)'
    BY <1>10, <1>13, <2>1, <2>4
  <2> QED
    BY <1>14, <2>2, <2>3, <2>5 DEF Flow
<1>16. Tally'
  BY <1>1, <1>7, NotYetCounted
<1> QED
  BY <1>1, <1>7, <1>15, <1>16 DEF Synced

(* ... and what has been sent goes to the guests. *)
LEMMA SaveIsDelivered ==
  ASSUME TypeOK, Synced, DrainAsync, Ranked(Head(async))
  PROVE  Synced'
<1>1. /\ async # <<>> /\ async' = Tail(async) /\ joining = 0
      /\ UNCHANGED <<got, store, attempt, players, joining, saveCount, savesSynced, answers, ct, cq>>
  BY Zenon
  DEF DrainAsync, NetFree, guestVars, guiVars, pressVars, sessVars, startVars, chunkVars
<1>2. async \in Seq(Message) /\ Head(async) \in Message
  BY <1>1, Queues, TailFacts
<1>3. \A c \in Guests : chunks'[c] = Append(chunks[c], Head(async))
  <2>1. Head(async).type # "Codes"
    BY DEF Ranked
  <2>2. \A c \in Guests : c \in Guest /\ c \in players
    BY Queues DEF Guests
  <2> QED
    BY <2>1, <2>2 DEF DrainAsync
<1>4. ~savesSynced /\ Flow /\ Tally /\ ~AllSent
  BY <1>1, <1>2, SilentMoves DEF Synced, Quiet, AllSent
<1>5. PICK u \in 1 .. Saves + 1 : \E m \in 0 .. u :
        /\ Stream(async, m, u) /\ Rest(u) /\ (joining # 0 => m = 0)
        /\ \A c \in Guests : Fed(c, m)
  BY <1>4 DEF Flow
<1>6. PICK m \in 0 .. u :
        /\ Stream(async, m, u) /\ Rest(u) /\ (joining # 0 => m = 0)
        /\ \A c \in Guests : Fed(c, m)
  BY <1>5
<1>7. m \in Nat /\ u \in Nat /\ m + 1 \in Nat
  OBVIOUS
<1>8. Rank(Head(async)) = m + 1 /\ m < u /\ Stream(async', m + 1, u)
  BY <1>1, <1>2, <1>6, <1>7, StreamTailNext
<1>9. /\ Fresh(async') /\ Fresh(async)
      /\ Head(async).type = "End" => Head(async).save # 0 /\ Head(async).attempt = attempt
  BY <1>1, <1>2, <1>4, FreshMoves DEF Flow
<1>10. PICK n : n = m + 1
  OBVIOUS
<1>11. n \in 0 .. u /\ n \in Nat /\ Stream(async, n, u)' /\ Fresh(async)' /\ Rest(u)'
  <2>1. n \in 0 .. u /\ n \in Nat
    BY <1>7, <1>8, <1>10
  <2>2. Stream(async', n, u)
    BY <1>8, <1>10
  <2>3. Rest(u)'
    BY <1>1, <1>6 DEF Rest, Unsent
  <2> QED
    BY <1>1, <1>9, <2>1, <2>2, <2>3 DEF Stream, Fresh
<1>12. ASSUME NEW c \in Guests PROVE Fed(c, n)'
  <2>1. chunks[c] \in Seq(Message)
    BY Queues
  <2>2. PICK k \in 0 .. m : Handled(c, k) /\ Stream(chunks[c], k, m)
    BY <1>6 DEF Fed
  <2>3. k \in Nat /\ k <= m /\ k \in 0 .. n
    BY <1>7, <1>10
  <2>4. Stream(Append(chunks[c], Head(async)), k, m + 1)
    BY <1>2, <1>7, <1>8, <2>1, <2>2, <2>3, StreamAppendNext
  <2>5. Stream(chunks'[c], k, n)
    BY <1>3, <1>10, <2>4
  <2>6. Fresh(chunks'[c])
    BY <1>2, <1>3, <1>6, <1>9, <2>1, FreshMoves DEF Fed
  <2>7. Stream(chunks[c], k, n)' /\ Fresh(chunks[c])' /\ Handled(c, k)'
    BY <1>1, <2>2, <2>5, <2>6 DEF Stream, Fresh, Handled
  <2> QED
    BY <2>3, <2>7 DEF Fed
<1>13. Flow'
  <2>1. Guests' = Guests /\ joining' = 0
    BY <1>1 DEF Guests
  <2> QED
    BY <1>11, <1>12, <2>1 DEF Flow
<1>14. Tally'
  BY <1>1, <1>4, NotYetCounted
<1> QED
  BY <1>1, <1>4, <1>13, <1>14 DEF Synced

----------------------------------------------------------------------------
(* Somebody joins; the sync waits until it is one of the players. *)
LEMMA JoinedInTime ==
  ASSUME TypeOK, Absent, Synced, OnConnectAdd
  PROVE  Synced'
<1>1. /\ joining # 0 /\ players' = players \cup {joining} /\ joining' = 0
      /\ UNCHANGED <<got, store, attempt, saveCount, savesSynced, answers, chunks, ct, cq, async>>
  BY Zenon
  DEF OnConnectAdd, guestVars, guiVars, pressVars, startVars, wireVars, chunkVars
<1>2. joining \in Guest /\ chunks[joining] = <<>> /\ answers[joining] = <<>>
  BY <1>1 DEF TypeOK, SessionTypeOK, Absent
<1>3. Guests' = Guests \cup {joining}
  BY <1>1, <1>2 DEF Guests, Guest
<1>4. /\ Silent(chunks[joining]) /\ NoSuccess(answers[joining]) /\ OneSuccess(answers[joining])
      /\ Fresh(chunks[joining]) /\ Stream(chunks[joining], 0, 0)
  BY <1>2, Queues, SilentMoves, SuccessMoves, SilentFresh, StreamNone
<1>5. Unsent' = Unsent
  BY <1>1 DEF Unsent
<1>6. CASE savesSynced
  BY <1>1, <1>3, <1>4, <1>5, <1>6 DEF Synced, Quiet, AllSent, Silent, NoSuccess
<1>7. CASE ~savesSynced
  <2>1. PICK u \in 1 .. Saves + 1 : \E m \in 0 .. u :
          /\ Stream(async, m, u) /\ Rest(u) /\ (joining # 0 => m = 0)
          /\ \A c \in Guests : Fed(c, m)
    BY <1>7 DEF Synced, Flow
  <2>2. 0 \in 0 .. u /\ Stream(async, 0, u) /\ Rest(u) /\ \A c \in Guests : Fed(c, 0)
    BY <1>1, <2>1
  <2>3. Fed(joining, 0)
    BY <1>4 DEF Fed, Handled
  <2>4. \A c \in Guests' : Fed(c, 0)'
    <3>1. \A c \in Guests' : Fed(c, 0)
      BY <1>3, <2>2, <2>3
    <3> QED
      BY <1>1, <3>1 DEF Fed, Fresh, Handled, Stream
  <2>5. Stream(async, 0, u)' /\ Rest(u)' /\ Fresh(async)'
    BY <1>1, <1>5, <1>7, <2>2 DEF Stream, Rest, Fresh, Synced, Flow
  <2>6. Flow'
    BY <1>1, <2>2, <2>4, <2>5 DEF Flow
  <2>7. PICK D \in SUBSET Guests : Counted(D)
    BY <1>7 DEF Synced, Tally
  <2>8. \A c \in Guests : Done(c) => Done(c)'
    BY <1>1, <1>5 DEF Done, AllSent, Silent, Holding
  <2>9. Counted(D)'
    BY <1>1, <1>3, <1>4, <2>7, <2>8 DEF Counted, NoSuccess, OneSuccess
  <2>10. Tally'
    BY <1>3, <2>9 DEF Tally
  <2> QED
    BY <1>1, <1>7, <2>6, <2>10 DEF Synced
<1> QED
  BY <1>6, <1>7

----------------------------------------------------------------------------
(* An answer is counted.  When it is the last one, every guest has all.    *)
LEMMA AnswerCounts ==
  ASSUME TypeOK, Waiting, Synced, NEW c \in Guest, OnAnswer(c),
         Head(answers[c]) = "SaveSuccess", OnSaveSuccess
  PROVE  /\ Synced' /\ ~savesSynced
         /\ savesSynced' => \A d \in Guests' : Holding(d)'
<1>1. /\ c \in players /\ answers[c] # <<>> /\ answers' = [answers EXCEPT ![c] = Tail(@)]
      /\ UNCHANGED <<got, store, attempt, players, joining, chunks, ct, cq, async>>
  BY Zenon DEF OnAnswer, guestVars, guiVars, pressVars, chunkVars
<1>2. c \in Guests /\ answers[c] \in Seq(Said) /\ ~NoSuccess(answers[c])
  <2>1. c \in Guests /\ answers[c] \in Seq(Said)
    BY <1>1, Queues DEF Guests, Guest
  <2> QED
    BY <1>1, <2>1, SuccessMoves
<1>3. ~savesSynced /\ pending /\ Flow /\ Tally
  BY <1>2 DEF Synced, Quiet, Waiting
<1>4. PICK D \in SUBSET Guests : Counted(D)
  BY <1>3 DEF Tally
<1>5. c \notin D /\ Done(c) /\ OneSuccess(answers[c])
  BY <1>2, <1>4 DEF Counted
<1>6. answers'[c] = Tail(answers[c]) /\ \A d \in Guest \ {c} : answers'[d] = answers[d]
  BY <1>1 DEF TypeOK, WireTypeOK
<1>7. NoSuccess(answers'[c])
  BY <1>1, <1>2, <1>5, <1>6, SuccessMoves
<1> DEFINE E == D \cup {c}
<1>8. /\ Guests' = Guests /\ Unsent' = Unsent
      /\ E \in SUBSET Guests /\ Guests \subseteq Guest
  BY <1>1, <1>2, Queues DEF Guests, Unsent
<1>9. \A d \in E : Done(d)' /\ NoSuccess(answers[d])'
  <2>1. \A d \in Guests : Done(d) => Done(d)'
    BY <1>1, <1>8 DEF Done, AllSent, Silent, Holding
  <2>2. \A d \in E : Done(d)
    BY <1>4, <1>5 DEF Counted
  <2>3. \A d \in E : NoSuccess(answers'[d])
    BY <1>4, <1>5, <1>6, <1>7, <1>8 DEF Counted
  <2> QED
    BY <1>8, <2>1, <2>2, <2>3 DEF NoSuccess
<1>10. IsFiniteSet(Guests) /\ IsFiniteSet(D) /\ Cardinality(E) = Cardinality(D) + 1
       /\ Cardinality(D) \in Nat /\ Cardinality(Guests) \in Nat
       /\ IsFiniteSet(players) /\ Cardinality(players) - 1 = Cardinality(Guests)
  <2>1. IsFiniteSet(players)
    BY PlayerAssumption, FS_Subset DEF TypeOK, SessionTypeOK
  <2>2. IsFiniteSet(Guests) /\ Cardinality(Guests) = Cardinality(players) - 1
    BY <2>1, FS_RemoveElement DEF Guests, TypeOK, SessionTypeOK
  <2>3. IsFiniteSet(D)
    BY <2>2, FS_Subset
  <2>4. Cardinality(E) = Cardinality(D) + 1
    BY <1>5, <2>3, FS_AddElement
  <2> QED
    BY <2>1, <2>2, <2>3, <2>4, FS_CardinalityType
<1>11. saveCount \in Nat /\ saveCount + 1 <= Cardinality(E)
  BY <1>4, <1>10 DEF Counted, TypeOK, StartTypeOK
<1>12. saveCount' = saveCount + 1 /\ savesSynced' = (savesSynced \/ Enough(saveCount + 1))
  BY <1>3, Zenon DEF OnSaveSuccess
<1> HIDE DEF E
<1>13. CASE Enough(saveCount + 1)
  <2>1. Cardinality(Guests) <= Cardinality(E)
    BY <1>10, <1>11, <1>13 DEF Enough
  <2>2. E = Guests
    <3>1. Cardinality(E) <= Cardinality(Guests)
      BY <1>8, <1>10, FS_Subset
    <3>2. Cardinality(E) \in Nat
      BY <1>10
    <3> QED
      BY <1>8, <1>10, <2>1, <3>1, <3>2, FS_Subset
  <2>3. savesSynced'
    BY <1>12, <1>13, Zenon
  <2>4. Quiet'
    BY <1>2, <1>8, <1>9, <2>2 DEF Quiet, Done
  <2>5. \A d \in Guests' : Holding(d)'
    BY <1>8, <1>9, <2>2 DEF Done
  <2> QED
    BY <1>3, <2>3, <2>4, <2>5 DEF Synced
<1>14. CASE ~Enough(saveCount + 1)
  <2>1. ~savesSynced'
    BY <1>3, <1>12, <1>14, Zenon
  <2>2. Flow'
    BY <1>1, <1>3, <1>8, FlowSame
  <2>3. Counted(E)'
    <3>1. \A d \in Guests \ E : /\ answers'[d] = answers[d]
                                /\ OneSuccess(answers[d]) /\ (NoSuccess(answers[d]) \/ Done(d))
      BY <1>4, <1>6, <1>8 DEF Counted, E
    <3>2. \A d \in Guests : Done(d) => Done(d)'
      BY <1>1, <1>8 DEF Done, AllSent, Silent, Holding
    <3>3. \A d \in Guests \ E : OneSuccess(answers[d])' /\ (NoSuccess(answers[d])' \/ Done(d)')
      BY <3>1, <3>2 DEF OneSuccess, NoSuccess
    <3> QED
      BY <1>8, <1>9, <1>11, <1>12, <3>3 DEF Counted
  <2>4. Tally'
    BY <1>8, <2>3 DEF Tally
  <2> QED
    BY <1>3, <2>1, <2>2, <2>4 DEF Synced
<1> QED
  BY <1>13, <1>14

----------------------------------------------------------------------------
(* A guest takes the next message of a sync. *)
LEMMA GuestTakes ==
  ASSUME TypeOK, Saves # 0, NEW c \in Guest, GuestOnChunk(c), Ranked(Head(chunks[c])),
         NEW k \in Nat, Handled(c, k), Rank(Head(chunks[c])) = k + 1,
         Head(chunks[c]).type = "End" => /\ Head(chunks[c]).save # 0
                                         /\ Head(chunks[c]).attempt = attempt
  PROVE  /\ \A n : n = k + 1 => Handled(c, n)' /\ got'[c] \in Nat
         /\ \A d \in Guest \ {c} : UNCHANGED <<got[d], store[d], answers[d]>>
         /\ \/ answers'[c] = answers[c] \/ answers'[c] = Append(answers[c], "SaveFailure")
            \/ answers'[c] = Append(answers[c], "SaveSuccess") /\ got'[c] >= Saves
<1> DEFINE msg == Head(chunks[c])
<1>0. /\ got \in [Guest -> Nat] /\ store \in [Guest -> [1 .. Saves -> Nat]]
      /\ answers \in [Guest -> Seq(Said)] /\ Saves \in Nat /\ attempt \in Nat
  BY SavesAssumption DEF TypeOK, GuestTypeOK, WireTypeOK, GuiTypeOK, Said
<1>1. /\ attempt' = attempt /\ chunks[c] # <<>>
      /\ OnSyncSaveDataNotify(c, msg) \/ OnChunkedDataEnd(c, msg)
  <2>1. msg.type # "Start" /\ msg.type # "Abort"
    BY DEF Ranked
  <2> QED
    BY <2>1, Zenon
    DEF GuestOnChunk, OnChunkedDataStart, OnChunkedDataAbort, guiVars, pressVars
<1>2. msg.type = "End" => msg.save \in Nat
  <2>1. msg \in Message
    BY <1>1, Queues, TailFacts
  <2> QED
    BY <2>1, MessageKinds DEF Message
<1> HIDE DEF msg
<1>3. CASE OnSyncSaveDataNotify(c, msg)
  <2>1. /\ got' = [got EXCEPT ![c] = 0] /\ answers' = answers /\ store' = store
        /\ msg.type = "Notify"
    BY <1>3 DEF OnSyncSaveDataNotify
  <2>2. k = 0
    BY <2>1 DEF Rank, msg
  <2>3. got'[c] = 0 /\ \A d \in Guest \ {c} : got'[d] = got[d]
    BY <1>0, <2>1
  <2>4. \A n : n = k + 1 => Handled(c, n)'
    BY <1>0, <2>2, <2>3 DEF Handled
  <2> QED
    BY <2>1, <2>3, <2>4
<1>4. CASE OnChunkedDataEnd(c, msg)
  <2>1. msg.type = "End" /\ msg.save = k /\ k # 0 /\ msg.attempt = attempt
    <3>1. msg.type = "End"
      BY <1>4 DEF OnChunkedDataEnd
    <3>2. msg.save + 1 = k + 1 /\ msg.save # 0 /\ msg.attempt = attempt
      BY <3>1 DEF Rank, msg
    <3> QED
      BY <1>2, <3>1, <3>2
  <2>2. /\ got[c] \in Nat /\ got[c] < k
        /\ got[c] + 1 = k => \A s \in 1 .. Saves : s < k => store[c][s] = attempt
    BY <1>0, <2>1 DEF Handled
  <2>3. CASE UNCHANGED <<got, store>> /\ (\/ answers' = answers
                                          \/ answers' = [answers EXCEPT ![c] = Append(@, "SaveFailure")])
    <3>1. \A n : n = k + 1 => Handled(c, n)'
      BY <2>2, <2>3 DEF Handled
    <3>2. \A d \in Guest \ {c} : answers'[d] = answers[d]
      BY <1>0, <2>3
    <3>3. answers'[c] = answers[c] \/ answers'[c] = Append(answers[c], "SaveFailure")
      BY <1>0, <2>3
    <3> QED
      BY <2>2, <2>3, <3>1, <3>2, <3>3
  <2>4. CASE store' = [store EXCEPT ![c][msg.save] = msg.attempt] /\ SaveSuccess(c, got[c] + 1)
    <3>1. /\ got' = [got EXCEPT ![c] = got[c] + 1]
          /\ \/ answers' = answers
             \/ got[c] + 1 >= Saves /\ answers' = [answers EXCEPT ![c] = Append(@, "SaveSuccess")]
      BY <2>4, Zenon DEF SaveSuccess, Answer
    <3>2. got'[c] = got[c] + 1 /\ \A d \in Guest \ {c} : got'[d] = got[d]
      BY <1>0, <3>1
    <3>3. \A d \in Guest \ {c} : store'[d] = store[d] /\ answers'[d] = answers[d]
      BY <1>0, <2>4, <3>1
    <3>4. \A s \in 1 .. Saves : store'[c][s] = IF s = k THEN attempt ELSE store[c][s]
      BY <1>0, <2>1, <2>4
    <3>5. \A n : n = k + 1 => Handled(c, n)'
      <4>1. got[c] + 1 < k + 1 /\ ((got[c] + 1) + 1 = k + 1 => got[c] + 1 = k)
        BY <2>2
      <4>2. \A s \in 1 .. Saves : s < k + 1 => s < k \/ s = k
        BY <1>0
      <4>3. got'[c] + 1 = k + 1 => \A s \in 1 .. Saves : s < k + 1 => store'[c][s] = attempt
        BY <2>2, <3>2, <3>4, <4>1, <4>2
      <4> QED
        BY <1>1, <3>2, <4>1, <4>3 DEF Handled
    <3>6. \/ answers'[c] = answers[c]
          \/ answers'[c] = Append(answers[c], "SaveSuccess") /\ got'[c] >= Saves
      BY <1>0, <3>1, <3>2
    <3> QED
      BY <2>2, <3>2, <3>3, <3>5, <3>6
  <2> QED
    BY <1>4, <2>3, <2>4, Zenon DEF OnChunkedDataEnd, Answer
<1> QED
  BY <1>1, <1>3, <1>4

(* It answers only when it holds every save of this attempt. *)
LEMMA GuestHandles ==
  ASSUME TypeOK, ChunkInv, Saves # 0, Synced, NEW c \in Guest, GuestOnChunk(c),
         Ranked(Head(chunks[c]))
  PROVE  Synced' /\ ~savesSynced /\ savesSynced' = savesSynced
<1>1. /\ c \in players /\ chunks[c] # <<>> /\ chunks' = [chunks EXCEPT ![c] = Tail(@)]
      /\ UNCHANGED <<attempt, players, joining, saveCount, savesSynced, ct, cq, async>>
  BY Zenon DEF GuestOnChunk, guiVars, pressVars, startVars, sessVars, chunkVars
<1>2. /\ c \in Guests /\ Guests \subseteq Guest /\ async \in Seq(Message)
      /\ \A d \in Guest : chunks[d] \in Seq(Message) /\ answers[d] \in Seq(Said)
      /\ Guests' = Guests /\ Unsent' = Unsent
  BY <1>1, Queues, SavesAssumption DEF Guests, Guest, Unsent
<1>3. ~Silent(chunks[c])
  BY <1>1, <1>2, SilentMoves
<1>4. ~savesSynced /\ Flow /\ Tally /\ ~Done(c)
  BY <1>2, <1>3 DEF Synced, Quiet, Done
<1>5. PICK u \in 1 .. Saves + 1 : \E m \in 0 .. u :
        /\ Stream(async, m, u) /\ Rest(u) /\ (joining # 0 => m = 0)
        /\ \A d \in Guests : Fed(d, m)
  BY <1>4 DEF Flow
<1>6. PICK m \in 0 .. u :
        /\ Stream(async, m, u) /\ Rest(u) /\ (joining # 0 => m = 0)
        /\ \A d \in Guests : Fed(d, m)
  BY <1>5
<1>7. Fresh(chunks[c]) /\ \E k \in 0 .. m : Handled(c, k) /\ Stream(chunks[c], k, m)
  BY <1>2, <1>6 DEF Fed
<1>8. PICK k \in 0 .. m : Handled(c, k) /\ Stream(chunks[c], k, m)
  BY <1>7
<1>9. Saves \in Nat /\ k \in Nat /\ m \in Nat /\ u \in Nat /\ m <= u /\ u <= Saves + 1
  BY SavesAssumption
<1>10. Rank(Head(chunks[c])) = k + 1 /\ k < m /\ Stream(Tail(chunks[c]), k + 1, m)
  BY <1>1, <1>2, <1>8, <1>9, StreamTailNext
<1>11. /\ Fresh(Tail(chunks[c]))
       /\ Head(chunks[c]).type = "End" => Head(chunks[c]).save # 0 /\ Head(chunks[c]).attempt = attempt
  BY <1>1, <1>2, <1>7, FreshMoves
<1>12. /\ \A n : n = k + 1 => Handled(c, n)' /\ got'[c] \in Nat
       /\ \A d \in Guest \ {c} : UNCHANGED <<got[d], store[d], answers[d]>>
       /\ \/ answers'[c] = answers[c] \/ answers'[c] = Append(answers[c], "SaveFailure")
          \/ answers'[c] = Append(answers[c], "SaveSuccess") /\ got'[c] >= Saves
  BY <1>8, <1>9, <1>10, <1>11, GuestTakes
<1>13. chunks'[c] = Tail(chunks[c]) /\ \A d \in Guest \ {c} : chunks'[d] = chunks[d]
  BY <1>1 DEF TypeOK, WireTypeOK
<1>14. PICK n : n = k + 1
  OBVIOUS
<1>15. n \in 0 .. m /\ n \in Nat /\ n # 0 /\ Handled(c, n)' /\ Stream(chunks'[c], n, m) /\ Fresh(chunks'[c])
  BY <1>9, <1>10, <1>11, <1>12, <1>13, <1>14
<1>16. Fed(c, m)'
  <2>1. Stream(chunks[c], n, m)' /\ Fresh(chunks[c])'
    BY <1>1, <1>15 DEF Stream, Fresh
  <2> QED
    BY <1>15, <2>1 DEF Fed
<1>17. ASSUME NEW d \in Guests, d # c PROVE Fed(d, m)'
  <2>1. Fed(d, m) /\ chunks'[d] = chunks[d] /\ got'[d] = got[d] /\ store'[d] = store[d]
    BY <1>2, <1>6, <1>12, <1>13, <1>17
  <2> QED
    BY <1>1, <2>1 DEF Fed, Fresh, Handled, Stream
<1>18. Flow'
  <2>1. Stream(async, m, u)' /\ Rest(u)' /\ Fresh(async)' /\ (joining' # 0 => m = 0)
    BY <1>1, <1>2, <1>4, <1>6 DEF Stream, Rest, Fresh, Flow
  <2> QED
    BY <1>2, <1>16, <1>17, <2>1 DEF Flow
<1>19. PICK D \in SUBSET Guests : Counted(D)
  BY <1>4 DEF Tally
<1>20. c \notin D /\ NoSuccess(answers[c]) /\ OneSuccess(answers[c])
  BY <1>2, <1>4, <1>19 DEF Counted
<1>21. ASSUME NEW d \in Guests, d # c
       PROVE  (Done(d) => Done(d)') /\ answers'[d] = answers[d]
  <2>1. chunks'[d] = chunks[d] /\ store'[d] = store[d] /\ answers'[d] = answers[d]
    BY <1>2, <1>12, <1>13, <1>21
  <2> QED
    BY <1>1, <1>2, <2>1 DEF Done, AllSent, Silent, Holding
<1>22. OneSuccess(answers'[c]) /\ (NoSuccess(answers'[c]) \/ Done(c)')
  <2>1. CASE answers'[c] = answers[c] \/ answers'[c] = Append(answers[c], "SaveFailure")
    <3>1. "SaveFailure" \in Said \ {"SaveSuccess"}
      BY DEF Said
    <3> QED
      BY <1>2, <1>20, <2>1, <3>1, SuccessMoves
  <2>2. CASE answers'[c] = Append(answers[c], "SaveSuccess") /\ got'[c] >= Saves
    <3>1. OneSuccess(answers'[c])
      BY <1>2, <1>20, <2>2, SuccessMoves
    <3>2. got'[c] < n /\ got'[c] \in Nat
      BY <1>12, <1>15 DEF Handled
    <3>3. n = Saves + 1 /\ m = Saves + 1 /\ u = Saves + 1 /\ got'[c] + 1 = n
      BY <1>9, <1>15, <2>2, <3>2
    <3>4. Holding(c)'
      <4>1. \A s \in 1 .. Saves : s < n
        BY <1>9, <3>3
      <4> QED
        BY <1>15, <3>3, <4>1 DEF Handled, Holding
    <3>5. Silent(async) /\ Silent(chunks'[c])
      <4>1. chunks'[c] \in Seq(Message)
        BY <1>1, <1>2, <1>13, TailFacts
      <4> QED
        BY <1>2, <1>6, <1>9, <1>15, <3>3, <4>1, StreamNone
    <3>6. Unsent = <<>>
      <4>1. Unsent \in Seq(Entry)
        <5>1. cq \in Seq(Entry) /\ (ct \in {"check", "wait"} => cq # <<>>)
          BY DEF ChunkInv, ChunkTypeOK, ChunkThreadAwake, Sending
        <5> QED
          BY <5>1, TailFacts DEF Unsent
      <4>2. Len(Unsent) = 0
        BY <1>6, <1>9, <3>3, <4>1 DEF Rest
      <4> QED
        BY <4>1, <4>2
    <3>7. Done(c)'
      BY <1>1, <1>2, <3>4, <3>5, <3>6 DEF Done, AllSent, Silent
    <3> QED
      BY <3>1, <3>7
  <2> QED
    BY <1>12, <2>1, <2>2
<1>23. Counted(D)'
  <2>1. saveCount' <= Cardinality(D)
    BY <1>1, <1>19 DEF Counted
  <2>2. \A d \in D : Done(d)' /\ NoSuccess(answers[d])'
    BY <1>19, <1>20, <1>21 DEF Counted, NoSuccess
  <2>3. \A d \in Guests \ D : OneSuccess(answers[d])' /\ (NoSuccess(answers[d])' \/ Done(d)')
    <3>1. ASSUME NEW d \in Guests \ D
          PROVE  OneSuccess(answers'[d]) /\ (NoSuccess(answers'[d]) \/ Done(d)')
      <4>1. CASE d = c
        BY <1>22, <4>1
      <4>2. CASE d # c
        BY <1>19, <1>21, <4>2 DEF Counted
      <4> QED
        BY <4>1, <4>2
    <3> QED
      BY <3>1 DEF OneSuccess, NoSuccess
  <2> QED
    BY <1>2, <2>1, <2>2, <2>3 DEF Counted
<1>24. Tally'
  BY <1>2, <1>23 DEF Tally
<1> QED
  BY <1>1, <1>4, <1>18, <1>24 DEF Synced

----------------------------------------------------------------------------
(* What is between the queues of one start, step by step. *)
LEMMA SyncedStep ==
  ASSUME TypeOK, ChunkInv, Course, Saves # 0, Regular
  PROVE  Synced'
<1>0. Undisturbed /\ Waiting /\ Absent /\ Synced
  BY DEF Course
<1>1. CASE \/ UNCHANGED vars \/ RequestCodes \/ RequestNow \/ EndGame
           \/ ChunkedDataWake \/ ChunkedDataStart \/ ChunkedDataSend \/ ChunkedDataCheck
           \/ ChunkedDataWait \/ \E c \in Guest : OnChunkedDataComplete(c)
  <2>1. Passive
    BY <1>0, <1>1, PassiveServer
  <2> QED
    BY <1>0, <2>1, PassiveStep
<1>2. CASE DrainAsync
  <2>1. CASE Ranked(Head(async))
    BY <1>0, <1>2, <2>1, SaveIsDelivered
  <2>2. CASE ~Ranked(Head(async))
    BY <1>0, <1>2, <2>2, PassiveServer, PassiveStep
  <2> QED
    BY <2>1, <2>2
<1>3. CASE OnConnectAdd
  BY <1>0, <1>3, JoinedInTime
<1>4. CASE ChunkedDataEnd
  BY <1>0, <1>4, SaveIsSent
<1>5. CASE RequestSaves
  <2>1. gui = "saves" /\ Quiet /\ savesSynced
    BY <1>0, <1>5 DEF RequestSaves, Waiting, Synced
  <2>2. UNCHANGED <<players, joining, attempt, ct, chunks, answers, got, store>>
    BY <1>5, Zenon DEF RequestSaves, sessVars, pressVars, wireVars, guestVars
  <2>3. CASE want.saves /\ Guests # {}
    <3>1. SyncSaveData(Saves)
      BY <1>5, <2>3, Zenon DEF RequestSaves
    <3> QED
      BY <2>1, <2>2, <3>1, SyncBegins
  <2>4. CASE ~(want.saves /\ Guests # {})
    <3>1. UNCHANGED <<async, cq, savesSynced>>
      BY <1>5, <2>4, Zenon DEF RequestSaves
    <3>2. Guests' = Guests /\ Unsent' = Unsent
      BY <2>2, <3>1 DEF Guests, Unsent
    <3>3. Quiet'
      BY <2>1, <2>2, <3>1, <3>2, QuietSame
    <3> QED
      BY <2>1, <3>1, <3>3 DEF Synced
  <2> QED
    BY <2>3, <2>4
<1>6. ASSUME NEW saves \in BOOLEAN, NEW cds \in BOOLEAN, PressStart(saves, cds) PROVE Synced'
  <2>1. /\ gui = "idle" /\ button
        /\ UNCHANGED <<players, async, chunks, answers, ct, cq, savesSynced>>
    BY <1>6, Zenon DEF PressStart, sessVars, wireVars, chunkVars, startVars
  <2>2. savesSynced /\ Quiet
    BY <1>0, <2>1 DEF Waiting, Synced
  <2>3. Guests' = Guests /\ Unsent' = Unsent
    BY <2>1 DEF Guests, Unsent
  <2>4. Quiet'
    BY <2>1, <2>2, <2>3, QuietSame
  <2> QED
    BY <2>1, <2>2, <2>4 DEF Synced
<1>7. ASSUME NEW c \in Guest, OnConnect(c) \/ (OnDisconnect(c) /\ ~pending) PROVE Synced'
  <2>1. ~pending /\ UNCHANGED <<async, ct, cq, savesSynced>>
    BY <1>7, Zenon DEF OnConnect, OnDisconnect, chunkVars, startVars
  <2>2. savesSynced /\ Quiet
    BY <1>0, <2>1 DEF Waiting, Synced
  <2>3. /\ Guests' \subseteq Guests
        /\ \A d \in Guests' : chunks'[d] = chunks[d] /\ answers'[d] = answers[d]
    <3>1. CASE OnConnect(c)
      <4>1. UNCHANGED <<players, chunks, answers>>
        BY <3>1, Zenon DEF OnConnect, wireVars
      <4> QED
        BY <4>1 DEF Guests
    <3>2. CASE OnDisconnect(c)
      <4>1. /\ players' = players \ {c} /\ chunks' = [chunks EXCEPT ![c] = <<>>]
            /\ answers' = [answers EXCEPT ![c] = <<>>]
        BY <3>2, Zenon DEF OnDisconnect
      <4>2. Guests' \subseteq Guests \ {c} /\ Guests \subseteq Guest
        BY <4>1, Queues DEF Guests
      <4>3. chunks \in [Guest -> Seq(ChunkMsg)] /\ answers \in [Guest -> Seq(Said)]
        BY DEF TypeOK, WireTypeOK, Said
      <4> QED
        BY <4>1, <4>2, <4>3
    <3> QED
      BY <1>7, <3>1, <3>2
  <2>4. Unsent' = Unsent
    BY <2>1 DEF Unsent
  <2>5. Quiet'
    BY <2>1, <2>2, <2>3, <2>4, QuietSame
  <2> QED
    BY <2>1, <2>2, <2>5 DEF Synced
<1>8. ASSUME NEW c \in Guest, GuestOnCodes(c) PROVE Synced'
  BY <1>0, <1>8, PassiveGuest, PassiveStep
<1>9. ASSUME NEW c \in Guest, GuestOnChunk(c) PROVE Synced'
  <2>1. CASE Ranked(Head(chunks[c]))
    BY <1>0, <1>9, <2>1, GuestHandles
  <2>2. CASE ~Ranked(Head(chunks[c]))
    BY <1>0, <1>9, <2>2, PassiveGuest, PassiveStep
  <2> QED
    BY <2>1, <2>2
<1>10. ASSUME NEW c \in Guest, OnAnswer(c), Head(answers[c]) = "SaveSuccess", OnSaveSuccess
       PROVE  Synced'
  BY <1>0, <1>10, AnswerCounts
<1>11. ASSUME NEW c \in Guest, OnAnswer(c), Head(answers[c]) = "CodesSuccess", OnCodesSuccess
       PROVE  Synced'
  BY <1>0, <1>11, PassiveGuest, PassiveStep
<1> QED
  BY <1>1, <1>2, <1>3, <1>4, <1>5, <1>6, <1>7, <1>8, <1>9, <1>10, <1>11, Zenon DEF Regular

(* The saves of the guests stay as they are. *)
LEMMA KeptSame ==
  ASSUME Kept, Absent, UNCHANGED <<store, attempt, starters, want, savesSynced>>,
         gui = "saves" => gui' = "saves", players' \subseteq players \cup {joining}
  PROVE  Kept'
<1>1. starters' \cap players' \subseteq starters \cap players
  BY DEF Absent
<1>2. \A c : Holding(c) => Holding(c)'
  BY DEF Holding
<1> QED
  BY <1>1, <1>2 DEF Kept

(* A step of a start keeps the saves that have been synced. *)
LEMMA KeptStep ==
  ASSUME TypeOK, ChunkInv, Course, Saves # 0, Regular
  PROVE  Kept'
<1>0. Waiting /\ Absent /\ Kept /\ Synced
  BY DEF Course
<1>1. CASE UNCHANGED vars \/ DrainAsync \/ OnConnectAdd \/ EndGame
  <2>1. /\ UNCHANGED <<store, attempt, starters, want, savesSynced, gui>>
        /\ players' = players \/ players' = players \cup {joining}
    BY <1>1, Zenon
    DEF vars, guestVars, guiVars, pressVars, startVars, sessVars, DrainAsync, OnConnectAdd, EndGame
  <2> QED
    BY <1>0, <2>1, KeptSame
<1>2. CASE RequestCodes \/ RequestNow
  <2>1. UNCHANGED <<store, attempt, starters, want, savesSynced, players>> /\ gui # "saves"
    BY <1>2 DEF guestVars, pressVars, startVars, sessVars, RequestCodes, RequestNow
  <2> QED
    BY <1>0, <2>1, KeptSame
<1>3. CASE \/ ChunkedDataWake \/ ChunkedDataStart \/ ChunkedDataSend \/ ChunkedDataEnd
           \/ ChunkedDataCheck \/ ChunkedDataWait
  <2>1. UNCHANGED <<store, attempt, starters, want, savesSynced, players, gui>>
    BY <1>3, Zenon
    DEF ChunkedDataWake, ChunkedDataStart, ChunkedDataSend, ChunkedDataEnd, ChunkedDataCheck,
        ChunkedDataWait, guestVars, guiVars, pressVars, startVars, sessVars
  <2> QED
    BY <1>0, <2>1, KeptSame
<1>4. CASE RequestSaves
  <2>1. CASE want.saves /\ Guests # {}
    <3>1. savesSynced' = FALSE
      BY <1>4, <2>1, Zenon DEF RequestSaves, SyncSaveData
    <3> QED
      BY <3>1 DEF Kept
  <2>2. CASE ~(want.saves /\ Guests # {})
    <3>1. UNCHANGED <<starters, players, want>>
      BY <1>4, Zenon DEF RequestSaves, pressVars, sessVars
    <3>2. want.saves => starters \cap players = {}
      BY <2>2 DEF TypeOK, GuiTypeOK, Guests, Guest
    <3> QED
      BY <3>1, <3>2 DEF Kept
  <2> QED
    BY <2>1, <2>2
<1>5. ASSUME NEW saves \in BOOLEAN, NEW cds \in BOOLEAN, PressStart(saves, cds) PROVE Kept'
  <2>1. gui' = "saves"
    BY <1>5, Zenon DEF PressStart
  <2> QED
    BY <2>1 DEF Kept
<1>6. ASSUME NEW c \in Guest, GuestOnCodes(c) \/ OnChunkedDataComplete(c) \/ OnConnect(c)
                              \/ OnDisconnect(c)
      PROVE  Kept'
  <2>1. /\ UNCHANGED <<store, attempt, starters, want, savesSynced, gui>>
        /\ players' = players \/ players' = players \ {c}
    BY <1>6, Zenon
    DEF GuestOnCodes, OnChunkedDataComplete, OnConnect, OnDisconnect, guestVars, guiVars,
        pressVars, startVars, sessVars
  <2>2. players' \subseteq players \cup {joining}
    BY <2>1
  <2> QED
    BY <1>0, <2>1, <2>2, KeptSame
<1>7. ASSUME NEW c \in Guest, GuestOnChunk(c) PROVE Kept'
  <2>1. CASE Ranked(Head(chunks[c]))
    <3>1. ~savesSynced'
      BY <1>0, <1>7, <2>1, GuestHandles
    <3> QED
      BY <3>1 DEF Kept
  <2>2. CASE ~Ranked(Head(chunks[c]))
    <3>1. UNCHANGED <<store, attempt, savesSynced, players>>
      BY <1>7, <2>2, PassiveGuest DEF Passive
    <3>2. UNCHANGED <<starters, want, gui>>
      BY <1>7, Zenon DEF GuestOnChunk, guiVars, pressVars
    <3> QED
      BY <1>0, <3>1, <3>2, KeptSame
  <2> QED
    BY <2>1, <2>2
<1>8. ASSUME NEW c \in Guest, OnAnswer(c), Head(answers[c]) = "SaveSuccess", OnSaveSuccess
      PROVE  Kept'
  <2>1. savesSynced' => \A d \in Guests' : Holding(d)'
    BY <1>0, <1>8, AnswerCounts
  <2>2. starters' \cap players' \subseteq Guests'
    <3>1. UNCHANGED <<starters, players>>
      BY <1>8, Zenon DEF OnAnswer, guiVars, pressVars
    <3> QED
      BY <3>1 DEF TypeOK, GuiTypeOK, Guests, Guest
  <2> QED
    BY <2>1, <2>2 DEF Kept
<1>9. ASSUME NEW c \in Guest, OnAnswer(c), OnCodesSuccess PROVE Kept'
  <2>1. UNCHANGED <<store, attempt, starters, want, savesSynced, players, gui>>
    BY <1>9, Zenon DEF OnAnswer, OnCodesSuccess, guestVars, guiVars, pressVars
  <2> QED
    BY <1>0, <2>1, KeptSame
<1> QED
  BY <1>1, <1>2, <1>3, <1>4, <1>5, <1>6, <1>7, <1>8, <1>9, Zenon DEF Regular

(* The invariant holds at first, ... *)
LEMMA SaveInit == Init => SaveInv
<1> SUFFICES ASSUME Init, Saves # 0 PROVE Course
  BY DEF SaveInv
<1>1. Undisturbed /\ Waiting
  BY DEF Init, Undisturbed, Waiting
<1>2. Absent
  BY PlayerAssumption DEF Init, Absent
<1>3. Kept
  BY DEF Init, Kept
<1>4. Quiet
  <2>1. async = <<>> /\ Unsent = <<>>
    BY DEF Init, Unsent
  <2>2. \A c \in Guests : chunks[c] = <<>> /\ answers[c] = <<>>
    BY DEF Init, Guests, Guest
  <2>3. Silent(<<>>) /\ NoSuccess(<<>>)
    BY DEF Silent, In, NoSuccess, Success
  <2> QED
    BY <2>1, <2>2, <2>3, Zenon DEF Quiet, AllSent
<1> QED
  BY <1>1, <1>2, <1>3, <1>4 DEF Course, Synced, Init

(* ... every step keeps it, ... *)
LEMMA SaveStep ==
  ASSUME TypeOK, ChunkInv, SaveInv, [Next]_vars
  PROVE  SaveInv'
<1> SUFFICES ASSUME ~aborted', Saves # 0 PROVE Course'
  BY DEF SaveInv
<1>1. Course
  BY AbortedStays DEF SaveInv
<1>2. Regular
  BY <1>1, RegularStep DEF Course
<1>3. Undisturbed' /\ Waiting' /\ Absent'
  BY <1>1, <1>2, UndisturbedStep, WaitingStep, AbsentStep DEF Course
<1>4. Kept' /\ Synced'
  BY <1>1, <1>2, KeptStep, SyncedStep
<1> QED
  BY <1>3, <1>4 DEF Course

(* A step that starts a game which waited for a sync finds the saves there. *)
LEMMA StartsWithSaves ==
  ASSUME TypeOK, ChunkInv, SaveInv, [Next]_vars,
         game' # game, pending, want.saves, ~aborted
  PROVE  \A c \in starters \cap players, s \in 1 .. Saves : store[c][s] = attempt
<1> SUFFICES ASSUME Saves # 0 PROVE \A c \in starters \cap players : Holding(c)
  <2>1. Saves = 0 => 1 .. Saves = {}
    OBVIOUS
  <2> QED
    BY <2>1 DEF Holding
<1>1. Course
  BY DEF SaveInv
<1>2. gui # "saves" /\ ~startNow
  BY <1>1 DEF Course, Waiting
<1>3. PICK c \in Guest : OnAnswer(c) /\ (\/ Head(answers[c]) = "SaveSuccess" /\ OnSaveSuccess
                                         \/ Head(answers[c]) = "CodesSuccess" /\ OnCodesSuccess)
  <2>1. CASE UNCHANGED vars
    BY <2>1, Zenon DEF vars, startVars
  <2>2. CASE ChunkThread
    BY <2>2, Zenon
    DEF ChunkThread, ChunkedDataWake, ChunkedDataClear, ChunkedDataStart,
        ChunkedDataSend, ChunkedDataEnd, ChunkedDataCheck, ChunkedDataWait, startVars
  <2>3. CASE GuiThread
    BY <1>2, <2>3, Zenon
    DEF GuiThread, RequestSaves, RequestCodes, RequestNow, GuiEnableOptions, startVars
  <2>4. ASSUME NEW c \in Guest, Guestly(c) PROVE FALSE
    BY <2>4, Zenon DEF Guestly, GuestOnChunk, GuestOnCodes, startVars
  <2>5. CASE Outside
    BY <2>5, Zenon
    DEF Outside, PressStart, RequestSavesFails, AbortGameStart, EndGame, OnConnect,
        OnDisconnect, startVars
  <2>6. CASE DrainAsync \/ OnConnectAdd \/ FailureClearsPending
    BY <2>6, Zenon DEF DrainAsync, OnConnectAdd, FailureClearsPending, startVars
  <2>7. ASSUME NEW c \in Guest, OnChunkedDataComplete(c) PROVE FALSE
    BY <2>7, Zenon DEF OnChunkedDataComplete, startVars
  <2>8. PICK c \in Guest : OnAnswer(c)
    BY <2>1, <2>2, <2>3, <2>4, <2>5, <2>6, <2>7, Zenon DEF Next, ServerNet
  <2>9. ~OnSaveFailure
    BY Zenon DEF OnSaveFailure, startVars
  <2> QED
    BY <2>8, <2>9, Zenon DEF OnAnswer
<1>4. CASE Head(answers[c]) = "SaveSuccess" /\ OnSaveSuccess
  <2>1. ~savesSynced /\ (savesSynced' => \A d \in Guests' : Holding(d)')
    BY <1>1, <1>3, <1>4, AnswerCounts DEF Course
  <2>2. savesSynced' = TRUE
    BY <1>4, Zenon DEF OnSaveSuccess
  <2>3. UNCHANGED <<players, store, attempt>>
    BY <1>3, Zenon DEF OnAnswer, guestVars, guiVars, pressVars
  <2>4. \A d \in Guests : Holding(d)
    BY <2>1, <2>2, <2>3 DEF Holding, Guests
  <2> QED
    BY <2>4 DEF TypeOK, GuiTypeOK, Guests, Guest
<1>5. CASE Head(answers[c]) = "CodesSuccess" /\ OnCodesSuccess
  <2>1. savesSynced
    BY <1>5, Zenon DEF OnCodesSuccess
  <2> QED
    BY <1>1, <1>2, <2>1 DEF Course, Kept
<1> QED
  BY <1>3, <1>4, <1>5

(* While no start has been aborted, a game that waited for a sync starts    *)
(* only when every guest who was there when the host pressed Start, and     *)
(* still is, holds every save of this very start: an answer is never        *)
(* counted twice or for another start, whoever joins or leaves in between,  *)
(* for any number of guests, saves and starts.                              *)
THEOREM SavesComeFirst == Spec => SavesBeforeStart
<1> DEFINE A == game' # game /\ pending /\ want.saves /\ ~aborted =>
                  \A c \in starters \cap players, s \in 1 .. Saves : store[c][s] = attempt
           I == TypeOK /\ ChunkInv /\ SaveInv
<1>1. Init => I
  BY TypeInit, ChunkInit, SaveInit
<1>2. I /\ [Next]_vars => I'
  <2> SUFFICES ASSUME TypeOK, ChunkInv, SaveInv, [Next]_vars PROVE TypeOK' /\ ChunkInv' /\ SaveInv'
    OBVIOUS
  <2>1. ChunkInv' /\ SaveInv'
    BY ChunkStep, SaveStep
  <2>2. ChunkTypeOK'
    BY <2>1 DEF ChunkInv
  <2> QED
    BY <2>1, <2>2, SessionType, StartType, GuiType, WireType DEF TypeOK
<1>3. I /\ [Next]_vars => [A]_vars
  BY StartsWithSaves
<1> HIDE DEF I, A
<1>4. Spec => [][A]_vars
  BY <1>1, <1>2, <1>3, PTL DEF Spec
<1> QED
  BY <1>4 DEF SavesBeforeStart, A
=============================================================================
