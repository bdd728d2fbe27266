---------------------------- MODULE NetPlaySync ----------------------------
(***************************************************************************)
(* How the host gets everybody ready for a game: RequestStartGame on the   *)
(* server sends the save data and the cheat codes to the guests, the       *)
(* guests answer, and the last answer starts the game.  A guest that fails *)
(* or leaves, or the host, aborts the start.                               *)
(*                                                                         *)
(* Three threads of the server interleave here:                            *)
(*   GUI           RequestStartGame, in steps: saves, codes, and the start *)
(*                 itself when nothing had to be sent; AbortGameStart;     *)
(*   NETPLAY       drains the async queue, handles joins, leaves and the   *)
(*                 guests' answers;                                        *)
(*   Chunked Data  sends the queued save data, one entry at a time, and    *)
(*                 waits for every guest to have it.                       *)
(* Save data and codes travel on different ENet channels: each is in       *)
(* order, but not relative to the other.  The five messages of a code sync *)
(* are one here, and so are the start and the payload of a chunk.          *)
(***************************************************************************)
EXTENDS Integers, Sequences, FiniteSets

CONSTANTS
  Player,      (* everybody who may take part; 1 is the host               *)
  Saves,       (* SaveSyncInfo::save_count, the entries a save sync sends  *)
  MaxAttempt,  (* bound: times the host presses Start                      *)
  MaxAbort,    (* bound: times the host cancels                            *)
  MaxFail,     (* bound: saves that cannot be read or written              *)
  MaxLeave     (* bound: guests that leave                                 *)

ASSUME PlayerAssumption == Player \subseteq Nat \ {0} /\ 1 \in Player
                           /\ IsFiniteSet(Player)
ASSUME SavesAssumption  == Saves \in Nat
ASSUME BoundAssumption  ==
         {MaxAttempt, MaxAbort, MaxFail, MaxLeave} \subseteq Nat

VARIABLES
  \* server: session and start
  players,     (* the keys of m_players                                    *)
  joining,     (* the player OnConnect is adding, or 0                     *)
  pending,     (* m_start_pending                                          *)
  running,     (* m_is_running                                             *)
  savesSynced, (* m_saves_synced                                           *)
  codesSynced, (* m_codes_synced                                           *)
  saveCount,   (* m_save_data_synced_players                               *)
  codeCount,   (* m_codes_synced_players                                   *)
  net,         (* NETPLAY: loop, or abort: about to clear m_start_pending  *)
  async,       (* m_async_queue                                            *)
  \* GUI thread
  gui,         (* idle, or in RequestStartGame: saves, codes, now          *)
  want,        (* what the host's settings ask to sync                     *)
  startNow,    (* RequestStartGame's start_now                             *)
  button,      (* the Start button is enabled                              *)
  enableQ,     (* a SetOptionsEnabled(true) is queued                      *)
  \* Chunked Data thread
  ct,          (* idle, clear, loop, send, end, check, wait                *)
  cq,          (* m_chunked_data_queue                                     *)
  cid,         (* the id of the last entry sent                            *)
  complete,    (* m_chunked_data_complete_count[cid], or -1 without it     *)
  pcount,      (* player_count                                             *)
  cev,         (* m_chunked_data_event is set                              *)
  compev,      (* m_chunked_data_complete_event is set                     *)
  abort,       (* m_abort_chunked_data                                     *)
  \* guests and the network
  chunks,      (* to each guest, on CHUNKED_DATA_CHANNEL                   *)
  codeMsgs,    (* to each guest, on DEFAULT_CHANNEL                        *)
  answers,     (* from each guest, on DEFAULT_CHANNEL                      *)
  completes,   (* from each guest, on CHUNKED_DATA_CHANNEL                 *)
  rq,          (* the ids in m_chunked_data_receive_queue                  *)
  got,         (* m_sync_save_data_success_count                           *)
  store,       (* the attempt each of the guest's save files is from       *)
  codes,       (* the attempt the guest's codes are from                   *)
  \* history
  attempt,     (* times the host has pressed Start                         *)
  starters,    (* the guests there were when the host pressed Start        *)
  game,        (* games started                                            *)
  aborts,      (* starts the host has cancelled                            *)
  fails,       (* saves that could not be read or written                  *)
  aborted,     (* some start has been aborted                              *)
  gone         (* guests that have left                                    *)

startVars == <<pending, running, savesSynced, codesSynced, saveCount, codeCount,
               game>>
pressVars == <<attempt, starters>>
guiVars   == <<gui, want, startNow, button, pressVars, aborts>>
chunkVars == <<ct, cq, cid, complete, pcount>>
flagVars  == <<cev, compev, abort>>
guestVars == <<rq, got, store, codes, fails>>
wireVars  == <<chunks, codeMsgs, answers, completes>>
sessVars  == <<players, joining, net, gone>>

vars == <<startVars, guiVars, chunkVars, flagVars, guestVars, wireVars, sessVars,
          async, enableQ, aborted>>

Guest  == Player \ {1}
Guests == players \ {1}

----------------------------------------------------------------------------
(* The messages of the two channels, as the async queue holds them. *)
ChunkMsg == [type : {"Notify"}]
            \cup [type : {"Start", "Abort"}, id : Nat]
            \cup [type : {"End"}, id : Nat, save : Nat, attempt : Nat]
CodesMsg == [type : {"Codes"}, attempt : Nat]

Entry == [save : Nat, attempt : Nat]

Init ==
  /\ players \in {ps \in SUBSET Player : 1 \in ps}
  /\ joining = 0 /\ net = "loop" /\ gone = {}
  /\ pending = FALSE /\ running = FALSE /\ game = 0
  /\ savesSynced = TRUE /\ codesSynced = TRUE
  /\ saveCount = 0 /\ codeCount = 0
  /\ async = <<>>
  /\ gui = "idle" /\ want = [saves |-> FALSE, codes |-> FALSE]
  /\ startNow = TRUE /\ button = TRUE /\ enableQ = FALSE
  /\ attempt = 0 /\ starters = {} /\ aborts = 0
  /\ ct = "idle" /\ cq = <<>> /\ cid = 0 /\ complete = -1 /\ pcount = 0
  /\ cev = FALSE /\ compev = FALSE /\ abort = FALSE
  /\ chunks = [c \in Guest |-> <<>>] /\ codeMsgs = [c \in Guest |-> <<>>]
  /\ answers = [c \in Guest |-> <<>>] /\ completes = [c \in Guest |-> <<>>]
  /\ rq = [c \in Guest |-> {}] /\ got = [c \in Guest |-> 0]
  /\ store = [c \in Guest |-> [s \in 1 .. Saves |-> 0]]
  /\ codes = [c \in Guest |-> 0]
  /\ fails = 0 /\ aborted = FALSE

----------------------------------------------------------------------------
(* Parts of several handlers.                                              *)

(* StartGame; m_crit.game keeps it out of OnConnect. *)
StartGame ==
  /\ game' = game + 1
  /\ pending' = FALSE
  /\ running' = TRUE

(* ChunkedDataAbort. *)
ChunkedDataAbort ==
  /\ abort' = TRUE
  /\ cev' = TRUE
  /\ compev' = TRUE

(* The Chunked Data thread is at an entry, and its progress on display. *)
Sending == ct \in {"send", "end", "check", "wait"}

----------------------------------------------------------------------------
(* GUI thread.                                                             *)

(* The host presses Start, with some choice of what to sync. *)
PressStart(saves, cds) ==
  /\ gui = "idle" /\ button /\ attempt < MaxAttempt
  /\ gui' = "saves"
  /\ want' = [saves |-> saves, codes |-> cds]
  /\ attempt' = attempt + 1
  /\ starters' = Guests
  /\ startNow' = TRUE
  /\ UNCHANGED <<startVars, button, aborts, chunkVars, flagVars, guestVars,
                 wireVars, sessVars, async, enableQ, aborted>>

(* Mutant: the answers to the last sync still count. *)
SyncSaveDataKeep(n) ==
  /\ savesSynced' = FALSE
  /\ UNCHANGED saveCount
  /\ async' = Append(async, [type |-> "Notify"])
  /\ cq' = cq \o [s \in 1 .. n |-> [save |-> s, attempt |-> attempt]]
  /\ cev' = (cev \/ n > 0)

(* SyncSaveData: announce the saves and queue them, or the first n of them. *)
SyncSaveData(n) ==
  /\ savesSynced' = FALSE
  /\ saveCount' = 0
  /\ async' = Append(async, [type |-> "Notify"])
  /\ cq' = cq \o [s \in 1 .. n |-> [save |-> s, attempt |-> attempt]]
  /\ cev' = (cev \/ n > 0)

(* RequestStartGame, the saves. *)
RequestSaves ==
  /\ gui = "saves"
  /\ gui' = "codes"
  /\ IF want.saves /\ Guests # {}
       THEN startNow' = FALSE /\ pending' = TRUE /\ SyncSaveData(Saves)
       ELSE UNCHANGED <<startNow, pending, savesSynced, saveCount, async, cq,
                        cev>>
  /\ UNCHANGED <<running, codesSynced, codeCount, game, want, button, pressVars,
                 aborts, ct, cid, complete, pcount, compev, abort, guestVars,
                 wireVars, sessVars, enableQ, aborted>>

(* RequestStartGame when the host cannot read a save: SyncSaveData gives   *)
(* up, what it has queued stays queued, and the options stay enabled.      *)
RequestSavesFails(n) ==
  /\ gui = "saves" /\ want.saves /\ Guests # {} /\ fails < MaxFail
  /\ gui' = "idle"
  /\ startNow' = FALSE
  /\ fails' = fails + 1
  /\ SyncSaveData(n)
  /\ pending' = FALSE
  /\ aborted' = TRUE
  /\ UNCHANGED <<running, codesSynced, codeCount, game, want, button, pressVars,
                 aborts, ct, cid, complete, pcount, compev, abort, rq, got, store,
                 codes, wireVars, sessVars, enableQ>>

(* SyncCodes. *)
SyncCodes ==
  /\ codesSynced' = FALSE
  /\ codeCount' = 0
  /\ async' = Append(async, [type |-> "Codes", attempt |-> attempt])

(* RequestStartGame, the codes. *)
RequestCodes ==
  /\ gui = "codes"
  /\ gui' = "now"
  /\ IF want.codes /\ Guests # {}
       THEN startNow' = FALSE /\ pending' = TRUE /\ SyncCodes
       ELSE UNCHANGED <<startNow, pending, codesSynced, codeCount, async>>
  /\ UNCHANGED <<running, savesSynced, saveCount, game, want, button, pressVars,
                 aborts, chunkVars, flagVars, guestVars, wireVars, sessVars,
                 enableQ, aborted>>

(* RequestStartGame, the end: start now, or wait for the answers.  Then    *)
(* OnStart disables the options.                                           *)
RequestNow ==
  /\ gui = "now"
  /\ gui' = "idle"
  /\ button' = FALSE
  /\ IF startNow THEN joining = 0 /\ StartGame
                 ELSE UNCHANGED <<game, pending, running>>
  /\ UNCHANGED <<savesSynced, codesSynced, saveCount, codeCount, want, startNow,
                 pressVars, aborts, chunkVars, flagVars, guestVars, wireVars,
                 sessVars, async, enableQ, aborted>>

(* The queued SetOptionsEnabled(true) of OnGameStartAborted. *)
GuiEnableOptions ==
  /\ gui = "idle" /\ enableQ
  /\ enableQ' = FALSE
  /\ button' = TRUE
  /\ UNCHANGED <<startVars, gui, want, startNow, pressVars, aborts, chunkVars,
                 flagVars, guestVars, wireVars, sessVars, async, aborted>>

(* The host closes the progress dialog, which is there while an entry is   *)
(* sent: AbortGameStart.                                                   *)
AbortGameStart ==
  /\ gui = "idle" /\ pending /\ Sending /\ aborts < MaxAbort
  /\ aborts' = aborts + 1
  /\ enableQ' = TRUE
  /\ ChunkedDataAbort
  /\ pending' = FALSE
  /\ aborted' = TRUE
  /\ UNCHANGED <<running, savesSynced, codesSynced, saveCount, codeCount, game,
                 gui, want, startNow, button, pressVars, chunkVars, guestVars,
                 wireVars, sessVars, async>>

(* The game is over and the host's emulation has ended. *)
EndGame ==
  /\ gui = "idle" /\ game > 0 /\ ~button /\ ~pending
  /\ running' = FALSE
  /\ button' = TRUE
  /\ UNCHANGED <<pending, savesSynced, codesSynced, saveCount, codeCount, game,
                 gui, want, startNow, pressVars, aborts, chunkVars, flagVars,
                 guestVars, wireVars, sessVars, async, enableQ, aborted>>

----------------------------------------------------------------------------
(* Server, NETPLAY thread.                                                 *)

NetFree == net = "loop" /\ joining = 0

(* One entry of the async queue goes to every guest there is now. *)
DrainAsync ==
  /\ NetFree /\ async # <<>>
  /\ async' = Tail(async)
  /\ LET msg    == Head(async)
         To(ch) == [c \in Guest |-> IF c \in players THEN Append(ch[c], msg)
                                                    ELSE ch[c]]
     IN IF msg.type = "Codes" THEN codeMsgs' = To(codeMsgs) /\ UNCHANGED chunks
                              ELSE chunks' = To(chunks) /\ UNCHANGED codeMsgs
  /\ UNCHANGED <<startVars, guiVars, chunkVars, flagVars, guestVars, answers,
                 completes, sessVars, enableQ, aborted>>

(* OnConnect lets a player in unless a game runs or is about to ... *)
OnConnect(c) ==
  /\ NetFree /\ c \notin players \cup gone
  /\ ~running /\ ~pending
  /\ joining' = c
  /\ UNCHANGED <<startVars, guiVars, chunkVars, flagVars, guestVars, wireVars,
                 players, net, gone, async, enableQ, aborted>>

(* Mutant: added whether somebody joins or not. *)
OnConnectAddAlways ==
  /\ players' = players \cup {joining}
  /\ joining' = 0
  /\ UNCHANGED <<startVars, guiVars, chunkVars, flagVars, guestVars, wireVars,
                 net, gone, async, enableQ, aborted>>

(* ... and adds it to the players. *)
OnConnectAdd ==
  /\ joining # 0
  /\ players' = players \cup {joining}
  /\ joining' = 0
  /\ UNCHANGED <<startVars, guiVars, chunkVars, flagVars, guestVars, wireVars,
                 net, gone, async, enableQ, aborted>>

(* OnDisconnect: a guest leaves, whatever is under way between the two is  *)
(* lost, and a start that is pending is aborted.  A running game ends when *)
(* the guest had a controller.                                             *)
OnDisconnect(c) ==
  /\ NetFree /\ c \in Guests /\ Cardinality(gone) < MaxLeave
  /\ running' \in {running, FALSE}
  /\ IF pending
       THEN ChunkedDataAbort /\ enableQ' = TRUE /\ aborted' = TRUE
       ELSE UNCHANGED <<flagVars, enableQ, aborted>>
  /\ pending' = FALSE
  /\ players' = players \ {c}
  /\ gone' = gone \cup {c}
  /\ chunks' = [chunks EXCEPT ![c] = <<>>]
  /\ codeMsgs' = [codeMsgs EXCEPT ![c] = <<>>]
  /\ answers' = [answers EXCEPT ![c] = <<>>]
  /\ completes' = [completes EXCEPT ![c] = <<>>]
  /\ UNCHANGED <<savesSynced, codesSynced, saveCount, codeCount, game, guiVars,
                 chunkVars, guestVars, joining, net, async>>

Enough(n) == n >= Cardinality(players) - 1

(* Mutant: the last save does not start the game, only the last code does. *)
OnSaveSuccessNoCheck ==
  /\ IF pending
       THEN /\ saveCount' = saveCount + 1
            /\ savesSynced' = (savesSynced \/ Enough(saveCount + 1))
       ELSE UNCHANGED <<saveCount, savesSynced>>
  /\ UNCHANGED <<game, pending, running, codesSynced, codeCount, net, flagVars,
                 enableQ, aborted>>

(* A guest has all the saves.  The last one starts the game, if the codes  *)
(* are there too: CheckSyncAndStartGame.                                   *)
OnSaveSuccess ==
  /\ IF pending
       THEN /\ saveCount' = saveCount + 1
            /\ savesSynced' = (savesSynced \/ Enough(saveCount + 1))
            /\ IF Enough(saveCount + 1) /\ codesSynced
                 THEN StartGame ELSE UNCHANGED <<game, pending, running>>
       ELSE UNCHANGED <<game, pending, running, saveCount, savesSynced>>
  /\ UNCHANGED <<codesSynced, codeCount, net, flagVars, enableQ, aborted>>

(* A guest has all the codes. *)
OnCodesSuccess ==
  /\ IF pending
       THEN /\ codeCount' = codeCount + 1
            /\ codesSynced' = (codesSynced \/ Enough(codeCount + 1))
            /\ IF Enough(codeCount + 1) /\ savesSynced
                 THEN StartGame ELSE UNCHANGED <<game, pending, running>>
       ELSE UNCHANGED <<game, pending, running, codeCount, codesSynced>>
  /\ UNCHANGED <<savesSynced, saveCount, net, flagVars, enableQ, aborted>>

(* A guest could not write a save: the start is aborted, pending or not.   *)
(* The options are enabled before m_start_pending is cleared.              *)
OnSaveFailure ==
  /\ enableQ' = TRUE
  /\ ChunkedDataAbort
  /\ net' = "abort"
  /\ aborted' = TRUE
  /\ UNCHANGED startVars

FailureClearsPending ==
  /\ net = "abort"
  /\ net' = "loop"
  /\ pending' = FALSE
  /\ UNCHANGED <<running, savesSynced, codesSynced, saveCount, codeCount, game,
                 guiVars, chunkVars, flagVars, guestVars, wireVars, players,
                 joining, gone, async, enableQ, aborted>>

(* A guest's answer arrives. *)
OnAnswer(c) ==
  /\ NetFree /\ c \in players /\ answers[c] # <<>>
  /\ answers' = [answers EXCEPT ![c] = Tail(@)]
  /\ \/ Head(answers[c]) = "SaveSuccess"  /\ OnSaveSuccess
     \/ Head(answers[c]) = "CodesSuccess" /\ OnCodesSuccess
     \/ Head(answers[c]) = "SaveFailure"  /\ OnSaveFailure
  /\ UNCHANGED <<guiVars, chunkVars, guestVars, chunks, codeMsgs, completes,
                 players, joining, gone, async>>

(* Mutant: the Chunked Data thread is not woken. *)
OnChunkedDataCompleteQuiet(c) ==
  /\ NetFree /\ c \in players /\ completes[c] # <<>>
  /\ completes' = [completes EXCEPT ![c] = Tail(@)]
  /\ IF complete >= 0 /\ Head(completes[c]) = cid
       THEN complete' = complete + 1 ELSE UNCHANGED complete
  /\ UNCHANGED <<startVars, guiVars, ct, cq, cid, pcount, flagVars,
                 guestVars, chunks, codeMsgs, answers, sessVars, async, enableQ,
                 aborted>>

(* A guest has a whole chunk: count it, if it is still waited for. *)
OnChunkedDataComplete(c) ==
  /\ NetFree /\ c \in players /\ completes[c] # <<>>
  /\ completes' = [completes EXCEPT ![c] = Tail(@)]
  /\ IF complete >= 0 /\ Head(completes[c]) = cid
       THEN complete' = complete + 1 /\ compev' = TRUE
       ELSE UNCHANGED <<complete, compev>>
  /\ UNCHANGED <<startVars, guiVars, ct, cq, cid, pcount, cev, abort,
                 guestVars, chunks, codeMsgs, answers, sessVars, async, enableQ,
                 aborted>>

----------------------------------------------------------------------------
(* Server, Chunked Data thread.                                            *)

(* m_chunked_data_event.Wait returns, and m_abort_chunked_data is read. *)
ChunkedDataWake ==
  /\ ct = "idle" /\ cev
  /\ cev' = FALSE
  /\ ct' = IF abort THEN "clear" ELSE "loop"
  /\ UNCHANGED <<startVars, guiVars, cq, cid, complete, pcount, compev, abort,
                 guestVars, wireVars, sessVars, async, enableQ, aborted>>

(* An abort clears the queue, and an abort that comes meanwhile is over    *)
(* with it.                                                                *)
ChunkedDataClear ==
  /\ ct = "clear"
  /\ ct' = "loop"
  /\ cq' = <<>>
  /\ abort' = FALSE
  /\ UNCHANGED <<startVars, guiVars, cid, complete, pcount, cev, compev,
                 guestVars, wireVars, sessVars, async, enableQ, aborted>>

(* The next entry is announced to the guests there are now, or there is    *)
(* none, or an abort.                                                      *)
ChunkedDataStart ==
  /\ ct = "loop"
  /\ IF cq = <<>> \/ abort
       THEN ct' = "idle" /\ UNCHANGED <<cid, complete, pcount, async>>
       ELSE /\ ct' = "send"
            /\ cid' = cid + 1
            /\ complete' = 0
            /\ pcount' = Cardinality(Guests)
            /\ async' = Append(async, [type |-> "Start", id |-> cid + 1])
  /\ UNCHANGED <<startVars, guiVars, cq, flagVars, guestVars, wireVars, sessVars,
                 enableQ, aborted>>

(* The payload goes out with the start; an abort is announced. *)
ChunkedDataSend ==
  /\ ct = "send"
  /\ ct' = "end"
  /\ async' = IF abort THEN Append(async, [type |-> "Abort", id |-> cid])
                       ELSE async
  /\ UNCHANGED <<startVars, guiVars, cq, cid, complete, pcount, flagVars,
                 guestVars, wireVars, sessVars, enableQ, aborted>>

ChunkedDataEnd ==
  /\ ct = "end"
  /\ ct' = "check"
  /\ async' = IF abort THEN async
              ELSE Append(async, [type |-> "End", id |-> cid,
                                  save |-> Head(cq).save,
                                  attempt |-> Head(cq).attempt])
  /\ UNCHANGED <<startVars, guiVars, cq, cid, complete, pcount, flagVars,
                 guestVars, wireVars, sessVars, enableQ, aborted>>

(* Does every guest have it?  Then on to the next entry, else wait. *)
ChunkedDataCheck ==
  /\ ct = "check"
  /\ IF complete >= pcount \/ abort
       THEN ct' = "loop" /\ cq' = Tail(cq) /\ complete' = -1
       ELSE ct' = "wait" /\ UNCHANGED <<cq, complete>>
  /\ UNCHANGED <<startVars, guiVars, cid, pcount, flagVars, guestVars, wireVars,
                 sessVars, async, enableQ, aborted>>

(* m_chunked_data_complete_event.Wait returns. *)
ChunkedDataWait ==
  /\ ct = "wait" /\ compev
  /\ compev' = FALSE
  /\ ct' = "check"
  /\ UNCHANGED <<startVars, guiVars, cq, cid, complete, pcount, cev, abort,
                 guestVars, wireVars, sessVars, async, enableQ, aborted>>

----------------------------------------------------------------------------
(* Guests, NETPLAY thread.                                                 *)

Answer(c, a) == answers' = [answers EXCEPT ![c] = Append(@, a)]

(* SyncSaveDataResponse(true). *)
SaveSuccess(c, n) ==
  /\ got' = [got EXCEPT ![c] = n]
  /\ IF n >= Saves THEN Answer(c, "SaveSuccess") ELSE UNCHANGED answers

OnSyncSaveDataNotify(c, msg) ==
  /\ msg.type = "Notify"
  /\ IF Saves = 0 THEN SaveSuccess(c, 1)
                  ELSE got' = [got EXCEPT ![c] = 0] /\ UNCHANGED answers
  /\ UNCHANGED <<rq, store, fails, completes>>

OnChunkedDataStart(c, msg) ==
  /\ msg.type = "Start"
  /\ rq' = [rq EXCEPT ![c] = @ \cup {msg.id}]
  /\ UNCHANGED <<got, store, fails, answers, completes>>

OnChunkedDataAbort(c, msg) ==
  /\ msg.type = "Abort"
  /\ rq' = [rq EXCEPT ![c] = @ \ {msg.id}]
  /\ UNCHANGED <<got, store, fails, answers, completes>>

(* The save is written, or cannot be, and the server told that the chunk   *)
(* has arrived.  An unknown chunk is ignored.                              *)
OnChunkedDataEnd(c, msg) ==
  /\ msg.type = "End"
  /\ IF msg.id \in rq[c]
       THEN /\ rq' = [rq EXCEPT ![c] = @ \ {msg.id}]
            /\ completes' = [completes EXCEPT ![c] = Append(@, msg.id)]
            /\ \/ /\ store' = [store EXCEPT ![c][msg.save] = msg.attempt]
                  /\ SaveSuccess(c, got[c] + 1)
                  /\ UNCHANGED fails
               \/ /\ fails < MaxFail
                  /\ fails' = fails + 1
                  /\ Answer(c, "SaveFailure")
                  /\ UNCHANGED <<store, got>>
       ELSE UNCHANGED <<rq, completes, store, got, answers, fails>>

(* A message of the chunked data channel. *)
GuestOnChunk(c) ==
  /\ c \in players /\ chunks[c] # <<>>
  /\ chunks' = [chunks EXCEPT ![c] = Tail(@)]
  /\ LET msg == Head(chunks[c])
     IN \/ OnSyncSaveDataNotify(c, msg)
        \/ OnChunkedDataStart(c, msg)
        \/ OnChunkedDataAbort(c, msg)
        \/ OnChunkedDataEnd(c, msg)
  /\ UNCHANGED <<startVars, guiVars, chunkVars, flagVars, codes, codeMsgs,
                 sessVars, async, enableQ, aborted>>

(* OnSyncCodes: the codes arrive and are answered once both kinds are in.  *)
GuestOnCodes(c) ==
  /\ c \in players /\ codeMsgs[c] # <<>>
  /\ codeMsgs' = [codeMsgs EXCEPT ![c] = Tail(@)]
  /\ codes' = [codes EXCEPT ![c] = Head(codeMsgs[c]).attempt]
  /\ Answer(c, "CodesSuccess")
  /\ UNCHANGED <<startVars, guiVars, chunkVars, flagVars, rq, got, store, fails,
                 chunks, completes, sessVars, async, enableQ, aborted>>

----------------------------------------------------------------------------
ServerNet ==
  \/ DrainAsync \/ OnConnectAdd \/ FailureClearsPending
  \/ \E c \in Guest : OnAnswer(c) \/ OnChunkedDataComplete(c)

ChunkThread ==
  \/ ChunkedDataWake \/ ChunkedDataClear \/ ChunkedDataStart
  \/ ChunkedDataSend \/ ChunkedDataEnd
  \/ ChunkedDataCheck \/ ChunkedDataWait

GuiThread == RequestSaves \/ RequestCodes \/ RequestNow \/ GuiEnableOptions

Guestly(c) == GuestOnChunk(c) \/ GuestOnCodes(c)

Outside ==
  \/ \E saves, cds \in BOOLEAN : PressStart(saves, cds)
  \/ \E n \in 0 .. (Saves - 1) : RequestSavesFails(n)
  \/ AbortGameStart \/ EndGame
  \/ \E c \in Guest : OnConnect(c) \/ OnDisconnect(c)

Next ==
  \/ ServerNet \/ ChunkThread \/ GuiThread
  \/ \E c \in Guest : Guestly(c)
  \/ Outside

Spec == Init /\ [][Next]_vars

(* The threads of the server run, the network delivers and the guests      *)
(* answer; nothing is assumed of what people do.                           *)
Fairness ==
  /\ WF_vars(DrainAsync) /\ WF_vars(OnConnectAdd)
  /\ WF_vars(FailureClearsPending)
  /\ WF_vars(ChunkThread) /\ WF_vars(GuiThread)
  /\ \A c \in Guest : /\ WF_vars(OnAnswer(c))
                      /\ WF_vars(OnChunkedDataComplete(c))
                      /\ WF_vars(GuestOnChunk(c))
                      /\ WF_vars(GuestOnCodes(c))

FairSpec == Spec /\ Fairness

----------------------------------------------------------------------------
(* Properties.                                                             *)

(* The values the variables take, one conjunct for each group of them. *)
SessionTypeOK ==
  /\ players \in SUBSET Player /\ 1 \in players
  /\ joining \in Guest \cup {0}
  /\ gone \in SUBSET Guest
  /\ net \in {"loop", "abort"}

StartTypeOK ==
  /\ pending \in BOOLEAN /\ running \in BOOLEAN
  /\ savesSynced \in BOOLEAN /\ codesSynced \in BOOLEAN
  /\ saveCount \in Nat /\ codeCount \in Nat
  /\ game \in Nat
  /\ aborted \in BOOLEAN

GuiTypeOK ==
  /\ gui \in {"idle", "saves", "codes", "now"}
  /\ want \in [saves : BOOLEAN, codes : BOOLEAN]
  /\ startNow \in BOOLEAN /\ button \in BOOLEAN /\ enableQ \in BOOLEAN
  /\ attempt \in Nat /\ aborts \in Nat
  /\ starters \in SUBSET Guest

ChunkTypeOK ==
  /\ ct \in {"idle", "clear", "loop", "send", "end", "check", "wait"}
  /\ cq \in Seq(Entry)
  /\ cid \in Nat
  /\ complete \in Nat \cup {-1}
  /\ pcount \in Nat
  /\ cev \in BOOLEAN /\ compev \in BOOLEAN /\ abort \in BOOLEAN

GuestTypeOK ==
  /\ rq \in [Guest -> SUBSET Nat]
  /\ got \in [Guest -> Nat]
  /\ store \in [Guest -> [1 .. Saves -> Nat]]
  /\ codes \in [Guest -> Nat]
  /\ fails \in Nat

WireTypeOK ==
  /\ async \in Seq(ChunkMsg \cup CodesMsg)
  /\ chunks \in [Guest -> Seq(ChunkMsg)]
  /\ codeMsgs \in [Guest -> Seq(CodesMsg)]
  /\ answers \in [Guest -> Seq({"SaveSuccess", "SaveFailure", "CodesSuccess"})]
  /\ completes \in [Guest -> Seq(Nat)]

TypeOK ==
  /\ SessionTypeOK /\ StartTypeOK /\ GuiTypeOK
  /\ ChunkTypeOK /\ GuestTypeOK /\ WireTypeOK

(* The Chunked Data thread is never asleep with work to do: while it waits *)
(* for new data and there is some, or an abort to handle, its event is     *)
(* set; and while it waits for the guests and they are done, or the start  *)
(* is aborted, the other one is.  It works on the head of the queue.       *)
ChunkThreadAwake ==
  /\ ct = "idle" /\ (cq # <<>> \/ abort) => cev
  /\ ct = "wait" /\ (complete >= pcount \/ abort) => compev
  /\ Sending => cq # <<>> /\ complete >= 0

(* While no start has been aborted, a game that waited for a sync starts   *)
(* only when every guest who was there when the host pressed Start, and    *)
(* still is, holds every save of this very attempt.                        *)
SavesBeforeStart ==
  [][game' # game /\ pending /\ want.saves /\ ~aborted =>
       \A c \in starters \cap players, s \in 1 .. Saves : store[c][s] = attempt
    ]_vars

(* While nobody has left and no start has been aborted, a start that waits *)
(* for the guests ends: the answers it waits for come, whatever was synced *)
(* for the games before it.                                                *)
PendingEnds ==
  pending /\ ~aborted /\ gone = {} ~> (~pending \/ aborted \/ gone # {})

============================================================================
