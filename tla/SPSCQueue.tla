----------------------------- MODULE SPSCQueue -----------------------------
(***************************************************************************)
(* Common::SPSCQueue, the lock-free queue that carries pad states, packets *)
(* and chunked data between the threads of NetPlay.  Every load and store  *)
(* of a member that the other thread can see is a step of its own; the     *)
(* elements are cells of a heap whose addresses are used again after a     *)
(* delete.  The atomics are taken as sequentially consistent.              *)
(***************************************************************************)
EXTENDS Integers, Sequences, FiniteSets

CONSTANTS Value,   \* what is put into the queue
          Node,    \* addresses an ElementPtr can have
          Null,    \* nullptr
          SizeMod  \* m_size is an unsigned of this many values (2^32)

ASSUME NullAssumption == Null \notin Node \cup Value
ASSUME SizeModAssumption == SizeMod \in Nat \ {0}

VARIABLES
  alive,    \* addresses of the elements that exist
  current,  \* ElementPtr::current
  next,     \* ElementPtr::next
  writePtr, \* m_write_ptr
  readPtr,  \* m_read_ptr
  size,     \* m_size
  wpc,      \* where the producer is in Push
  newPtr,   \* Push's new_ptr
  rpc,      \* where the consumer is
  tmpPtr,   \* Pop's tmpptr
  held,     \* what Front() returned, for the consumer that calls void Pop()
  out,      \* what the consumer took last
  guard,    \* what this queue's consumer asks before it pops
  chain     \* history: the elements from m_read_ptr to the newest one

wvars == <<wpc, newPtr, writePtr>>
rvars == <<rpc, tmpPtr, held, out, readPtr>>
vars == <<alive, current, next, size, wvars, rvars, guard, chain>>

Guards == {"Size", "Empty"}

Init ==
  \E n \in Node :
    /\ alive = {n} /\ readPtr = n /\ writePtr = n /\ newPtr = n /\ tmpPtr = n
    /\ next = [m \in Node |-> Null]
    /\ current \in {[m \in Node |-> v] : v \in Value}
    /\ out = current[n] /\ held = Null
    /\ size = 0 /\ wpc = "idle" /\ rpc = "idle"
    /\ guard \in Guards
    /\ chain = <<n>>

(* delete of an element: its destructor deletes the ones that follow it.   *)
Closed(link, S) == \A m \in S : link[m] # Null => link[m] \in S

Reach(link, n) ==
  {m \in Node : \A S \in SUBSET Node : n \in S /\ Closed(link, S) => m \in S}

-----------------------------------------------------------------------------
(* Push. *)

(* Mutant: the size is raised together with the link's preparation, before *)
(* the element can be reached.                                             *)
PushCurrentCounts ==
  /\ wpc = "idle"
  /\ \E v \in Value : current' = [current EXCEPT ![writePtr] = v]
  /\ size' = (size + 1) % SizeMod
  /\ wpc' = "link"
  /\ UNCHANGED <<alive, next, newPtr, writePtr, rvars, guard, chain>>

PushCurrent ==
  /\ wpc = "idle"
  /\ \E v \in Value : current' = [current EXCEPT ![writePtr] = v]
  /\ wpc' = "link"
  /\ UNCHANGED <<alive, next, size, newPtr, writePtr, rvars, guard, chain>>

PushLink ==
  /\ wpc = "link"
  /\ \E n \in Node \ alive :
       /\ alive' = alive \cup {n}
       /\ newPtr' = n
       /\ next' = [next EXCEPT ![n] = Null, ![writePtr] = n]
       /\ chain' = Append(chain, n)
  /\ wpc' = "advance"
  /\ UNCHANGED <<current, size, writePtr, rvars, guard>>

PushAdvance ==
  /\ wpc = "advance"
  /\ writePtr' = newPtr
  /\ wpc' = "size"
  /\ UNCHANGED <<alive, current, next, size, newPtr, rvars, guard, chain>>

(* Mutant: the size does not wrap round. *)
PushSizeNoWrap ==
  /\ wpc = "size"
  /\ size' = size + 1
  /\ wpc' = "idle"
  /\ UNCHANGED <<alive, current, next, newPtr, writePtr, rvars, guard, chain>>

PushSize ==
  /\ wpc = "size"
  /\ size' = (size + 1) % SizeMod
  /\ wpc' = "idle"
  /\ UNCHANGED <<alive, current, next, newPtr, writePtr, rvars, guard, chain>>

-----------------------------------------------------------------------------
(* The consumer: it asks Size or Empty, and then calls one of the Pops. *)

Empty == next[readPtr] = Null

Ask ==
  /\ rpc = "idle"
  /\ IF guard = "Size" THEN size # 0 ELSE ~Empty
  /\ rpc' = "call"
  /\ UNCHANGED <<alive, current, next, size, wvars, tmpPtr, held, out, readPtr,
                 guard, chain>>

(* bool Pop(T& t), which looks at Empty itself. *)
PopRef ==
  /\ rpc = "call"
  /\ rpc' = IF Empty THEN "idle" ELSE "size"
  /\ held' = Null
  /\ UNCHANGED <<alive, current, next, size, wvars, tmpPtr, out, readPtr,
                 guard, chain>>

(* Front(), and void Pop() to follow. *)
FrontPop ==
  /\ rpc = "call"
  /\ rpc' = "size"
  /\ held' = current[readPtr]
  /\ UNCHANGED <<alive, current, next, size, wvars, tmpPtr, out, readPtr,
                 guard, chain>>

PopSize ==
  /\ rpc = "size"
  /\ size' = (size - 1) % SizeMod
  /\ rpc' = "advance"
  /\ UNCHANGED <<alive, current, next, wvars, tmpPtr, held, out, readPtr,
                 guard, chain>>

PopAdvance ==
  /\ rpc = "advance"
  /\ tmpPtr' = readPtr
  /\ readPtr' = next[readPtr]
  /\ chain' = Tail(chain)
  /\ rpc' = IF held = Null THEN "take" ELSE "delete"
  /\ out' = IF held = Null THEN out ELSE held
  /\ UNCHANGED <<alive, current, next, size, wvars, held, guard>>

(* Mutant: the value is read through m_read_ptr, which has moved on. *)
PopTakeMoved ==
  /\ rpc = "take"
  /\ out' = current[readPtr]
  /\ rpc' = "delete"
  /\ UNCHANGED <<alive, current, next, size, wvars, tmpPtr, held, readPtr,
                 guard, chain>>

PopTake ==
  /\ rpc = "take"
  /\ out' = current[tmpPtr]
  /\ rpc' = "delete"
  /\ UNCHANGED <<alive, current, next, size, wvars, tmpPtr, held, readPtr,
                 guard, chain>>

(* Mutant: next is not set to nullptr, so the delete does not stop. *)
PopDeleteAll ==
  /\ rpc = "delete"
  /\ alive' = alive \ Reach(next, tmpPtr)
  /\ rpc' = "idle"
  /\ UNCHANGED <<current, next, size, wvars, tmpPtr, held, out, readPtr, guard,
                 chain>>

(* The element is cut off first, so that its destructor deletes it alone. *)
PopDelete ==
  /\ rpc = "delete"
  /\ next' = [next EXCEPT ![tmpPtr] = Null]
  /\ alive' = alive \ Reach(next', tmpPtr)
  /\ rpc' = "idle"
  /\ UNCHANGED <<current, size, wvars, tmpPtr, held, out, readPtr, guard, chain>>

-----------------------------------------------------------------------------
(* Clear is not thread-safe: nobody else uses the queue meanwhile. *)
Clear ==
  /\ wpc = "idle" /\ rpc = "idle"
  /\ \E n \in Node \ (alive \ Reach(next, readPtr)) :
       /\ alive' = (alive \ Reach(next, readPtr)) \cup {n}
       /\ next' = [next EXCEPT ![n] = Null]
       /\ readPtr' = n /\ writePtr' = n
       /\ chain' = <<n>>
  /\ size' = 0
  /\ UNCHANGED <<current, wpc, newPtr, rpc, tmpPtr, held, out, guard>>

Producer == PushCurrent \/ PushLink \/ PushAdvance \/ PushSize
Consumer == Ask \/ PopRef \/ FrontPop \/ PopSize \/ PopAdvance \/ PopTake \/ PopDelete
Next == Producer \/ Consumer \/ Clear

Spec == Init /\ [][Next]_vars

-----------------------------------------------------------------------------
(* The types: every pointer of the two threads is an address, and the size *)
(* stays within its width.                                                 *)
TypeOK ==
  /\ alive \subseteq Node
  /\ current \in [Node -> Value]
  /\ next \in [Node -> Node \cup {Null}]
  /\ writePtr \in Node /\ readPtr \in Node /\ newPtr \in Node /\ tmpPtr \in Node
  /\ size \in 0 .. SizeMod - 1
  /\ wpc \in {"idle", "link", "advance", "size"}
  /\ rpc \in {"idle", "call", "size", "advance", "take", "delete"}
  /\ held \in Value \cup {Null} /\ out \in Value
  /\ guard \in Guards
  /\ chain \in Seq(Node)

(* Whatever the two threads do, neither of them ever touches an element    *)
(* that has been deleted or follows a null pointer, and no element is      *)
(* leaked: what exists is the list and the element Pop is about to delete. *)
InUse == {chain[i] : i \in 1 .. Len(chain)}
         \cup (IF rpc \in {"take", "delete"} THEN {tmpPtr} ELSE {})

MemorySafe ==
  /\ wpc # "advance" => writePtr \in alive
  /\ wpc = "advance" => newPtr \in alive
  /\ readPtr \in alive
  /\ rpc \in {"take", "delete"} => tmpPtr \in alive /\ tmpPtr # readPtr
  /\ rpc \in {"size", "advance"} => ~Empty
  /\ alive = InUse

(* A consumer that sees a size other than zero can pop: the size never     *)
(* runs ahead of the list for the consumer that waits for it (as           *)
(* GetNetPads and ClearBuffers do), and once both threads are done it is   *)
(* the number of values in the queue, however often it has wrapped.        *)
SizeCounts ==
  /\ guard = "Size" /\ rpc \in {"idle", "call"} /\ size # 0 => ~Empty
  /\ wpc = "idle" /\ rpc \in {"idle", "call"} => size = (Len(chain) - 1) % SizeMod

(* The queue is a FIFO queue: a value is in it from the store of next to   *)
(* the load of next by Pop, and is the consumer's from then on.            *)
Items == [i \in 1 .. Len(chain) - 1 |-> current[chain[i]]]

Taken == IF rpc = "take" THEN current[tmpPtr] ELSE out

F == INSTANCE Fifo WITH items <- Items, out <- Taken

IsFifo == F!Spec

=============================================================================
