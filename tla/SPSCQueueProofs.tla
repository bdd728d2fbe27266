-------------------------- MODULE SPSCQueueProofs --------------------------
(***************************************************************************)
(* SPSCQueue is memory safe, counts its size and implements Fifo, for any  *)
(* values, any heap and any width of m_size.                               *)
(***************************************************************************)
EXTENDS SPSCQueue, WellFoundedInduction, TLAPS

L == Len(chain)

(* How far m_size is behind the list: a Push that has linked its element   *)
(* but not yet counted it, a Pop that has counted but not yet advanced.    *)
Lag == (IF wpc \in {"advance", "size"} THEN 1 ELSE 0) + (IF rpc = "advance" THEN 1 ELSE 0)

Shape ==
  /\ L >= 1
  /\ readPtr = chain[1]
  /\ \A i, j \in 1 .. L : chain[i] = chain[j] => i = j
  /\ \A i \in 1 .. L - 1 : next[chain[i]] = chain[i + 1]
  /\ next[chain[L]] = Null

Places ==
  /\ (wpc = "advance" => newPtr = chain[L])
  /\ (wpc # "advance" => writePtr = chain[L])
  /\ (rpc \in {"take", "delete"} => \A i \in 1 .. L : chain[i] # tmpPtr)
  /\ (rpc \in {"size", "advance"} => L >= 2)
  /\ (rpc = "call" /\ guard = "Empty" => L >= 2)
  /\ alive = InUse

Counted ==
  /\ size = (L - 1 - Lag) % SizeMod
  /\ (guard = "Size" => L - 1 - Lag >= 0)
  /\ (guard = "Size" /\ rpc \in {"call", "size"} => L - 1 - Lag >= 1)

(* In the two steps of void Pop() before it advances, held is the oldest value. *)
Front == rpc \in {"size", "advance"} => held \in {Null, current[readPtr]}

Inv == TypeOK /\ Shape /\ Places /\ Counted /\ Front

-----------------------------------------------------------------------------
(* Arithmetic of a counter that wraps. *)

LEMMA DivMod ==
  ASSUME NEW M \in Nat \ {0}, NEW x \in Int
  PROVE  x = M * (x \div M) + (x % M) /\ x % M \in 0 .. M - 1 /\ x \div M \in Int
  OBVIOUS

LEMMA ModUnique ==
  ASSUME NEW M \in Nat \ {0}, NEW q \in Int, NEW r \in 0 .. M - 1
  PROVE  (M * q + r) % M = r
  OBVIOUS

LEMMA ModShift ==
  ASSUME NEW M \in Nat \ {0}, NEW x \in Int, NEW q \in Int
  PROVE  (M * q + x) % M = x % M
<1> DEFINE p == x \div M
<1>1. x = M * p + (x % M) /\ x % M \in 0 .. M - 1 /\ p \in Int
  BY DivMod
<1> HIDE DEF p
<1>2. M * q + x = M * (q + p) + (x % M)
  BY <1>1
<1>3. (M * (q + p) + (x % M)) % M = x % M
  BY <1>1, ModUnique
<1> QED BY <1>2, <1>3

(* Adding to a counter that has wrapped is adding to the one that has not. *)
LEMMA ModAdd ==
  ASSUME NEW M \in Nat \ {0}, NEW x \in Int, NEW d \in Int
  PROVE  ((x % M) + d) % M = (x + d) % M
<1> DEFINE q == x \div M
           r == x % M
<1>1. x = M * q + r /\ r \in 0 .. M - 1 /\ q \in Int
  BY DivMod
<1> HIDE DEF q, r
<1>2. x + d = M * q + (r + d)
  BY <1>1
<1>3. (M * q + (r + d)) % M = (r + d) % M
  <2>1. r + d \in Int
    BY <1>1
  <2> QED BY <1>1, <2>1, ModShift, Zenon
<1> QED BY <1>2, <1>3 DEF r

-----------------------------------------------------------------------------
(* What a delete reaches. *)

LEMMA Least ==
  ASSUME NEW T, T \subseteq Nat, T # {}
  PROVE  \E m \in T : \A y \in T : m <= y
<1>1. PICK x \in T : \A y \in T : ~(<<y, x>> \in OpToRel(<, Nat))
  BY NatLessThanWellFounded, WFMin, Zenon
<1>2. \A u, v \in Nat : u < v <=> <<u, v>> \in OpToRel(<, Nat)
  BY DEF OpToRel
<1>3. \A y \in T : ~(y < x)
  BY <1>1, <1>2, Zenon
<1>4. \A y \in T : x <= y
  BY <1>3
<1> QED BY <1>4

(* An element that has been cut off is deleted alone. *)
LEMMA ReachAlone ==
  ASSUME NEW link \in [Node -> Node \cup {Null}], NEW n \in Node, link[n] = Null
  PROVE  Reach(link, n) = {n}
<1>1. Closed(link, {n})
  BY DEF Closed
<1>2. {n} \in SUBSET Node
  OBVIOUS
<1> QED BY <1>1, <1>2 DEF Reach

(* The delete of the first element of a list deletes the list, no more. *)
LEMMA ReachList ==
  ASSUME NEW link \in [Node -> Node \cup {Null}], NEW c \in Seq(Node), Len(c) >= 1,
         \A i \in 1 .. Len(c) - 1 : link[c[i]] = c[i + 1],
         link[c[Len(c)]] = Null
  PROVE  Reach(link, c[1]) = {c[i] : i \in 1 .. Len(c)}
<1> DEFINE R == {c[i] : i \in 1 .. Len(c)}
<1>0. Len(c) \in Nat /\ \A i \in 1 .. Len(c) : c[i] \in Node
  OBVIOUS
<1>1. R \in SUBSET Node /\ c[1] \in R
  BY <1>0
<1>2. Closed(link, R)
  <2> SUFFICES ASSUME NEW m \in R, link[m] # Null PROVE link[m] \in R
    BY DEF Closed
  <2>1. PICK i \in 1 .. Len(c) : m = c[i]
    OBVIOUS
  <2>2. i \in 1 .. Len(c) - 1
    BY <1>0, <2>1
  <2>3. i + 1 \in 1 .. Len(c) /\ link[m] = c[i + 1]
    BY <1>0, <2>1, <2>2
  <2> QED BY <2>3
<1>3. ASSUME NEW S \in SUBSET Node, c[1] \in S, Closed(link, S)
      PROVE  R \subseteq S
  <2> DEFINE T == {i \in 1 .. Len(c) : c[i] \notin S}
  <2>1. SUFFICES ASSUME T # {} PROVE FALSE
    OBVIOUS
  <2>2. T \subseteq Nat
    BY <1>0
  <2>3. PICK m \in T : \A y \in T : m <= y
    BY <2>1, <2>2, Least
  <2>4. m # 1 /\ m \in 1 .. Len(c) /\ c[m] \notin S
    BY <1>3, <2>3
  <2>5. m - 1 \in 1 .. Len(c) - 1 /\ m - 1 \in 1 .. Len(c) /\ ~(m <= m - 1)
    BY <1>0, <2>4
  <2>6. c[m - 1] \in S
    BY <2>3, <2>5
  <2>7. link[c[m - 1]] = c[m]
    BY <1>0, <2>4, <2>5
  <2>8. c[m] # Null
    BY <1>0, <2>4, NullAssumption
  <2> QED BY <1>3, <2>4, <2>6, <2>7, <2>8 DEF Closed
<1>4. \A m \in Reach(link, c[1]) : m \in R
  BY <1>1, <1>2 DEF Reach
<1>5. \A m \in R : m \in Reach(link, c[1])
  BY <1>1, <1>3 DEF Reach
<1> HIDE DEF R
<1>6. Reach(link, c[1]) = R
  BY <1>4, <1>5
<1> QED BY <1>6 DEF R

-----------------------------------------------------------------------------
(* The invariant holds initially. *)
LEMMA InitInv == Init => Inv
<1> SUFFICES ASSUME Init PROVE Inv
  OBVIOUS
<1>1. PICK n \in Node :
        /\ alive = {n} /\ readPtr = n /\ writePtr = n /\ newPtr = n /\ tmpPtr = n
        /\ next = [m \in Node |-> Null]
        /\ current \in {[m \in Node |-> v] : v \in Value}
        /\ out = current[n] /\ held = Null
        /\ size = 0 /\ wpc = "idle" /\ rpc = "idle"
        /\ guard \in Guards
        /\ chain = <<n>>
  BY DEF Init
<1>2. L = 1 /\ chain[1] = n /\ chain \in Seq(Node)
  BY <1>1 DEF L
<1>3. TypeOK
  BY <1>1, <1>2, SizeModAssumption DEF TypeOK
<1>4. Shape
  BY <1>1, <1>2 DEF Shape
<1>5. Places
  BY <1>1, <1>2 DEF Places, InUse, L
<1>6. Counted
  <2>1. Lag = 0
    BY <1>1 DEF Lag
  <2> QED BY <1>1, <1>2, <2>1, SizeModAssumption DEF Counted
<1>7. Front
  BY <1>1 DEF Front
<1> QED BY <1>3, <1>4, <1>5, <1>6, <1>7 DEF Inv

(* The elements of the list exist, and the list is a sequence of nodes. *)
LEMMA ChainFacts ==
  ASSUME Inv
  PROVE  /\ L \in Nat /\ L >= 1
         /\ \A i \in 1 .. L : chain[i] \in Node /\ chain[i] \in alive
         /\ (Empty <=> L = 1)
         /\ Lag \in {0, 1, 2}
<1>1. L \in Nat /\ L >= 1 /\ \A i \in 1 .. L : chain[i] \in Node
  BY DEF Inv, TypeOK, Shape, L
<1>2. \A i \in 1 .. L : chain[i] \in alive
  BY DEF Inv, Places, InUse, L
<1>3. Empty <=> L = 1
  <2>1. CASE L = 1
    BY <2>1 DEF Empty, Inv, Shape
  <2>2. CASE L # 1
    <3>1. 1 \in 1 .. L - 1 /\ 1 + 1 \in 1 .. L
      BY <1>1, <2>2
    <3>2. next[readPtr] = chain[1 + 1] /\ chain[1 + 1] \in Node
      BY <1>1, <3>1 DEF Inv, Shape
    <3> QED BY <2>2, <3>2, NullAssumption DEF Empty
  <2> QED BY <2>1, <2>2
<1>4. Lag \in {0, 1, 2}
  BY DEF Lag
<1> QED BY <1>1, <1>2, <1>3, <1>4

(* A step that leaves the heap and the list alone keeps the list's shape. *)
LEMMA ShapeStays ==
  ASSUME Inv, UNCHANGED <<next, chain, readPtr>>
  PROVE  Shape'
  BY DEF Inv, Shape, L

LEMMA PushCurrentInv ==
  ASSUME Inv, PushCurrent
  PROVE  Inv'
<1>1. TypeOK'
  BY DEF Inv, TypeOK, PushCurrent, rvars, Guards
<1>2. Shape'
  BY ShapeStays DEF PushCurrent, rvars
<1>3. Places'
  BY DEF Inv, Places, InUse, L, PushCurrent, rvars
<1>4. Counted'
  BY DEF Inv, Counted, Lag, L, PushCurrent, rvars
<1>5. Front'
  <2> SUFFICES ASSUME rpc \in {"size", "advance"} PROVE (held \in {Null, current[readPtr]})'
    BY DEF Front, PushCurrent, rvars
  <2>1. L >= 2 /\ writePtr = chain[L] /\ readPtr = chain[1] /\ L \in Nat
    BY ChainFacts DEF Inv, Places, Shape, PushCurrent
  <2>2. writePtr # readPtr
    BY <2>1 DEF Inv, Shape
  <2>3. current'[readPtr] = current[readPtr]
    BY <2>2 DEF Inv, TypeOK, PushCurrent
  <2> QED BY <2>3 DEF Inv, Front, PushCurrent, rvars
<1> QED BY <1>1, <1>2, <1>3, <1>4, <1>5 DEF Inv

LEMMA PushLinkInv ==
  ASSUME Inv, PushLink
  PROVE  Inv'
<1>0. PICK n \in Node \ alive :
        /\ alive' = alive \cup {n}
        /\ newPtr' = n
        /\ next' = [next EXCEPT ![n] = Null, ![writePtr] = n]
        /\ chain' = Append(chain, n)
  BY DEF PushLink
<1>a. /\ wpc = "link" /\ wpc' = "advance"
      /\ UNCHANGED <<current, size, writePtr, rpc, tmpPtr, held, out, readPtr, guard>>
  BY DEF PushLink, rvars
<1>b. /\ L \in Nat /\ L >= 1 /\ writePtr = chain[L]
      /\ \A i \in 1 .. L : chain[i] \in Node /\ chain[i] \in alive /\ chain[i] # n
  BY <1>0, <1>a, ChainFacts DEF Inv, Places
<1>c. /\ L' = L + 1 /\ chain' \in Seq(Node)
      /\ \A i \in 1 .. L : chain'[i] = chain[i]
      /\ chain'[L + 1] = n
  BY <1>0 DEF Inv, TypeOK, L
<1>d. /\ next' \in [Node -> Node \cup {Null}]
      /\ next'[n] = Null /\ next'[writePtr] = n
      /\ \A m \in Node : m # n /\ m # writePtr => next'[m] = next[m]
  BY <1>0, <1>b DEF Inv, TypeOK
<1>1. TypeOK'
  BY <1>0, <1>a, <1>c, <1>d DEF Inv, TypeOK
<1>2. Shape'
  <2>1. readPtr' = chain'[1]
    BY <1>a, <1>b, <1>c DEF Inv, Shape
  <2>2. \A i, j \in 1 .. L' : chain'[i] = chain'[j] => i = j
    <3> SUFFICES ASSUME NEW i \in 1 .. L + 1, NEW j \in 1 .. L + 1, chain'[i] = chain'[j]
                 PROVE  i = j
      BY <1>c
    <3>1. CASE i \in 1 .. L /\ j \in 1 .. L
      BY <1>c, <3>1 DEF Inv, Shape
    <3>2. CASE i = L + 1 \/ j = L + 1
      BY <1>b, <1>c, <3>2
    <3> QED BY <1>b, <3>1, <3>2
  <2>3. \A i \in 1 .. L' - 1 : next'[chain'[i]] = chain'[i + 1]
    <3> SUFFICES ASSUME NEW i \in 1 .. L PROVE next'[chain[i]] = chain'[i + 1]
      BY <1>b, <1>c
    <3>1. CASE i = L
      BY <1>b, <1>c, <1>d, <3>1
    <3>2. CASE i # L
      <4>1. i \in 1 .. L - 1 /\ i + 1 \in 1 .. L
        BY <1>b, <3>2
      <4>2. chain[i] # writePtr
        BY <1>b, <3>2 DEF Inv, Shape
      <4>3. next'[chain[i]] = chain[i + 1]
        BY <1>b, <1>d, <4>1, <4>2 DEF Inv, Shape
      <4> QED BY <1>c, <4>1, <4>3
    <3> QED BY <3>1, <3>2
  <2>4. next'[chain'[L']] = Null
    BY <1>c, <1>d
  <2> QED BY <1>b, <1>c, <2>1, <2>2, <2>3, <2>4 DEF Shape
<1>3. Places'
  <2>1. InUse' = InUse \cup {n}
    <3>1. {chain'[i] : i \in 1 .. L'} = {chain[i] : i \in 1 .. L} \cup {n}
      BY <1>b, <1>c
    <3> QED BY <1>a, <3>1 DEF InUse, L
  <2>2. alive' = InUse'
    BY <1>0, <2>1 DEF Inv, Places
  <2>3. rpc \in {"take", "delete"} => n # tmpPtr
    BY <1>0 DEF Inv, Places, InUse
  <2>4. rpc' \in {"take", "delete"} => \A i \in 1 .. L' : chain'[i] # tmpPtr'
    BY <1>a, <1>b, <1>c, <2>3 DEF Inv, Places
  <2>5. L' >= 2
    BY <1>b, <1>c
  <2> QED BY <1>0, <1>a, <1>c, <2>2, <2>4, <2>5 DEF Places
<1>4. Counted'
  <2>1. Lag' = Lag + 1
    BY <1>a DEF Lag
  <2>2. L' - 1 - Lag' = L - 1 - Lag
    BY <1>b, <1>c, <2>1, ChainFacts
  <2> QED BY <1>a, <2>2 DEF Inv, Counted
<1>5. Front'
  BY <1>a DEF Inv, Front
<1> QED BY <1>1, <1>2, <1>3, <1>4, <1>5 DEF Inv

LEMMA PushAdvanceInv ==
  ASSUME Inv, PushAdvance
  PROVE  Inv'
<1>1. TypeOK'
  BY DEF Inv, TypeOK, PushAdvance, rvars
<1>2. Shape'
  BY ShapeStays DEF PushAdvance, rvars
<1>3. Places'
  BY DEF Inv, Places, InUse, L, PushAdvance, rvars
<1>4. Counted'
  BY DEF Inv, Counted, Lag, L, PushAdvance, rvars
<1>5. Front'
  BY DEF Inv, Front, PushAdvance, rvars
<1> QED BY <1>1, <1>2, <1>3, <1>4, <1>5 DEF Inv

LEMMA PushSizeInv ==
  ASSUME Inv, PushSize
  PROVE  Inv'
<1>0. Lag \in Int /\ L \in Nat /\ Lag' = Lag - 1 /\ L' = L /\ size = (L - 1 - Lag) % SizeMod
  BY ChainFacts DEF Inv, Counted, Lag, L, PushSize, rvars
<1>1. TypeOK'
  <2>1. size' \in 0 .. SizeMod - 1
    <3>1. size + 1 \in Int
      BY DEF Inv, TypeOK
    <3> QED BY <3>1, SizeModAssumption, DivMod DEF PushSize
  <2> QED BY <2>1 DEF Inv, TypeOK, PushSize, rvars
<1>2. Shape'
  BY ShapeStays DEF PushSize, rvars
<1>3. Places'
  BY DEF Inv, Places, InUse, L, PushSize, rvars
<1>4. Counted'
  <2>1. (((L - 1 - Lag) % SizeMod) + 1) % SizeMod = (L - 1 - Lag + 1) % SizeMod
    <3>1. L - 1 - Lag \in Int /\ 1 \in Int /\ -1 \in Int
      BY <1>0
    <3> QED BY <3>1, SizeModAssumption, ModAdd, Zenon
  <2>2. L - 1 - Lag + 1 = L' - 1 - Lag'
    BY <1>0
  <2>3. size' = (L' - 1 - Lag') % SizeMod
    BY <1>0, <2>1, <2>2 DEF PushSize
  <2> QED BY <1>0, <2>2, <2>3 DEF Inv, Counted, PushSize, rvars
<1>5. Front'
  BY DEF Inv, Front, PushSize, rvars
<1> QED BY <1>1, <1>2, <1>3, <1>4, <1>5 DEF Inv


LEMMA AskInv ==
  ASSUME Inv, Ask
  PROVE  Inv'
<1>1. TypeOK'
  BY DEF Inv, TypeOK, Ask, wvars
<1>2. Shape'
  BY ShapeStays DEF Ask
<1>3. Places'
  <2>1. guard = "Empty" => L >= 2
    BY ChainFacts DEF Ask, Inv, TypeOK, Guards
  <2> QED BY <2>1 DEF Inv, Places, InUse, L, Ask, wvars
<1>4. Counted'
  <2>1. L \in Nat /\ Lag \in Int /\ L' = L /\ Lag' = Lag
    BY ChainFacts DEF Ask, Lag, L, wvars
  <2>2. guard = "Size" => L - 1 - Lag # 0
    BY <2>1, SizeModAssumption DEF Inv, Counted, Ask
  <2> QED BY <2>1, <2>2 DEF Inv, Counted, Ask
<1>5. Front'
  BY DEF Front, Ask
<1> QED BY <1>1, <1>2, <1>3, <1>4, <1>5 DEF Inv

(* A consumer that has been told it may pop finds a value. *)
LEMMA CallFindsValue ==
  ASSUME Inv, rpc = "call"
  PROVE  L >= 2
<1>1. L \in Nat /\ Lag \in {0, 1, 2}
  BY ChainFacts
<1>2. CASE guard = "Size"
  BY <1>1, <1>2 DEF Inv, Counted
<1>3. CASE guard = "Empty"
  BY <1>3 DEF Inv, Places
<1> QED BY <1>2, <1>3 DEF Inv, TypeOK, Guards

LEMMA PopRefInv ==
  ASSUME Inv, PopRef
  PROVE  Inv'
<1>0. rpc = "call" /\ rpc' = "size" /\ held' = Null /\ L >= 2
  BY CallFindsValue, ChainFacts DEF PopRef
<1>1. TypeOK'
  BY <1>0 DEF Inv, TypeOK, PopRef, wvars
<1>2. Shape'
  BY ShapeStays DEF PopRef
<1>3. Places'
  BY <1>0 DEF Inv, Places, InUse, L, PopRef, wvars
<1>4. Counted'
  BY <1>0 DEF Inv, Counted, Lag, L, PopRef, wvars
<1>5. Front'
  BY <1>0 DEF Front
<1> QED BY <1>1, <1>2, <1>3, <1>4, <1>5 DEF Inv

LEMMA FrontPopInv ==
  ASSUME Inv, FrontPop
  PROVE  Inv'
<1>0. rpc = "call" /\ rpc' = "size" /\ L >= 2
  BY CallFindsValue DEF FrontPop
<1>1. TypeOK'
  BY <1>0 DEF Inv, TypeOK, FrontPop, wvars
<1>2. Shape'
  BY ShapeStays DEF FrontPop
<1>3. Places'
  BY <1>0 DEF Inv, Places, InUse, L, FrontPop, wvars
<1>4. Counted'
  BY <1>0 DEF Inv, Counted, Lag, L, FrontPop, wvars
<1>5. Front'
  BY <1>0 DEF Front, FrontPop
<1> QED BY <1>1, <1>2, <1>3, <1>4, <1>5 DEF Inv

LEMMA PopSizeInv ==
  ASSUME Inv, PopSize
  PROVE  Inv'
<1>0. Lag \in Int /\ L \in Nat /\ Lag' = Lag + 1 /\ L' = L /\ size = (L - 1 - Lag) % SizeMod
  BY ChainFacts DEF Inv, Counted, Lag, L, PopSize, wvars
<1>1. TypeOK'
  <2>1. size' \in 0 .. SizeMod - 1
    <3>1. size - 1 \in Int
      BY DEF Inv, TypeOK
    <3> QED BY <3>1, SizeModAssumption, DivMod DEF PopSize
  <2> QED BY <2>1 DEF Inv, TypeOK, PopSize, wvars
<1>2. Shape'
  BY ShapeStays DEF PopSize
<1>3. Places'
  BY DEF Inv, Places, InUse, L, PopSize, wvars
<1>4. Counted'
  <2>1. (((L - 1 - Lag) % SizeMod) + (-1)) % SizeMod = (L - 1 - Lag + (-1)) % SizeMod
    <3>1. L - 1 - Lag \in Int /\ 1 \in Int /\ -1 \in Int
      BY <1>0
    <3> QED BY <3>1, SizeModAssumption, ModAdd, Zenon
  <2>2. L - 1 - Lag + (-1) = L' - 1 - Lag'
    BY <1>0
  <2>3. size' = (size + (-1)) % SizeMod
    BY DEF Inv, TypeOK, PopSize
  <2>4. size' = (L' - 1 - Lag') % SizeMod
    BY <1>0, <2>1, <2>2, <2>3
  <2> QED BY <1>0, <2>2, <2>4 DEF Inv, Counted, PopSize
<1>5. Front'
  BY DEF Inv, Front, PopSize
<1> QED BY <1>1, <1>2, <1>3, <1>4, <1>5 DEF Inv

LEMMA PopAdvanceInv ==
  ASSUME Inv, PopAdvance
  PROVE  Inv'
<1>a. /\ rpc = "advance" /\ rpc' \in {"take", "delete"}
      /\ tmpPtr' = readPtr /\ readPtr' = next[readPtr] /\ chain' = Tail(chain)
      /\ UNCHANGED <<alive, current, next, size, wpc, newPtr, writePtr, held, guard>>
  BY DEF PopAdvance, wvars
<1>b. /\ L \in Nat /\ L >= 2 /\ readPtr = chain[1]
      /\ \A i \in 1 .. L : chain[i] \in Node /\ chain[i] \in alive
  BY <1>a, ChainFacts DEF Inv, Places, Shape
<1>c. /\ L' = L - 1 /\ chain' \in Seq(Node)
      /\ \A i \in 1 .. L - 1 : chain'[i] = chain[i + 1]
  BY <1>a, <1>b DEF Inv, TypeOK, L
<1>d. readPtr' = chain[2] /\ chain[2] \in Node
  <2>1. 1 \in 1 .. L - 1 /\ 2 \in 1 .. L
    BY <1>b
  <2> QED BY <1>a, <1>b, <2>1 DEF Inv, Shape
<1>1. TypeOK'
  <2>1. out' \in Value
    BY DEF Inv, TypeOK, PopAdvance
  <2> QED BY <1>a, <1>c, <1>d, <2>1 DEF Inv, TypeOK
<1>2. Shape'
  <2>1. readPtr' = chain'[1]
    BY <1>b, <1>c, <1>d
  <2>2. \A i, j \in 1 .. L' : chain'[i] = chain'[j] => i = j
    <3> SUFFICES ASSUME NEW i \in 1 .. L - 1, NEW j \in 1 .. L - 1, chain'[i] = chain'[j]
                 PROVE  i = j
      BY <1>c
    <3>1. chain[i + 1] = chain[j + 1] /\ i + 1 \in 1 .. L /\ j + 1 \in 1 .. L
      BY <1>b, <1>c
    <3>2. i + 1 = j + 1
      BY <3>1 DEF Inv, Shape
    <3> QED BY <3>2
  <2>3. \A i \in 1 .. L' - 1 : next'[chain'[i]] = chain'[i + 1]
    <3> SUFFICES ASSUME NEW i \in 1 .. L' - 1 PROVE next'[chain'[i]] = chain'[i + 1]
      OBVIOUS
    <3>1. /\ i \in 1 .. L - 1 /\ i + 1 \in 1 .. L - 1 /\ i + 1 \in 1 .. L
      BY <1>b, <1>c
    <3>2. chain'[i] = chain[i + 1] /\ chain'[i + 1] = chain[(i + 1) + 1]
      BY <1>c, <3>1
    <3>3. next[chain[i + 1]] = chain[(i + 1) + 1]
      BY <3>1 DEF Inv, Shape
    <3> QED BY <1>a, <3>2, <3>3
  <2>4. next'[chain'[L']] = Null
    <3>1. L - 1 \in 1 .. L - 1 /\ (L - 1) + 1 = L
      BY <1>b
    <3>2. chain'[L'] = chain[L]
      BY <1>c, <3>1
    <3> QED BY <1>a, <3>2 DEF Inv, Shape
  <2>5. L' >= 1
    BY <1>b, <1>c
  <2> QED BY <2>1, <2>2, <2>3, <2>4, <2>5 DEF Shape
<1>3. Places'
  <2>1. chain'[L'] = chain[L]
    <3>1. L - 1 \in 1 .. L - 1 /\ (L - 1) + 1 = L
      BY <1>b
    <3> QED BY <1>c, <3>1
  <2>2. InUse' = InUse
    <3>1. {chain'[i] : i \in 1 .. L'} \cup {chain[1]} = {chain[i] : i \in 1 .. L}
      <4>1. \A i \in 1 .. L' : chain'[i] \in {chain[k] : k \in 1 .. L}
        BY <1>b, <1>c
      <4>2. ASSUME NEW k \in 1 .. L PROVE chain[k] \in {chain'[i] : i \in 1 .. L'} \cup {chain[1]}
        <5>1. CASE k = 1
          BY <5>1
        <5>2. CASE k # 1
          <6>1. k - 1 \in 1 .. L - 1 /\ (k - 1) + 1 = k
            BY <1>b, <5>2
          <6> QED BY <1>c, <6>1
        <5> QED BY <5>1, <5>2
      <4>3. chain[1] \in {chain[k] : k \in 1 .. L}
        BY <1>b
      <4> QED BY <4>1, <4>2, <4>3
    <3>2. InUse' = {chain'[i] : i \in 1 .. L'} \cup {chain[1]}
      BY <1>a, <1>b DEF InUse, L
    <3>3. InUse = {chain[i] : i \in 1 .. L}
      BY <1>a DEF InUse, L
    <3> QED BY <3>1, <3>2, <3>3
  <2>3. \A i \in 1 .. L' : chain'[i] # tmpPtr'
    <3> SUFFICES ASSUME NEW i \in 1 .. L - 1 PROVE chain[i + 1] # chain[1]
      BY <1>a, <1>b, <1>c
    <3> QED BY <1>b DEF Inv, Shape
  <2> QED BY <1>a, <2>1, <2>2, <2>3 DEF Inv, Places
<1>4. Counted'
  <2>1. Lag' = Lag - 1 /\ Lag \in {0, 1, 2}
    BY <1>a, ChainFacts DEF Lag
  <2>2. L' - 1 - Lag' = L - 1 - Lag
    BY <1>b, <1>c, <2>1
  <2> QED BY <1>a, <2>2 DEF Inv, Counted
<1>5. Front'
  BY <1>a DEF Front
<1> QED BY <1>1, <1>2, <1>3, <1>4, <1>5 DEF Inv

LEMMA PopTakeInv ==
  ASSUME Inv, PopTake
  PROVE  Inv'
<1>1. TypeOK'
  BY DEF Inv, TypeOK, PopTake, wvars
<1>2. Shape'
  BY ShapeStays DEF PopTake
<1>3. Places'
  BY DEF Inv, Places, InUse, L, PopTake, wvars
<1>4. Counted'
  BY DEF Inv, Counted, Lag, L, PopTake, wvars
<1>5. Front'
  BY DEF Front, PopTake
<1> QED BY <1>1, <1>2, <1>3, <1>4, <1>5 DEF Inv

LEMMA PopDeleteInv ==
  ASSUME Inv, PopDelete
  PROVE  Inv'
<1>a. /\ rpc = "delete" /\ rpc' = "idle"
      /\ next' = [next EXCEPT ![tmpPtr] = Null]
      /\ alive' = alive \ Reach(next', tmpPtr)
      /\ UNCHANGED <<current, size, wpc, newPtr, writePtr, tmpPtr, held, out, readPtr, guard, chain>>
  BY DEF PopDelete, wvars
<1>b. /\ next' \in [Node -> Node \cup {Null}] /\ next'[tmpPtr] = Null
      /\ \A m \in Node : m # tmpPtr => next'[m] = next[m]
  BY <1>a DEF Inv, TypeOK
<1>c. alive' = alive \ {tmpPtr}
  <2>1. Reach(next', tmpPtr) = {tmpPtr}
    <3>1. tmpPtr \in Node
      BY DEF Inv, TypeOK
    <3> HIDE <1>a
    <3> QED BY <1>b, <3>1, ReachAlone
  <2> QED BY <1>a, <2>1
<1>d. /\ L \in Nat /\ L >= 1 /\ L' = L
      /\ \A i \in 1 .. L : chain[i] \in Node /\ chain[i] # tmpPtr /\ next'[chain[i]] = next[chain[i]]
  BY <1>a, <1>b, ChainFacts DEF Inv, Places, L
<1>1. TypeOK'
  BY <1>a, <1>b, <1>c DEF Inv, TypeOK
<1>2. Shape'
  BY <1>a, <1>d DEF Inv, Shape
<1>3. Places'
  <2>1. InUse = {chain[i] : i \in 1 .. L} \cup {tmpPtr} /\ InUse' = {chain[i] : i \in 1 .. L}
    BY <1>a DEF InUse, L
  <2>2. alive' = InUse'
    BY <1>c, <1>d, <2>1 DEF Inv, Places
  <2> QED BY <1>a, <1>d, <2>2 DEF Inv, Places
<1>4. Counted'
  BY <1>a DEF Inv, Counted, Lag, L
<1>5. Front'
  BY <1>a DEF Front
<1> QED BY <1>1, <1>2, <1>3, <1>4, <1>5 DEF Inv

LEMMA ClearInv ==
  ASSUME Inv, Clear
  PROVE  Inv'
<1>0. Reach(next, readPtr) = alive
  <2>1. Reach(next, chain[1]) = {chain[i] : i \in 1 .. Len(chain)}
    BY ReachList DEF Inv, TypeOK, Shape, L
  <2> QED BY <2>1 DEF Inv, Shape, Places, InUse, Clear
<1>1. PICK n \in Node :
        /\ alive' = {n}
        /\ next' = [next EXCEPT ![n] = Null]
        /\ readPtr' = n /\ writePtr' = n
        /\ chain' = <<n>>
  BY <1>0 DEF Clear
<1>2. /\ wpc' = "idle" /\ rpc' = "idle" /\ size' = 0
      /\ UNCHANGED <<current, newPtr, tmpPtr, held, out, guard>>
  BY DEF Clear
<1>3. L' = 1 /\ chain'[1] = n /\ chain' \in Seq(Node)
  BY <1>1 DEF L
<1>4. TypeOK'
  BY <1>1, <1>2, <1>3, SizeModAssumption DEF Inv, TypeOK
<1>5. Shape'
  BY <1>1, <1>3 DEF Inv, TypeOK, Shape
<1>6. Places'
  BY <1>1, <1>2, <1>3 DEF Places, InUse, L
<1>7. Counted'
  <2>1. Lag' = 0
    BY <1>2 DEF Lag
  <2> QED BY <1>2, <1>3, <2>1, SizeModAssumption DEF Counted
<1>8. Front'
  BY <1>2 DEF Front
<1> QED BY <1>4, <1>5, <1>6, <1>7, <1>8 DEF Inv

(* Every step keeps the invariant. *)
LEMMA NextInv == Inv /\ [Next]_vars => Inv'
<1> SUFFICES ASSUME Inv, [Next]_vars PROVE Inv'
  OBVIOUS
<1>1. CASE UNCHANGED vars
  BY <1>1 DEF vars, wvars, rvars, Inv, TypeOK, Shape, Places, InUse, Counted, Lag, L, Front
<1>2. CASE Producer
  BY <1>2, PushCurrentInv, PushLinkInv, PushAdvanceInv, PushSizeInv DEF Producer
<1>3. CASE Consumer
  BY <1>3, AskInv, PopRefInv, FrontPopInv, PopSizeInv, PopAdvanceInv, PopTakeInv, PopDeleteInv
     DEF Consumer
<1>4. CASE Clear
  BY <1>4, ClearInv
<1> QED BY <1>1, <1>2, <1>3, <1>4 DEF Next

LEMMA InvAlways == Spec => []Inv
  BY InitInv, NextInv, PTL DEF Spec


(* Every variable keeps its type; m_size stays within its width. *)
THEOREM TypeCorrect == Spec => []TypeOK
<1>1. Inv => TypeOK
  BY DEF Inv
<1> QED BY <1>1, InvAlways, PTL

(* Neither thread touches an element that has been deleted, and none is    *)
(* leaked, for any heap and any interleaving of Push, the Pops and Clear.  *)
THEOREM MemorySafeCorrect == Spec => []MemorySafe
<1>1. Inv => MemorySafe
  <2> SUFFICES ASSUME Inv PROVE MemorySafe
    OBVIOUS
  <2>1. L \in 1 .. L /\ 1 \in 1 .. L
    BY ChainFacts
  <2>2. chain[L] \in alive /\ readPtr \in alive
    BY <2>1, ChainFacts DEF Inv, Shape
  <2>3. rpc \in {"take", "delete"} => tmpPtr \in alive /\ tmpPtr # readPtr
    BY <2>1 DEF Inv, Shape, Places, InUse
  <2>4. rpc \in {"size", "advance"} => ~Empty
    BY ChainFacts DEF Inv, Places
  <2> QED BY <2>2, <2>3, <2>4 DEF MemorySafe, Inv, Places
<1> QED BY <1>1, InvAlways, PTL

(* A consumer that waits for Size never pops an empty queue, and the size  *)
(* is right whenever both threads are between their calls, for any width   *)
(* of m_size.                                                              *)
THEOREM SizeCountsCorrect == Spec => []SizeCounts
<1>1. Inv => SizeCounts
  <2> SUFFICES ASSUME Inv PROVE SizeCounts
    OBVIOUS
  <2>0. L \in Nat /\ L >= 1 /\ Lag \in {0, 1, 2} /\ (Empty <=> L = 1)
    BY ChainFacts
  <2>1. ASSUME guard = "Size", size # 0 PROVE ~Empty
    <3>1. L - 1 - Lag # 0
      BY <2>0, <2>1, SizeModAssumption DEF Inv, Counted
    <3>2. L - 1 - Lag >= 0
      BY <2>1 DEF Inv, Counted
    <3> QED BY <2>0, <3>1, <3>2
  <2>2. ASSUME wpc = "idle", rpc \in {"idle", "call"} PROVE size = (Len(chain) - 1) % SizeMod
    <3>1. Lag = 0
      BY <2>2 DEF Lag
    <3>2. L - 1 - Lag = Len(chain) - 1
      BY <2>0, <3>1 DEF L
    <3> QED BY <3>2 DEF Inv, Counted
  <2> QED BY <2>1, <2>2 DEF SizeCounts
<1> QED BY <1>1, InvAlways, PTL

-----------------------------------------------------------------------------
(* The refinement: what each step does to the abstract queue. *)

ItemsTyped == Items \in Seq(Value) /\ Len(Items) = L - 1

LEMMA ItemsSeq == Inv => ItemsTyped
<1> SUFFICES ASSUME Inv PROVE ItemsTyped
  OBVIOUS
<1>1. L \in Nat /\ L >= 1 /\ L = Len(chain) /\ \A i \in 1 .. L : chain[i] \in Node
  BY ChainFacts DEF L
<1>2. L - 1 \in Nat
  BY <1>1
<1>3. \A i \in 1 .. L - 1 : current[chain[i]] \in Value
  BY <1>1 DEF Inv, TypeOK
<1>4. Items = [i \in 1 .. L - 1 |-> current[chain[i]]]
  BY <1>1 DEF Items
<1> QED BY <1>2, <1>3, <1>4 DEF ItemsTyped

LEMMA InitFifo == Init => F!Init
<1> SUFFICES ASSUME Init PROVE F!Init
  OBVIOUS
<1>1. Inv /\ rpc = "idle" /\ Len(chain) = 1
  BY InitInv DEF Init
<1>2. Items \in Seq(Value) /\ Len(Items) = 0
  BY <1>1, ItemsSeq DEF L, ItemsTyped
<1>3. Items = <<>>
  BY <1>2
<1>4. Taken \in Value
  BY <1>1 DEF Taken, Inv, TypeOK
<1> QED BY <1>3, <1>4 DEF F!Init

(* The store of next puts the value into the queue. *)
LEMMA PushLinkFifo ==
  ASSUME Inv, PushLink
  PROVE  F!Next
<1>1. PICK n \in Node : chain' = Append(chain, n)
  BY DEF PushLink
<1>2. UNCHANGED <<current, rpc, tmpPtr, out>>
  BY DEF PushLink, rvars
<1>3. /\ L \in Nat /\ L >= 1 /\ chain[L] \in Node
      /\ L' = L + 1 /\ L' = Len(chain') /\ L = Len(chain)
      /\ \A i \in 1 .. L : chain'[i] = chain[i]
  BY <1>1, ChainFacts DEF Inv, TypeOK, L
<1>4. Inv'
  BY PushLinkInv
<1>5. /\ Items \in Seq(Value) /\ Len(Items) = L - 1
      /\ Items' \in Seq(Value) /\ Len(Items') = L
  <2>1. ItemsTyped'
    BY <1>4, ItemsSeq, PTL
  <2> QED BY <2>1, <1>3, ItemsSeq DEF ItemsTyped
<1> DEFINE v == current[chain[L]]
<1>6. v \in Value
  BY <1>3 DEF Inv, TypeOK
<1>7. \A i \in 1 .. L - 1 : Items[i] = current[chain[i]]
  BY <1>3 DEF Items
<1>8. \A i \in 1 .. L : Items'[i] = current[chain[i]]
  BY <1>2, <1>3 DEF Items
<1>9. Items' = Append(Items, v)
  <2> HIDE DEF v
  <2>1. Append(Items, v) \in Seq(Value) /\ Len(Append(Items, v)) = L
    BY <1>3, <1>5, <1>6
  <2>2. ASSUME NEW i \in 1 .. L PROVE Items'[i] = Append(Items, v)[i]
    BY <1>3, <1>5, <1>6, <1>7, <1>8 DEF v
  <2> QED BY <1>3, <1>5, <2>1, <2>2
<1>10. Taken' = Taken
  BY <1>2 DEF Taken
<1> QED BY <1>6, <1>9, <1>10 DEF F!Next, F!Put

(* The load of next by Pop takes the oldest value. *)
LEMMA PopAdvanceFifo ==
  ASSUME Inv, PopAdvance
  PROVE  F!Next
<1>1. /\ L \in Nat /\ L >= 2 /\ readPtr = chain[1] /\ L = Len(chain)
      /\ held \in {Null, current[chain[1]]}
  BY ChainFacts DEF Inv, Places, Shape, Front, PopAdvance, L
<1>2. /\ chain' = Tail(chain) /\ current' = current /\ tmpPtr' = readPtr
  BY DEF PopAdvance
<1>3. /\ L' = L - 1 /\ L' = Len(chain')
      /\ \A i \in 1 .. L - 1 : chain'[i] = chain[i + 1]
  BY <1>1, <1>2 DEF Inv, TypeOK, L
<1>4. Inv'
  BY PopAdvanceInv
<1>5. /\ Items \in Seq(Value) /\ Len(Items) = L - 1
      /\ Items' \in Seq(Value) /\ Len(Items') = L - 2
  <2>1. ItemsTyped'
    BY <1>4, ItemsSeq, PTL
  <2> QED BY <2>1, <1>1, <1>3, ItemsSeq DEF ItemsTyped
<1>6. Items # <<>> /\ Head(Items) = current[chain[1]]
  BY <1>1, <1>5 DEF Items
<1>7. Items' = Tail(Items)
  <2>1. Tail(Items) \in Seq(Value) /\ Len(Tail(Items)) = L - 2
    BY <1>1, <1>5
  <2>2. ASSUME NEW i \in 1 .. L - 2 PROVE Items'[i] = Tail(Items)[i]
    <3>1. i \in 1 .. L - 1 /\ i + 1 \in 1 .. L - 1 /\ i \in 1 .. L' - 1
      BY <1>1, <1>3
    <3>2. Items'[i] = current[chain[i + 1]]
      BY <1>2, <1>3, <3>1 DEF Items
    <3>3. Tail(Items)[i] = Items[i + 1]
      BY <1>1, <1>5, <3>1
    <3>4. Items[i + 1] = current[chain[i + 1]]
      BY <1>1, <3>1 DEF Items
    <3> QED BY <3>2, <3>3, <3>4
  <2> QED BY <1>1, <1>5, <2>1, <2>2
<1>8. Taken' = current[chain[1]]
  <2>1. CASE held = Null
    BY <1>1, <1>2, <2>1 DEF Taken, PopAdvance
  <2>2. CASE held # Null
    BY <1>1, <2>2 DEF Taken, PopAdvance
  <2> QED BY <2>1, <2>2
<1> QED BY <1>6, <1>7, <1>8 DEF F!Next, F!Take

LEMMA ClearFifo ==
  ASSUME Inv, Clear
  PROVE  F!Next
<1>1. Inv' /\ Len(chain') = 1 /\ rpc = "idle" /\ rpc' = "idle" /\ out' = out
  BY ClearInv DEF Clear
<1>2. Items' \in Seq(Value) /\ Len(Items') = 0
  <2>1. ItemsTyped'
    BY <1>1, ItemsSeq, PTL
  <2> QED BY <1>1, <2>1 DEF L, ItemsTyped
<1>3. Items' = <<>>
  BY <1>2
<1>4. Taken' = Taken
  BY <1>1 DEF Taken
<1> QED BY <1>3, <1>4 DEF F!Next, F!Clear

(* The other steps are not seen. *)
LEMMA PushCurrentFifo ==
  ASSUME Inv, PushCurrent
  PROVE  UNCHANGED <<Items, Taken>>
<1>1. L \in Nat /\ L >= 1 /\ writePtr = chain[L] /\ L = Len(chain)
  BY ChainFacts DEF Inv, Places, PushCurrent, L
<1>2. \A m \in Node : m # writePtr => current'[m] = current[m]
  BY DEF Inv, TypeOK, PushCurrent
<1>3. \A i \in 1 .. L - 1 : chain[i] \in Node /\ chain[i] # writePtr
  BY <1>1, ChainFacts DEF Inv, Shape
<1>4. Items' = Items
  BY <1>1, <1>2, <1>3 DEF Items, PushCurrent
<1>5. Taken' = Taken
  <2>1. rpc = "take" => tmpPtr # writePtr /\ tmpPtr \in Node
    BY <1>1 DEF Inv, TypeOK, Places
  <2> QED BY <1>2, <2>1 DEF Taken, PushCurrent, rvars
<1> QED BY <1>4, <1>5

LEMMA NextFifo == Inv /\ [Next]_vars => [F!Next]_<<Items, Taken>>
<1> SUFFICES ASSUME Inv, [Next]_vars
             PROVE  F!Next \/ UNCHANGED <<Items, Taken>>
  OBVIOUS
<1>1. CASE UNCHANGED vars
  BY <1>1 DEF vars, wvars, rvars, Items, Taken
<1>2. CASE PushAdvance \/ PushSize
  BY <1>2 DEF PushAdvance, PushSize, rvars, Items, Taken
<1>3. CASE Ask \/ PopRef \/ FrontPop \/ PopSize
  BY <1>3 DEF Ask, PopRef, FrontPop, PopSize, Items, Taken
<1>4. CASE PopTake \/ PopDelete
  BY <1>4 DEF PopTake, PopDelete, Items, Taken
<1> QED BY <1>1, <1>2, <1>3, <1>4, PushCurrentFifo, PushLinkFifo, PopAdvanceFifo, ClearFifo
    DEF Next, Producer, Consumer

(* SPSCQueue implements Fifo: seen from the two threads, Push, Pop and     *)
(* Clear are single steps of a FIFO queue, for any number of elements.     *)
THEOREM FifoCorrect == Spec => IsFifo
  BY InitFifo, NextFifo, InvAlways, PTL DEF Spec, IsFifo, F!Spec

=============================================================================
