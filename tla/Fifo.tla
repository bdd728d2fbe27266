-------------------------------- MODULE Fifo --------------------------------
(***************************************************************************)
(* What a queue between two threads promises: the consumer takes the       *)
(* values in the order in which the producer has put them, each one once.  *)
(***************************************************************************)
EXTENDS Sequences

CONSTANT Value

VARIABLES items, \* the values in the queue, the oldest first
          out    \* the value the consumer took last

Init == items = <<>> /\ out \in Value

Put(v) == items' = Append(items, v) /\ UNCHANGED out

Take == items # <<>> /\ out' = Head(items) /\ items' = Tail(items)

Clear == items' = <<>> /\ UNCHANGED out

Next == (\E v \in Value : Put(v)) \/ Take \/ Clear

Spec == Init /\ [][Next]_<<items, out>>

=============================================================================
