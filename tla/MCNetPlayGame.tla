--------------------------- MODULE MCNetPlayGame ---------------------------
(* Small instances of NetPlayGame: two players, each with one pad. *)
EXTENDS NetPlayGame

TwoPads == [p \in 0 .. 1 |-> p + 1]

NoMissedStop == missed = {}

(* A run that has the players stop or drop out, one or the other. *)
StopOrDrop == NoMissedStop /\ (stops = 0 \/ \A c \in Player : link[c])

============================================================================
