----------------------------- MODULE MCPostman -----------------------------
(* A watch, whose handler publishes, a delivery and another publisher. *)
EXTENDS Postman

CONSTANTS ready, board, network, manager, c1, c2

\* One event from each goroutine, and two from the manager.
Twice == [p \in Publishers |-> IF p = manager THEN 2 ELSE 1]
=============================================================================
