---------------------------- MODULE MCUserServer ----------------------------
(* The instance of UserServer for TLC: plans of one task or two.           *)
EXTENDS UserServer, TLC

CONSTANTS p1, p2, a, b, c1, c2, none

Line(n, m, told_) ==
    [nodes |-> {n, m}, roots |-> {n}, succ |-> [k \in Nodes |-> IF k = n THEN {m} \ {n} ELSE {}],
     preds |-> [k \in Nodes |-> IF k = m /\ m # n THEN 1 ELSE 0], notify |-> told_]

PlanOfTask == [n \in Nodes |-> IF n = a THEN p1 ELSE p2]
\* Every plan with its channel, as the server wants it, or without.
Plannable == [p \in Plans |->
    IF p = p1 THEN {Line(a, a, t) : t \in BOOLEAN} ELSE {Line(b, b, t) : t \in BOOLEAN}]
=============================================================================
