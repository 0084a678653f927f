----------------------------- MODULE MCWorkflow -----------------------------
(* Small instances of Workflow for TLC: two tasks to execute, one to reduce. *)
EXTENDS Workflow

CONSTANTS p1, a, b, red, self, local_, board, reducer, none

Graph(ns, es) ==
    [nodes  |-> ns,
     roots  |-> {n \in ns : \A m \in ns : <<m, n>> \notin es},
     succ   |-> [m \in Nodes |-> {n \in ns : <<m, n>> \in es}],
     preds  |-> [n \in Nodes |-> Cardinality({m \in ns : <<m, n>> \in es})],
     notify |-> TRUE]

Both  == Graph({a, b, red}, {<<a, red>>, <<b, red>>})
Line  == Graph({a, b, red}, {<<a, b>>, <<b, red>>})
\* The plan of a prompt that was not decomposed: nothing to reduce.
Alone == Graph({a}, {})

OnePlan == [n \in Nodes |-> p1]
Planned == [p \in Plans |-> {Both, Line, Alone}]
Unplanned == [p \in Plans |-> Alone]

\* What the theorems about the order of reductions and about lost tasks assume.
ASSUME InstanceAssumption == ReductionsComeLast /\ ChannelsFit
=============================================================================
