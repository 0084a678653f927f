------------------------- MODULE MCTaskStateManager -------------------------
(* Small instances of TaskStateManager for TLC.                            *)
EXTENDS TaskStateManager

CONSTANTS p1, a, b, c, e, board, local, none

\* A graph over the nodes ns with the edges es (pairs), where more is how many
\* dependencies on unknown nodes a node has besides.
Graph(ns, es, more, told) ==
    [nodes  |-> ns,
     roots  |-> {n \in ns : more[n] = 0 /\ \A m \in ns : <<m, n>> \notin es},
     succ   |-> [m \in Nodes |-> {n \in ns : <<m, n>> \in es}],
     preds  |-> [n \in Nodes |-> more[n] + Cardinality({m \in ns : <<m, n>> \in es})],
     notify |-> told]

NoMore == [n \in Nodes |-> 0]

Chain    == Graph({a, b, c}, {<<a, b>>, <<b, c>>}, NoMore, TRUE)
Fork     == Graph({a, b, c}, {<<a, b>>, <<a, c>>}, NoMore, TRUE)
Join     == Graph({a, b, c}, {<<a, c>>, <<b, c>>}, NoMore, TRUE)
Diamond  == Graph({a, b, c, e}, {<<a, b>>, <<a, c>>, <<b, e>>, <<c, e>>}, NoMore, TRUE)
Mute     == Graph({a, b}, {<<a, b>>}, NoMore, FALSE)
\* b depends on an unknown node, c on b: neither ever becomes ready.
Dangling == Graph({a, b, c}, {<<a, b>>, <<b, c>>}, [NoMore EXCEPT ![b] = 1], TRUE)
\* b and c depend on each other.
Cyclic   == Graph({a, b, c}, {<<a, b>>, <<b, c>>, <<c, b>>}, NoMore, TRUE)

\* One plan of any of these shapes.
OnePlan == [n \in Nodes |-> p1]
Shapes == [p \in Plans |-> {Chain, Fork, Join, Diamond, Mute, Dangling, Cyclic}]

\* One task after the other, told or not, and a task that cannot become ready.
Pairs == [p \in Plans |->
    {Graph({a, b}, {<<a, b>>}, NoMore, TRUE),
     Graph({a, b}, {<<a, b>>}, [NoMore EXCEPT ![b] = 1], TRUE),
     Mute}]
=============================================================================
