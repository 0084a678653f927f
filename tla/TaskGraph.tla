----------------------------- MODULE TaskGraph -----------------------------
(***************************************************************************)
(* The graph of a task plan (api/v1/domain/task/task_plan.go): a record of *)
(* nodes, roots, succ, the set of successors of each node, and preds, the  *)
(* count of predecessors that the plan keeps beside the edges.             *)
(***************************************************************************)
EXTENDS Integers, FiniteSets

PredsIn(d, n) == {m \in d.nodes : n \in d.succ[m]}

\* What the state manager needs of a graph.  A root depends on nothing, and a
\* node waits for at least as many completions as it has predecessors.  Nothing
\* is said of cycles, of dependencies on unknown nodes or of unreachable nodes:
\* those plans stall, and its properties cover them.
Sound(d) ==
    \A n \in d.nodes :
        /\ n \in d.roots => PredsIn(d, n) = {}
        /\ Cardinality(PredsIn(d, n)) <= d.preds[n]

\* Everything leads to r: r depends on every other node, on some by way of others.  A set
\* that has what r depends on, and with a node all that the node depends on, has them all.
EverythingLeadsTo(d, r) ==
    \A S \in SUBSET d.nodes :
        PredsIn(d, r) \subseteq S /\ (\A n \in S : PredsIn(d, n) \subseteq S)
            => d.nodes \ {r} \subseteq S

=============================================================================
