---------------------------- MODULE MCPlanParse ----------------------------
(* All decompositions of a few sub-tasks with a few dependencies each. *)
EXTENDS PlanParse, TLC

CONSTANTS x, y, z, reduce, single, MaxSubtasks, MaxDeps

Free == Names \ {Reduce, Single}

UpTo(S, k) == UNION {[1 .. l -> S] : l \in 0 .. k}
Small == UpTo([id : Free \cup {Reduce}, deps : UpTo(Free \cup {Reduce}, MaxDeps)], MaxSubtasks)

\* The model's names other than the reserved one are all alike.
Alike == Permutations(Free)
=============================================================================
