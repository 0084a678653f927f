----------------------------- MODULE PlanParse -----------------------------
(***************************************************************************)
(* How the planner makes a graph of the model's decomposition: parse and   *)
(* fallbackPlan (internal/task_workflow_layer/task_planner/planner.go).    *)
(*                                                                         *)
(* A decomposition is a list of sub-tasks, each with a name and a list of  *)
(* the names it depends on; a model may write any of them.  Two loops and  *)
(* the appended reduction build maps that have to agree with each other;   *)
(* an iteration is an action.                                              *)
(***************************************************************************)
EXTENDS TaskGraph, Sequences

CONSTANTS
    Names,           \* names of sub-tasks, to be prefixed with the plan's ID
    Reduce,          \* the name "reduce"
    Single,          \* the name "single"
    Decompositions   \* the lists of sub-tasks that the model may give

Subtask == [id : Names, deps : Seq(Names)]

ASSUME ParseAssumption ==
    /\ IsFiniteSet(Names)
    /\ Reduce \in Names /\ Single \in Names
    /\ Decompositions \subseteq Seq(Subtask)

VARIABLES
    pc,           \* "raw", "declare", "link" or "done"
    input,        \* parsed.Nodes
    i,            \* the sub-task that the loop is at
    j,            \* the dependency that the inner loop is at
    nodes,        \* the keys of nodes
    roots,        \* roots
    successors,   \* successors
    predNums      \* predecessorNums

vars == <<pc, input, i, j, nodes, roots, successors, predNums>>

Init ==
    /\ pc = "raw" /\ input = <<>>
    /\ i = 1 /\ j = 1
    /\ nodes = {} /\ roots = <<>>
    /\ successors = [n \in Names |-> <<>>]
    /\ predNums = [n \in Names |-> 0]

-----------------------------------------------------------------------------
(* What the steps do.                                                      *)

\* The model did not answer, or no JSON could be read from its answer.
FallBack ==
    /\ pc = "raw"
    /\ nodes' = {Single} /\ roots' = <<Single>>
    /\ pc' = "done"
    /\ UNCHANGED <<input, i, j, successors, predNums>>

UnmarshalFromZero ==  \* mutant: the sub-tasks are counted from zero
    /\ pc = "raw"
    /\ input' \in Decompositions
    /\ pc' = "declare" /\ i' = 0
    /\ UNCHANGED <<j, nodes, roots, successors, predNums>>
Unmarshal ==
    /\ pc = "raw"
    /\ input' \in Decompositions
    /\ pc' = "declare"
    /\ UNCHANGED <<i, j, nodes, roots, successors, predNums>>

DeclareRoot ==  \* mutant: every sub-task is a root
    /\ pc = "declare" /\ i <= Len(input)
    /\ nodes' = nodes \cup {input[i].id}
    /\ roots' = Append(roots, input[i].id)
    /\ predNums' = [predNums EXCEPT ![input[i].id] = 0]
    /\ i' = i + 1
    /\ UNCHANGED <<pc, input, j, successors>>

\* The first loop: a sub-task without dependencies is a root.
Declare ==
    /\ pc = "declare" /\ i <= Len(input)
    /\ LET s == input[i] IN
       /\ nodes' = nodes \cup {s.id}
       /\ IF s.deps = <<>>
          THEN /\ roots' = Append(roots, s.id)
               /\ predNums' = [predNums EXCEPT ![s.id] = 0]
          ELSE UNCHANGED <<roots, predNums>>
    /\ i' = i + 1
    /\ UNCHANGED <<pc, input, j, successors>>

Declared ==
    /\ pc = "declare" /\ i > Len(input)
    /\ pc' = "link" /\ i' = 1
    /\ UNCHANGED <<input, j, nodes, roots, successors, predNums>>

LinkCountsOnce ==  \* mutant: a sub-task is counted once, not for each dependency
    /\ pc = "link" /\ i <= Len(input) /\ j <= Len(input[i].deps)
    /\ LET s == input[i] IN
       /\ successors' = [successors EXCEPT ![s.deps[j]] = Append(@, s.id)]
       /\ predNums' = [predNums EXCEPT ![s.id] = 1]
    /\ j' = j + 1
    /\ UNCHANGED <<pc, input, i, nodes, roots>>

\* The second loop, dependency by dependency, known or not.
Link ==
    /\ pc = "link" /\ i <= Len(input) /\ j <= Len(input[i].deps)
    /\ LET s == input[i] IN
       /\ successors' = [successors EXCEPT ![s.deps[j]] = Append(@, s.id)]
       /\ predNums' = [predNums EXCEPT ![s.id] = @ + 1]
    /\ j' = j + 1
    /\ UNCHANGED <<pc, input, i, nodes, roots>>

Linked ==
    /\ pc = "link" /\ i <= Len(input) /\ j > Len(input[i].deps)
    /\ i' = i + 1 /\ j' = 1
    /\ UNCHANGED <<pc, input, nodes, roots, successors, predNums>>

LeavesByCount == {n \in nodes : predNums[n] = 0}  \* mutant: the wrong end
Leaves == {n \in nodes : successors[n] = <<>>}

\* The reduction waits for the leaves.  It takes the place of a sub-task of its
\* name, and of that one's count.
AppendReduce ==
    /\ pc = "link" /\ i > Len(input)
    /\ nodes' = nodes \cup {Reduce}
    /\ successors' = [n \in Names |->
           IF n \in Leaves THEN Append(successors[n], Reduce) ELSE successors[n]]
    /\ predNums' = [predNums EXCEPT ![Reduce] = Cardinality(Leaves)]
    /\ pc' = "done"
    /\ UNCHANGED <<input, i, j, roots>>

Next == FallBack \/ Unmarshal \/ Declare \/ Declared \/ Link \/ Linked \/ AppendReduce
Spec == Init /\ [][Next]_vars

-----------------------------------------------------------------------------
(* What the graph promises.                                                *)

ParseTypeOK ==
    /\ pc \in {"raw", "declare", "link", "done"}
    /\ input \in Seq(Subtask)
    /\ i \in 1 .. Len(input) + 1
    /\ j \in Nat \ {0}
    /\ nodes \subseteq Names
    /\ roots \in Seq(Names)
    /\ successors \in [Names -> Seq(Names)]
    /\ predNums \in [Names -> Nat]

\* No name twice, and the reserved one not at all.  A dependency may be anything:
\* unknown, repeated, the sub-task itself, the reduction.
WellFormed ==
    /\ \A k, l \in DOMAIN input : input[k].id = input[l].id => k = l
    /\ \A k \in DOMAIN input : input[k].id # Reduce

\* The entries for n in the successor lists: n's count is decremented for each.
EdgesInto(n) ==
    {e \in UNION {{m} \X DOMAIN successors[m] : m \in Names} : successors[e[1]][e[2]] = n}

\* The counts and the successor lists, two maps built in three places, agree: the
\* last completion of what a task depends on is the one that makes it ready.
CountsAreExact ==
    pc = "done" /\ WellFormed => \A n \in nodes : predNums[n] = Cardinality(EdgesInto(n))

Elements(s) == {s[k] : k \in DOMAIN s}
Graph == [nodes |-> nodes, roots |-> Elements(roots),
          succ  |-> [n \in Names |-> Elements(successors[n])], preds |-> predNums]

\* The state manager gets what it needs (DagsAssumption of TaskStateManager).
GraphIsSound == pc = "done" /\ WellFormed => Sound(Graph)

\* The names that can be worked off, by the decomposition itself: round by round
\* those whose dependencies have been.
Workable[k \in Nat] ==
    IF k = 0 THEN {}
    ELSE {input[l].id : l \in {m \in DOMAIN input : Elements(input[m].deps) \subseteq Workable[k - 1]}}

\* And by the graph: the roots, then those whose count the finished ones have
\* brought to zero.
Executed[k \in Nat] ==
    IF k = 0 THEN {}
    ELSE Elements(roots) \cup
         {n \in nodes :
              LET edges == {e \in EdgesInto(n) : e[1] \in Executed[k - 1]} IN
              edges # {} /\ predNums[n] <= Cardinality(edges)}

\* If every sub-task of a decomposition can be worked off then the graph gets all
\* of them done, in the same rounds, and the reduction after all of them.
ReductionIsLast ==
    LET rounds == Len(input) IN
    pc = "done" /\ WellFormed /\ input # <<>> /\ Workable[rounds] = nodes \ {Reduce} =>
        /\ \A k \in 0 .. rounds : Executed[k] \ {Reduce} = Workable[k]
        /\ Executed[rounds + 1] = nodes
        /\ \A k \in 0 .. rounds : Reduce \in Executed[k + 1] => Workable[k] = nodes \ {Reduce}

=============================================================================
