---------------------------- MODULE PlanExecution ----------------------------
(***************************************************************************)
(* What the requester of a plan may rely on, without peers, leases, timers *)
(* or channels: the tasks of a plan finish once each and in the order of   *)
(* its graph, none finishes after the plan is over, and a plan that asked  *)
(* for it is told one result, which is true when it is told.               *)
(* TaskStateManager implements this specification.                         *)
(***************************************************************************)
EXTENDS Integers, Sequences

CONSTANTS
    Plans,   \* plan IDs
    Nodes,   \* task IDs
    PlanOf,  \* the plan of a task
    Dags     \* Dags[p]: the graphs plan p may have

VARIABLES
    known,  \* the plans accepted so far
    dag,    \* their graphs
    done,   \* the tasks that have finished
    over,   \* the plans of which no further task will finish
    told    \* the results sent to the requester of each plan

vars == <<known, dag, done, over, told>>

Init ==
    /\ known = {} /\ done = {} /\ over = {}
    /\ dag \in [Plans -> [nodes  : {{}}, roots : {{}}, succ : {[n \in Nodes |-> {}]},
                          preds  : {[n \in Nodes |-> 0]}, notify : {FALSE}]]
    /\ told = [p \in Plans |-> <<>>]

Accept(p) ==
    /\ p \notin known
    /\ known' = known \cup {p}
    /\ \E d \in Dags[p] : dag' = [dag EXCEPT ![p] = d]
    /\ UNCHANGED <<done, over, told>>

\* A task finishes.  If it was the last one, the result is its output.
Finish(n) ==
    LET p == PlanOf[n] IN
    /\ p \in known \ over
    /\ n \in dag[p].nodes \ done
    /\ \A m \in dag[p].nodes : n \in dag[p].succ[m] => m \in done
    /\ done' = done \cup {n}
    /\ told' = IF dag[p].notify /\ dag[p].nodes \subseteq done'
               THEN [told EXCEPT ![p] = Append(@, [status |-> "ok", by |-> n])] ELSE told
    /\ UNCHANGED <<known, dag, over>>

Close(p) ==
    /\ p \in known \ over
    /\ over' = over \cup {p}
    /\ UNCHANGED <<known, dag, done, told>>

\* The requester of a plan that is over and was not finished is told so.
GiveUp(p) ==
    /\ p \in over
    /\ dag[p].notify /\ ~(dag[p].nodes \subseteq done)
    /\ told[p] = <<>>
    /\ told' = [told EXCEPT ![p] = <<[status |-> "timeout"]>>]
    /\ UNCHANGED <<known, dag, done, over>>

Next ==
    \/ \E p \in Plans : Accept(p) \/ Close(p) \/ GiveUp(p)
    \/ \E n \in Nodes : Finish(n)

Spec == Init /\ [][Next]_vars

=============================================================================
