------------------------ MODULE PlanExecutionProofs ------------------------
(***************************************************************************)
(* TaskStateManager implements PlanExecution: every step of the state      *)
(* manager is, at the level of plans, one step of PlanExecution or none.   *)
(***************************************************************************)
EXTENDS TaskStateManagerProofs

DoneTasks == {n \in Nodes : state[n] = "done"}
OverPlans == {p \in plans : watch[p] \in {"sending", "exited"}
                            \/ \E n \in dag[p].nodes : state[n] = "disposed"}
Told == [p \in Plans |-> Sent(p)]

\* What the requester of a plan sees, and a step that shows nothing of itself.
Seen == <<plans, dag, DoneTasks, OverPlans, Told>>

\* The variables of PlanExecution, as they are mapped, are what the requester sees.
LEMMA AbstractVars ==
    /\ Abstract!vars = Seen
    /\ Abstract!vars' = Seen'
BY DEF Abstract!vars, Seen, DoneTasks, OverPlans, Told

\* At the start no plan is known, on either level.
LEMMA InitImplements == Init => Abstract!Init
<1> SUFFICES ASSUME Init PROVE Abstract!Init
  OBVIOUS
<1>1. plans = {} /\ \A n \in Nodes : state[n] # "done"
  BY DEF Init
<1>2. dag \in [Plans -> [nodes : {{}}, roots : {{}}, succ : {[n \in Nodes |-> {}]},
                         preds : {[n \in Nodes |-> 0]}, notify : {FALSE}]]
  BY DEF Init, NoDag
<1>3. \A p \in Plans : Sent(p) = <<>>
  BY DEF Init, Sent
<1> QED
  BY <1>1, <1>2, <1>3 DEF Abstract!Init

\* A quiet step that sends and disposes nothing and leaves the deadlines alone
\* shows nothing.
LEMMA QuietIsUnseen ==
    ASSUME IInv, Quiet, watch' = watch, \A p \in Plans : Sent(p)' = Sent(p),
           \A n \in Nodes : state'[n] = "disposed" <=> state[n] = "disposed"
    PROVE  UNCHANGED Seen
<1>1. DoneTasks' = DoneTasks
  BY DEF DoneTasks, Quiet
<1>2. \A p \in plans : dag[p].nodes \in SUBSET Nodes
  BY DEF IInv, TypeOK, Dag
<1>3. OverPlans' = OverPlans
  BY <1>2 DEF OverPlans, Quiet
<1>4. Told' = Told
  BY DEF Told
<1> QED
  BY <1>1, <1>3, <1>4 DEF Seen, Quiet

\* A quiet step that ends plan p, and no other, closes it.
LEMMA ClosingStep ==
    ASSUME IInv, NEW p \in plans, Quiet, OverPlans' = OverPlans \cup {p},
           \A q \in Plans : Sent(q)' = Sent(q)
    PROVE  Abstract!Next \/ UNCHANGED Seen
<1>1. DoneTasks' = DoneTasks /\ Told' = Told /\ p \in Plans
  BY DEF DoneTasks, Told, Quiet, IInv, TypeOK
<1>2. CASE p \in OverPlans
  BY <1>1, <1>2 DEF Seen, Quiet
<1>3. CASE p \notin OverPlans
  <2>1. Abstract!Close(p)
    BY <1>1, <1>3 DEF Abstract!Close, DoneTasks, OverPlans, Told, Quiet
  <2> QED
    BY <2>1, <1>1 DEF Abstract!Next
<1> QED
  BY <1>2, <1>3

\* Disposal of a plan, by Dispose or its deadline: what is over afterwards.
LEMMA OverAfterDisposal ==
    ASSUME IInv, NEW p \in plans, DisposeNodes(p), UNCHANGED <<plans, dag, predNum>>
    PROVE  \A q \in plans :
               q # p => ((\E n \in dag[q].nodes : state'[n] = "disposed")
                          <=> (\E n \in dag[q].nodes : state[n] = "disposed"))
<1> SUFFICES ASSUME NEW q \in plans, q # p, NEW n \in dag[q].nodes PROVE state'[n] = state[n]
  OBVIOUS
<1>1. n \in Nodes /\ PlanOf[n] = q
  BY DagTypes DEF IInv, TypeOK, Dag, PlansKnown
<1>2. n \notin Disposed(p)
  BY <1>1, DagTypes DEF Disposed, IInv, TypeOK, PlansKnown
<1> QED
  BY <1>1, <1>2 DEF DisposeNodes

\* A live node that goes to another live state, or fails, shows nothing.
LEMMA OneLiveNodeUnseen ==
    ASSUME IInv, NEW n \in Nodes, NEW s \in {"ready", "claimed", "running", "failed"},
           state[n] \in {"ready", "claimed", "running"},
           state' = [state EXCEPT ![n] = s],
           UNCHANGED <<plans, dag, predNum, watch, notify, heard>>
    PROVE  UNCHANGED Seen
<1>1. Quiet
  BY DEF Quiet, IInv, TypeOK, Begun, Live
<1>2. \A m \in Nodes : state'[m] = "disposed" <=> state[m] = "disposed"
  BY DEF IInv, TypeOK
<1> QED
  BY <1>1, <1>2, QuietIsUnseen DEF Sent

\* Ingest is the acceptance of a plan.
LEMMA IngestImplements ==
    ASSUME IInv, TypeOK', NEW p \in Plans, NEW d \in Dags[p], Ingest(p, d)
    PROVE  Abstract!Next
<1>1. d \in Dag /\ d.nodes \in SUBSET Nodes /\ \A n \in d.nodes : PlanOf[n] = p
  BY DagTypes DEF Dag
<1>2. p \notin plans /\ dag[p] = NoDag /\ NoDag.nodes = {} /\ NoDag.notify = FALSE
  BY DEF Ingest, IInv, PlansKnown, NoDag
<1>3. \A n \in d.nodes : state[n] = "absent"
  BY <1>1, <1>2 DEF IInv, PlansKnown
<1>4. \A n \in Nodes : state'[n] = IF n \notin d.nodes THEN state[n]
                                   ELSE IF n \in d.roots THEN "ready" ELSE "pending"
  BY DEF Ingest
<1>5. DoneTasks' = DoneTasks
  BY <1>3, <1>4 DEF DoneTasks
<1>6. Told' = Told
  BY DEF Told, Sent, Ingest, resultVars
<1>7. OverPlans' = OverPlans
  <2>1. p \notin OverPlans'
    <3>1. watch'[p] \in {"armed", "off"} /\ dag'[p] = d
      BY DEF Ingest, IInv, TypeOK
    <3>2. \A n \in d.nodes : state'[n] # "disposed"
      BY <1>1, <1>4
    <3> QED
      BY <3>1, <3>2 DEF OverPlans
  <2>2. ASSUME NEW q \in plans PROVE q \in OverPlans' <=> q \in OverPlans
    <3>1. q # p /\ q \in Plans /\ watch'[q] = watch[q] /\ dag'[q] = dag[q]
      BY <1>2 DEF Ingest, IInv, TypeOK
    <3>2. \A n \in dag[q].nodes : n \in Nodes /\ n \notin d.nodes
      <4>1. \A n \in dag[q].nodes : n \in Nodes
        BY <3>1 DEF IInv, TypeOK, Dag
      <4>2. \A n \in dag[q].nodes : PlanOf[n] = q
        BY <3>1, DagTypes DEF IInv, PlansKnown
      <4> QED
        BY <4>1, <4>2, <3>1, <1>1
    <3>3. \A n \in dag[q].nodes : state'[n] = state[n]
      BY <3>2, <1>4
    <3> QED
      BY <3>1, <3>3 DEF OverPlans, Ingest
  <2> QED
    BY <2>1, <2>2, <1>2 DEF OverPlans, Ingest
<1>8. Abstract!Accept(p)
  BY <1>2, <1>5, <1>6, <1>7 DEF Abstract!Accept, Ingest, DoneTasks, OverPlans, Told
<1> QED
  BY <1>8 DEF Abstract!Next

\* Complete finishes a task and, if it is the last, answers the plan.
LEMMA CompleteImplements ==
    ASSUME IInv, NEW n \in Nodes, Complete(n)
    PROVE  Abstract!Next
<1> DEFINE p == PlanOf[n]
           d == dag[p]
<1>1. /\ p \in plans /\ p \in Plans /\ n \in d.nodes /\ d.nodes \in SUBSET Nodes
      /\ state[n] = "running" /\ \A m \in d.nodes : PlanOf[m] = p
  <2>1. p \in Plans /\ n \in d.nodes /\ state[n] = "running"
    BY NodesAssumption DEF Complete, CanComplete, IInv, PlansKnown
  <2>2. p \in plans
    BY <2>1 DEF IInv, PlansKnown, NoDag
  <2> QED
    BY <2>1, <2>2, DagTypes DEF IInv, TypeOK, Dag, PlansKnown
<1>2. UNCHANGED <<plans, dag, watch, heard>>
  BY DEF Complete
<1>3. ~IsComplete(p) /\ ~Missed(p) /\ ~Succeeded(p)
  BY <1>1 DEF IsComplete, AllDone, Missed, Succeeded, Live
<1>4. p \notin OverPlans
  BY <1>1, <1>3 DEF OverPlans, IInv, DisposedAsAWhole, ResultFollows, Live
<1>5. \A m \in Freed(n) : m \in d.nodes /\ n \in Preds(m)
  BY <1>1 DEF Freed, Preds, PredsIn
<1>6. \A m \in Freed(n) : state[m] # "done" /\ m # n
  BY <1>1, <1>5 DEF IInv, DependenciesFirst
<1>7. \A m \in Nodes : state'[m] = IF m \in Freed(n) THEN "ready"
                                   ELSE IF m = n THEN "done" ELSE state[m]
  BY DEF Complete, AfterDone
<1>8. DoneTasks' = DoneTasks \cup {n} /\ n \notin DoneTasks
  BY <1>1, <1>6, <1>7 DEF DoneTasks
<1>9. OverPlans' = OverPlans
  <2>1. \A m \in d.nodes : state[m] # "disposed"
    BY <1>1 DEF IInv, DisposedAsAWhole, Live
  <2>2. \A q \in plans : \A m \in dag[q].nodes : m \in Nodes
    BY DEF IInv, TypeOK, Dag
  <2>3. \A q \in plans : \A m \in dag[q].nodes :
            state'[m] = "disposed" <=> state[m] = "disposed"
    BY <2>1, <2>2, <1>1, <1>5, <1>7
  <2> QED
    BY <2>3, <1>2 DEF OverPlans
<1>10. \A m \in d.nodes : n \in d.succ[m] => m \in DoneTasks
  BY <1>1 DEF IInv, DependenciesFirst, Preds, PredsIn, DoneTasks
<1>11. AllDone(p, AfterDone(n)) <=> d.nodes \subseteq DoneTasks'
  BY <1>1 DEF AllDone, DoneTasks, Complete
<1>12. Told' = IF d.notify /\ d.nodes \subseteq DoneTasks'
               THEN [Told EXCEPT ![p] = Append(@, Ok(n))] ELSE Told
  <2>1. CASE d.notify /\ d.nodes \subseteq DoneTasks'
    <3>1. notify' = [notify EXCEPT ![p] = Append(notify[p], Ok(n))]
      BY <2>1, <1>11 DEF Complete
    <3>2. Ok(n) \in Results
      BY DEF Ok, Results
    <3>3. Sent(p)' = Append(Sent(p), Ok(n))
      <4>1. heard[p] \in Seq(Results) /\ notify[p] \in Seq(Results)
        BY <1>1 DEF IInv, TypeOK
      <4>2. notify'[p] = Append(notify[p], Ok(n)) /\ heard'[p] = heard[p]
        BY <3>1, <1>1, <1>2 DEF IInv, TypeOK
      <4> QED
        BY <3>2, <4>1, <4>2, AppendConcat DEF Sent
    <3>4. \A q \in Plans : q # p => Sent(q)' = Sent(q)
      BY <3>1, <1>2 DEF Sent, IInv, TypeOK
    <3> QED
      BY <2>1, <3>3, <3>4, <1>1 DEF Told
  <2>2. CASE ~(d.notify /\ d.nodes \subseteq DoneTasks')
    <3>1. notify' = notify
      BY <2>2, <1>11 DEF Complete
    <3> QED
      BY <2>2, <3>1, <1>2 DEF Told, Sent
  <2> QED
    BY <2>1, <2>2
<1>13. Abstract!Finish(n)
  BY <1>1, <1>2, <1>4, <1>8, <1>9, <1>10, <1>12
  DEF Abstract!Finish, DoneTasks, OverPlans, Told, Ok
<1> QED
  BY <1>13 DEF Abstract!Next

\* The deadline ends a plan without a word yet, or finds it complete.
LEMMA DeadlineImplements ==
    ASSUME IInv, NEW p \in Plans, DeadlineFires(p)
    PROVE  Abstract!Next \/ UNCHANGED Seen
<1>1. /\ UNCHANGED <<plans, dag, predNum, notify, heard>>
      /\ watch[p] = "armed" /\ \A q \in Plans : Sent(q)' = Sent(q)
  BY DEF DeadlineFires, planVars, resultVars, Sent
<1>2. p \in plans
  BY <1>1 DEF IInv, PlansKnown, ResultFollows, NoDag
<1>3. watch' = [watch EXCEPT ![p] = IF IsComplete(p) THEN "exited" ELSE "sending"]
  BY DEF DeadlineFires
<1>4. Quiet /\ \A q \in plans : q # p =>
          ((\E n \in dag[q].nodes : state'[n] = "disposed")
            <=> (\E n \in dag[q].nodes : state[n] = "disposed"))
  <2>1. CASE IsComplete(p)
    BY <2>1, <1>1, NodesUntouched DEF DeadlineFires
  <2>2. CASE ~IsComplete(p)
    BY <2>2, <1>1, <1>2, PlanDisposed, OverAfterDisposal DEF DeadlineFires
  <2> QED
    BY <2>1, <2>2
<1>5. watch'[p] \in {"sending", "exited"} /\ \A q \in plans : q # p => watch'[q] = watch[q]
  BY <1>3 DEF IInv, TypeOK
<1>6. OverPlans' = OverPlans \cup {p}
  BY <1>1, <1>2, <1>4, <1>5 DEF OverPlans
<1> QED
  BY <1>1, <1>2, <1>4, <1>6, ClosingStep

\* Dispose ends a plan, or does so a second time.
LEMMA DisposeImplements ==
    ASSUME IInv, NEW p \in Plans, Dispose(p)
    PROVE  Abstract!Next \/ UNCHANGED Seen
<1>1. /\ UNCHANGED <<plans, dag, predNum, notify, heard, watch>> /\ p \in plans
      /\ DisposeNodes(p) /\ \A q \in Plans : Sent(q)' = Sent(q)
  BY DEF Dispose, planVars, resultVars, Sent
<1>2. Quiet
  BY <1>1, PlanDisposed
<1>3. \A q \in plans : q # p =>
          ((\E n \in dag[q].nodes : state'[n] = "disposed")
            <=> (\E n \in dag[q].nodes : state[n] = "disposed"))
  BY <1>1, OverAfterDisposal
<1>4. \A n \in dag[p].nodes : state[n] = "disposed" => state'[n] = "disposed"
  BY <1>1 DEF DisposeNodes, Disposed, IInv, TypeOK, Dag
<1>5. OverPlans' = OverPlans \/ OverPlans' = OverPlans \cup {p}
  BY <1>1, <1>3, <1>4 DEF OverPlans
<1>6. CASE OverPlans' = OverPlans
  <2>1. DoneTasks' = DoneTasks /\ Told' = Told
    BY <1>1, <1>2 DEF DoneTasks, Told, Quiet
  <2> QED
    BY <2>1, <1>1, <1>6 DEF Seen
<1>7. CASE OverPlans' = OverPlans \cup {p}
  BY <1>1, <1>2, <1>7, ClosingStep
<1> QED
  BY <1>5, <1>6, <1>7

\* The send of the deadline goroutine is how a plan is given up.
LEMMA TimeoutImplements ==
    ASSUME IInv, NEW p \in Plans, SendTimeout(p)
    PROVE  Abstract!Next
<1>1. /\ UNCHANGED <<plans, dag, state, heard>>
      /\ watch[p] = "sending" /\ watch' = [watch EXCEPT ![p] = "exited"]
      /\ notify' = [notify EXCEPT ![p] = Append(@, Timeout)]
  BY DEF SendTimeout, nodeVars, planVars
<1>2. Sent(p) = <<>> /\ Missed(p) /\ dag[p].notify /\ p \in plans
  BY <1>1 DEF IInv, ResultFollows, PlansKnown, NoDag
<1>3. DoneTasks' = DoneTasks
  BY <1>1 DEF DoneTasks
<1>4. OverPlans' = OverPlans /\ p \in OverPlans
  BY <1>1, <1>2 DEF OverPlans, IInv, TypeOK
<1>5. Sent(p)' = <<Timeout>> /\ \A q \in Plans : q # p => Sent(q)' = Sent(q)
  <2>1. heard[p] \in Seq(Results) /\ notify[p] \in Seq(Results) /\ Timeout \in Results
    BY DEF IInv, TypeOK, Timeout, Results
  <2>2. heard[p] \o Append(notify[p], Timeout) = Append(heard[p] \o notify[p], Timeout)
    BY <2>1, AppendConcat
  <2>3. Append(<<>>, Timeout) = <<Timeout>>
    OBVIOUS
  <2>4. notify'[p] = Append(notify[p], Timeout) /\ \A q \in Plans : q # p => notify'[q] = notify[q]
    BY <1>1 DEF IInv, TypeOK
  <2> QED
    BY <2>2, <2>3, <2>4, <1>1, <1>2 DEF Sent
<1>6. Told[p] = <<>> /\ Told' = [Told EXCEPT ![p] = <<Timeout>>]
  BY <1>2, <1>5 DEF Told
<1>7. ~(dag[p].nodes \subseteq DoneTasks)
  BY <1>2 DEF Missed, IsComplete, AllDone, DoneTasks
<1>8. Abstract!GiveUp(p)
  BY <1>1, <1>2, <1>3, <1>4, <1>6, <1>7
  DEF Abstract!GiveUp, DoneTasks, OverPlans, Told, Timeout
<1> QED
  BY <1>8 DEF Abstract!Next

\* Every step maps to a step or a stutter.
LEMMA NextImplements == IInv /\ IInv' /\ [Next]_tsmVars => [Abstract!Next]_Seen
<1> SUFFICES ASSUME IInv, IInv', [Next]_tsmVars PROVE Abstract!Next \/ UNCHANGED Seen
  OBVIOUS
<1>1. ASSUME NEW p \in Plans, NEW d \in Dags[p], Ingest(p, d) PROVE Abstract!Next
  BY <1>1, IngestImplements DEF IInv
<1>2. ASSUME NEW n \in Nodes, PublishRoot(n) PROVE UNCHANGED Seen
  BY <1>2 DEF PublishRoot, nodeVars, planVars, resultVars, Seen, DoneTasks, OverPlans, Told,
              Sent
<1>3. ASSUME NEW n \in Nodes, NEW peer \in Peers, Claim(n, peer) PROVE UNCHANGED Seen
  BY <1>3, OneLiveNodeUnseen DEF Claim, CanClaim, planVars, resultVars
<1>4. ASSUME NEW w \in watchdogs, FireWatchdog(w) PROVE UNCHANGED Seen
  <2>1. w.node \in Nodes
    BY DEF IInv, TypeOK, Watchdog
  <2>2. CASE StillClaimed(w)
    BY <1>4, <2>1, <2>2, OneLiveNodeUnseen
    DEF FireWatchdog, StillClaimed, Reopen, planVars, resultVars
  <2>3. CASE ~StillClaimed(w)
    BY <1>4, <2>3 DEF FireWatchdog, planVars, resultVars, Seen, DoneTasks, OverPlans, Told,
                      Sent
  <2> QED
    BY <2>2, <2>3
<1>5. ASSUME NEW w \in watchdogs, EndWatchdog(w) PROVE UNCHANGED Seen
  BY <1>5 DEF EndWatchdog, nodeVars, planVars, resultVars, Seen, DoneTasks, OverPlans, Told,
              Sent
<1>6. ASSUME NEW n \in Nodes, Start(n) PROVE UNCHANGED Seen
  BY <1>6, OneLiveNodeUnseen DEF Start, planVars, resultVars
<1>7. ASSUME NEW n \in Nodes, Complete(n) PROVE Abstract!Next
  BY <1>7, CompleteImplements
<1>8. ASSUME NEW n \in Nodes, ReportFailure(n) PROVE UNCHANGED Seen
  BY <1>8, OneLiveNodeUnseen DEF ReportFailure, Failed, Held, planVars, resultVars
<1>9. ASSUME NEW n \in Nodes, Abandon(n) PROVE UNCHANGED Seen
  BY <1>9, OneLiveNodeUnseen DEF Abandon, Reopen, planVars, resultVars
<1>10. ASSUME NEW p \in Plans, Dispose(p) PROVE Abstract!Next \/ UNCHANGED Seen
  BY <1>10, DisposeImplements
<1>11. ASSUME NEW p \in Plans, DeadlineFires(p) PROVE Abstract!Next \/ UNCHANGED Seen
  BY <1>11, DeadlineImplements
<1>12. ASSUME NEW p \in Plans, SendTimeout(p) PROVE Abstract!Next
  BY <1>12, TimeoutImplements
<1>13. ASSUME NEW p \in Plans, Hear(p) PROVE UNCHANGED Seen
  <2>1. \A q \in Plans : Sent(q)' = Sent(q)
    BY <1>13, HearKeepsEverySent
  <2> QED
    BY <1>13, <2>1 DEF Hear, nodeVars, planVars, Seen, DoneTasks, OverPlans, Told
<1>14. ASSUME NEW w \in ReadyWatchers, ReceiveReady(w) PROVE UNCHANGED Seen
  BY <1>14 DEF ReceiveReady, nodeVars, planVars, resultVars, Seen, DoneTasks, OverPlans,
               Told, Sent
<1>15. ASSUME ReceiveReopened PROVE UNCHANGED Seen
  BY <1>15 DEF ReceiveReopened, nodeVars, planVars, resultVars, Seen, DoneTasks, OverPlans,
               Told, Sent
<1>16. ASSUME Tick PROVE UNCHANGED Seen
  BY <1>16 DEF Tick, nodeVars, planVars, resultVars, Seen, DoneTasks, OverPlans, Told, Sent
<1>17. ASSUME UNCHANGED tsmVars PROVE UNCHANGED Seen
  BY <1>17 DEF tsmVars, nodeVars, planVars, resultVars, Seen, DoneTasks, OverPlans, Told,
               Sent
<1> QED
  BY <1>1, <1>2, <1>3, <1>4, <1>5, <1>6, <1>7, <1>8, <1>9, <1>10, <1>11, <1>12, <1>13,
     <1>14, <1>15, <1>16, <1>17 DEF Next

\* The state manager implements PlanExecution, for any plans, peers and bounds:
\* tasks finish once each and in the order of the graph, none after its plan is
\* over, and the requester is told one result that is true.
THEOREM Implementation == Spec => ImplementsPlanExecution
<1>1. IInv /\ IInv' /\ [Next]_tsmVars => [Abstract!Next]_(Abstract!vars)
  BY NextImplements, AbstractVars
<1> QED
  BY <1>1, InitImplements, InvariantHolds, PTL
  DEF Spec, ImplementsPlanExecution, Abstract!Spec

=============================================================================
