--------------------------- MODULE WorkflowProofs ---------------------------
(***************************************************************************)
(* Theorems about Workflow for any plans, graphs and bounds, checked by    *)
(* TLAPS: the workflow uses the state manager as TaskStateManager allows,  *)
(* so what is proved of the state manager holds in the workflow; no task   *)
(* is executed twice; the output of a task that is done is its answer;     *)
(* what is reduced are the answers to all the other tasks; and no task     *)
(* that is ready is forgotten.                                             *)
(***************************************************************************)
EXTENDS Workflow, PlanExecutionProofs

-----------------------------------------------------------------------------
(* The state manager's part of each step.                                  *)

\* Calls whose errors are ignored are steps of the state manager or none.
LEMMA CallsAreAllowed ==
    ASSUME NEW n \in Nodes, NEW peer \in Peers,
           ClaimCall(n, peer) \/ StartCall(n) \/ CompleteCall(n)
    PROVE  [Next]_tsmVars
BY DEF ClaimCall, StartCall, CompleteCall, Next

\* What the timers, the reader and the clock do is what they do there.
LEMMA BesideIsAllowed == Beside => Next
BY DEF Beside, Next

\* Every step of the workflow is a step of the state manager, or none.
LEMMA StepIsAllowed ==
    ASSUME TypeOK, WorkflowTypeOK, WorkflowNext
    PROVE  [Next]_tsmVars
<1> USE WorkflowAssumption
<1>1. ASSUME NEW p \in Plans, NEW d \in Dags[p], PlanTask(p, d) PROVE [Next]_tsmVars
  BY <1>1 DEF PlanTask, Next
<1>2. ASSUME NEW n \in Nodes, Announce(n) PROVE [Next]_tsmVars
  BY <1>2 DEF Announce, Next
<1>3. CASE TakeReady
  BY <1>3 DEF TakeReady, Next
<1>4. CASE TakeReopened
  BY <1>4 DEF TakeReopened, Next
<1>5. CASE Heartbeat \/ TakeExpired
  BY <1>5 DEF Heartbeat, TakeExpired
<1>6. ASSUME NEW h \in Hands, BoardStep(h) PROVE [Next]_tsmVars
  <2>1. CASE Putup(h) \/ Drawup(h) \/ Handout(h)
    BY <2>1 DEF Putup, Drawup, Handout
  <2>2. CASE Interview(h)
    <3>1. hand[h].task \in Nodes
      BY <2>2 DEF Interview, IsAt, WorkflowTypeOK, HandStates, Idle
    <3> QED
      BY <2>2, <3>1, CallsAreAllowed DEF Interview
  <2> QED
    BY <1>6, <2>1, <2>2 DEF BoardStep
<1>7. CASE Settle
  BY <1>7 DEF Settle
<1>8. ASSUME NEW r \in settling, Settled(r) PROVE [Next]_tsmVars
  <2>1. r.task \in Nodes
    BY DEF WorkflowTypeOK, Result
  <2> QED
    BY <1>8, <2>1, CallsAreAllowed DEF Settled
<1>9. CASE TakeAssigned
  BY <1>9 DEF TakeAssigned
<1>10. ASSUME NEW n \in Nodes, ExecutionStep(n) PROVE [Next]_tsmVars
  BY <1>10, CallsAreAllowed DEF ExecutionStep, Begin, Generated, GenerateFails
<1>11. CASE TakeReduce
  BY <1>11 DEF TakeReduce, Next
<1>12. CASE ReducerStep
  <2>1. PICK w \in reducing :
            \/ \E text \in {"empty", "text"} : Reduced(w, text)
            \/ ReducerClaims(w) \/ ReducerStarts(w) \/ ReducerCompletes(w)
    BY <1>12 DEF ReducerStep
  <2>2. w.task \in Nodes
    BY DEF WorkflowTypeOK, Reduction
  <2> QED
    BY <2>1, <2>2, CallsAreAllowed
    DEF Reduced, ReducerClaims, ReducerStarts, ReducerCompletes
<1>13. CASE Beside
  BY <1>13, BesideIsAllowed
<1> QED
  BY <1>1, <1>2, <1>3, <1>4, <1>5, <1>6, <1>7, <1>8, <1>9, <1>10, <1>11, <1>12, <1>13
  DEF WorkflowNext

-----------------------------------------------------------------------------
(* Type correctness.                                                       *)

\* The variables of the workflow have their types at the start.
LEMMA InitWorkflowTypeOK == WorkflowInit => WorkflowTypeOK
BY DEF WorkflowInit, WorkflowTypeOK, Outputs, HandStates

\* A goroutine of the board that holds a task holds one of the tasks.
LEMMA HandTask ==
    ASSUME WorkflowTypeOK, NEW h \in Hands, hand[h] # Idle
    PROVE  /\ hand[h].task \in Nodes
           /\ hand[h].at \in Steps
BY DEF WorkflowTypeOK, HandStates

\* What the steps at a hand leave in it.
LEMMA HandType ==
    ASSUME WorkflowTypeOK, NEW h \in Hands, NEW n \in Nodes,
           NEW step \in Steps,
           hand' = [hand EXCEPT ![h] = Idle] \/ hand' = [hand EXCEPT ![h] = At(step, n)]
    PROVE  hand' \in [Hands -> HandStates]
<1>1. Idle \in HandStates /\ At(step, n) \in HandStates
  BY DEF HandStates, At, Steps
<1> QED
  BY <1>1 DEF WorkflowTypeOK

\* The tracer's calls keep its maps.
LEMMA TracerTypes ==
    ASSUME WorkflowTypeOK, NEW n \in Nodes, NEW text \in {"empty", "text"},
           SetOutput(n, text) \/ Remove(n) \/ UNCHANGED tracerVars
    PROVE  /\ local' \in [Nodes -> Outputs \cup {"absent"}]
           /\ assigned' \in [Nodes -> Outputs \cup {"absent"}]
BY DEF WorkflowTypeOK, SetOutput, Remove, tracerVars, Outputs

\* The variables of the workflow keep their types.
LEMMA NextWorkflowTypeOK == TypeOK /\ WorkflowTypeOK /\ [WorkflowNext]_allVars => WorkflowTypeOK'
<1> SUFFICES ASSUME TypeOK, WorkflowTypeOK, [WorkflowNext]_allVars
             PROVE  WorkflowTypeOK'
  OBVIOUS
<1> USE WorkflowAssumption, ChannelAssumption
<1>1. ASSUME NEW p \in Plans, NEW d \in Dags[p], PlanTask(p, d) PROVE WorkflowTypeOK'
  BY <1>1 DEF PlanTask, Import, WorkflowTypeOK, boardVars, busVars, executorVars,
     reducerVars, Outputs
<1>2. CASE UNCHANGED flowVars
  BY <1>2 DEF WorkflowTypeOK, flowVars, tracerVars, boardVars, busVars, executorVars,
     reducerVars
<1>3. CASE TakeReady \/ TakeReopened
  <2>1. CASE TakeReady
    <3> DEFINE n == Head(readyCh[Board])
    <3>1. readyCh[Board] \in Seq(Nodes) /\ readyCh[Board] # <<>>
      BY <2>1 DEF TakeReady, ReceiveReady, TypeOK
    <3>2. n \in Nodes /\ "ready" \in Hands /\ "putup" \in Steps
      BY <3>1 DEF Hands, Steps
    <3>3. hand' = [hand EXCEPT !["ready"] = At("putup", n)]
      BY <2>1 DEF TakeReady, Take
    <3> HIDE DEF n
    <3>4. hand' \in [Hands -> HandStates]
      BY <3>2, <3>3, HandType
    <3> QED
      BY <2>1, <3>4 DEF TakeReady, WorkflowTypeOK, tracerVars, busVars, executorVars,
         reducerVars
  <2>2. CASE TakeReopened
    <3> DEFINE n == Head(reopenedCh)
    <3>1. reopenedCh \in Seq(Nodes) /\ reopenedCh # <<>>
      BY <2>2 DEF TakeReopened, ReceiveReopened, TypeOK
    <3>2. n \in Nodes /\ "reopened" \in Hands /\ "putup" \in Steps
      BY <3>1 DEF Hands, Steps
    <3>3. hand' = [hand EXCEPT !["reopened"] = At("putup", n)]
      BY <2>2 DEF TakeReopened, Take
    <3> HIDE DEF n
    <3>4. hand' \in [Hands -> HandStates]
      BY <3>2, <3>3, HandType
    <3> QED
      BY <2>2, <3>4 DEF TakeReopened, WorkflowTypeOK, tracerVars, busVars, executorVars,
         reducerVars
  <2> QED
    BY <1>3, <2>1, <2>2
<1>4. CASE Heartbeat
  <2>1. IsFiniteSet(Expired) /\ Expired \in SUBSET Nodes
    BY NodesAssumption, FS_Subset DEF Expired
  <2>2. beat' \in Seq(Nodes)
    BY <1>4, <2>1, OrdersType DEF Heartbeat
  <2> QED
    BY <1>4, <2>2 DEF Heartbeat, WorkflowTypeOK, tracerVars, busVars, executorVars,
       reducerVars
<1>5. CASE TakeExpired
  <2>1. Head(beat) \in Nodes /\ Tail(beat) \in Seq(Nodes)
    BY <1>5 DEF TakeExpired, WorkflowTypeOK
  <2>2. hand' \in [Hands -> HandStates]
    BY <1>5, <2>1, HandType DEF TakeExpired, Take, Hands, Steps
  <2> QED
    BY <1>5, <2>1, <2>2 DEF TakeExpired, WorkflowTypeOK, tracerVars, busVars, executorVars,
       reducerVars
<1>6. ASSUME NEW h \in Hands, BoardStep(h) PROVE WorkflowTypeOK'
  <2>1. hand[h].task \in Nodes
    BY <1>6, HandTask DEF BoardStep, Putup, Drawup, Handout, Interview, IsAt, Idle
  <2>2. hand' \in [Hands -> HandStates]
    BY <1>6, <2>1, HandType DEF BoardStep, Putup, Drawup, Handout, Interview, Steps
  <2>3. CASE Putup(h)
    BY <2>1, <2>2, <2>3 DEF Putup, WorkflowTypeOK, tracerVars, busVars, executorVars,
       reducerVars
  <2>4. CASE Drawup(h)
    BY <2>1, <2>2, <2>4 DEF Drawup, WorkflowTypeOK, tracerVars, busVars, executorVars,
       reducerVars
  <2>5. CASE Handout(h)
    BY <2>1, <2>2, <2>5 DEF Handout, WorkflowTypeOK, tracerVars, busVars, executorVars,
       reducerVars
  <2>6. CASE Interview(h)
    <3> DEFINE n == hand[h].task
    <3>1. \/ UNCHANGED <<assignedCh, bids, myAds>>
          \/ /\ assignedCh' = Offered(assignedCh, TopicLen, <<n>>)
             /\ bids' = [bids EXCEPT ![n] = 0]
             /\ myAds' = myAds \ {n}
      BY <2>6 DEF Interview
    <3>2. Offered(assignedCh, TopicLen, <<n>>) \in Seq(Nodes)
      BY <2>1, OfferedOne DEF WorkflowTypeOK
    <3>3. [bids EXCEPT ![n] = 0] \in [Nodes -> Nat] /\ myAds \ {n} \subseteq Nodes
      BY DEF WorkflowTypeOK
    <3>4. assignedCh' \in Seq(Nodes) /\ bids' \in [Nodes -> Nat] /\ myAds' \subseteq Nodes
      BY <3>1, <3>2, <3>3 DEF WorkflowTypeOK
    <3> QED
      BY <2>2, <2>6, <3>4 DEF Interview, WorkflowTypeOK, tracerVars, executorVars,
         reducerVars
  <2> QED
    BY <1>6, <2>3, <2>4, <2>5, <2>6 DEF BoardStep
<1>7. CASE Settle
  <2>1. Head(doneCh) \in Result /\ Tail(doneCh) \in Seq(Result)
    BY <1>7 DEF Settle, WorkflowTypeOK
  <2>2. /\ local' \in [Nodes -> Outputs \cup {"absent"}]
        /\ assigned' \in [Nodes -> Outputs \cup {"absent"}]
    BY <1>7, <2>1, TracerTypes DEF Settle, Result
  <2> QED
    BY <1>7, <2>1, <2>2 DEF Settle, WorkflowTypeOK, boardVars, executorVars, reducerVars
<1>8. ASSUME NEW r \in settling, Settled(r) PROVE WorkflowTypeOK'
  BY <1>8 DEF Settled, WorkflowTypeOK, tracerVars, boardVars, busVars, executorVars,
     reducerVars
<1>9. CASE TakeAssigned
  <2> DEFINE n == Head(assignedCh)
  <2>1. n \in Nodes /\ Tail(assignedCh) \in Seq(Nodes)
    BY <1>9 DEF TakeAssigned, WorkflowTypeOK
  <2>2. [task |-> n, no |-> assignments[n] + 1, at |-> "assigned"] \in Execution
    BY <2>1 DEF WorkflowTypeOK, Execution
  <2>3. executions' \subseteq Execution
    BY <1>9, <2>2 DEF TakeAssigned, WorkflowTypeOK
  <2>4. assignments' \in [Nodes -> Nat]
    BY <1>9, <2>1 DEF TakeAssigned, WorkflowTypeOK
  <2> QED
    BY <1>9, <2>1, <2>3, <2>4 DEF TakeAssigned, WorkflowTypeOK, tracerVars, boardVars,
       reducerVars
<1>10. ASSUME NEW n \in Nodes, ExecutionStep(n) PROVE WorkflowTypeOK'
  <2>1. PICK x \in executions :
            /\ x.task = n
            /\ Begin(x) \/ GenerateFails(x)
               \/ \E text \in {"empty", "text"} : Generated(x, text)
    BY <1>10 DEF ExecutionStep
  <2>2. x \in Execution
    BY DEF WorkflowTypeOK
  <2>3. CASE Begin(x)
    <3>1. [x EXCEPT !.at = "generating"] \in Execution
      BY <2>2 DEF Execution
    <3>2. executions' \subseteq Execution
      BY <2>3, <3>1 DEF Begin, WorkflowTypeOK
    <3>3. /\ local' \in [Nodes -> Outputs \cup {"absent"}]
          /\ assigned' \in [Nodes -> Outputs \cup {"absent"}]
      <4> DEFINE n0 == x.task
                 v == IF assigned[n0] = "absent" THEN "unset" ELSE assigned[n0]
                 u == IF local[n0] = "absent" THEN "absent" ELSE v
      <4>1. v \in Outputs \cup {"absent"} /\ u \in Outputs \cup {"absent"}
        BY <2>1 DEF WorkflowTypeOK, Outputs
      <4>2. \/ local' = local /\ assigned' = [assigned EXCEPT ![n0] = v]
            \/ /\ local' = [local EXCEPT ![n0] = "absent"]
               /\ assigned' = [assigned EXCEPT ![n0] = u]
        BY <2>3 DEF Begin
      <4>3. /\ local \in [Nodes -> Outputs \cup {"absent"}]
            /\ assigned \in [Nodes -> Outputs \cup {"absent"}]
        BY DEF WorkflowTypeOK
      <4>4. CASE local' = local /\ assigned' = [assigned EXCEPT ![n0] = v]
        <5> HIDE DEF v
        <5> QED
          BY <4>1, <4>3, <4>4
      <4>5. CASE /\ local' = [local EXCEPT ![n0] = "absent"]
                 /\ assigned' = [assigned EXCEPT ![n0] = u]
        <5> HIDE DEF u
        <5> QED
          BY <4>1, <4>3, <4>5
      <4> QED
        BY <4>2, <4>4, <4>5
    <3> QED
      BY <2>3, <3>2, <3>3 DEF Begin, WorkflowTypeOK, boardVars, busVars, reducerVars
  <2>4. CASE GenerateFails(x)
    <3>1. /\ local' \in [Nodes -> Outputs \cup {"absent"}]
          /\ assigned' \in [Nodes -> Outputs \cup {"absent"}]
      BY <2>1, <2>4, TracerTypes DEF GenerateFails
    <3> QED
      BY <2>4, <3>1 DEF GenerateFails, WorkflowTypeOK, boardVars, busVars, reducerVars
  <2>5. ASSUME NEW text \in {"empty", "text"}, Generated(x, text) PROVE WorkflowTypeOK'
    <3>1. [task |-> x.task, answer |-> text] \in Result
      BY <2>1 DEF Result
    <3>2. doneCh' \in Seq(Result)
      BY <2>5, <3>1, OfferedOne DEF Generated, WorkflowTypeOK
    <3>3. answers' \in [Nodes -> Outputs]
      BY <2>1, <2>5 DEF Generated, WorkflowTypeOK, Outputs
    <3> QED
      BY <2>5, <3>2, <3>3 DEF Generated, WorkflowTypeOK, tracerVars, boardVars, reducerVars
  <2> QED
    BY <2>1, <2>3, <2>4, <2>5
<1>11. CASE TakeReduce
  <2> DEFINE n == Head(readyCh[Reducer])
  <2>1. n \in Nodes
    BY <1>11 DEF TakeReduce, ReceiveReady, TypeOK
  <2>2. PlanOf[n] \in Plans
    BY <2>1, NodesAssumption
  <2>3. Combinable(PlanOf[n]) \subseteq Nodes
    BY <2>2 DEF Combinable, TypeOK, Dag
  <2>4. [task |-> n, at |-> "generating"] \in Reduction
    BY <2>1 DEF Reduction
  <2>5. combined' \in [Nodes -> SUBSET Nodes]
    <3>1. \/ combined' = [combined EXCEPT ![n] = Combinable(PlanOf[n])]
          \/ combined' = combined
      BY <1>11 DEF TakeReduce, reducerVars
    <3> QED
      BY <2>1, <2>3, <3>1 DEF WorkflowTypeOK
  <2>6. reducing' \subseteq Reduction /\ \A v, w \in reducing' : v = w
    BY <1>11, <2>4 DEF TakeReduce, reducerVars, WorkflowTypeOK
  <2>7. refused' \subseteq ReduceTasks
    BY <1>11 DEF TakeReduce, reducerVars, WorkflowTypeOK
  <2> QED
    BY <1>11, <2>5, <2>6, <2>7 DEF TakeReduce, WorkflowTypeOK, tracerVars, boardVars, busVars,
       executorVars
<1>12. CASE ReducerStep
  <2>1. PICK w \in reducing :
            \/ \E text \in {"empty", "text"} : Reduced(w, text)
            \/ ReducerClaims(w) \/ ReducerStarts(w) \/ ReducerCompletes(w)
    BY <1>12 DEF ReducerStep
  <2>2. w \in Reduction
    BY DEF WorkflowTypeOK
  <2>3. ASSUME NEW text \in {"empty", "text"}, Reduced(w, text) PROVE WorkflowTypeOK'
    <3>1. /\ local' \in [Nodes -> Outputs \cup {"absent"}]
          /\ assigned' \in [Nodes -> Outputs \cup {"absent"}]
      BY <2>2, <2>3, TracerTypes DEF Reduced, Reduction
    <3>2. answers' \in [Nodes -> Outputs]
      BY <2>2, <2>3 DEF Reduced, WorkflowTypeOK, Outputs, Reduction
    <3>3. [w EXCEPT !.at = "claiming"] \in Reduction
      BY <2>2 DEF Reduction
    <3> QED
      BY <2>3, <3>1, <3>2, <3>3 DEF Reduced, WorkflowTypeOK, boardVars, busVars,
         executorVars
  <2>4. CASE ReducerClaims(w) \/ ReducerStarts(w) \/ ReducerCompletes(w)
    <3>1. /\ [w EXCEPT !.at = "starting"] \in Reduction
          /\ [w EXCEPT !.at = "completing"] \in Reduction
      BY <2>2 DEF Reduction
    <3>2. reducing' \subseteq Reduction /\ \A v, u \in reducing' : v = u
      BY <2>4, <3>1 DEF ReducerClaims, ReducerStarts, ReducerCompletes
    <3> QED
      BY <2>4, <3>2 DEF ReducerClaims, ReducerStarts, ReducerCompletes, WorkflowTypeOK,
         tracerVars, boardVars, busVars, executorVars
  <2> QED
    BY <2>1, <2>3, <2>4
<1>13. CASE Beside
  BY <1>2, <1>13 DEF Beside
<1>14. CASE UNCHANGED allVars
  BY <1>2, <1>14 DEF allVars
<1>15. ASSUME NEW n \in Nodes, Announce(n) PROVE WorkflowTypeOK'
  BY <1>2, <1>15 DEF Announce
<1> QED
  BY <1>1, <1>3, <1>4, <1>5, <1>6, <1>7, <1>8, <1>9, <1>10, <1>11, <1>12, <1>13, <1>14,
     <1>15 DEF WorkflowNext

-----------------------------------------------------------------------------
(* The workflow is a user of the state manager.                            *)

\* The variables of the workflow, and those of its state manager, have their types
\* in every reachable state.
THEOREM WorkflowTypesHold == WorkflowSpec => [](TypeOK /\ WorkflowTypeOK)
<1>1. WorkflowInit => TypeOK /\ WorkflowTypeOK
  BY InitTypeOK, InitWorkflowTypeOK DEF WorkflowInit
<1>2. TypeOK /\ WorkflowTypeOK /\ [WorkflowNext]_allVars => (TypeOK /\ WorkflowTypeOK)'
  <2> SUFFICES ASSUME TypeOK, WorkflowTypeOK, [WorkflowNext]_allVars
               PROVE  (TypeOK /\ WorkflowTypeOK)'
    OBVIOUS
  <2>1. [Next]_tsmVars
    BY StepIsAllowed DEF allVars
  <2> QED
    BY <2>1, NextTypeOK, NextWorkflowTypeOK
<1> QED
  BY <1>1, <1>2, PTL DEF WorkflowSpec

\* Planner, board, executor and reducer together use the state manager as its
\* specification allows: every behaviour of the workflow is one of Spec, and
\* whatever is proved of Spec holds in the workflow.
THEOREM UsesStateManager == WorkflowSpec => Spec
<1>1. WorkflowInit => Init
  BY DEF WorkflowInit
<1>2. TypeOK /\ WorkflowTypeOK /\ [WorkflowNext]_allVars => [Next]_tsmVars
  BY StepIsAllowed DEF allVars
<1> QED
  BY <1>1, <1>2, WorkflowTypesHold, PTL DEF WorkflowSpec, Spec

\* So a plan that goes through the workflow is answered at most once, and truly.
THEOREM WorkflowAnswersOnce == WorkflowSpec => [](AtMostOneResult /\ ResultIsTruthful)
BY UsesStateManager, ResultIsUnique, ResultIsTrue, PTL

\* And it implements PlanExecution: what a requester sees of planner, board, executor,
\* reducer and state manager are tasks that finish once each, in the order of the graph
\* and not after their plan is over, and one result that is true.
THEOREM WorkflowImplements == WorkflowSpec => ImplementsPlanExecution
BY UsesStateManager, Implementation, PTL

-----------------------------------------------------------------------------
(* No task is executed twice.  From the moment it is drawn up, which happens *)
(* once, a task is at one place on its way to the executor, or was lost on  *)
(* it: a goroutine of the board, the channel, or assigned for good.         *)

Bidding(h, n) == hand[h].at \in {"bid", "interview"} /\ hand[h].task = n

OnceInv ==
    /\ \A n \in Nodes \ peerAds :
           /\ \A h \in Hands : ~Bidding(h, n)
           /\ ~In(n, assignedCh) /\ assignments[n] = 0
    /\ \A h \in Hands, n \in Nodes : Bidding(h, n) =>
           /\ ~In(n, assignedCh) /\ assignments[n] = 0
           /\ \A g \in Hands : Bidding(g, n) => g = h
    /\ \A i, j \in DOMAIN assignedCh : assignedCh[i] = assignedCh[j] => i = j
    /\ \A i \in DOMAIN assignedCh : assignments[assignedCh[i]] = 0
    /\ \A x \in executions : assignments[x.task] = 1
    /\ ExecutedOnce

\* Publishing one message appends it or drops it.
LEMMA OfferedShape ==
    ASSUME NEW T, NEW ch \in Seq(T), NEW m \in T, NEW cap \in Nat,
           NEW new, new = Offered(ch, cap, <<m>>)
    PROVE  \/ new = ch
           \/ /\ DOMAIN new = 1 .. Len(ch) + 1 /\ DOMAIN ch = 1 .. Len(ch)
              /\ Len(ch) \in Nat
              /\ \A i \in 1 .. Len(ch) : new[i] = ch[i]
              /\ new[Len(ch) + 1] = m
<1>1. CASE Len(ch) >= cap
  BY <1>1 DEF Offered
<1>2. CASE Len(ch) < cap
  <2> DEFINE part == SubSeq(<<m>>, 1, 1)
  <2>1. new = ch \o part
    <3> DEFINE k == IF cap - Len(ch) <= Len(<<m>>) THEN cap - Len(ch) ELSE Len(<<m>>)
    <3>1. k = 1
      BY <1>2
    <3>2. new = ch \o SubSeq(<<m>>, 1, k)
      BY <1>2 DEF Offered
    <3> QED
      BY <3>1, <3>2
  <2>2. part \in Seq(T) /\ Len(part) = 1 /\ part[1] = m
    <3>1. \A t \in Seq(T) : Len(t) = 1 =>
              /\ SubSeq(t, 1, 1) \in Seq(T)
              /\ Len(SubSeq(t, 1, 1)) = 1 /\ SubSeq(t, 1, 1)[1] = t[1]
      OBVIOUS
    <3>2. <<m>> \in Seq(T) /\ Len(<<m>>) = 1 /\ <<m>>[1] = m
      OBVIOUS
    <3> QED
      BY <3>1, <3>2
  <2> HIDE DEF part
  <2>3. /\ new \in Seq(T)
        /\ Len(new) = Len(ch) + Len(part)
        /\ \A i \in 1 .. Len(ch) + Len(part) :
               new[i] = IF i <= Len(ch) THEN ch[i] ELSE part[i - Len(ch)]
    <3>1. /\ ch \o part \in Seq(T)
          /\ Len(ch \o part) = Len(ch) + Len(part)
          /\ \A i \in 1 .. Len(ch) + Len(part) :
                 (ch \o part)[i] = IF i <= Len(ch) THEN ch[i] ELSE part[i - Len(ch)]
      BY <2>2, ConcatProperties
    <3> QED
      BY <2>1, <3>1
  <2>4. Len(ch) \in Nat /\ DOMAIN ch = 1 .. Len(ch) /\ DOMAIN new = 1 .. Len(ch) + 1
    BY <2>2, <2>3
  <2>5. \A i \in 1 .. Len(ch) : new[i] = ch[i]
    BY <2>2, <2>3, <2>4
  <2>6. new[Len(ch) + 1] = m
    BY <2>2, <2>3, <2>4
  <2> QED
    BY <2>4, <2>5, <2>6
<1> QED
  BY <1>1, <1>2

\* Steps that make no task that was not bid for one that is, and assign none, keep
\* the invariant.
LEMMA OthersKeepOnce ==
    ASSUME OnceInv, WorkflowTypeOK,
           \A g \in Hands, m \in Nodes : Bidding(g, m)' => Bidding(g, m),
           UNCHANGED <<peerAds, assignedCh, assignments>>,
           executions' \subseteq executions
    PROVE  OnceInv'
<1>1. \A m \in Nodes : In(m, assignedCh)' <=> In(m, assignedCh)
  BY DEF In
<1>2. /\ peerAds' = peerAds /\ assignedCh' = assignedCh /\ assignments' = assignments
      /\ \A x \in executions' : x \in executions
  OBVIOUS
<1>3. ExecutedOnce'
  BY <1>2 DEF OnceInv, ExecutedOnce
<1>4. \A x \in executions' : assignments'[x.task] = 1
  BY <1>2 DEF OnceInv
<1>5. \A m \in Nodes \ peerAds' :
          /\ \A g \in Hands : ~Bidding(g, m)'
          /\ ~In(m, assignedCh)' /\ assignments'[m] = 0
  BY <1>1, <1>2 DEF OnceInv
<1>6. \A g \in Hands, m \in Nodes : Bidding(g, m)' =>
          /\ ~In(m, assignedCh)' /\ assignments'[m] = 0
          /\ \A f \in Hands : Bidding(f, m)' => f = g
  BY <1>1, <1>2 DEF OnceInv
<1> QED
  BY <1>2, <1>3, <1>4, <1>5, <1>6 DEF OnceInv

\* What a goroutine of the board may bid for after a step of one of them.
LEMMA HandMoves ==
    ASSUME WorkflowTypeOK, NEW h \in Hands, NEW v,
           hand' = [hand EXCEPT ![h] = v]
    PROVE  \A g \in Hands, m \in Nodes : Bidding(g, m)' =>
               \/ g # h /\ Bidding(g, m)
               \/ g = h /\ v.at \in {"bid", "interview"} /\ v.task = m
<1>1. hand'[h] = v /\ \A g \in Hands : g # h => hand'[g] = hand[g]
  BY DEF WorkflowTypeOK
<1> QED
  BY <1>1 DEF Bidding

\* Taking a task up, and putting one down, keeps the invariant.
LEMMA HandsKeepOnce ==
    ASSUME OnceInv, WorkflowTypeOK, NEW h \in Hands, NEW v,
           hand' = [hand EXCEPT ![h] = v], v.at \notin {"bid", "interview"},
           UNCHANGED <<peerAds, assignedCh, assignments>>,
           executions' \subseteq executions
    PROVE  OnceInv'
<1>1. \A g \in Hands, m \in Nodes : Bidding(g, m)' => Bidding(g, m)
  BY HandMoves
<1> QED
  BY <1>1, OthersKeepOnce

\* The first drawing up of a task is where its way begins.
LEMMA DrawupKeepsOnce ==
    ASSUME OnceInv, WorkflowTypeOK, NEW h \in Hands, Drawup(h)
    PROVE  OnceInv'
<1> DEFINE n == hand[h].task
<1>0. n \in Nodes
  BY HandTask DEF Drawup, IsAt, Idle
<1>1. CASE n \in peerAds
  <2>1. hand' = [hand EXCEPT ![h] = Idle] /\ peerAds' = peerAds
    BY <1>1 DEF Drawup
  <2>2. Idle.at \notin {"bid", "interview"}
    BY DEF Idle
  <2> QED
    BY <2>1, <2>2, HandsKeepOnce DEF Drawup, busVars, executorVars
<1>2. CASE n \notin peerAds
  <2>1. /\ hand' = [hand EXCEPT ![h] = At("bid", n)] /\ peerAds' = peerAds \cup {n}
        /\ assignedCh' = assignedCh /\ assignments' = assignments
        /\ executions' = executions
    BY <1>2 DEF Drawup, busVars, executorVars
  <2>2. At("bid", n).at = "bid" /\ At("bid", n).task = n
    BY DEF At
  <2>3. \A g \in Hands, m \in Nodes :
            Bidding(g, m)' => (g # h /\ Bidding(g, m)) \/ (g = h /\ m = n)
    <3> DEFINE v == At("bid", n)
    <3>1. hand' = [hand EXCEPT ![h] = v] /\ v.task = n
      BY <2>1, <2>2
    <3> HIDE DEF v, n
    <3> QED
      BY <3>1, HandMoves
  <2>4. /\ \A g \in Hands : ~Bidding(g, n)
        /\ ~In(n, assignedCh) /\ assignments[n] = 0
    BY <1>0, <1>2 DEF OnceInv
  <2>5. \A m \in Nodes : In(m, assignedCh)' <=> In(m, assignedCh)
    BY <2>1 DEF In
  <2> HIDE DEF n
  <2>6. \A m \in Nodes \ peerAds' :
            /\ \A g \in Hands : ~Bidding(g, m)'
            /\ ~In(m, assignedCh)' /\ assignments'[m] = 0
    BY <2>1, <2>3, <2>5 DEF OnceInv
  <2>7. \A g \in Hands, m \in Nodes : Bidding(g, m)' =>
            /\ ~In(m, assignedCh)' /\ assignments'[m] = 0
            /\ \A f \in Hands : Bidding(f, m)' => f = g
    BY <2>1, <2>3, <2>4, <2>5 DEF OnceInv
  <2>8. ExecutedOnce' /\ \A x \in executions' : assignments'[x.task] = 1
    BY <2>1 DEF OnceInv, ExecutedOnce
  <2> QED
    BY <2>1, <2>6, <2>7, <2>8 DEF OnceInv
<1> QED
  BY <1>1, <1>2

\* The goroutine that bid for a task goes on to the interview, or drops it.
LEMMA HandoutKeepsOnce ==
    ASSUME OnceInv, WorkflowTypeOK, NEW h \in Hands, Handout(h)
    PROVE  OnceInv'
<1> DEFINE n == hand[h].task
<1>1. \E v \in {Idle, At("interview", n)} : hand' = [hand EXCEPT ![h] = v]
  BY DEF Handout
<1>2. PICK v \in {Idle, At("interview", n)} : hand' = [hand EXCEPT ![h] = v]
  BY <1>1
<1>3. Bidding(h, n)
  BY DEF Handout, IsAt, Bidding
<1>4. \/ v.at \notin {"bid", "interview"}
      \/ v.task = n
  BY DEF Idle, At
<1> HIDE DEF n
<1>5. \A g \in Hands, m \in Nodes : Bidding(g, m)' => Bidding(g, m)
  BY <1>2, <1>3, <1>4, HandMoves
<1> QED
  BY <1>5, OthersKeepOnce DEF Handout, busVars, executorVars

\* After the interview the task is in the executor's channel, if that has room.
LEMMA InterviewKeepsOnce ==
    ASSUME OnceInv, WorkflowTypeOK, NEW h \in Hands, Interview(h)
    PROVE  OnceInv'
<1> DEFINE n == hand[h].task
<1>0. n \in Nodes
  BY HandTask DEF Interview, IsAt, Idle
<1>1. /\ hand' = [hand EXCEPT ![h] = Idle] /\ peerAds' = peerAds
      /\ assignments' = assignments /\ executions' = executions
  BY DEF Interview, executorVars
<1>2. Idle.at \notin {"bid", "interview"}
  BY DEF Idle
<1>3. assignedCh' = assignedCh \/ assignedCh' = Offered(assignedCh, TopicLen, <<n>>)
  BY DEF Interview
<1>4. Bidding(h, n)
  BY DEF Interview, IsAt, Bidding
<1>5. CASE assignedCh' = assignedCh
  BY <1>1, <1>2, <1>5, HandsKeepOnce
<1>6. CASE assignedCh' # assignedCh
  <2> HIDE DEF n
  <2> DEFINE len == Len(assignedCh)
  <2>1. assignedCh \in Seq(Nodes) /\ TopicLen \in Nat
    BY ChannelAssumption DEF WorkflowTypeOK
  <2>2. /\ DOMAIN assignedCh' = 1 .. len + 1 /\ DOMAIN assignedCh = 1 .. len
        /\ len \in Nat
        /\ \A i \in 1 .. len : assignedCh'[i] = assignedCh[i]
        /\ assignedCh'[len + 1] = n
    BY <1>0, <1>3, <1>6, <2>1, OfferedShape
  <2>3. ~In(n, assignedCh) /\ assignments[n] = 0
    BY <1>0, <1>4 DEF OnceInv
  <2>4. n \in peerAds
    BY <1>0, <1>4 DEF OnceInv
  <2> HIDE DEF len
  <2>5. \A m \in Nodes : In(m, assignedCh)' => In(m, assignedCh) \/ m = n
    <3> SUFFICES ASSUME NEW m \in Nodes, NEW i \in DOMAIN assignedCh', assignedCh'[i] = m
                 PROVE  In(m, assignedCh) \/ m = n
      BY DEF In
    <3>1. i \in 1 .. len \/ i = len + 1
      BY <2>2
    <3> QED
      BY <2>2, <3>1 DEF In
  <2>6. \A g \in Hands, m \in Nodes : Bidding(g, m)' => Bidding(g, m) /\ m # n
    <3>1. \A g \in Hands, m \in Nodes : Bidding(g, m)' => g # h /\ Bidding(g, m)
      BY <1>1, <1>2, HandMoves
    <3>2. \A g \in Hands : Bidding(g, n) => g = h
      BY <1>0, <1>4 DEF OnceInv
    <3> QED
      BY <3>1, <3>2
  <2>7. \A i, j \in DOMAIN assignedCh' : assignedCh'[i] = assignedCh'[j] => i = j
    <3> SUFFICES ASSUME NEW i \in DOMAIN assignedCh', NEW j \in DOMAIN assignedCh',
                        assignedCh'[i] = assignedCh'[j]
                 PROVE  i = j
      OBVIOUS
    <3>1. \A k \in 1 .. len : assignedCh'[k] # n
      BY <2>2, <2>3 DEF In
    <3>2. (i \in 1 .. len \/ i = len + 1) /\ (j \in 1 .. len \/ j = len + 1)
      BY <2>2
    <3>3. CASE i \in 1 .. len /\ j \in 1 .. len
      <4>1. assignedCh[i] = assignedCh[j] /\ i \in DOMAIN assignedCh /\ j \in DOMAIN assignedCh
        BY <2>2, <3>3
      <4> QED
        BY <4>1 DEF OnceInv
    <3> QED
      BY <2>2, <3>1, <3>2, <3>3
  <2>8. \A i \in DOMAIN assignedCh' : assignments'[assignedCh'[i]] = 0
    <3> SUFFICES ASSUME NEW i \in DOMAIN assignedCh'
                 PROVE  assignments'[assignedCh'[i]] = 0
      OBVIOUS
    <3>1. i \in 1 .. len \/ i = len + 1
      BY <2>2
    <3> QED
      BY <1>1, <2>2, <2>3, <3>1 DEF OnceInv
  <2>9. \A m \in Nodes \ peerAds' :
            /\ \A g \in Hands : ~Bidding(g, m)'
            /\ ~In(m, assignedCh)' /\ assignments'[m] = 0
    BY <1>1, <2>4, <2>5, <2>6 DEF OnceInv
  <2>10. \A g \in Hands, m \in Nodes : Bidding(g, m)' =>
             /\ ~In(m, assignedCh)' /\ assignments'[m] = 0
             /\ \A f \in Hands : Bidding(f, m)' => f = g
    BY <1>1, <2>5, <2>6 DEF OnceInv
  <2>11. ExecutedOnce' /\ \A x \in executions' : assignments'[x.task] = 1
    BY <1>1 DEF OnceInv, ExecutedOnce
  <2> QED
    BY <2>7, <2>8, <2>9, <2>10, <2>11 DEF OnceInv
<1> QED
  BY <1>5, <1>6

\* The executor takes the oldest assignment, which leaves the channel for good.
LEMMA TakeAssignedKeepsOnce ==
    ASSUME OnceInv, WorkflowTypeOK, TakeAssigned
    PROVE  OnceInv'
<1> DEFINE n == Head(assignedCh)
           len == Len(assignedCh)
<1>1. /\ n = assignedCh[1] /\ n \in Nodes /\ len \in Nat /\ 1 \in DOMAIN assignedCh
      /\ DOMAIN assignedCh = 1 .. len /\ DOMAIN assignedCh' = 1 .. len - 1
      /\ \A i \in 1 .. len - 1 : assignedCh'[i] = assignedCh[i + 1]
  BY DEF TakeAssigned, WorkflowTypeOK
<1>2. /\ peerAds' = peerAds /\ hand' = hand
      /\ assignments' = [assignments EXCEPT ![n] = assignments[n] + 1]
  BY DEF TakeAssigned, boardVars
<1>3. executions' = executions \cup
          {[task |-> n, no |-> assignments[n] + 1, at |-> "assigned"]}
  BY DEF TakeAssigned
<1> HIDE DEF n, len
<1>4. In(n, assignedCh) /\ assignments[n] = 0
  BY <1>1 DEF In, OnceInv
<1>5. assignments'[n] = 1 /\ \A m \in Nodes : m # n => assignments'[m] = assignments[m]
  BY <1>1, <1>2, <1>4 DEF WorkflowTypeOK
<1>6. \A m \in Nodes : In(m, assignedCh)' => In(m, assignedCh) /\ m # n
  <2> SUFFICES ASSUME NEW m \in Nodes, NEW i \in 1 .. len - 1, assignedCh'[i] = m
               PROVE  In(m, assignedCh) /\ m # n
    BY <1>1 DEF In
  <2>1. i + 1 \in DOMAIN assignedCh /\ i + 1 # 1 /\ assignedCh[i + 1] = m
    BY <1>1
  <2> QED
    BY <1>1, <2>1 DEF OnceInv, In
<1>7. \A g \in Hands, m \in Nodes : Bidding(g, m)' => Bidding(g, m) /\ m # n
  BY <1>1, <1>2, <1>4 DEF Bidding, OnceInv
<1>8. \A x \in executions : x.task \in Nodes /\ x.task # n
  BY <1>4 DEF OnceInv, WorkflowTypeOK, Execution
<1>9. \A m \in Nodes \ peerAds' :
          /\ \A g \in Hands : ~Bidding(g, m)'
          /\ ~In(m, assignedCh)' /\ assignments'[m] = 0
  BY <1>1, <1>2, <1>4, <1>5, <1>6, <1>7 DEF OnceInv
<1>10. \A g \in Hands, m \in Nodes : Bidding(g, m)' =>
           /\ ~In(m, assignedCh)' /\ assignments'[m] = 0
           /\ \A f \in Hands : Bidding(f, m)' => f = g
  BY <1>5, <1>6, <1>7 DEF OnceInv
<1>11. \A i, j \in DOMAIN assignedCh' : assignedCh'[i] = assignedCh'[j] => i = j
  <2> SUFFICES ASSUME NEW i \in 1 .. len - 1, NEW j \in 1 .. len - 1,
                      assignedCh'[i] = assignedCh'[j]
               PROVE  i = j
    BY <1>1
  <2>1. /\ i + 1 \in DOMAIN assignedCh /\ j + 1 \in DOMAIN assignedCh
        /\ assignedCh[i + 1] = assignedCh[j + 1]
    BY <1>1
  <2>2. i + 1 = j + 1
    BY <2>1 DEF OnceInv
  <2> QED
    BY <1>1, <2>2
<1>12. \A i \in DOMAIN assignedCh' : assignments'[assignedCh'[i]] = 0
  <2> SUFFICES ASSUME NEW i \in 1 .. len - 1
               PROVE  assignments'[assignedCh'[i]] = 0
    BY <1>1
  <2>1. i + 1 \in DOMAIN assignedCh /\ i + 1 # 1 /\ assignedCh'[i] = assignedCh[i + 1]
    BY <1>1
  <2>2. assignedCh'[i] \in Nodes
    BY <2>1 DEF WorkflowTypeOK
  <2>3. assignedCh'[i] # n /\ assignments[assignedCh'[i]] = 0
    BY <1>1, <2>1 DEF OnceInv
  <2> QED
    BY <1>5, <2>2, <2>3
<1>13. \A x \in executions' : assignments'[x.task] = 1
  BY <1>3, <1>5, <1>8 DEF OnceInv
<1>14. ExecutedOnce'
  <2>1. \A m \in Nodes : assignments'[m] <= 1
    BY <1>5 DEF OnceInv, ExecutedOnce
  <2>2. \A x, y \in executions' : x.task = y.task => x = y
    BY <1>3, <1>8 DEF OnceInv, ExecutedOnce
  <2> QED
    BY <2>1, <2>2 DEF ExecutedOnce
<1> QED
  BY <1>9, <1>10, <1>11, <1>12, <1>13, <1>14 DEF OnceInv

\* Starting an execution changes what it is at, not whose it is.
LEMMA BeginKeepsOnce ==
    ASSUME OnceInv, WorkflowTypeOK, NEW x \in executions, Begin(x)
    PROVE  OnceInv'
<1>1. /\ peerAds' = peerAds /\ hand' = hand /\ assignedCh' = assignedCh
      /\ assignments' = assignments
  BY DEF Begin, boardVars, busVars
<1>2. PICK e : /\ e.task = x.task
               /\ executions' \subseteq (executions \ {x}) \cup {e}
  <2>1. [x EXCEPT !.at = "generating"].task = x.task
    BY DEF WorkflowTypeOK, Execution
  <2> QED
    BY <2>1 DEF Begin
<1>3. \A y \in executions' : assignments'[y.task] = 1
  BY <1>1, <1>2 DEF OnceInv
<1>4. ExecutedOnce'
  BY <1>1, <1>2 DEF OnceInv, ExecutedOnce
<1>5. /\ \A g \in Hands, m \in Nodes : Bidding(g, m)' <=> Bidding(g, m)
      /\ \A m \in Nodes : In(m, assignedCh)' <=> In(m, assignedCh)
  BY <1>1 DEF Bidding, In
<1> QED
  BY <1>1, <1>3, <1>4, <1>5 DEF OnceInv

\* Nothing is bid for or assigned at the start.
LEMMA InitOnceInv == WorkflowInit => OnceInv
BY DEF WorkflowInit, OnceInv, ExecutedOnce, Bidding, In, Idle

\* Every step keeps the invariant.
LEMMA NextOnceInv ==
    ASSUME WorkflowTypeOK, OnceInv, [WorkflowNext]_allVars
    PROVE  OnceInv'
<1>1. CASE UNCHANGED <<boardVars, busVars, executorVars>>
  <2>1. \A g \in Hands, m \in Nodes : Bidding(g, m)' => Bidding(g, m)
    BY <1>1 DEF Bidding, boardVars
  <2> QED
    BY <1>1, <2>1, OthersKeepOnce DEF boardVars, busVars, executorVars
<1>2. CASE TakeReady \/ TakeReopened \/ TakeExpired
  <2>1. PICK h \in Hands : \E m : hand' = [hand EXCEPT ![h] = At("putup", m)]
    BY <1>2 DEF TakeReady, TakeReopened, TakeExpired, Take, Hands
  <2>2. PICK m : hand' = [hand EXCEPT ![h] = At("putup", m)]
    BY <2>1
  <2>3. At("putup", m).at \notin {"bid", "interview"}
    BY DEF At
  <2>4. UNCHANGED <<peerAds, assignedCh, executions, assignments>>
    BY <1>2 DEF TakeReady, TakeReopened, TakeExpired, busVars, executorVars
  <2> QED
    BY <2>2, <2>3, <2>4, HandsKeepOnce
<1>3. CASE Heartbeat
  <2>1. hand' = hand /\ UNCHANGED <<peerAds, assignedCh, executions, assignments>>
    BY <1>3 DEF Heartbeat, busVars, executorVars
  <2>2. \A g \in Hands, m \in Nodes : Bidding(g, m)' => Bidding(g, m)
    BY <2>1 DEF Bidding
  <2> QED
    BY <2>1, <2>2, OthersKeepOnce
<1>4. ASSUME NEW h \in Hands, BoardStep(h) PROVE OnceInv'
  <2>1. CASE Putup(h)
    <3>1. PICK v : hand' = [hand EXCEPT ![h] = v] /\ v.at \notin {"bid", "interview"}
      <4>1. \/ hand' = [hand EXCEPT ![h] = Idle]
            \/ hand' = [hand EXCEPT ![h] = At("drawup", hand[h].task)]
        BY <2>1 DEF Putup
      <4>2. Idle.at = "idle" /\ At("drawup", hand[h].task).at = "drawup"
        BY DEF Idle, At
      <4> QED
        BY <4>1, <4>2
    <3> QED
      BY <2>1, <3>1, HandsKeepOnce DEF Putup, busVars, executorVars
  <2> QED
    BY <1>4, <2>1, DrawupKeepsOnce, HandoutKeepsOnce, InterviewKeepsOnce DEF BoardStep
<1>5. CASE Settle
  <2>1. UNCHANGED <<boardVars, assignedCh, executorVars>>
    BY <1>5 DEF Settle
  <2>2. \A g \in Hands, m \in Nodes : Bidding(g, m)' => Bidding(g, m)
    BY <2>1 DEF Bidding, boardVars
  <2> QED
    BY <2>1, <2>2, OthersKeepOnce DEF boardVars, executorVars
<1>6. CASE TakeAssigned
  BY <1>6, TakeAssignedKeepsOnce
<1>7. ASSUME NEW n \in Nodes, ExecutionStep(n) PROVE OnceInv'
  <2>1. PICK x \in executions :
            Begin(x) \/ GenerateFails(x) \/ \E text \in {"empty", "text"} : Generated(x, text)
    BY <1>7 DEF ExecutionStep
  <2>2. CASE GenerateFails(x) \/ \E text \in {"empty", "text"} : Generated(x, text)
    <3>1. UNCHANGED <<boardVars, assignedCh, assignments>> /\ executions' \subseteq executions
      BY <2>2 DEF GenerateFails, Generated, busVars
    <3>2. \A g \in Hands, m \in Nodes : Bidding(g, m)' => Bidding(g, m)
      BY <3>1 DEF Bidding, boardVars
    <3> QED
      BY <3>1, <3>2, OthersKeepOnce DEF boardVars
  <2> QED
    BY <2>1, <2>2, BeginKeepsOnce
<1>8. ASSUME NEW p \in Plans, NEW d \in Dags[p], PlanTask(p, d) PROVE OnceInv'
  BY <1>1, <1>8 DEF PlanTask
<1>9. ASSUME NEW n \in Nodes, Announce(n) PROVE OnceInv'
  BY <1>1, <1>9 DEF Announce, flowVars
<1>10. ASSUME NEW r \in settling, Settled(r) PROVE OnceInv'
  BY <1>1, <1>10 DEF Settled
<1>11. CASE TakeReduce \/ ReducerStep \/ Beside \/ UNCHANGED allVars
  BY <1>1, <1>11 DEF TakeReduce, ReducerStep, Reduced, ReducerClaims, ReducerStarts,
     ReducerCompletes, Beside, allVars, flowVars
<1> QED
  BY <1>2, <1>3, <1>4, <1>5, <1>6, <1>7, <1>8, <1>9, <1>10, <1>11 DEF WorkflowNext

\* In every reachable state a task is at one place on its way.
LEMMA OnceHolds == WorkflowSpec => []OnceInv
<1>1. WorkflowTypeOK /\ OnceInv /\ [WorkflowNext]_allVars => OnceInv'
  BY NextOnceInv
<1> QED
  BY <1>1, InitOnceInv, WorkflowTypesHold, PTL DEF WorkflowSpec

\* The executor never gets a task a second time, however often the task is
\* offered: when it gets ready, when its lease ends, by the heartbeat.
THEOREM AssignedOnce == WorkflowSpec => []ExecutedOnce
<1>1. OnceInv => ExecutedOnce
  BY DEF OnceInv
<1> QED
  BY <1>1, OnceHolds, PTL

-----------------------------------------------------------------------------
(* What is announced is known.                                             *)

Known == UNION {dag[p].nodes : p \in plans}
Queued == unannounced \subseteq Known /\ \A w \in ReadyWatchers : readyCh[w] \in Seq(Known)

\* A sequence over a set is one over every larger set.
LEMMA SeqGrows ==
    ASSUME NEW S, NEW T, S \subseteq T, NEW s \in Seq(S)
    PROVE  s \in Seq(T)
OBVIOUS

\* Only roots of the plan that is ingested, and what a completed task made ready, are announced.
LEMMA NextQueued == IInv /\ Queued /\ [Next]_tsmVars => Queued'
<1> SUFFICES ASSUME IInv, Queued, [Next]_tsmVars PROVE Queued'
  OBVIOUS
<1>1. TypeOK
  BY DEF IInv
<1>2. CASE UNCHANGED <<plans, dag, unannounced, readyCh>>
  BY <1>2 DEF Queued, Known
<1>3. ASSUME NEW p \in Plans, NEW d \in Dags[p], Ingest(p, d) PROVE Queued'
  <2>1. plans' = plans \cup {p} /\ p \notin plans /\ readyCh' = readyCh
        /\ dag' = [dag EXCEPT ![p] = d] /\ unannounced' = unannounced \cup (d.roots \cap d.nodes)
    BY <1>3 DEF Ingest
  <2>2. Known' = Known \cup d.nodes
    BY <1>1, <2>1 DEF Known, TypeOK
  <2>3. \A w \in ReadyWatchers : readyCh'[w] \in Seq(Known')
    BY <2>1, <2>2, SeqGrows DEF Queued
  <2> QED
    BY <2>1, <2>2, <2>3 DEF Queued
<1>4. ASSUME NEW n \in Nodes, PublishRoot(n) PROVE Queued'
  <2>1. n \in Known /\ Known' = Known /\ unannounced' \subseteq unannounced
    BY <1>4 DEF PublishRoot, Queued, Known, planVars
  <2>2. \A w \in ReadyWatchers : readyCh'[w] = Offered(readyCh[w], TopicLen, <<n>>)
    BY <1>4 DEF PublishRoot
  <2>3. \A w \in ReadyWatchers : readyCh'[w] \in Seq(Known)
    BY <2>1, <2>2, OfferedOne, ChannelAssumption DEF Queued
  <2> QED
    BY <2>1, <2>3 DEF Queued
<1>5. ASSUME NEW n \in Nodes, Complete(n) PROVE Queued'
  <2>1. PlanOf[n] \in plans /\ dag[PlanOf[n]].nodes \subseteq Nodes
    <3>1. PlanOf[n] \in Plans /\ state[n] = "running"
      BY <1>5, NodesAssumption DEF Complete, CanComplete
    <3>2. n \in dag[PlanOf[n]].nodes
      BY <3>1 DEF IInv, PlansKnown
    <3> QED
      BY <1>1, <3>1, <3>2 DEF IInv, PlansKnown, NoDag, TypeOK, Dag
  <2>2. Freed(n) \in SUBSET Known /\ Freed(n) \in SUBSET Nodes
    BY <2>1 DEF Freed, Known
  <2>3. IsFiniteSet(Freed(n))
    BY <2>2, NodesAssumption, FS_Subset
  <2>4. PICK order \in Orders(Freed(n)) :
            readyCh' = [w \in ReadyWatchers |-> Offered(readyCh[w], TopicLen, order)]
    BY <1>5 DEF Complete
  <2>5. order \in Seq(Known)
    BY <2>2, <2>3, OrdersType
  <2>6. \A w \in ReadyWatchers : readyCh'[w] \in Seq(Known)
    BY <2>4, <2>5, OfferedType, ChannelAssumption DEF Queued
  <2>7. Known' = Known /\ unannounced' = unannounced
    BY <1>5 DEF Complete, Known
  <2> QED
    BY <2>6, <2>7 DEF Queued
<1>6. ASSUME NEW w \in ReadyWatchers, ReceiveReady(w) PROVE Queued'
  <2>1. Known' = Known /\ unannounced' = unannounced
    BY <1>6 DEF ReceiveReady, Known, planVars
  <2>2. readyCh[w] # <<>> /\ readyCh' = [readyCh EXCEPT ![w] = Tail(readyCh[w])]
    BY <1>6 DEF ReceiveReady
  <2>3. Tail(readyCh[w]) \in Seq(Known)
    BY <2>2 DEF Queued
  <2> QED
    BY <1>1, <2>1, <2>2, <2>3 DEF Queued, TypeOK
<1>7. ASSUME \/ \E n \in Nodes, peer \in Peers : Claim(n, peer)
             \/ \E w \in watchdogs : FireWatchdog(w) \/ EndWatchdog(w)
             \/ \E n \in Nodes : Start(n) \/ ReportFailure(n) \/ Abandon(n)
             \/ \E p \in Plans : Dispose(p) \/ DeadlineFires(p) \/ SendTimeout(p) \/ Hear(p)
             \/ ReceiveReopened \/ Tick \/ UNCHANGED tsmVars
      PROVE  UNCHANGED <<plans, dag, unannounced, readyCh>>
  BY <1>7 DEF Claim, FireWatchdog, EndWatchdog, Start, ReportFailure, Failed, Abandon, Dispose,
     DeadlineFires, SendTimeout, Hear, ReceiveReopened, Tick, tsmVars, planVars, chanVars
<1> QED
  BY <1>2, <1>3, <1>4, <1>5, <1>6, <1>7 DEF Next

\* In every reachable state what waits to be published, and to be received, is of some plan.
LEMMA QueuedHolds == Spec => []Queued
<1>1. Init => Queued
  BY DEF Init, Queued
<1> QED
  BY <1>1, NextQueued, InvariantHolds, PTL DEF Spec

-----------------------------------------------------------------------------
(* Which calls of the state manager complete a task.                       *)

NoneDone == \A m \in Nodes : state'[m] = "done" => state[m] = "done"

\* Claims and starts complete none, whether or not they succeed.
LEMMA CallsFinishNone ==
    ASSUME TypeOK, NEW n \in Nodes, NEW peer \in Peers, ClaimCall(n, peer) \/ StartCall(n)
    PROVE  NoneDone /\ Known' = Known
<1>1. CASE UNCHANGED tsmVars
  BY <1>1 DEF NoneDone, Known, tsmVars, nodeVars, planVars
<1>2. CASE Claim(n, peer)
  BY <1>2 DEF Claim, TypeOK, NoneDone, Known, planVars
<1>3. CASE Start(n)
  BY <1>3 DEF Start, TypeOK, NoneDone, Known, planVars
<1> QED
  BY <1>1, <1>2, <1>3 DEF ClaimCall, StartCall

\* Timers, requesters and the clock complete none.
LEMMA BesideFinishesNone ==
    ASSUME TypeOK, Beside
    PROVE  NoneDone /\ Known' = Known
<1>1. ASSUME NEW w \in watchdogs, FireWatchdog(w) PROVE NoneDone
  <2>1. w.node \in Nodes
    BY DEF TypeOK, Watchdog
  <2> QED
    BY <1>1, <2>1 DEF FireWatchdog, Reopen, TypeOK, NoneDone
<1>2. ASSUME NEW p \in Plans, DeadlineFires(p) PROVE NoneDone
  BY <1>2 DEF DeadlineFires, DisposeNodes, Disposed, TypeOK, NoneDone
<1>3. ASSUME (\E p \in Plans : SendTimeout(p) \/ Hear(p)) \/ Tick PROVE NoneDone
  BY <1>3 DEF SendTimeout, Hear, Tick, nodeVars, NoneDone
<1>4. plans' = plans /\ dag' = dag
  BY DEF Beside, FireWatchdog, DeadlineFires, SendTimeout, Hear, Tick, planVars
<1> QED
  BY <1>1, <1>2, <1>3, <1>4 DEF Beside, Known

\* Complete completes its task and no other.
LEMMA CompleteFinishesOne ==
    ASSUME TypeOK, NEW n \in Nodes, CompleteCall(n)
    PROVE  /\ \A m \in Nodes : state'[m] = "done" => state[m] = "done" \/ m = n
           /\ Known' = Known
<1>1. CASE UNCHANGED tsmVars
  BY <1>1 DEF Known, tsmVars, nodeVars, planVars
<1>2. CASE Complete(n)
  BY <1>2 DEF Complete, AfterDone, Known
<1> QED
  BY <1>1, <1>2 DEF CompleteCall

-----------------------------------------------------------------------------
(* The output of a task that is done.  The one execution that a task gets    *)
(* ends with one answer, or takes the task out of the tracer before it is    *)
(* done; so nothing writes over an output.                                   *)

Offering(h) == hand[h].at \in {"drawup", "bid", "interview"}

\* A result that is on its way: its execution has ended, with this answer.
Finished(r) ==
    /\ r.task \in Nodes \ ReduceTasks /\ assignments[r.task] = 1
    /\ \A x \in executions : x.task # r.task
    /\ answers[r.task] = r.answer /\ local[r.task] # "absent"

ResultsFinished ==
    /\ \A r \in Result : In(r, doneCh) => Finished(r)
    /\ \A r \in settling : Finished(r) /\ local[r.task] = r.answer
ExecutionsPending ==
    \A x \in executions :
        x.task \in Nodes \ ReduceTasks /\ local[x.task] # "absent" /\ state[x.task] # "done"
\* Only tasks for the executor are on the way to it, and none that the tracer has lost.
WayToExecutor ==
    /\ \A h \in Hands : Offering(h) => hand[h].task \in Nodes \ ReduceTasks
    /\ \A n \in Nodes : In(n, assignedCh) => n \notin ReduceTasks /\ local[n] # "absent"
DoneWasAssigned ==
    \A n \in Nodes \ ReduceTasks : state[n] = "done" => assignments[n] = 1
\* Nobody takes a reduce task out of the tracer.
ReducesTraced ==
    /\ \A n \in Known \cap ReduceTasks : local[n] # "absent"
    /\ \A w \in reducing :
           /\ w.task \in ReduceTasks /\ local[w.task] # "absent"
           /\ w.at # "generating" => local[w.task] = answers[w.task]
DoneIsStored == \A n \in Nodes : state[n] = "done" => local[n] = answers[n]

OutputInv ==
    /\ ResultsFinished /\ ExecutionsPending /\ WayToExecutor /\ DoneWasAssigned
    /\ ReducesTraced /\ DoneIsStored

\* Nothing is executed at the start.
LEMMA InitOutputInv == WorkflowInit => OutputInv
<1> SUFFICES ASSUME WorkflowInit PROVE OutputInv
  OBVIOUS
<1>1. \A h \in Hands : ~Offering(h)
  BY DEF WorkflowInit, Offering, Idle
<1>2. Known = {}
  BY DEF WorkflowInit, Init, Known
<1>3. /\ \A r \in Result : ~In(r, doneCh)
      /\ \A n \in Nodes : ~In(n, assignedCh) /\ state[n] # "done"
      /\ settling = {} /\ executions = {} /\ reducing = {}
  BY DEF WorkflowInit, Init, In
<1> QED
  BY <1>1, <1>2, <1>3 DEF OutputInv, ResultsFinished, ExecutionsPending, WayToExecutor,
     DoneWasAssigned, ReducesTraced, DoneIsStored

\* A task may be completed now: its answer is in the tracer, and it is not being executed.
Answered(n) ==
    /\ local[n] = answers[n] /\ \A x \in executions : x.task # n
    /\ n \notin ReduceTasks => assignments[n] = 1

\* Steps that answer nothing, take no assignment and take no task out of the tracer keep the
\* invariant, if they complete only what is answered and send to the executor only what is
\* for it.
LEMMA OthersKeepOutput ==
    ASSUME WorkflowTypeOK, OutputInv, UNCHANGED <<answers, assignments>>,
           \A n \in Nodes : state'[n] = "done" => state[n] = "done" \/ Answered(n),
           \A n \in Nodes : local[n] # "absent" => local'[n] = local[n],
           \A n \in Known' \cap ReduceTasks : n \in Known \/ local'[n] # "absent",
           \A x \in executions' : \E y \in executions : x.task = y.task,
           \A r \in Result : In(r, doneCh)' => In(r, doneCh),
           settling' \subseteq settling,
           \A n \in Nodes : In(n, assignedCh)' =>
               In(n, assignedCh) \/ (n \notin ReduceTasks /\ local[n] # "absent"),
           \A h \in Hands : Offering(h)' => hand'[h].task \in Nodes \ ReduceTasks,
           \A w \in reducing' :
               \/ \E v \in reducing : w.task = v.task /\ (w.at # "generating" => v.at # "generating")
               \/ w.task \in ReduceTasks \cap Known /\ w.at = "generating"
    PROVE  OutputInv'
<1> USE DEF OutputInv
<1>1. /\ \A n \in Nodes : answers[n] # "absent"
      /\ \A r \in settling : r \in Result /\ \A w \in reducing : w.task \in Nodes
      /\ \A r \in Result : r.task \in Nodes
  BY DEF WorkflowTypeOK, Outputs, Reduction, Result
<1>2. ASSUME NEW r \in Result, Finished(r) PROVE Finished(r)'
  <2>1. /\ assignments'[r.task] = assignments[r.task] /\ answers'[r.task] = answers[r.task]
        /\ r.task \in Nodes \ ReduceTasks
    BY <1>2 DEF Finished
  <2>2. local'[r.task] = local[r.task]
    BY <1>2, <2>1 DEF Finished
  <2>3. \A x \in executions' : x.task # r.task
    BY <1>2 DEF Finished
  <2> QED
    BY <1>2, <2>1, <2>2, <2>3 DEF Finished
<1>3. ResultsFinished'
  BY <1>1, <1>2 DEF ResultsFinished, Finished
<1>4. ExecutionsPending'
  BY DEF ExecutionsPending, Answered
<1>5. WayToExecutor' /\ DoneWasAssigned'
  BY DEF WayToExecutor, DoneWasAssigned, Answered
<1>6. ReducesTraced'
  <2>1. \A n \in Known' \cap ReduceTasks : local'[n] # "absent"
    BY WorkflowAssumption DEF ReducesTraced
  <2>2. \A w \in reducing : w.task \in Nodes /\ local'[w.task] = local[w.task]
    BY <1>1, WorkflowAssumption DEF ReducesTraced
  <2>3. \A n \in Known \cap ReduceTasks : n \in Nodes /\ local'[n] # "absent"
    BY WorkflowAssumption DEF ReducesTraced
  <2> QED
    BY <2>1, <2>2, <2>3 DEF ReducesTraced
<1>7. DoneIsStored'
  BY <1>1 DEF DoneIsStored, Answered
<1> QED
  BY <1>3, <1>4, <1>5, <1>6, <1>7

\* The planner's steps, and those of the board that assign nothing.
LEMMA OfferingKeepsOutput ==
    ASSUME TypeOK, TypeOK', WorkflowTypeOK, WorkflowTypeOK', OutputInv,
           \/ \E p \in Plans : \E d \in Dags[p] : PlanTask(p, d)
           \/ \E n \in Nodes : Announce(n)
           \/ TakeReady \/ TakeReopened \/ Heartbeat \/ TakeExpired
           \/ \E h \in Hands : Putup(h) \/ Drawup(h) \/ Handout(h)
    PROVE  OutputInv'
<1>1. ASSUME NEW p \in Plans, NEW d \in Dags[p], PlanTask(p, d) PROVE OutputInv'
  <2>1. /\ UNCHANGED <<answers, assignments, executions, doneCh, settling, assignedCh, hand,
                       reducing>>
        /\ Ingest(p, d) /\ Import(d.nodes)
    BY <1>1 DEF PlanTask, boardVars, busVars, executorVars, reducerVars
  <2>2. NoneDone
    BY <2>1 DEF Ingest, NoneDone
  <2>3. /\ \A n \in Nodes : local[n] # "absent" => local'[n] = local[n]
        /\ \A n \in d.nodes \cap Nodes : local'[n] # "absent"
    BY <2>1 DEF Import
  <2>4. Known' = Known \cup d.nodes
    <3>1. plans' = plans \cup {p} /\ p \notin plans /\ dag' = [dag EXCEPT ![p] = d]
      BY <2>1 DEF Ingest
    <3> QED
      BY <3>1 DEF Known, TypeOK
  <2>5. /\ \A r \in Result : In(r, doneCh)' => In(r, doneCh)
        /\ \A n \in Nodes : In(n, assignedCh)' => In(n, assignedCh)
        /\ \A h \in Hands : Offering(h)' => hand'[h].task \in Nodes \ ReduceTasks
    BY <2>1 DEF In, Offering, OutputInv, WayToExecutor
  <2>6. \A n \in Known' \cap ReduceTasks : n \in Known \/ local'[n] # "absent"
    BY <2>3, <2>4, WorkflowAssumption
  <2> QED
    BY <2>1, <2>2, <2>3, <2>5, <2>6, OthersKeepOutput DEF NoneDone
<1>2. CASE \/ \E n \in Nodes : Announce(n)
           \/ TakeReady \/ TakeReopened \/ Heartbeat \/ TakeExpired
           \/ \E h \in Hands : Putup(h) \/ Drawup(h) \/ Handout(h)
  <2>1. /\ UNCHANGED <<answers, assignments, executions, doneCh, settling, assignedCh, local,
                       reducing, state, plans, dag>>
    BY <1>2 DEF Announce, PublishRoot, TakeReady, ReceiveReady, TakeReopened, ReceiveReopened,
       Heartbeat, TakeExpired, Putup, Drawup, Handout, flowVars, tracerVars, boardVars, busVars,
       executorVars, reducerVars, tsmVars, nodeVars, planVars
  <2>2. \A h \in Hands : Offering(h)' => hand'[h].task \in Nodes \ ReduceTasks
    <3>1. CASE hand' = hand
      BY <3>1 DEF Offering, OutputInv, WayToExecutor
    <3>2. CASE \E h \in Hands, n \in Nodes : hand' = [hand EXCEPT ![h] = At("putup", n)]
      <4>1. \A n \in Nodes : At("putup", n).at = "putup"
        BY DEF At
      <4> QED
        BY <3>2, <4>1 DEF Offering, OutputInv, WayToExecutor, WorkflowTypeOK
    <3>3. ASSUME NEW h \in Hands, Putup(h) \/ Drawup(h) \/ Handout(h)
          PROVE  \A g \in Hands : Offering(g)' => hand'[g].task \in Nodes \ ReduceTasks
      <4> DEFINE n == hand[h].task
      <4>1. n \in Nodes
        BY <3>3, HandTask DEF Putup, Drawup, Handout, IsAt, Idle
      <4>2. \/ hand' = [hand EXCEPT ![h] = Idle]
            \/ /\ n \notin ReduceTasks
               /\ \E step \in Steps : hand' = [hand EXCEPT ![h] = At(step, n)]
        <5>1. CASE Putup(h)
          BY <5>1 DEF Putup, Steps
        <5>2. CASE Drawup(h) \/ Handout(h)
          <6>1. n \notin ReduceTasks
            BY <5>2 DEF Drawup, Handout, IsAt, Offering, OutputInv, WayToExecutor
          <6> QED
            BY <5>2, <6>1 DEF Drawup, Handout, Steps
        <5> QED
          BY <3>3, <5>1, <5>2
      <4>3. Idle.at = "idle" /\ \A step \in Steps : At(step, n).task = n
        BY DEF Idle, At
      <4> HIDE DEF n
      <4>4. PICK v : /\ hand' = [hand EXCEPT ![h] = v]
                     /\ v.at = "idle" \/ (v.task = n /\ n \notin ReduceTasks)
        BY <4>2, <4>3
      <4>5. hand'[h] = v /\ \A g \in Hands \ {h} : hand'[g] = hand[g]
        BY <4>4 DEF WorkflowTypeOK
      <4> QED
        BY <4>1, <4>4, <4>5 DEF Offering, OutputInv, WayToExecutor
    <3>4. CASE TakeReady \/ TakeReopened \/ TakeExpired
      <4>1. \A s \in Seq(Nodes) : s # <<>> => Head(s) \in Nodes
        OBVIOUS
      <4>2. \E h \in Hands, n \in Nodes : hand' = [hand EXCEPT ![h] = At("putup", n)]
        BY <3>4, <4>1, WorkflowAssumption
        DEF TakeReady, TakeReopened, TakeExpired, Take, Hands, ReceiveReady, ReceiveReopened,
            TypeOK, WorkflowTypeOK
      <4> QED
        BY <3>2, <4>2
    <3>5. CASE Heartbeat \/ \E n \in Nodes : Announce(n)
      BY <3>1, <3>5 DEF Heartbeat, Announce, flowVars, boardVars
    <3> QED
      BY <1>2, <3>3, <3>4, <3>5
  <2>3. NoneDone /\ Known' = Known
    BY <2>1 DEF NoneDone, Known
  <2>4. /\ \A r \in Result : In(r, doneCh)' => In(r, doneCh)
        /\ \A n \in Nodes : In(n, assignedCh)' => In(n, assignedCh)
    BY <2>1 DEF In
  <2> QED
    BY <2>1, <2>2, <2>3, <2>4, OthersKeepOutput DEF NoneDone
<1> QED
  BY <1>1, <1>2

\* An interview sends a task to the executor that the tracer still has.
LEMMA InterviewKeepsOutput ==
    ASSUME TypeOK, WorkflowTypeOK, OutputInv, NEW h \in Hands, Interview(h)
    PROVE  OutputInv'
<1> DEFINE n == hand[h].task
<1>1. n \in Nodes \ ReduceTasks
  BY DEF Interview, IsAt, Offering, OutputInv, WayToExecutor
<1>2. /\ hand' = [hand EXCEPT ![h] = Idle]
      /\ UNCHANGED <<answers, assignments, executions, doneCh, settling, local, reducing>>
  BY DEF Interview, tracerVars, executorVars, reducerVars
<1>3. NoneDone /\ Known' = Known
  <2>1. ClaimCall(n, Self) \/ UNCHANGED tsmVars
    BY DEF Interview
  <2>2. CASE UNCHANGED tsmVars
    BY <2>2 DEF NoneDone, Known, tsmVars, nodeVars, planVars
  <2> QED
    BY <1>1, <2>1, <2>2, CallsFinishNone, WorkflowAssumption
<1>4. \A m \in Nodes : In(m, assignedCh)' =>
          In(m, assignedCh) \/ (m \notin ReduceTasks /\ local[m] # "absent")
  <2>1. CASE assignedCh' = assignedCh
    BY <2>1 DEF In
  <2>2. CASE assignedCh' # assignedCh
    <3>1. local[n] # "absent" /\ assignedCh' = Offered(assignedCh, TopicLen, <<n>>)
      BY <2>2 DEF Interview
    <3> HIDE DEF n
    <3>2. assignedCh \in Seq(Nodes) /\ TopicLen \in Nat
      BY ChannelAssumption DEF WorkflowTypeOK
    <3>3. /\ DOMAIN assignedCh' = 1 .. Len(assignedCh) + 1
          /\ DOMAIN assignedCh = 1 .. Len(assignedCh)
          /\ Len(assignedCh) \in Nat
          /\ \A i \in 1 .. Len(assignedCh) : assignedCh'[i] = assignedCh[i]
          /\ assignedCh'[Len(assignedCh) + 1] = n
      BY <1>1, <2>2, <3>1, <3>2, OfferedShape
    <3>4. \A i \in DOMAIN assignedCh' :
              assignedCh'[i] = n \/ \E j \in DOMAIN assignedCh : assignedCh'[i] = assignedCh[j]
      BY <3>3
    <3> QED
      BY <1>1, <3>1, <3>4 DEF In
  <2> QED
    BY <2>1, <2>2
<1>5. \A g \in Hands : Offering(g)' => hand'[g].task \in Nodes \ ReduceTasks
  BY <1>2 DEF Offering, OutputInv, WayToExecutor, WorkflowTypeOK, Idle
<1>6. \A r \in Result : In(r, doneCh)' => In(r, doneCh)
  BY <1>2 DEF In
<1> QED
  BY <1>2, <1>3, <1>4, <1>5, <1>6, OthersKeepOutput DEF NoneDone

\* The state manager's calls that concern an answered task, and those that complete none.
LEMMA CallsKeepOutput ==
    ASSUME TypeOK, WorkflowTypeOK, OutputInv,
           \/ \E r \in settling : Settled(r)
           \/ \E w \in reducing : ReducerClaims(w) \/ ReducerStarts(w) \/ ReducerCompletes(w)
           \/ Beside
           \/ UNCHANGED allVars
    PROVE  OutputInv'
<1>1. /\ UNCHANGED <<answers, assignments, executions, doneCh, assignedCh, local, hand>>
      /\ settling' \subseteq settling
  BY DEF Settled, ReducerClaims, ReducerStarts, ReducerCompletes, Beside, allVars, flowVars,
     tracerVars, boardVars, busVars, executorVars, reducerVars
<1>2. /\ \A r \in settling : r.task \in Nodes
      /\ \A w \in reducing : w.task \in Nodes
  BY DEF WorkflowTypeOK, Result, Reduction
<1>3. /\ \A n \in Nodes : state'[n] = "done" => state[n] = "done" \/ Answered(n)
      /\ Known' = Known
  <2>1. ASSUME NEW r \in settling, Settled(r)
        PROVE  /\ \A n \in Nodes : state'[n] = "done" => state[n] = "done" \/ Answered(n)
               /\ Known' = Known
    <3>1. CompleteCall(r.task)
      BY <2>1 DEF Settled
    <3>2. Answered(r.task)
      BY DEF OutputInv, ResultsFinished, Finished, Answered
    <3> QED
      BY <1>2, <3>1, <3>2, CompleteFinishesOne
  <2>2. ASSUME NEW w \in reducing, ReducerClaims(w) \/ ReducerStarts(w)
        PROVE  NoneDone /\ Known' = Known
    BY <1>2, <2>2, CallsFinishNone, WorkflowAssumption DEF ReducerClaims, ReducerStarts
  <2>3. ASSUME NEW w \in reducing, ReducerCompletes(w)
        PROVE  /\ \A n \in Nodes : state'[n] = "done" => state[n] = "done" \/ Answered(n)
               /\ Known' = Known
    <3>1. CompleteCall(w.task) /\ w.at = "completing"
      BY <2>3 DEF ReducerCompletes
    <3>2. Answered(w.task)
      BY <3>1 DEF OutputInv, ReducesTraced, ExecutionsPending, Answered
    <3> QED
      BY <1>2, <3>1, <3>2, CompleteFinishesOne
  <2>4. CASE Beside
    BY <2>4, BesideFinishesNone DEF NoneDone
  <2>5. CASE UNCHANGED allVars
    BY <2>5 DEF allVars, tsmVars, nodeVars, planVars, Known
  <2> QED
    BY <2>1, <2>2, <2>3, <2>4, <2>5 DEF NoneDone
<1>4. \A w \in reducing' : \E v \in reducing :
          w.task = v.task /\ (w.at # "generating" => v.at # "generating")
  <2>1. ASSUME NEW v \in reducing, ReducerClaims(v) \/ ReducerStarts(v)
        PROVE  \A w \in reducing' : w.task = v.task /\ v.at # "generating"
    <3>1. v \in Reduction
      BY DEF WorkflowTypeOK
    <3>2. /\ [v EXCEPT !.at = "starting"].task = v.task
          /\ [v EXCEPT !.at = "completing"].task = v.task
      BY <3>1 DEF Reduction
    <3> QED
      BY <2>1, <3>2 DEF ReducerClaims, ReducerStarts
  <2>2. CASE \E v \in reducing : ReducerCompletes(v)
    BY <2>2 DEF ReducerCompletes
  <2>3. CASE (\E r \in settling : Settled(r)) \/ Beside \/ UNCHANGED allVars
    <3>1. reducing' = reducing
      BY <2>3 DEF Settled, Beside, allVars, flowVars, reducerVars
    <3> QED
      BY <3>1
  <2> QED
    BY <2>1, <2>2, <2>3
<1>5. /\ \A r \in Result : In(r, doneCh)' => In(r, doneCh)
      /\ \A n \in Nodes : In(n, assignedCh)' => In(n, assignedCh)
      /\ \A h \in Hands : Offering(h)' => hand'[h].task \in Nodes \ ReduceTasks
  BY <1>1 DEF In, Offering, OutputInv, WayToExecutor
<1> QED
  BY <1>1, <1>3, <1>4, <1>5, OthersKeepOutput

\* The reducer takes a task up that is known, and so in the tracer.
LEMMA TakeReduceKeepsOutput ==
    ASSUME TypeOK, Queued, WorkflowTypeOK, OutputInv, TakeReduce
    PROVE  OutputInv'
<1> DEFINE n == Head(readyCh[Reducer])
<1>1. n \in Known
  BY WorkflowAssumption DEF TakeReduce, ReceiveReady, Queued
<1>2. /\ UNCHANGED <<answers, assignments, executions, doneCh, settling, assignedCh, local, hand,
                     state, plans, dag>>
  BY DEF TakeReduce, ReceiveReady, nodeVars, planVars, tracerVars, boardVars, busVars,
     executorVars
<1>3. \A w \in reducing' : n \in ReduceTasks /\ w = [task |-> n, at |-> "generating"]
  BY DEF TakeReduce, reducerVars
<1> HIDE DEF n
<1>4. \A w \in reducing' : w.task \in ReduceTasks \cap Known /\ w.at = "generating"
  BY <1>1, <1>3
<1>5. Known' = Known
  BY <1>2 DEF Known
<1>6. /\ \A r \in Result : In(r, doneCh)' => In(r, doneCh)
      /\ \A m \in Nodes : In(m, assignedCh)' => In(m, assignedCh)
      /\ \A h \in Hands : Offering(h)' => hand'[h].task \in Nodes \ ReduceTasks
  BY <1>2 DEF In, Offering, OutputInv, WayToExecutor
<1> QED
  BY <1>2, <1>4, <1>5, <1>6, OthersKeepOutput

\* The oldest result is stored in the tracer; it is the answer to its task.
LEMMA SettleKeepsOutput ==
    ASSUME WorkflowTypeOK, OutputInv, Settle
    PROVE  OutputInv'
<1>1. PICK r \in Result :
          /\ r = Head(doneCh) /\ 1 \in DOMAIN doneCh /\ r = doneCh[1]
          /\ \A i \in DOMAIN doneCh' : i + 1 \in DOMAIN doneCh /\ doneCh'[i] = doneCh[i + 1]
  BY DEF Settle, WorkflowTypeOK
<1> DEFINE n == r.task
<1>2. In(r, doneCh) /\ \A s \in Result : In(s, doneCh)' => In(s, doneCh)
  BY <1>1 DEF In
<1>3. /\ n \in Nodes /\ r.answer = answers[n] /\ local[n] # "absent" /\ answers[n] # "absent"
      /\ Finished(r)
  BY <1>1, <1>2 DEF OutputInv, ResultsFinished, Finished, WorkflowTypeOK, Outputs
<1>4. /\ local' = [local EXCEPT ![n] = r.answer] /\ settling' = {r}
      /\ UNCHANGED <<answers, assignments, executions, assignedCh, hand, reducing, state, plans,
                     dag>>
  BY <1>1, <1>3 DEF Settle, SetOutput, tsmVars, nodeVars, planVars, boardVars, executorVars,
     reducerVars
<1> HIDE DEF n
<1>5. /\ \A m \in Nodes : local'[m] = IF m = n THEN answers[n] ELSE local[m]
      /\ \A m \in Nodes : local[m] # "absent" => local'[m] # "absent"
  BY <1>3, <1>4 DEF WorkflowTypeOK
<1>6. \A s \in Result : s.task \in Nodes /\ (Finished(s) => Finished(s)')
  BY <1>4, <1>5 DEF Finished, Result
<1>7. ResultsFinished'
  <2>1. Finished(r)' /\ local'[r.task] = r.answer
    BY <1>1, <1>3, <1>5, <1>6 DEF n
  <2> QED
    BY <1>2, <1>4, <1>6, <2>1 DEF OutputInv, ResultsFinished
<1>8. ExecutionsPending' /\ DoneWasAssigned'
  <2>1. UNCHANGED <<executions, state, assignments>>
    BY <1>4
  <2>2. ExecutionsPending'
    BY <1>5, <2>1 DEF OutputInv, ExecutionsPending
  <2> QED
    BY <2>1, <2>2 DEF OutputInv, DoneWasAssigned
<1>9. WayToExecutor'
  <2>1. /\ \A h \in Hands : hand'[h] = hand[h]
        /\ \A m \in Nodes : In(m, assignedCh)' <=> In(m, assignedCh)
    BY <1>4 DEF In
  <2> QED
    BY <1>5, <2>1 DEF OutputInv, WayToExecutor, Offering
<1>10. ReducesTraced'
  <2>1. Known' = Known /\ \A w \in reducing : w.task \in Nodes
    BY <1>4 DEF Known, WorkflowTypeOK, Reduction
  <2> QED
    BY <1>4, <1>5, <2>1, WorkflowAssumption DEF OutputInv, ReducesTraced
<1>11. DoneIsStored'
  BY <1>4, <1>5 DEF OutputInv, DoneIsStored
<1> QED
  BY <1>7, <1>8, <1>9, <1>10, <1>11 DEF OutputInv

\* A task that the executor takes up has not been assigned before; so it has no result yet.
LEMMA TakeAssignedKeepsOutput ==
    ASSUME WorkflowTypeOK, OnceInv, OutputInv, TakeAssigned
    PROVE  OutputInv'
<1> DEFINE n == Head(assignedCh)
           x == [task |-> n, no |-> assignments[n] + 1, at |-> "assigned"]
<1>1. /\ n \in Nodes /\ n = assignedCh[1] /\ 1 \in DOMAIN assignedCh
      /\ \A i \in DOMAIN assignedCh' :
             i + 1 \in DOMAIN assignedCh /\ assignedCh'[i] = assignedCh[i + 1]
  BY DEF TakeAssigned, WorkflowTypeOK
<1>2. In(n, assignedCh) /\ \A m \in Nodes : In(m, assignedCh)' => In(m, assignedCh)
  BY <1>1 DEF In
<1>3. /\ executions' = executions \cup {x}
      /\ assignments' = [assignments EXCEPT ![n] = assignments[n] + 1]
      /\ UNCHANGED <<answers, local, doneCh, settling, hand, reducing, state, plans, dag>>
  BY DEF TakeAssigned, tsmVars, nodeVars, planVars, tracerVars, boardVars, reducerVars
<1>4. x.task = n
  OBVIOUS
<1> HIDE DEF n, x
<1>5. assignments[n] = 0 /\ n \in Nodes \ ReduceTasks /\ local[n] # "absent" /\ state[n] # "done"
  <2>1. assignments[n] = 0
    BY <1>1 DEF OnceInv
  <2> QED
    BY <1>1, <1>2, <2>1 DEF OutputInv, WayToExecutor, DoneWasAssigned
<1>6. \A m \in Nodes : m # n => assignments'[m] = assignments[m]
  BY <1>3 DEF WorkflowTypeOK
<1>7. \A r \in Result : Finished(r) => Finished(r)'
  BY <1>3, <1>4, <1>5, <1>6 DEF Finished
<1>8. ResultsFinished'
  BY <1>3, <1>7 DEF OutputInv, ResultsFinished, In, WorkflowTypeOK
<1>9. ExecutionsPending' /\ DoneWasAssigned'
  BY <1>3, <1>4, <1>5, <1>6 DEF OutputInv, ExecutionsPending, DoneWasAssigned
<1>10. WayToExecutor'
  BY <1>2, <1>3 DEF OutputInv, WayToExecutor, Offering
<1>11. ReducesTraced' /\ DoneIsStored'
  BY <1>3 DEF OutputInv, ReducesTraced, DoneIsStored, Known
<1> QED
  BY <1>8, <1>9, <1>10, <1>11 DEF OutputInv

\* A task that is not executed after all is taken out of the tracer.  It was not done, and
\* has no result.
LEMMA DroppedKeepsOutput ==
    ASSUME WorkflowTypeOK, OnceInv, OutputInv, NEW x \in executions,
           executions' = executions \ {x}, local' = [local EXCEPT ![x.task] = "absent"],
           UNCHANGED <<answers, assignments, assignedCh, doneCh, settling, hand, reducing, state,
                       plans, dag>>
    PROVE  OutputInv'
<1> DEFINE n == x.task
<1>1. /\ n \in Nodes \ ReduceTasks /\ state[n] # "done" /\ assignments[n] = 1
      /\ \A y \in executions \ {x} : y.task # n
  BY DEF OutputInv, ExecutionsPending, OnceInv, ExecutedOnce
<1>2. ~In(n, assignedCh)
  BY <1>1 DEF In, OnceInv
<1>3. \A m \in Nodes : m # n => local'[m] = local[m]
  BY DEF WorkflowTypeOK
<1> HIDE DEF n
<1>4. \A r \in Result : r.task \in Nodes /\ (Finished(r) => Finished(r)' /\ r.task # n)
  BY <1>3 DEF Finished, Result, n
<1>5. ResultsFinished'
  BY <1>3, <1>4 DEF OutputInv, ResultsFinished, In, WorkflowTypeOK
<1>6. ExecutionsPending' /\ DoneWasAssigned'
  BY <1>1, <1>3 DEF OutputInv, ExecutionsPending, DoneWasAssigned
<1>7. WayToExecutor'
  <2>1. /\ \A m \in Nodes : In(m, assignedCh)' <=> In(m, assignedCh)
        /\ \A h \in Hands : Offering(h)' <=> Offering(h)
    BY DEF In, Offering
  <2> QED
    BY <1>2, <1>3, <2>1 DEF OutputInv, WayToExecutor
<1>8. ReducesTraced'
  <2>1. Known' = Known /\ \A w \in reducing : w.task \in Nodes
    BY DEF Known, WorkflowTypeOK, Reduction
  <2> QED
    BY <1>1, <1>3, <2>1, WorkflowAssumption DEF OutputInv, ReducesTraced
<1>9. DoneIsStored'
  BY <1>1, <1>3 DEF OutputInv, DoneIsStored
<1> QED
  BY <1>5, <1>6, <1>7, <1>8, <1>9 DEF OutputInv

\* The answer of the only execution of a task is its only answer.
LEMMA GeneratedKeepsOutput ==
    ASSUME WorkflowTypeOK, OnceInv, OutputInv, NEW x \in executions,
           NEW text \in {"empty", "text"}, Generated(x, text)
    PROVE  OutputInv'
<1> DEFINE n == x.task
           r == [task |-> n, answer |-> text]
<1>1. /\ n \in Nodes \ ReduceTasks /\ state[n] # "done" /\ assignments[n] = 1
      /\ local[n] # "absent" /\ \A y \in executions \ {x} : y.task # n
  BY DEF OutputInv, ExecutionsPending, OnceInv, ExecutedOnce
<1>2. /\ executions' = executions \ {x} /\ answers' = [answers EXCEPT ![n] = text]
      /\ doneCh' = Offered(doneCh, TopicLen, <<r>>)
      /\ UNCHANGED <<local, assignments, assignedCh, settling, hand, reducing, state, plans, dag>>
  BY DEF Generated, tsmVars, nodeVars, planVars, tracerVars, boardVars, reducerVars
<1>3. r \in Result /\ r.task = n /\ r.answer = text
  BY <1>1 DEF Result
<1> HIDE DEF r
<1>4. \A s \in Result : In(s, doneCh)' => In(s, doneCh) \/ s = r
  <2>1. doneCh \in Seq(Result) /\ TopicLen \in Nat
    BY ChannelAssumption DEF WorkflowTypeOK
  <2>2. \/ doneCh' = doneCh
        \/ /\ DOMAIN doneCh' = 1 .. Len(doneCh) + 1 /\ DOMAIN doneCh = 1 .. Len(doneCh)
           /\ Len(doneCh) \in Nat
           /\ \A i \in 1 .. Len(doneCh) : doneCh'[i] = doneCh[i]
           /\ doneCh'[Len(doneCh) + 1] = r
    BY <1>2, <1>3, <2>1, OfferedShape
  <2>3. \A i \in DOMAIN doneCh' :
            doneCh'[i] = r \/ \E j \in DOMAIN doneCh : doneCh'[i] = doneCh[j]
    BY <2>2
  <2> QED
    BY <2>3 DEF In
<1> HIDE DEF n
<1>5. /\ \A m \in Nodes : answers'[m] = IF m = n THEN text ELSE answers[m]
  BY <1>2 DEF WorkflowTypeOK
<1>6. \A s \in Result : s.task \in Nodes /\ (Finished(s) => Finished(s)' /\ s.task # n)
  BY <1>2, <1>5 DEF Finished, Result, n
<1>7. Finished(r)'
  BY <1>1, <1>2, <1>3, <1>5 DEF Finished
<1>8. ResultsFinished'
  BY <1>2, <1>4, <1>6, <1>7 DEF OutputInv, ResultsFinished, WorkflowTypeOK
<1>9. ExecutionsPending' /\ DoneWasAssigned'
  BY <1>2 DEF OutputInv, ExecutionsPending, DoneWasAssigned
<1>10. WayToExecutor'
  BY <1>2 DEF OutputInv, WayToExecutor, Offering, In
<1>11. ReducesTraced'
  <2>1. Known' = Known /\ \A w \in reducing : w.task \in Nodes
    BY <1>2 DEF Known, WorkflowTypeOK, Reduction
  <2> QED
    BY <1>1, <1>2, <1>5, <2>1, WorkflowAssumption DEF OutputInv, ReducesTraced
<1>12. DoneIsStored'
  BY <1>1, <1>2, <1>5 DEF OutputInv, DoneIsStored
<1> QED
  BY <1>8, <1>9, <1>10, <1>11, <1>12 DEF OutputInv

\* The executor starts the task, drops it, fails, or answers.
LEMMA ExecutionKeepsOutput ==
    ASSUME TypeOK, WorkflowTypeOK, OnceInv, OutputInv, NEW n \in Nodes, ExecutionStep(n)
    PROVE  OutputInv'
<1>1. PICK x \in executions :
          Begin(x) \/ GenerateFails(x) \/ \E text \in {"empty", "text"} : Generated(x, text)
  BY DEF ExecutionStep
<1>2. x \in Execution /\ x.task \in Nodes /\ local[x.task] # "absent"
  BY DEF WorkflowTypeOK, OutputInv, ExecutionsPending
<1>3. CASE Begin(x) /\ provided
  <2>1. /\ UNCHANGED <<answers, assignments, doneCh, settling, assignedCh, local, hand, reducing>>
        /\ executions' = (executions \ {x}) \cup {[x EXCEPT !.at = "generating"]}
        /\ StartCall(x.task)
    BY <1>3 DEF Begin, boardVars, busVars, reducerVars
  <2>2. [x EXCEPT !.at = "generating"].task = x.task
    BY <1>2 DEF Execution
  <2>3. \A y \in executions' : \E z \in executions : y.task = z.task
    BY <2>1, <2>2
  <2>4. NoneDone /\ Known' = Known
    BY <1>2, <2>1, CallsFinishNone, WorkflowAssumption
  <2>5. /\ \A r \in Result : In(r, doneCh)' => In(r, doneCh)
        /\ \A m \in Nodes : In(m, assignedCh)' => In(m, assignedCh)
        /\ \A h \in Hands : Offering(h)' => hand'[h].task \in Nodes \ ReduceTasks
    BY <2>1 DEF In, Offering, OutputInv, WayToExecutor
  <2> QED
    BY <2>1, <2>3, <2>4, <2>5, OthersKeepOutput DEF NoneDone
<1>4. CASE (Begin(x) /\ ~provided) \/ GenerateFails(x)
  <2>1. /\ executions' = executions \ {x} /\ local' = [local EXCEPT ![x.task] = "absent"]
        /\ UNCHANGED <<answers, assignments, assignedCh, doneCh, settling, hand, reducing, state,
                       plans, dag>>
    BY <1>2, <1>4 DEF Begin, GenerateFails, Remove, tsmVars, nodeVars, planVars, boardVars,
       busVars, reducerVars
  <2> QED
    BY <2>1, DroppedKeepsOutput
<1> QED
  BY <1>1, <1>3, <1>4, GeneratedKeepsOutput

\* The reducer stores what it takes for the answer.
LEMMA ReducedKeepsOutput ==
    ASSUME WorkflowTypeOK, OutputInv, NEW w \in reducing, NEW text \in {"empty", "text"},
           Reduced(w, text)
    PROVE  OutputInv'
<1> DEFINE n == w.task
<1>1. n \in Nodes /\ n \in ReduceTasks /\ local[n] # "absent" /\ w \in Reduction
  BY DEF OutputInv, ReducesTraced, WorkflowTypeOK, Reduction
<1>2. /\ local' = [local EXCEPT ![n] = text] /\ answers' = [answers EXCEPT ![n] = text]
      /\ UNCHANGED <<executions, assignments, assignedCh, doneCh, settling, hand, state, plans, dag>>
      /\ reducing' = {[w EXCEPT !.at = "claiming"]}
  BY <1>1 DEF Reduced, SetOutput, tsmVars, nodeVars, planVars, boardVars, busVars, executorVars
<1>3. [w EXCEPT !.at = "claiming"].task = n
  BY <1>1 DEF Reduction
<1> HIDE DEF n
<1>4. /\ local'[n] = text /\ answers'[n] = text /\ text # "absent"
      /\ \A m \in Nodes : m # n => local'[m] = local[m] /\ answers'[m] = answers[m]
  BY <1>1, <1>2 DEF WorkflowTypeOK
<1>5. \A r \in Result : r.task \in Nodes /\ (Finished(r) => Finished(r)' /\ r.task # n)
  BY <1>1, <1>2, <1>4 DEF Finished, Result
<1>6. ResultsFinished'
  BY <1>2, <1>4, <1>5 DEF OutputInv, ResultsFinished, In, WorkflowTypeOK
<1>7. ExecutionsPending' /\ DoneWasAssigned'
  BY <1>2, <1>4 DEF OutputInv, ExecutionsPending, DoneWasAssigned
<1>8. WayToExecutor'
  BY <1>2, <1>4 DEF OutputInv, WayToExecutor, Offering, In
<1>9. ReducesTraced'
  <2>1. Known' = Known
    BY <1>2 DEF Known
  <2> QED
    BY <1>1, <1>2, <1>3, <1>4, <2>1, WorkflowAssumption DEF OutputInv, ReducesTraced
<1>10. DoneIsStored'
  BY <1>2, <1>4 DEF OutputInv, DoneIsStored
<1> QED
  BY <1>6, <1>7, <1>8, <1>9, <1>10 DEF OutputInv

\* Every step keeps the invariant.
LEMMA NextOutputInv ==
    ASSUME TypeOK, TypeOK', WorkflowTypeOK, WorkflowTypeOK', Queued, OnceInv, OutputInv,
           [WorkflowNext]_allVars
    PROVE  OutputInv'
<1>1. ASSUME NEW h \in Hands, BoardStep(h) PROVE OutputInv'
  BY <1>1, OfferingKeepsOutput, InterviewKeepsOutput DEF BoardStep
<1>2. CASE ReducerStep
  BY <1>2, CallsKeepOutput, ReducedKeepsOutput DEF ReducerStep
<1> QED
  BY <1>1, <1>2, OfferingKeepsOutput, CallsKeepOutput, TakeReduceKeepsOutput,
     SettleKeepsOutput, TakeAssignedKeepsOutput, ExecutionKeepsOutput DEF WorkflowNext

\* In every reachable state results, executions and outputs agree.
LEMMA OutputHolds == WorkflowSpec => []OutputInv
<1>1. WorkflowInit => OutputInv
  BY InitOutputInv
<1>2. /\ TypeOK /\ WorkflowTypeOK /\ (TypeOK /\ WorkflowTypeOK)'
      /\ Queued /\ OnceInv /\ OutputInv /\ [WorkflowNext]_allVars
      => OutputInv'
  BY NextOutputInv
<1> QED
  BY <1>1, <1>2, WorkflowTypesHold, UsesStateManager, QueuedHolds, OnceHolds, PTL
  DEF WorkflowSpec

-----------------------------------------------------------------------------
(* What is done was answered, and what goes into the last task of a plan   *)
(* are the answers to all the others.                                      *)

OthersDone(n) == \A m \in dag[PlanOf[n]].nodes \ ReduceTasks : state[m] = "done"

\* When all that the last task depends on is done, so is every task before it.
LEMMA LastWhenFree ==
    ASSUME IInv, ReductionsComeLast, NEW n \in ReduceTasks, state[n] # "absent",
           \A m \in Preds(n) : state[m] = "done"
    PROVE  OthersDone(n)
<1>0. n \in Nodes
  BY WorkflowAssumption
<1> DEFINE p == PlanOf[n]
           d == dag[p]
           S == {m \in d.nodes : state[m] = "done"}
<1>1. p \in Plans /\ n \in d.nodes
  BY <1>0, NodesAssumption DEF IInv, PlansKnown
<1>2. d \in Dags[p]
  BY <1>1 DEF IInv, PlansKnown, NoDag
<1>3. d.nodes \subseteq Nodes /\ \A m \in d.nodes : PlanOf[m] = p
  BY <1>1, <1>2, DagTypes DEF Dag
<1>4. S \in SUBSET d.nodes
  OBVIOUS
<1>5. PredsIn(d, n) \subseteq S
  BY DEF Preds, PredsIn
<1>6. ASSUME NEW m \in S PROVE PredsIn(d, m) \subseteq S
  <2>1. m \in Nodes /\ PlanOf[m] = p /\ state[m] = "done"
    BY <1>3
  <2>2. \A q \in PredsIn(d, m) : state[q] = "done"
    BY <2>1 DEF IInv, DependenciesFirst, Preds
  <2> QED
    BY <2>2 DEF PredsIn
<1>7. EverythingLeadsTo(d, n)
  BY <1>1, <1>2 DEF ReductionsComeLast
<1>8. d.nodes \ {n} \subseteq S
  <2> HIDE DEF S, d
  <2> QED
    BY <1>4, <1>5, <1>6, <1>7 DEF EverythingLeadsTo
<1> QED
  BY <1>8 DEF OthersDone

\* The model's answers, and what of them goes into a reduction.
AnsweredInv ==
    /\ \A n \in Nodes : state[n] = "done" => answers[n] # "unset"
    /\ \A w \in reducing : w.at # "generating" => answers[w.task] # "unset"
ReducesAll(n) ==
    /\ OthersDone(n)
    /\ \A m \in dag[PlanOf[n]].nodes \ ReduceTasks : m \in combined[n] <=> answers[m] = "text"
AnswersInv ==
    \A w \in reducing : state[w.task] # "absent" /\ ReducesAll(w.task)

\* A task is completed with the result of its execution, or by the reducer.
LEMMA OnlyAnsweredFinishes ==
    ASSUME TypeOK, WorkflowTypeOK, OutputInv, [WorkflowNext]_allVars,
           NEW n \in Nodes, state'[n] = "done", state[n] # "done"
    PROVE  \/ \E r \in settling : r.task = n
           \/ \E w \in reducing : w.at = "completing" /\ w.task = n
<1>1. ASSUME NEW p \in Plans, NEW d \in Dags[p], PlanTask(p, d) PROVE FALSE
  BY <1>1 DEF PlanTask, Ingest
<1>2. ASSUME state' = state PROVE FALSE
  BY <1>2
<1>3. ASSUME NoneDone PROVE FALSE
  BY <1>3 DEF NoneDone
<1>4. CASE (\E m \in Nodes : Announce(m)) \/ TakeReady \/ TakeReopened \/ Heartbeat \/ TakeExpired
  BY <1>2, <1>4 DEF Announce, PublishRoot, TakeReady, ReceiveReady, TakeReopened,
     ReceiveReopened, Heartbeat, TakeExpired, tsmVars, nodeVars
<1>5. ASSUME NEW h \in Hands, BoardStep(h) PROVE FALSE
  <2>1. CASE Putup(h) \/ Drawup(h) \/ Handout(h)
    BY <1>2, <2>1 DEF Putup, Drawup, Handout, tsmVars, nodeVars
  <2>2. CASE Interview(h)
    <3>1. hand[h].task \in Nodes
      BY <2>2, HandTask DEF Interview, IsAt, Idle
    <3>2. ClaimCall(hand[h].task, Self) \/ UNCHANGED tsmVars
      BY <2>2 DEF Interview
    <3> QED
      BY <1>2, <1>3, <3>1, <3>2, CallsFinishNone, WorkflowAssumption DEF tsmVars, nodeVars
  <2> QED
    BY <1>5, <2>1, <2>2 DEF BoardStep
<1>6. CASE Settle \/ TakeAssigned \/ UNCHANGED allVars
  BY <1>2, <1>6 DEF Settle, TakeAssigned, allVars, tsmVars, nodeVars
<1>7. ASSUME NEW r \in settling, Settled(r) PROVE r.task = n
  <2>1. r.task \in Nodes /\ CompleteCall(r.task)
    BY <1>7 DEF Settled, WorkflowTypeOK, Result
  <2> QED
    BY <2>1, CompleteFinishesOne
<1>8. ASSUME NEW m \in Nodes, ExecutionStep(m) PROVE FALSE
  <2>1. PICK x \in executions :
            Begin(x) \/ GenerateFails(x) \/ \E text \in {"empty", "text"} : Generated(x, text)
    BY <1>8 DEF ExecutionStep
  <2>2. x.task \in Nodes
    BY DEF WorkflowTypeOK, Execution
  <2>3. StartCall(x.task) \/ UNCHANGED tsmVars
    BY <2>1 DEF Begin, GenerateFails, Generated
  <2> QED
    BY <1>2, <1>3, <2>2, <2>3, CallsFinishNone, WorkflowAssumption DEF tsmVars, nodeVars
<1>9. CASE TakeReduce
  BY <1>2, <1>9 DEF TakeReduce, ReceiveReady, nodeVars
<1>10. CASE ReducerStep
  <2>1. PICK w \in reducing :
            \/ \E text \in {"empty", "text"} : Reduced(w, text)
            \/ ReducerClaims(w) \/ ReducerStarts(w) \/ ReducerCompletes(w)
    BY <1>10 DEF ReducerStep
  <2>2. w.task \in Nodes
    BY DEF WorkflowTypeOK, Reduction
  <2>3. CASE ReducerCompletes(w)
    <3>1. w.at = "completing" /\ CompleteCall(w.task)
      BY <2>3 DEF ReducerCompletes
    <3>2. w.task = n
      BY <2>2, <3>1, CompleteFinishesOne
    <3> QED
      BY <3>1, <3>2
  <2>4. CASE ReducerClaims(w) \/ ReducerStarts(w)
    BY <1>3, <2>2, <2>4, CallsFinishNone, WorkflowAssumption DEF ReducerClaims, ReducerStarts
  <2>5. CASE \E text \in {"empty", "text"} : Reduced(w, text)
    BY <1>2, <2>5 DEF Reduced, tsmVars, nodeVars
  <2> QED
    BY <2>1, <2>3, <2>4, <2>5
<1>11. CASE Beside
  BY <1>3, <1>11, BesideFinishesNone
<1> QED
  BY <1>1, <1>4, <1>5, <1>6, <1>7, <1>8, <1>9, <1>10, <1>11 DEF WorkflowNext

\* The answer to a task that is done, and not for the reducer, stays; and nothing is unanswered.
LEMMA AnswersStay ==
    ASSUME WorkflowTypeOK, OutputInv, [WorkflowNext]_allVars, NEW n \in Nodes
    PROVE  /\ n \notin ReduceTasks /\ state[n] = "done" => answers'[n] = answers[n]
           /\ answers[n] # "unset" => answers'[n] # "unset"
<1>1. CASE UNCHANGED answers
  BY <1>1
<1>2. ASSUME NEW x \in executions, NEW text \in {"empty", "text"}, Generated(x, text)
      PROVE  /\ state[n] = "done" => answers'[n] = answers[n]
             /\ answers[n] # "unset" => answers'[n] # "unset"
  <2>1. state[x.task] # "done" /\ answers' = [answers EXCEPT ![x.task] = text]
    BY <1>2 DEF OutputInv, ExecutionsPending, Generated
  <2> QED
    BY <2>1 DEF WorkflowTypeOK
<1>3. ASSUME NEW w \in reducing, NEW text \in {"empty", "text"}, Reduced(w, text)
      PROVE  /\ n \notin ReduceTasks => answers'[n] = answers[n]
             /\ answers[n] # "unset" => answers'[n] # "unset"
  <2>1. w.task \in ReduceTasks /\ answers' = [answers EXCEPT ![w.task] = text]
    BY <1>3 DEF OutputInv, ReducesTraced, Reduced
  <2> QED
    BY <2>1 DEF WorkflowTypeOK
<1>4. ASSUME NEW m \in Nodes, ExecutionStep(m)
      PROVE  \/ UNCHANGED answers
             \/ \E x \in executions, text \in {"empty", "text"} : Generated(x, text)
  BY <1>4 DEF ExecutionStep, Begin, GenerateFails
<1>5. ASSUME ReducerStep
      PROVE  \/ UNCHANGED answers
             \/ \E w \in reducing, text \in {"empty", "text"} : Reduced(w, text)
  BY <1>5 DEF ReducerStep, ReducerClaims, ReducerStarts, ReducerCompletes
<1>6. ASSUME NEW h \in Hands, BoardStep(h) PROVE UNCHANGED answers
  BY <1>6 DEF BoardStep, Putup, Drawup, Handout, Interview
<1>7. CASE \/ \E p \in Plans : \E d \in Dags[p] : PlanTask(p, d)
           \/ \E m \in Nodes : Announce(m)
           \/ TakeReady \/ TakeReopened \/ Heartbeat \/ TakeExpired
           \/ Settle \/ (\E r \in settling : Settled(r)) \/ TakeAssigned
           \/ TakeReduce \/ Beside \/ UNCHANGED allVars
  BY <1>1, <1>7 DEF PlanTask, Announce, TakeReady, TakeReopened, Heartbeat, TakeExpired, Settle,
     Settled, TakeAssigned, TakeReduce, Beside, flowVars, allVars
<1> QED
  BY <1>1, <1>2, <1>3, <1>4, <1>5, <1>6, <1>7 DEF WorkflowNext

\* What the reducer is at after a step was taken up before, with the same inputs, or now.
LEMMA ReducingMoves ==
    ASSUME WorkflowTypeOK, [WorkflowNext]_allVars, ~TakeReduce
    PROVE  /\ combined' = combined /\ refused' = refused
           /\ reducing' = reducing \/ ReducerStep
           /\ \A w \in reducing' : \E v \in reducing : w.task = v.task
<1>1. CASE UNCHANGED reducerVars
  BY <1>1 DEF reducerVars
<1>2. CASE ReducerStep
  <2>1. PICK w \in reducing :
            \/ \E text \in {"empty", "text"} : Reduced(w, text)
            \/ ReducerClaims(w) \/ ReducerStarts(w) \/ ReducerCompletes(w)
    BY <1>2 DEF ReducerStep
  <2>2. /\ [w EXCEPT !.at = "claiming"].task = w.task
        /\ [w EXCEPT !.at = "starting"].task = w.task
        /\ [w EXCEPT !.at = "completing"].task = w.task
    BY DEF WorkflowTypeOK, Reduction
  <2>3. \A v \in reducing' : v.task = w.task
    BY <2>1, <2>2 DEF Reduced, ReducerClaims, ReducerStarts, ReducerCompletes
  <2> QED
    BY <1>2, <2>1, <2>3 DEF Reduced, ReducerClaims, ReducerStarts, ReducerCompletes
<1>3. ASSUME NEW h \in Hands, BoardStep(h) PROVE UNCHANGED reducerVars
  BY <1>3 DEF BoardStep, Putup, Drawup, Handout, Interview
<1>4. ASSUME NEW m \in Nodes, ExecutionStep(m) PROVE UNCHANGED reducerVars
  BY <1>4 DEF ExecutionStep, Begin, GenerateFails, Generated
<1>5. CASE \/ \E p \in Plans : \E d \in Dags[p] : PlanTask(p, d)
           \/ \E m \in Nodes : Announce(m)
           \/ TakeReady \/ TakeReopened \/ Heartbeat \/ TakeExpired
           \/ Settle \/ (\E r \in settling : Settled(r)) \/ TakeAssigned
           \/ Beside \/ UNCHANGED allVars
  BY <1>1, <1>5 DEF PlanTask, Announce, TakeReady, TakeReopened, Heartbeat, TakeExpired, Settle,
     Settled, TakeAssigned, Beside, flowVars, allVars
<1> QED
  BY <1>1, <1>2, <1>3, <1>4, <1>5 DEF WorkflowNext

\* What can be combined of a plan that is done but for its last task are the texts.
LEMMA CombinableWhenDone ==
    ASSUME IInv, WorkflowTypeOK, OutputInv, NEW n \in Nodes, state[n] # "absent", OthersDone(n),
           NEW m \in dag[PlanOf[n]].nodes \ ReduceTasks
    PROVE  m \in Combinable(PlanOf[n]) <=> answers[m] = "text"
<1>1. dag[PlanOf[n]].nodes \subseteq Nodes
  BY NodesAssumption DEF IInv, TypeOK, Dag
<1>2. local[m] = answers[m] /\ answers[m] # "absent"
  BY <1>1 DEF OthersDone, OutputInv, DoneIsStored, WorkflowTypeOK, Outputs
<1> QED
  BY <1>2 DEF Combinable

\* When all the other tasks of a plan are done, they stay done, and so do their answers.
LEMMA OthersStayDone ==
    ASSUME IInv, IInv', QueueInv, WorkflowTypeOK, OutputInv,
           [WorkflowNext]_allVars, [Next]_tsmVars,
           NEW n \in Nodes, state[n] # "absent", OthersDone(n)
    PROVE  /\ OthersDone(n)' /\ dag'[PlanOf[n]].nodes = dag[PlanOf[n]].nodes
           /\ \A m \in dag[PlanOf[n]].nodes \ ReduceTasks : answers'[m] = answers[m]
<1>1. DoneStays /\ GraphStays
  BY NextQueueInv, NextGraphStays
<1>2. dag'[PlanOf[n]] = dag[PlanOf[n]] /\ dag[PlanOf[n]].nodes \subseteq Nodes
  BY <1>1 DEF GraphStays, IInv, TypeOK, Dag
<1>3. \A m \in dag[PlanOf[n]].nodes \ ReduceTasks : m \in Nodes /\ state[m] = "done"
  BY <1>2 DEF OthersDone
<1>4. \A m \in dag[PlanOf[n]].nodes \ ReduceTasks : answers'[m] = answers[m]
  BY <1>3, AnswersStay
<1> QED
  BY <1>1, <1>2, <1>3, <1>4 DEF OthersDone, DoneStays

\* Every step keeps it that what is done was answered.
LEMMA NextAnsweredInv ==
    ASSUME TypeOK, WorkflowTypeOK, OutputInv, AnsweredInv, [WorkflowNext]_allVars
    PROVE  AnsweredInv'
<1>1. \A n \in Nodes : answers[n] # "unset" => answers'[n] # "unset"
  BY AnswersStay
<1>2. ASSUME NEW n \in Nodes, state'[n] = "done" PROVE answers'[n] # "unset"
  <2>1. CASE state[n] = "done"
    BY <1>1, <2>1 DEF AnsweredInv
  <2>2. CASE \E r \in settling : r.task = n
    <3>1. PICK r \in settling : r.task = n
      BY <2>2
    <3>2. answers[n] = r.answer /\ r.answer # "unset"
      BY <3>1 DEF OutputInv, ResultsFinished, Finished, WorkflowTypeOK, Result
    <3> QED
      BY <1>1, <3>2
  <2>3. CASE \E w \in reducing : w.at = "completing" /\ w.task = n
    BY <1>1, <2>3 DEF AnsweredInv
  <2> QED
    BY <1>2, <2>1, <2>2, <2>3, OnlyAnsweredFinishes
<1>3. ASSUME NEW w \in reducing', w.at # "generating" PROVE answers'[w.task] # "unset"
  <2>1. CASE TakeReduce
    <3>1. w.at = "generating"
      BY <1>3, <2>1 DEF TakeReduce, reducerVars
    <3> QED
      BY <1>3, <3>1
  <2>2. CASE ReducerStep
    <3>1. PICK v \in reducing :
              \/ \E text \in {"empty", "text"} : Reduced(v, text)
              \/ ReducerClaims(v) \/ ReducerStarts(v) \/ ReducerCompletes(v)
      BY <2>2 DEF ReducerStep
    <3>2. v \in Reduction /\ v.task \in Nodes
      BY DEF WorkflowTypeOK, Reduction
    <3>3. \A step : [v EXCEPT !.at = step].task = v.task
      BY <3>2 DEF Reduction
    <3>4. w.task = v.task
      BY <1>3, <3>1, <3>3 DEF Reduced, ReducerClaims, ReducerStarts, ReducerCompletes
    <3>5. ASSUME NEW text \in {"empty", "text"}, Reduced(v, text) PROVE answers'[v.task] = text
      BY <3>2, <3>5 DEF Reduced, WorkflowTypeOK
    <3>6. ASSUME ReducerClaims(v) \/ ReducerStarts(v) \/ ReducerCompletes(v)
          PROVE  v.at # "generating"
      BY <3>6 DEF ReducerClaims, ReducerStarts, ReducerCompletes
    <3> QED
      BY <1>1, <3>1, <3>2, <3>4, <3>5, <3>6 DEF AnsweredInv
  <2>3. CASE reducing' = reducing
    <3>1. w.task \in Nodes
      BY <2>3 DEF WorkflowTypeOK, Reduction
    <3> QED
      BY <1>1, <1>3, <2>3, <3>1 DEF AnsweredInv
  <2> QED
    BY <2>1, <2>2, <2>3, ReducingMoves
<1> QED
  BY <1>2, <1>3 DEF AnsweredInv

\* In every reachable state what is done was answered.
LEMMA AnsweredHolds == WorkflowSpec => []AnsweredInv
<1>1. WorkflowInit => AnsweredInv
  BY DEF WorkflowInit, Init, AnsweredInv
<1>2. TypeOK /\ WorkflowTypeOK /\ OutputInv /\ AnsweredInv /\ [WorkflowNext]_allVars => AnsweredInv'
  BY NextAnsweredInv
<1> QED
  BY <1>1, <1>2, WorkflowTypesHold, UsesStateManager, OutputHolds, PTL DEF WorkflowSpec

\* What the tracer has for a task that is done is what the model answered to it, and no
\* second execution, failure or late result has written over it or taken it out; what was
\* not answered, because its execution failed or the reducer gave it up, is not done.
THEOREM OutputIsTheAnswer == WorkflowSpec => []DoneHasItsOutput
<1>1. OutputInv /\ AnsweredInv => DoneHasItsOutput
  BY DEF OutputInv, DoneIsStored, AnsweredInv, DoneHasItsOutput
<1> QED
  BY <1>1, OutputHolds, AnsweredHolds, PTL

\* Every step keeps the invariant.
LEMMA NextAnswersInv ==
    ASSUME IInv, IInv', QueueInv, WorkflowTypeOK, OutputInv, AnswersInv, ReductionsComeLast,
           [WorkflowNext]_allVars, [Next]_tsmVars
    PROVE  AnswersInv'
<1>0. TypeOK
  BY DEF IInv
<1>1. DoneStays /\ GraphStays
  BY NextQueueInv, NextGraphStays
<1>2. ASSUME NEW n \in Nodes, state[n] # "absent", OthersDone(n)
      PROVE  /\ OthersDone(n)' /\ dag'[PlanOf[n]].nodes = dag[PlanOf[n]].nodes
             /\ \A m \in dag[PlanOf[n]].nodes \ ReduceTasks : answers'[m] = answers[m]
  BY <1>2, OthersStayDone
<1>3. CASE ~TakeReduce
  <2> SUFFICES ASSUME NEW w \in reducing'
               PROVE  state'[w.task] # "absent" /\ ReducesAll(w.task)'
    BY DEF AnswersInv
  <2>1. PICK v \in reducing : w.task = v.task
    BY <1>3, ReducingMoves
  <2>2. v.task \in Nodes /\ state[v.task] # "absent" /\ ReducesAll(v.task) /\ combined' = combined
    BY <1>3, ReducingMoves DEF WorkflowTypeOK, Reduction, AnswersInv
  <2>3. /\ OthersDone(v.task)' /\ dag'[PlanOf[v.task]].nodes = dag[PlanOf[v.task]].nodes
        /\ \A m \in dag[PlanOf[v.task]].nodes \ ReduceTasks : answers'[m] = answers[m]
    BY <1>2, <2>2 DEF ReducesAll
  <2>4. ReducesAll(v.task)'
    BY <2>2, <2>3 DEF ReducesAll
  <2> QED
    BY <1>1, <2>1, <2>2, <2>4 DEF GraphStays
<1>4. CASE TakeReduce
  <2>1. PICK n \in Nodes : n = Head(readyCh[Reducer]) /\ In(n, readyCh[Reducer])
    <3>1. readyCh[Reducer] \in Seq(Nodes) /\ readyCh[Reducer] # <<>>
      BY <1>0, <1>4, WorkflowAssumption DEF TakeReduce, ReceiveReady, TypeOK
    <3> QED
      BY <3>1, TailMembers
  <2>2. /\ UNCHANGED <<state, dag, answers>>
        /\ \A w \in reducing' : /\ n \in ReduceTasks /\ w.task = n
                                /\ combined' = [combined EXCEPT ![n] = Combinable(PlanOf[n])]
    BY <1>4, <2>1 DEF TakeReduce, ReceiveReady, reducerVars, nodeVars, planVars
  <2>3. Announced(n)
    BY <2>1, WorkflowAssumption DEF Announced
  <2>4. state[n] # "absent" /\ \A m \in Preds(n) : state[m] = "done"
    BY <2>1, <2>3 DEF QueueInv, AnnouncedFree, UnraisedUnseen, Unraised
  <2>5. ASSUME n \in ReduceTasks, combined' = [combined EXCEPT ![n] = Combinable(PlanOf[n])]
        PROVE  ReducesAll(n)'
    <3>1. OthersDone(n)
      BY <2>4, <2>5, LastWhenFree
    <3>2. \A m \in dag[PlanOf[n]].nodes \ ReduceTasks :
              m \in Combinable(PlanOf[n]) <=> answers[m] = "text"
      <4> TAKE m \in dag[PlanOf[n]].nodes \ ReduceTasks
      <4> QED
        BY <2>1, <2>4, <3>1, CombinableWhenDone
    <3>3. combined'[n] = Combinable(PlanOf[n])
      BY <2>1, <2>5 DEF WorkflowTypeOK
    <3>4. OthersDone(n)'
      BY <2>2, <3>1 DEF OthersDone
    <3>5. dag' = dag /\ answers' = answers
      BY <2>2
    <3>6. \A m \in dag'[PlanOf[n]].nodes \ ReduceTasks :
              m \in combined'[n] <=> answers'[m] = "text"
      BY <3>2, <3>3, <3>5
    <3> QED
      BY <3>4, <3>6 DEF ReducesAll
  <2>6. \A w \in reducing' : state'[w.task] # "absent" /\ ReducesAll(w.task)'
    BY <2>2, <2>4, <2>5
  <2> QED
    BY <2>6 DEF AnswersInv
<1> QED
  BY <1>3, <1>4

\* If the reduction of every plan comes last in its graph, what is reduced is the answer to
\* each of the other tasks, and only empty answers are left out, whatever the order in which
\* the tasks are executed and whichever leases end meanwhile.
THEOREM ReducesEveryAnswer ==
    ASSUME ReductionsComeLast
    PROVE  WorkflowSpec => []EveryAnswerIsReduced
<1>1. WorkflowInit => AnswersInv
  BY DEF WorkflowInit, Init, AnswersInv
<1>2. /\ IInv /\ IInv' /\ QueueInv /\ WorkflowTypeOK /\ OutputInv /\ AnswersInv
      /\ [WorkflowNext]_allVars /\ [Next]_tsmVars
      => AnswersInv'
  BY NextAnswersInv
<1>3. IInv /\ WorkflowTypeOK /\ AnsweredInv /\ AnswersInv => EveryAnswerIsReduced
  <2> SUFFICES ASSUME IInv, WorkflowTypeOK, AnsweredInv, AnswersInv, NEW w \in reducing,
                      NEW n \in dag[PlanOf[w.task]].nodes \ ReduceTasks
               PROVE  answers[n] # "unset" /\ (n \in combined[w.task] <=> answers[n] = "text")
    BY DEF EveryAnswerIsReduced
  <2>1. w.task \in Nodes /\ PlanOf[w.task] \in Plans
    BY NodesAssumption DEF WorkflowTypeOK, Reduction
  <2>2. n \in Nodes
    BY <2>1 DEF IInv, TypeOK, Dag
  <2> QED
    BY <2>2 DEF AnswersInv, AnsweredInv, ReducesAll, OthersDone
<1>4. TypeOK /\ WorkflowTypeOK /\ [WorkflowNext]_allVars => [Next]_tsmVars
  BY StepIsAllowed DEF allVars
<1> QED
  BY <1>1, <1>2, <1>3, <1>4, WorkflowTypesHold, UsesStateManager, InvariantHolds, QueueHolds,
     OutputHolds, AnsweredHolds, PTL DEF WorkflowSpec

-----------------------------------------------------------------------------
(* Which steps touch what.                                                 *)

Assigns == (\E h \in Hands : Interview(h)) \/ TakeAssigned
Executes == \E x \in executions : Begin(x) \/ GenerateFails(x)
Answers == \E x \in executions, text \in {"empty", "text"} : Generated(x, text)
Completes == \E r \in settling : Settled(r)
Reduces == \E w \in reducing, text \in {"empty", "text"} : Reduced(w, text)

\* Each channel, map and goroutine of the workflow is touched by few of its steps.
LEMMA WhoTouches ==
    ASSUME [WorkflowNext]_allVars
    PROVE  /\ UNCHANGED assignedCh \/ Assigns
           /\ UNCHANGED doneCh \/ Settle \/ Answers
           /\ UNCHANGED settling \/ Settle \/ Completes
           /\ UNCHANGED executions \/ TakeAssigned \/ Executes \/ Answers
           /\ UNCHANGED <<local, assigned>> \/ Settle \/ Executes \/ Reduces
              \/ \E p \in Plans : \E d \in Dags[p] : PlanTask(p, d)
           /\ UNCHANGED reducing \/ TakeReduce \/ ReducerStep
           /\ UNCHANGED boardVars \/ TakeReady \/ TakeReopened \/ Heartbeat \/ TakeExpired
              \/ \E h \in Hands : BoardStep(h)
           /\ UNCHANGED provided
<1>1. ASSUME NEW h \in Hands, BoardStep(h)
      PROVE  /\ UNCHANGED <<doneCh, settling, executions, local, assigned, reducing, provided>>
             /\ UNCHANGED assignedCh \/ Interview(h)
  BY <1>1 DEF BoardStep, Putup, Drawup, Handout, Interview, busVars, executorVars, tracerVars,
     reducerVars
<1>2. ASSUME NEW n \in Nodes, ExecutionStep(n)
      PROVE  /\ UNCHANGED <<assignedCh, settling, reducing, boardVars, provided>>
             /\ Executes \/ Answers
             /\ UNCHANGED doneCh \/ Answers
             /\ UNCHANGED <<local, assigned>> \/ Executes
  BY <1>2 DEF ExecutionStep, Begin, GenerateFails, Generated, Executes, Answers, busVars,
     reducerVars, tracerVars
<1>3. ASSUME ReducerStep
      PROVE  /\ UNCHANGED <<assignedCh, doneCh, settling, executions, boardVars, provided>>
             /\ UNCHANGED <<local, assigned>> \/ Reduces
  BY <1>3 DEF ReducerStep, Reduced, ReducerClaims, ReducerStarts, ReducerCompletes, Reduces,
     busVars, executorVars, tracerVars
<1>4. CASE \/ \E p \in Plans : \E d \in Dags[p] : PlanTask(p, d)
           \/ \E n \in Nodes : Announce(n)
           \/ TakeReady \/ TakeReopened \/ Heartbeat \/ TakeExpired
           \/ TakeReduce \/ Beside \/ UNCHANGED allVars
  BY <1>4 DEF PlanTask, Announce, TakeReady, TakeReopened, Heartbeat, TakeExpired, TakeReduce,
     Beside, flowVars, allVars, busVars, executorVars, tracerVars, reducerVars
<1>5. CASE Settle \/ TakeAssigned \/ Completes
  BY <1>5 DEF Settle, Settled, TakeAssigned, Completes, Assigns, busVars, executorVars,
     tracerVars, reducerVars
<1> QED
  BY <1>1, <1>2, <1>3, <1>4, <1>5 DEF WorkflowNext, Assigns, Completes

-----------------------------------------------------------------------------
(* Who comes to hold a task, and when a task comes into the tracer.        *)

NoneHeld == \A m \in Nodes : state'[m] \in Held => state'[m] = state[m]

\* Completions, timers, requesters and the clock give a task to nobody.
LEMMA NobodyHolds ==
    ASSUME TypeOK, Beside \/ (\E m \in Nodes : CompleteCall(m)) \/ UNCHANGED state
    PROVE  NoneHeld
<1>1. ASSUME NEW w \in watchdogs, FireWatchdog(w) PROVE NoneHeld
  <2>1. w.node \in Nodes
    BY DEF TypeOK, Watchdog
  <2> QED
    BY <1>1, <2>1 DEF FireWatchdog, Reopen, TypeOK, NoneHeld, Held
<1>2. ASSUME NEW p \in Plans, DeadlineFires(p) PROVE NoneHeld
  BY <1>2 DEF DeadlineFires, DisposeNodes, TypeOK, NoneHeld, Held
<1>3. ASSUME (\E p \in Plans : SendTimeout(p) \/ Hear(p)) \/ Tick \/ UNCHANGED state PROVE NoneHeld
  BY <1>3 DEF SendTimeout, Hear, Tick, nodeVars, NoneHeld
<1>4. ASSUME NEW m \in Nodes, CompleteCall(m) PROVE NoneHeld
  BY <1>4 DEF CompleteCall, Complete, AfterDone, NoneHeld, Held, tsmVars, nodeVars
<1> QED
  BY <1>1, <1>2, <1>3, <1>4 DEF Beside

\* A claim, or a start, that succeeds concerns its task only.
LEMMA CallsHold ==
    ASSUME TypeOK, NEW m \in Nodes, NEW peer \in Peers
    PROVE  /\ ClaimCall(m, peer) => \A n \in Nodes : state'[n] \in Held =>
                  state'[n] = state[n] \/ (n = m /\ state[m] = "ready" /\ state'[n] = "claimed")
           /\ ClaimCall(m, peer) => state'[m] # "ready"
           /\ StartCall(m) => \A n \in Nodes : state'[n] \in Held =>
                  state'[n] = state[n] \/ (n = m /\ state'[n] = "running")
           /\ StartCall(m) => state'[m] # "claimed"
           /\ CompleteCall(m) => state'[m] # "running"
<1>1. ASSUME UNCHANGED tsmVars PROVE state' = state
  BY <1>1 DEF tsmVars, nodeVars
<1>2. Claim(m, peer) => state[m] = "ready" /\ state' = [state EXCEPT ![m] = "claimed"]
  BY DEF Claim, CanClaim
<1>3. Start(m) => state' = [state EXCEPT ![m] = "running"]
  BY DEF Start
<1>4. Complete(m) => state'[m] # "running"
  BY DEF Complete, AfterDone
<1> QED
  BY <1>1, <1>2, <1>3, <1>4 DEF ClaimCall, StartCall, CompleteCall, TypeOK

\* The board claims at an interview, the reducer what it has reduced; the executor starts what
\* was assigned to it, the reducer what it has claimed.
LEMMA WhoHolds ==
    ASSUME TypeOK, WorkflowTypeOK, [WorkflowNext]_allVars, NEW n \in Nodes
    PROVE  /\ state'[n] = "claimed" =>
                  \/ state[n] = "claimed"
                  \/ \E h \in Hands : /\ Interview(h) /\ hand[h].task = n
                                      /\ assignedCh' = Offered(assignedCh, TopicLen, <<n>>)
                  \/ \E w \in reducing : ReducerClaims(w) /\ w.task = n
           /\ state'[n] = "running" =>
                  \/ state[n] = "running"
                  \/ \E x \in executions : Begin(x) /\ x.task = n /\ provided
                  \/ \E w \in reducing : ReducerStarts(w) /\ w.task = n
<1> USE WorkflowAssumption
<1>1. ASSUME NoneHeld
      PROVE  (state'[n] = "claimed" => state[n] = "claimed")
             /\ (state'[n] = "running" => state[n] = "running")
  BY <1>1 DEF NoneHeld, Held
<1>2. ASSUME NEW h \in Hands, BoardStep(h)
      PROVE  \/ NoneHeld
             \/ /\ state'[n] = "running" => state[n] = "running"
                /\ state'[n] = "claimed" => state[n] = "claimed" \/
                       (/\ Interview(h) /\ hand[h].task = n
                        /\ assignedCh' = Offered(assignedCh, TopicLen, <<n>>))
  <2>1. CASE Putup(h) \/ Drawup(h) \/ Handout(h)
    BY <2>1, NobodyHolds DEF Putup, Drawup, Handout, tsmVars, nodeVars
  <2>2. CASE Interview(h)
    <3>1. hand[h].task \in Nodes
      BY <2>2, HandTask DEF Interview, IsAt, Idle
    <3>2. \/ UNCHANGED tsmVars
          \/ /\ ClaimCall(hand[h].task, Self)
             /\ assignedCh' = Offered(assignedCh, TopicLen, <<hand[h].task>>)
      BY <2>2 DEF Interview
    <3>3. CASE UNCHANGED tsmVars
      BY <3>3, NobodyHolds DEF tsmVars, nodeVars
    <3>4. CASE /\ ClaimCall(hand[h].task, Self)
               /\ assignedCh' = Offered(assignedCh, TopicLen, <<hand[h].task>>)
      BY <2>2, <3>1, <3>4, CallsHold DEF Held
    <3> QED
      BY <3>2, <3>3, <3>4
  <2> QED
    BY <1>2, <2>1, <2>2 DEF BoardStep
<1>3. ASSUME NEW m \in Nodes, ExecutionStep(m)
      PROVE  \/ NoneHeld
             \/ \E x \in executions : /\ Begin(x) /\ provided
                                      /\ state'[n] = "claimed" => state[n] = "claimed"
                                      /\ state'[n] = "running" => state[n] = "running" \/ x.task = n
  <2>1. PICK x \in executions :
            Begin(x) \/ GenerateFails(x) \/ \E text \in {"empty", "text"} : Generated(x, text)
    BY <1>3 DEF ExecutionStep
  <2>2. x.task \in Nodes
    BY DEF WorkflowTypeOK, Execution
  <2>3. (Begin(x) /\ provided /\ StartCall(x.task)) \/ UNCHANGED tsmVars
    BY <2>1 DEF Begin, GenerateFails, Generated
  <2>4. CASE Begin(x) /\ provided /\ StartCall(x.task)
    <3>1. state'[n] \in Held => state'[n] = state[n] \/ (n = x.task /\ state'[n] = "running")
      BY <2>2, <2>4, CallsHold
    <3> QED
      BY <2>4, <3>1 DEF Held
  <2>5. CASE UNCHANGED tsmVars
    BY <2>5, NobodyHolds DEF tsmVars, nodeVars
  <2> QED
    BY <2>3, <2>4, <2>5
<1>4. ASSUME ReducerStep
      PROVE  \/ NoneHeld
             \/ \E w \in reducing :
                    /\ state'[n] = "claimed" =>
                           state[n] = "claimed" \/ (ReducerClaims(w) /\ w.task = n)
                    /\ state'[n] = "running" =>
                           state[n] = "running" \/ (ReducerStarts(w) /\ w.task = n)
  <2>1. PICK w \in reducing :
            \/ \E text \in {"empty", "text"} : Reduced(w, text)
            \/ ReducerClaims(w) \/ ReducerStarts(w) \/ ReducerCompletes(w)
    BY <1>4 DEF ReducerStep
  <2>2. w.task \in Nodes
    BY DEF WorkflowTypeOK, Reduction
  <2>3. CASE \E text \in {"empty", "text"} : Reduced(w, text)
    BY <2>3, NobodyHolds DEF Reduced, tsmVars, nodeVars
  <2>4. CASE ReducerClaims(w)
    <3>1. state'[n] \in Held => state'[n] = state[n] \/ (n = w.task /\ state'[n] = "claimed")
      BY <2>2, <2>4, CallsHold DEF ReducerClaims
    <3> QED
      BY <2>4, <3>1 DEF Held
  <2>5. CASE ReducerStarts(w)
    <3>1. state'[n] \in Held => state'[n] = state[n] \/ (n = w.task /\ state'[n] = "running")
      BY <2>2, <2>5, CallsHold DEF ReducerStarts
    <3> QED
      BY <2>5, <3>1 DEF Held
  <2>6. CASE ReducerCompletes(w)
    BY <2>2, <2>6, NobodyHolds DEF ReducerCompletes
  <2> QED
    BY <2>1, <2>3, <2>4, <2>5, <2>6
<1>5. ASSUME Completes PROVE NoneHeld
  <2>1. \E m \in Nodes : CompleteCall(m)
    BY <1>5 DEF Completes, Settled, WorkflowTypeOK, Result
  <2> QED
    BY <2>1, NobodyHolds
<1>6. ASSUME NEW p \in Plans, NEW d \in Dags[p], PlanTask(p, d) PROVE NoneHeld
  BY <1>6 DEF PlanTask, Ingest, NoneHeld, Held
<1>7. CASE \/ \E m \in Nodes : Announce(m)
           \/ TakeReady \/ TakeReopened \/ Heartbeat \/ TakeExpired
           \/ Settle \/ TakeAssigned \/ TakeReduce \/ UNCHANGED allVars
  <2>1. state' = state
    BY <1>7 DEF Announce, PublishRoot, TakeReady, ReceiveReady, TakeReopened, ReceiveReopened,
       Heartbeat, TakeExpired, Settle, TakeAssigned, TakeReduce, allVars, tsmVars, nodeVars
  <2> QED
    BY <1>1, <2>1, NobodyHolds
<1>8. ASSUME Beside PROVE NoneHeld
  BY <1>8, NobodyHolds
<1>9. CASE \E h \in Hands : BoardStep(h)
  BY <1>1, <1>2, <1>9
<1>10. CASE \E m \in Nodes : ExecutionStep(m)
  BY <1>1, <1>3, <1>10
<1>11. CASE ReducerStep
  BY <1>1, <1>4, <1>11
<1>12. CASE \/ Beside \/ Completes
            \/ \E p \in Plans : \E d \in Dags[p] : PlanTask(p, d)
  <2>1. NoneHeld
    BY <1>5, <1>6, <1>8, <1>12
  <2> QED
    BY <1>1, <2>1
<1> QED
  BY <1>7, <1>9, <1>10, <1>11, <1>12 DEF WorkflowNext, Completes

\* A task comes into the tracer when its plan is made, and then nobody holds it.
LEMMA WhoImports ==
    ASSUME IInv, WorkflowTypeOK, [WorkflowNext]_allVars,
           NEW n \in Nodes, local[n] = "absent", local'[n] # "absent"
    PROVE  Unraised(n) /\ state'[n] \in {"ready", "pending"}
<1>1. ASSUME NEW m \in Nodes, NEW text, SetOutput(m, text) \/ Remove(m) PROVE FALSE
  <2>1. \/ local' = local
        \/ local' = [local EXCEPT ![m] = "absent"]
        \/ local[m] # "absent" /\ local' = [local EXCEPT ![m] = text]
    BY <1>1 DEF SetOutput, Remove
  <2> QED
    BY <2>1 DEF WorkflowTypeOK
<1>2. CASE Settle
  <2>1. \E m \in Nodes : \E text : SetOutput(m, text)
    <3>1. Head(doneCh) \in Result
      BY <1>2 DEF Settle, WorkflowTypeOK
    <3> QED
      BY <1>2, <3>1 DEF Settle, Result
  <2> QED
    BY <1>1, <2>1
<1>3. CASE Executes
  <2>1. PICK x \in executions : Begin(x) \/ GenerateFails(x)
    BY <1>3 DEF Executes
  <2>2. x.task \in Nodes
    BY DEF WorkflowTypeOK, Execution
  <2>3. CASE Begin(x)
    <3>1. local' = local \/ local' = [local EXCEPT ![x.task] = "absent"]
      BY <2>3 DEF Begin
    <3> QED
      BY <3>1 DEF WorkflowTypeOK
  <2> QED
    BY <1>1, <2>1, <2>2, <2>3 DEF GenerateFails
<1>4. CASE Reduces
  <2>1. \E m \in Nodes : \E text : SetOutput(m, text)
    BY <1>4 DEF Reduces, Reduced, WorkflowTypeOK, Reduction
  <2> QED
    BY <1>1, <2>1
<1>5. ASSUME NEW p \in Plans, NEW d \in Dags[p], PlanTask(p, d)
      PROVE  Unraised(n) /\ state'[n] \in {"ready", "pending"}
  <2>1. n \in d.nodes /\ Ingest(p, d)
    BY <1>5 DEF PlanTask, Import
  <2>2. PlanOf[n] = p /\ p \notin plans
    BY <2>1, DagTypes DEF Ingest
  <2>3. state[n] = "absent"
    BY <2>2 DEF IInv, PlansKnown, NoDag
  <2> QED
    BY <2>1, <2>3 DEF Ingest, Unraised
<1> QED
  BY <1>2, <1>3, <1>4, <1>5, WhoTouches

-----------------------------------------------------------------------------
(* What was given to the executor is on the way to it, executed, or on the *)
(* way back as a result.                                                   *)

OneEach(ch) == \A i, j \in DOMAIN ch : ch[i].task = ch[j].task => i = j
NoResult(n, ch) == \A r \in Result : In(r, ch) => r.task # n

\* There is room for the result of a task that has none in the channel, and it stays the only
\* one of its task.
LEMMA ResultFits ==
    ASSUME ChannelsFit, NEW ch \in Seq(Result), OneEach(ch), NEW r \in Result,
           NoResult(r.task, ch), NEW new, new = Offered(ch, TopicLen, <<r>>)
    PROVE  OneEach(new) /\ \A x : In(x, ch) \/ x = r => In(x, new)
<1> DEFINE len == Len(ch)
           n == r.task
           tasks == [i \in 1 .. len |-> ch[i].task]
           one == <<n>>
           msgs == <<r>>
<1>1. len \in Nat /\ DOMAIN ch = 1 .. len /\ \A i \in 1 .. len : ch[i] \in Result
  OBVIOUS
<1>2. n \in Nodes /\ \A i \in 1 .. len : ch[i].task \in Nodes /\ ch[i].task # n
  BY <1>1 DEF Result, NoResult, In
<1>3. one \in Seq(Nodes) /\ Len(one) = 1 /\ Distinct(one) /\ \A x : In(x, one) <=> x = n
  BY <1>2, SingleDistinct
<1>4. msgs \in Seq(Result) /\ Len(msgs) = 1 /\ Distinct(msgs) /\ \A x : In(x, msgs) <=> x = r
  BY SingleDistinct
<1> HIDE DEF n, one, msgs
<1>5. tasks \in Seq(Nodes) /\ Len(tasks) = len /\ Distinct(tasks) /\ ~In(n, tasks)
  <2>1. DOMAIN tasks = 1 .. len /\ \A i \in 1 .. len : tasks[i] = ch[i].task
    OBVIOUS
  <2>2. tasks \in [1 .. len -> Nodes]
    BY <1>2
  <2>3. tasks \in Seq(Nodes) /\ Len(tasks) = len
    BY <1>1, <2>2
  <2>4. Distinct(tasks)
    BY <1>1, <2>1 DEF Distinct, OneEach
  <2> HIDE DEF tasks
  <2>5. ~In(n, tasks)
    BY <1>2, <2>1 DEF In
  <2> QED
    BY <2>3, <2>4, <2>5
<1> HIDE DEF tasks
<1>6. len + 1 <= Cardinality(Nodes)
  <2>1. Len(tasks) + Len(one) <= Cardinality(Nodes)
    BY <1>3, <1>5, NodesAssumption, DistinctFit
  <2> QED
    BY <1>3, <1>5, <2>1
<1>7. Len(ch) + Len(msgs) <= TopicLen /\ TopicLen \in Nat
  BY <1>1, <1>4, <1>6, NodesAssumption, FS_CardinalityType, ChannelAssumption DEF ChannelsFit
<1>8. \A x : In(x, ch) \/ x = r => In(x, new)
  <2>1. new = Offered(ch, TopicLen, msgs)
    BY DEF msgs
  <2> HIDE DEF len
  <2>2. ASSUME NEW x
        PROVE  /\ In(x, ch) => In(x, Offered(ch, TopicLen, msgs))
               /\ In(x, msgs) => In(x, Offered(ch, TopicLen, msgs))
    BY <1>4, <1>7, OfferedMembers
  <2> QED
    BY <1>4, <2>1, <2>2
<1>9. OneEach(new)
  <2>1. \/ new = ch
        \/ /\ DOMAIN new = 1 .. len + 1
           /\ \A i \in 1 .. len : new[i] = ch[i]
           /\ new[len + 1] = r
    BY <1>7, OfferedShape
  <2> HIDE DEF len
  <2>2. CASE new = ch
    BY <2>2 DEF OneEach
  <2>3. CASE new # ch
    <3> SUFFICES ASSUME NEW i \in DOMAIN new, NEW j \in DOMAIN new, new[i].task = new[j].task
                 PROVE  i = j
      BY DEF OneEach
    <3>1. (i \in 1 .. len \/ i = len + 1) /\ (j \in 1 .. len \/ j = len + 1)
      BY <1>1, <2>1, <2>3
    <3>2. CASE i \in 1 .. len /\ j \in 1 .. len
      <4>1. i \in DOMAIN ch /\ j \in DOMAIN ch /\ ch[i].task = ch[j].task
        BY <1>1, <2>1, <2>3, <3>2
      <4> QED
        BY <4>1 DEF OneEach
    <3>3. CASE i = len + 1 \/ j = len + 1
      BY <1>2, <2>1, <2>3, <3>1, <3>3 DEF n
    <3> QED
      BY <3>1, <3>2, <3>3
  <2> QED
    BY <2>2, <2>3
<1> QED
  BY <1>8, <1>9

Underway(n) ==
    \E text \in {"empty", "text"} :
        LET r == [task |-> n, answer |-> text] IN In(r, doneCh) \/ r \in settling
WithExecutor(n) ==
    /\ state[n] = "claimed" => In(n, assignedCh) \/ Executing(n, "assigned")
    /\ state[n] = "running" => Executing(n, "generating") \/ Underway(n)
ExecInv ==
    /\ \A n \in Nodes \ ReduceTasks : local[n] # "absent" => WithExecutor(n)
    /\ OneEach(doneCh)

\* What is assigned stays in the channel until the executor takes it.
LEMMA AssignedMoves ==
    ASSUME OnceInv, WorkflowTypeOK, [WorkflowNext]_allVars, NEW n \in Nodes
    PROVE  In(n, assignedCh) => In(n, assignedCh)' \/ Executing(n, "assigned")'
<1>1. CASE UNCHANGED assignedCh
  BY <1>1 DEF In
<1>2. ASSUME NEW h \in Hands, Interview(h) PROVE In(n, assignedCh) => In(n, assignedCh)'
  <2>1. CASE UNCHANGED assignedCh
    BY <2>1 DEF In
  <2>2. CASE assignedCh' = Offered(assignedCh, TopicLen, <<hand[h].task>>)
    <3>1. hand[h].task \in Nodes
      BY <1>2, HandTask DEF Interview, IsAt, Idle
    <3>2. PICK m \in Nodes : m = hand[h].task
      BY <3>1
    <3>3. <<m>> \in Seq(Nodes) /\ assignedCh \in Seq(Nodes) /\ TopicLen \in Nat
      BY ChannelAssumption DEF WorkflowTypeOK
    <3>4. In(n, assignedCh) => In(n, Offered(assignedCh, TopicLen, <<m>>))
      BY <3>3, OfferedMembers
    <3> QED
      BY <2>2, <3>2, <3>4 DEF In
  <2> QED
    BY <1>2, <2>1, <2>2 DEF Interview
<1>3. CASE TakeAssigned
  <2>1. /\ assignedCh # <<>> /\ assignedCh' = Tail(assignedCh)
        /\ \E k : [task |-> Head(assignedCh), no |-> k, at |-> "assigned"] \in executions'
    BY <1>3 DEF TakeAssigned
  <2>2. In(n, assignedCh) => n = Head(assignedCh) \/ In(n, Tail(assignedCh))
    BY <2>1, TailMembers DEF WorkflowTypeOK
  <2>3. In(n, assignedCh) => n = Head(assignedCh) \/ In(n, assignedCh)'
    BY <2>1, <2>2 DEF In
  <2>4. PICK x \in executions' : x.task = Head(assignedCh) /\ x.at = "assigned"
    BY <2>1
  <2> QED
    BY <2>3, <2>4 DEF Executing
<1> QED
  BY <1>1, <1>2, <1>3, WhoTouches DEF Assigns

\* An execution that was assigned begins; one that generates ends with its result or fails,
\* which takes the task out of the tracer.
LEMMA ExecutingMoves ==
    ASSUME TypeOK, OnceInv, OutputInv, ExecInv, WorkflowTypeOK, ChannelsFit,
           [WorkflowNext]_allVars, NEW n \in Nodes, local[n] # "absent", local'[n] # "absent"
    PROVE  /\ Executing(n, "assigned") => Executing(n, "assigned")' \/ state'[n] # "claimed"
           /\ Executing(n, "generating") => Executing(n, "generating")' \/ Underway(n)'
<1>1. CASE UNCHANGED executions
  BY <1>1 DEF Executing
<1>2. CASE TakeAssigned
  BY <1>2 DEF TakeAssigned, Executing
<1>3. ASSUME NEW y \in executions, Begin(y)
      PROVE  /\ Executing(n, "assigned") => Executing(n, "assigned")' \/ state'[n] # "claimed"
             /\ Executing(n, "generating") => Executing(n, "generating")'
  <2>1. y.task \in Nodes /\ y.at = "assigned" /\ executions \ {y} \subseteq executions'
    BY <1>3 DEF Begin, WorkflowTypeOK, Execution
  <2>2. Executing(n, "generating") => Executing(n, "generating")'
    BY <2>1 DEF Executing
  <2>3. CASE y.task # n
    BY <2>1, <2>2, <2>3 DEF Executing
  <2>4. CASE y.task = n
    <3>1. provided
      BY <1>3, <2>4 DEF Begin, WorkflowTypeOK
    <3>2. StartCall(n)
      BY <1>3, <2>4, <3>1 DEF Begin
    <3>3. Self \in Peers
      BY WorkflowAssumption
    <3>4. state'[n] # "claimed"
      BY <3>2, <3>3, CallsHold
    <3> QED
      BY <2>2, <3>4
  <2> QED
    BY <2>3, <2>4
<1>4. ASSUME NEW y \in executions, GenerateFails(y)
      PROVE  /\ Executing(n, "assigned") => Executing(n, "assigned")'
             /\ Executing(n, "generating") => Executing(n, "generating")'
  <2>1. y.task \in Nodes /\ y.at = "generating" /\ executions' = executions \ {y} /\ Remove(y.task)
    BY <1>4 DEF GenerateFails, WorkflowTypeOK, Execution
  <2>2. y.task # n
    BY <2>1 DEF Remove, WorkflowTypeOK
  <2> QED
    BY <2>1, <2>2 DEF Executing
<1>5. ASSUME NEW y \in executions, NEW text \in {"empty", "text"}, Generated(y, text)
      PROVE  /\ Executing(n, "assigned") => Executing(n, "assigned")'
             /\ Executing(n, "generating") => Executing(n, "generating")' \/ Underway(n)'
  <2> DEFINE r == [task |-> y.task, answer |-> text]
  <2>1. /\ y.task \in Nodes /\ y.at = "generating" /\ executions' = executions \ {y}
        /\ doneCh' = Offered(doneCh, TopicLen, <<r>>)
    BY <1>5 DEF Generated, WorkflowTypeOK, Execution
  <2>2. CASE y.task # n
    BY <2>1, <2>2 DEF Executing
  <2>3. CASE y.task = n
    <3>1. r \in Result /\ r = [task |-> n, answer |-> text] /\ r.task = n
      BY <2>1, <2>3 DEF Result
    <3>2. NoResult(n, doneCh)
      BY <2>3 DEF NoResult, OutputInv, ResultsFinished, Finished
    <3>3. doneCh \in Seq(Result) /\ OneEach(doneCh)
      BY DEF WorkflowTypeOK, ExecInv
    <3> HIDE DEF r
    <3>4. In(r, doneCh')
      BY <2>1, <3>1, <3>2, <3>3, ResultFits
    <3>5. Underway(n)'
      BY <3>1, <3>4 DEF Underway, In
    <3> QED
      BY <2>1, <3>5 DEF Executing
  <2> QED
    BY <2>2, <2>3
<1>6. CASE Executes
  BY <1>3, <1>4, <1>6 DEF Executes
<1>7. CASE Answers
  BY <1>5, <1>7 DEF Answers
<1> QED
  BY <1>1, <1>2, <1>6, <1>7, WhoTouches

\* The first result is settled next, the others stay in the channel.
LEMMA ResultsMove ==
    ASSUME OnceInv, OutputInv, ExecInv, WorkflowTypeOK, ChannelsFit, [WorkflowNext]_allVars
    PROVE  /\ OneEach(doneCh')
           /\ \A r \in Result : In(r, doneCh) => In(r, doneCh') \/ r \in settling'
<1>0. doneCh \in Seq(Result) /\ OneEach(doneCh)
  BY DEF WorkflowTypeOK, ExecInv
<1>1. CASE UNCHANGED doneCh
  BY <1>0, <1>1
<1>2. CASE Settle
  <2>1. doneCh # <<>> /\ doneCh' = Tail(doneCh) /\ settling' = {Head(doneCh)}
    BY <1>2 DEF Settle
  <2>2. \A r : In(r, doneCh) => r = Head(doneCh) \/ In(r, Tail(doneCh))
    BY <1>0, <2>1, TailMembers
  <2>3. OneEach(Tail(doneCh))
    <3> DEFINE t == Tail(doneCh)
               len == Len(doneCh)
    <3>1. /\ len \in Nat /\ DOMAIN t = 1 .. len - 1 /\ DOMAIN doneCh = 1 .. len
          /\ \A i \in 1 .. len - 1 : t[i] = doneCh[i + 1]
      BY <1>0, <2>1
    <3> HIDE DEF t, len
    <3> SUFFICES ASSUME NEW i \in DOMAIN t, NEW j \in DOMAIN t, t[i].task = t[j].task
                 PROVE  i = j
      BY DEF OneEach, t
    <3>2. /\ i + 1 \in DOMAIN doneCh /\ j + 1 \in DOMAIN doneCh
          /\ doneCh[i + 1].task = doneCh[j + 1].task
      BY <3>1
    <3>3. i + 1 = j + 1
      BY <1>0, <3>2 DEF OneEach
    <3> QED
      BY <3>1, <3>3
  <2> QED
    BY <2>1, <2>2, <2>3
<1>3. ASSUME NEW y \in executions, NEW text \in {"empty", "text"}, Generated(y, text)
      PROVE  OneEach(doneCh') /\ \A r \in Result : In(r, doneCh) => In(r, doneCh')
  <2> DEFINE r == [task |-> y.task, answer |-> text]
  <2>1. r \in Result /\ r.task = y.task
    BY DEF WorkflowTypeOK, Execution, Result
  <2>2. NoResult(r.task, doneCh)
    BY <2>1 DEF NoResult, OutputInv, ResultsFinished, Finished
  <2>3. doneCh' = Offered(doneCh, TopicLen, <<r>>)
    BY <1>3 DEF Generated
  <2> HIDE DEF r
  <2> QED
    BY <1>0, <2>1, <2>2, <2>3, ResultFits
<1> QED
  BY <1>1, <1>2, <1>3, WhoTouches DEF Answers

\* A task whose result is settled is completed, if it was running.
LEMMA SettlingMoves ==
    ASSUME TypeOK, WorkflowTypeOK, [WorkflowNext]_allVars, NEW r \in settling
    PROVE  r \in settling' \/ state'[r.task] # "running"
<1>1. CASE UNCHANGED settling
  BY <1>1
<1>2. CASE Settle
  BY <1>2 DEF Settle
<1>3. ASSUME NEW s \in settling, Settled(s) PROVE state'[r.task] # "running"
  <2>1. s = r /\ r.task \in Nodes /\ Self \in Peers
    BY WorkflowAssumption DEF WorkflowTypeOK, Result
  <2>2. CompleteCall(r.task)
    BY <1>3, <2>1 DEF Settled
  <2> QED
    BY <2>1, <2>2, CallsHold
<1> QED
  BY <1>1, <1>2, <1>3, WhoTouches DEF Completes

\* Every step keeps the tasks of the executor in somebody's hands.
LEMMA NextExecInv ==
    ASSUME IInv, OnceInv, OutputInv, ExecInv, WorkflowTypeOK, ChannelsFit,
           [WorkflowNext]_allVars
    PROVE  ExecInv'
<1>0. TypeOK
  BY DEF IInv
<1>1. ASSUME NEW n \in Nodes \ ReduceTasks, local'[n] # "absent"
      PROVE  WithExecutor(n)'
  <2>1. CASE local[n] = "absent"
    BY <1>1, <2>1, WhoImports DEF WithExecutor
  <2>2. CASE local[n] # "absent"
    <3>0. \A w \in reducing : w.task # n
      BY DEF OutputInv, ReducesTraced
    <3>1. ASSUME state'[n] = "claimed", state[n] # "claimed"
          PROVE  In(n, assignedCh)'
      <4>1. PICK h \in Hands : /\ Interview(h) /\ hand[h].task = n
                               /\ assignedCh' = Offered(assignedCh, TopicLen, <<n>>)
        BY <1>0, <3>0, <3>1, WhoHolds
      <4>2. Bidding(h, n)
        BY <4>1 DEF Interview, IsAt, Bidding
      <4>3. ~In(n, assignedCh) /\ Distinct(assignedCh) /\ assignedCh \in Seq(Nodes)
        BY <4>2 DEF OnceInv, Distinct, WorkflowTypeOK
      <4> DEFINE one == <<n>>
      <4>4. one \in Seq(Nodes) /\ Distinct(one) /\ \A x : In(x, one) <=> x = n
        BY SingleDistinct
      <4>5. assignedCh' = Offered(assignedCh, TopicLen, one)
        BY <4>1
      <4> HIDE DEF one
      <4>6. In(n, Offered(assignedCh, TopicLen, one))
        BY <4>3, <4>4, RoomForOthers
      <4> QED
        BY <4>5, <4>6 DEF In
    <3>2. ASSUME state'[n] = "claimed", state[n] = "claimed"
          PROVE  In(n, assignedCh)' \/ Executing(n, "assigned")'
      <4>1. In(n, assignedCh) \/ Executing(n, "assigned")
        BY <2>2, <3>2 DEF ExecInv, WithExecutor
      <4> QED
        BY <1>0, <1>1, <2>2, <3>2, <4>1, AssignedMoves, ExecutingMoves
    <3>3. ASSUME state'[n] = "running", state[n] # "running"
          PROVE  Executing(n, "generating")'
      <4>1. PICK x \in executions : Begin(x) /\ x.task = n /\ provided
        BY <1>0, <3>0, <3>3, WhoHolds
      <4>2. x \in Execution /\ [x EXCEPT !.at = "generating"] \in executions'
        BY <4>1 DEF Begin, WorkflowTypeOK
      <4>3. PICK y : y = [x EXCEPT !.at = "generating"]
        OBVIOUS
      <4>4. y.task = n /\ y.at = "generating"
        BY <4>1, <4>2, <4>3 DEF Execution
      <4> QED
        BY <4>2, <4>3, <4>4 DEF Executing
    <3>4. ASSUME state'[n] = "running", state[n] = "running"
          PROVE  Executing(n, "generating")' \/ Underway(n)'
      <4>1. Executing(n, "generating") \/ Underway(n)
        BY <2>2, <3>4 DEF ExecInv, WithExecutor
      <4>2. ASSUME Underway(n) PROVE Underway(n)'
        <5>1. PICK text \in {"empty", "text"} :
                  LET r == [task |-> n, answer |-> text] IN In(r, doneCh) \/ r \in settling
          BY <4>2 DEF Underway
        <5>2. PICK r \in Result : r = [task |-> n, answer |-> text]
          BY DEF Result
        <5>3. In(r, doneCh) \/ r \in settling
          BY <5>1, <5>2
        <5>4. In(r, doneCh') \/ r \in settling'
          BY <1>0, <3>4, <5>2, <5>3, ResultsMove, SettlingMoves
        <5>5. \E t \in {"empty", "text"} :
                  In([task |-> n, answer |-> t], doneCh') \/ [task |-> n, answer |-> t] \in settling'
          BY <5>2, <5>4
        <5> QED
          BY <5>5 DEF Underway, In
      <4> QED
        BY <1>0, <1>1, <2>2, <4>1, <4>2, ExecutingMoves
    <3> QED
      BY <3>1, <3>2, <3>3, <3>4 DEF WithExecutor
  <2> QED
    BY <2>1, <2>2
<1>2. OneEach(doneCh')
  BY ResultsMove
<1>3. OneEach(doneCh)'
  BY <1>2 DEF OneEach
<1> QED
  BY <1>1, <1>3 DEF ExecInv

-----------------------------------------------------------------------------
(* A task that is ready for the first time is announced or at a goroutine  *)
(* of the board, and none of them puts it down before it is claimed.       *)

\* What is received is gone.
LEMMA TailIsShorter ==
    ASSUME NEW T, NEW s \in Seq(T), s # <<>>
    PROVE  Tail(s) # s
<1>1. Len(s) \in Nat /\ Len(Tail(s)) = Len(s) - 1
  OBVIOUS
<1>2. \A k \in Nat : k - 1 # k
  OBVIOUS
<1>3. PICK k \in Nat : k = Len(s)
  BY <1>1
<1>4. Len(Tail(s)) = k - 1 /\ k - 1 # k
  BY <1>1, <1>2, <1>3
<1>5. ASSUME Tail(s) = s PROVE FALSE
  <2>1. Len(Tail(s)) = Len(s)
    BY <1>5
  <2> QED
    BY <1>3, <1>4, <2>1
<1> QED
  BY <1>5

\* The board and the reducer receive what is ready, and nobody else.
LEMMA WhoReceives ==
    ASSUME TypeOK, WorkflowTypeOK, [WorkflowNext]_allVars,
           NEW w \in ReadyWatchers, ReceiveReady(w)
    PROVE  (w = Board /\ TakeReady) \/ (w = Reducer /\ TakeReduce)
<1>1. /\ readyCh' # readyCh
      /\ UNCHANGED <<nodeVars, planVars, unannounced>>
      /\ readyCh' = [readyCh EXCEPT ![w] = Tail(readyCh[w])] /\ readyCh[w] # <<>>
  <2>1. \A s \in Seq(Nodes) : s # <<>> => Tail(s) # s
    BY TailIsShorter
  <2>2. readyCh[w] \in Seq(Nodes) /\ readyCh'[w] = Tail(readyCh[w]) /\ readyCh[w] # <<>>
    BY DEF ReceiveReady, TypeOK
  <2>3. readyCh'[w] # readyCh[w]
    BY <2>1, <2>2
  <2>4. /\ UNCHANGED <<nodeVars, planVars, unannounced>>
        /\ readyCh' = [readyCh EXCEPT ![w] = Tail(readyCh[w])]
    BY DEF ReceiveReady
  <2> QED
    BY <2>2, <2>3, <2>4
<1>2. \A n \in Nodes : state'[n] = state[n]
  BY <1>1 DEF nodeVars
<1>3. ASSUME NEW u \in ReadyWatchers, ReceiveReady(u) PROVE u = w
  <2>1. /\ readyCh'[u] = Tail(readyCh[u]) /\ readyCh[u] \in Seq(Nodes) /\ readyCh[u] # <<>>
        /\ u # w => readyCh'[u] = readyCh[u]
    BY <1>1, <1>3 DEF ReceiveReady, TypeOK
  <2>2. Tail(readyCh[u]) # readyCh[u]
    BY <2>1, TailIsShorter
  <2> QED
    BY <2>1, <2>2
<1>4. ASSUME UNCHANGED tsmVars PROVE FALSE
  BY <1>1, <1>4 DEF tsmVars, chanVars
<1>5. ASSUME NEW n \in Nodes, NEW peer \in Peers,
             ClaimCall(n, peer) \/ StartCall(n) \/ CompleteCall(n)
      PROVE  FALSE
  <2>1. CASE Claim(n, peer) \/ Start(n)
    BY <1>1, <2>1 DEF Claim, Start, chanVars
  <2>2. CASE Complete(n) /\ state[n] = "running"
    BY <1>2, <2>2 DEF Complete, AfterDone, Freed, CanComplete
  <2> QED
    BY <1>4, <1>5, <2>1, <2>2 DEF ClaimCall, StartCall, CompleteCall
<1>6. ASSUME NEW p \in Plans, NEW d \in Dags[p], PlanTask(p, d) PROVE FALSE
  BY <1>1, <1>6 DEF PlanTask, Ingest
<1>7. ASSUME NEW n \in Nodes, Announce(n) PROVE FALSE
  BY <1>1, <1>7 DEF Announce, PublishRoot
<1>8. ASSUME TakeReopened \/ Heartbeat \/ TakeExpired \/ Settle \/ TakeAssigned \/ UNCHANGED allVars
      PROVE  FALSE
  BY <1>1, <1>4, <1>8 DEF TakeReopened, ReceiveReopened, Heartbeat, TakeExpired, Settle,
     TakeAssigned, allVars
<1>9. ASSUME NEW h \in Hands, BoardStep(h) PROVE FALSE
  <2>1. Interview(h) \/ UNCHANGED tsmVars
    BY <1>9 DEF BoardStep, Putup, Drawup, Handout
  <2>2. UNCHANGED tsmVars \/ ClaimCall(hand[h].task, Self)
    BY <2>1 DEF Interview
  <2>3. ASSUME ClaimCall(hand[h].task, Self) PROVE UNCHANGED tsmVars
    BY <1>1, <2>3 DEF ClaimCall, Claim, chanVars
  <2> QED
    BY <1>4, <2>2, <2>3
<1>10. ASSUME NEW n \in Nodes, ExecutionStep(n) PROVE FALSE
  <2>1. UNCHANGED tsmVars \/ StartCall(n)
    BY <1>10 DEF ExecutionStep, Begin, GenerateFails, Generated
  <2>2. Self \in Peers
    BY WorkflowAssumption
  <2> QED
    BY <1>4, <1>5, <2>1, <2>2
<1>11. ASSUME ReducerStep \/ Completes PROVE FALSE
  <2>1. Local \in Peers
    BY WorkflowAssumption
  <2>2. \/ UNCHANGED tsmVars
        \/ \E n \in Nodes : ClaimCall(n, Local) \/ StartCall(n) \/ CompleteCall(n)
    <3>1. CASE ReducerStep
      <4>1. PICK v \in reducing :
                \/ \E text \in {"empty", "text"} : Reduced(v, text)
                \/ ReducerClaims(v) \/ ReducerStarts(v) \/ ReducerCompletes(v)
        BY <3>1 DEF ReducerStep
      <4>2. v.task \in Nodes
        BY DEF WorkflowTypeOK, Reduction
      <4> QED
        BY <4>1, <4>2 DEF Reduced, ReducerClaims, ReducerStarts, ReducerCompletes
    <3>2. CASE Completes
      BY <1>11, <3>2 DEF Completes, Settled, WorkflowTypeOK, Result
    <3> QED
      BY <1>11, <3>1, <3>2
  <2> QED
    BY <1>4, <1>5, <2>1, <2>2
<1>12. ASSUME Beside PROVE FALSE
  BY <1>1, <1>12 DEF Beside, FireWatchdog, Reopen, DeadlineFires, SendTimeout, Hear, Tick, chanVars
<1>13. CASE TakeReady \/ TakeReduce
  <2>1. {Board, Reducer} \subseteq ReadyWatchers
    BY WorkflowAssumption
  <2> QED
    BY <1>3, <1>13, <2>1 DEF TakeReady, TakeReduce
<1> QED
  BY <1>6, <1>7, <1>8, <1>9, <1>10, <1>11, <1>12, <1>13 DEF WorkflowNext, Completes

HasHand(h, n) == hand[h] # Idle /\ hand[h].task = n
Past(h, n) == Offering(h) /\ hand[h].task = n
Fresh(n) == n \notin ReduceTasks /\ New(n) /\ local[n] # "absent"

\* The board has not heard of the task.
Untouched(n) ==
    /\ n \notin myAds /\ n \notin peerAds /\ bids[n] = 0
    /\ ~In(n, beat)
    /\ \A h \in Hands : ~HasHand(h, n)
\* The one goroutine that has put the task up takes it to an interview.
Carried(n) ==
    /\ \A g, h \in Hands : Past(g, n) /\ Past(h, n) => g = h
    /\ n \in myAds <=> \E h \in Hands : Past(h, n)
    /\ n \in peerAds => \E h \in Hands : Bidding(h, n)
    /\ \A h \in Hands : Past(h, n) => (hand[h].at = "interview" <=> bids[n] > 0)
    /\ bids[n] > 0 => \E h \in Hands : Past(h, n)
BoardInv ==
    /\ \A n \in Nodes : Unraised(n) => Untouched(n)
    /\ \A n \in Nodes : Fresh(n) => Carried(n) /\ (Waiting(n, Board) \/ OnOffer(n))

\* A step that leaves alone what the board has of a task, but may take it up.
Kept(n) ==
    /\ (n \in myAds' <=> n \in myAds) /\ (n \in peerAds' <=> n \in peerAds)
    /\ bids'[n] = bids[n]
    /\ \A h \in Hands : HasHand(h, n) => hand'[h] = hand[h]
    /\ \A h \in Hands : Past(h, n)' => hand'[h] = hand[h]

\* Such a step drops no bid and no offer.
LEMMA KeptIsCarried ==
    ASSUME NEW n \in Nodes, Kept(n)
    PROVE  /\ Carried(n) => Carried(n)'
           /\ OnOffer(n) => OnOffer(n)'
<1>1. \A h \in Hands : /\ Past(h, n)' <=> Past(h, n)
                       /\ Past(h, n) => hand'[h] = hand[h]
  <2> TAKE h \in Hands
  <2>1. Past(h, n) => HasHand(h, n)
    BY DEF Past, HasHand, Offering, Idle
  <2> QED
    BY <2>1 DEF Kept, Past, Offering
<1>2. \A h \in Hands : Bidding(h, n) <=> Past(h, n) /\ hand[h].at \in {"bid", "interview"}
  BY DEF Bidding, Past, Offering
<1>3. \A h \in Hands : Bidding(h, n) => Bidding(h, n)'
  BY <1>1, <1>2 DEF Bidding
<1>4. OnOffer(n) => OnOffer(n)'
  BY DEF Kept, OnOffer, HasHand
<1>5. ASSUME Carried(n) PROVE Carried(n)'
  <2>1. \A g, h \in Hands : Past(g, n)' /\ Past(h, n)' => g = h
    BY <1>1, <1>5 DEF Carried
  <2>2. n \in myAds' <=> \E h \in Hands : Past(h, n)'
    BY <1>1, <1>5 DEF Carried, Kept
  <2>3. n \in peerAds' => \E h \in Hands : Bidding(h, n)'
    BY <1>3, <1>5 DEF Carried, Kept
  <2>4. \A h \in Hands : Past(h, n)' => (hand'[h].at = "interview" <=> bids'[n] > 0)
    BY <1>1, <1>5 DEF Carried, Kept
  <2>5. bids'[n] > 0 => \E h \in Hands : Past(h, n)'
    BY <1>1, <1>5 DEF Carried, Kept
  <2> QED
    BY <2>1, <2>2, <2>3, <2>4, <2>5 DEF Carried
<1> QED
  BY <1>4, <1>5

\* A goroutine at one task leaves the others alone.
LEMMA OthersAreKept ==
    ASSUME TypeOK, WorkflowTypeOK, NEW h \in Hands, BoardStep(h)
    PROVE  /\ hand[h] # Idle /\ hand[h].task \in Nodes
           /\ \A n \in Nodes : n # hand[h].task => Kept(n) /\ (Untouched(n) => Untouched(n)')
<1>1. hand[h] # Idle /\ hand[h].task \in Nodes
  <2>1. hand[h] # Idle
    BY DEF BoardStep, Putup, Drawup, Handout, Interview, IsAt, Idle
  <2> QED
    BY <2>1, HandTask
<1>2. PICK m \in Nodes : m = hand[h].task
  BY <1>1
<1>3. beat' = beat
  BY DEF BoardStep, Putup, Drawup, Handout, Interview
<1>4. \E v : hand' = [hand EXCEPT ![h] = v] /\ (v = Idle \/ v.task = m)
  BY <1>2 DEF BoardStep, Putup, Drawup, Handout, Interview, At
<1>5. PICK v : hand' = [hand EXCEPT ![h] = v] /\ (v = Idle \/ v.task = m)
  BY <1>4
<1>6. hand'[h] = v /\ \A g \in Hands : g # h => hand'[g] = hand[g]
  BY <1>5 DEF WorkflowTypeOK
<1>7. ASSUME NEW n \in Nodes, n # m
      PROVE  /\ n \in myAds' <=> n \in myAds
             /\ n \in peerAds' <=> n \in peerAds
             /\ bids'[n] = bids[n]
  <2>1. CASE Putup(h)
    BY <1>2, <1>7, <2>1 DEF Putup
  <2>2. CASE Drawup(h)
    BY <1>2, <1>7, <2>2 DEF Drawup
  <2>3. CASE Handout(h)
    BY <1>2, <1>7, <2>3 DEF Handout, WorkflowTypeOK
  <2>4. CASE Interview(h)
    BY <1>2, <1>7, <2>4 DEF Interview, WorkflowTypeOK
  <2> QED
    BY <2>1, <2>2, <2>3, <2>4 DEF BoardStep
<1>8. ASSUME NEW n \in Nodes, n # m PROVE Kept(n) /\ (Untouched(n) => Untouched(n)')
  <2>1. \A g \in Hands : /\ HasHand(g, n) => g # h
                         /\ Past(g, n)' => g # h
                         /\ HasHand(g, n)' => g # h
    BY <1>2, <1>5, <1>6, <1>8 DEF HasHand, Past, Offering, Idle
  <2>2. Kept(n)
    BY <1>6, <1>7, <1>8, <2>1 DEF Kept
  <2>3. \A g \in Hands : HasHand(g, n)' => HasHand(g, n)
    BY <1>6, <2>1 DEF HasHand
  <2>4. Untouched(n) => Untouched(n)'
    BY <1>3, <1>7, <1>8, <2>3 DEF Untouched, In
  <2> QED
    BY <2>2, <2>4
<1> QED
  BY <1>1, <1>2, <1>8

\* A goroutine takes up a task that the board may have: nothing else changes.
LEMMA TakeIsKept ==
    ASSUME WorkflowTypeOK, NEW h \in Hands, NEW m \in Nodes, Take(h, m),
           UNCHANGED <<myAds, peerAds, bids>>, NEW n \in Nodes, In(n, beat)' => In(n, beat)
    PROVE  /\ Kept(n) /\ OnOffer(m)'
           /\ n # m /\ Untouched(n) => Untouched(n)'
<1>1. hand[h] = Idle /\ hand' = [hand EXCEPT ![h] = At("putup", m)]
  BY DEF Take
<1>2. hand'[h] = At("putup", m) /\ \A g \in Hands : g # h => hand'[g] = hand[g]
  BY <1>1 DEF WorkflowTypeOK
<1>3. At("putup", m).at = "putup" /\ At("putup", m).task = m /\ At("putup", m) # Idle
  BY DEF At, Idle
<1>4. \A g \in Hands : HasHand(g, n) \/ Past(g, n)' => g # h
  BY <1>1, <1>2, <1>3 DEF HasHand, Past, Offering
<1>5. Kept(n)
  BY <1>2, <1>4 DEF Kept
<1>6. OnOffer(m)'
  BY <1>2, <1>3 DEF OnOffer
<1>7. ASSUME n # m, Untouched(n) PROVE Untouched(n)'
  <2>1. \A g \in Hands : HasHand(g, n)' => g # h /\ HasHand(g, n)
    BY <1>2, <1>3, <1>7 DEF HasHand
  <2> QED
    BY <1>7, <2>1 DEF Untouched
<1> QED
  BY <1>5, <1>6, <1>7

\* A task for the executor that is put up, drawn up and bid on gets to its interview; and
\* there it is claimed, if it is still new.
LEMMA CarriedOn ==
    ASSUME TypeOK, WorkflowTypeOK, NEW h \in Hands, BoardStep(h), NEW n \in Nodes,
           n = hand[h].task, Fresh(n), Carried(n), Fresh(n)'
    PROVE  Carried(n)' /\ OnOffer(n)'
<1>1. local[n] # "absent" /\ n \notin ReduceTasks
  BY DEF Fresh
<1>2. ASSUME NEW v, hand' = [hand EXCEPT ![h] = v]
      PROVE  hand'[h] = v /\ \A g \in Hands : g # h => hand'[g] = hand[g]
  BY <1>2 DEF WorkflowTypeOK
<1>3. \A step \in Steps : /\ At(step, n).at = step /\ At(step, n).task = n
                          /\ At(step, n) # Idle
  BY DEF At, Idle, Steps
<1>4. \A g \in Hands : g # h /\ hand'[g] = hand[g] => (Past(g, n)' <=> Past(g, n))
  BY DEF Past, Offering
<1>5. bids[n] \in Nat
  BY DEF WorkflowTypeOK
<1>6. CASE Putup(h) /\ n \in myAds
  <2>1. hand' = [hand EXCEPT ![h] = Idle] /\ UNCHANGED <<myAds, peerAds, bids>>
    BY <1>6 DEF Putup
  <2>2. hand[h].at = "putup"
    BY <1>6 DEF Putup, IsAt
  <2>3. PICK g \in Hands : Past(g, n)
    BY <1>6 DEF Carried
  <2>4. hand'[h] = Idle /\ \A f \in Hands : f # h => hand'[f] = hand[f]
    BY <1>2, <2>1
  <2>5. \A f \in Hands : (Past(f, n)' <=> Past(f, n)) /\ (Past(f, n) => hand'[f] = hand[f])
    BY <1>4, <2>2, <2>4 DEF Past, Offering, Idle
  <2>6. \A f \in Hands : Bidding(f, n) => Bidding(f, n)'
    BY <2>5 DEF Bidding, Past, Offering
  <2>7. Carried(n)'
    <3>1. \A e, f \in Hands : Past(e, n)' /\ Past(f, n)' => e = f
      BY <2>5 DEF Carried
    <3>2. n \in myAds' <=> \E f \in Hands : Past(f, n)'
      BY <2>1, <2>5 DEF Carried
    <3>3. n \in peerAds' => \E f \in Hands : Bidding(f, n)'
      BY <2>1, <2>6 DEF Carried
    <3>4. \A f \in Hands : Past(f, n)' => (hand'[f].at = "interview" <=> bids'[n] > 0)
      BY <2>1, <2>5 DEF Carried
    <3>5. bids'[n] > 0 => \E f \in Hands : Past(f, n)'
      BY <2>1, <2>5 DEF Carried
    <3> QED
      BY <3>1, <3>2, <3>3, <3>4, <3>5 DEF Carried
  <2>8. OnOffer(n)'
    BY <2>3, <2>5 DEF OnOffer, Past, Offering, Idle
  <2> QED
    BY <2>7, <2>8
<1>7. ASSUME NEW step \in {"drawup", "bid", "interview"}, hand' = [hand EXCEPT ![h] = At(step, n)],
             \A g \in Hands : Past(g, n) => g = h,
             n \in myAds', n \in peerAds' => step # "drawup",
             bids'[n] > 0 <=> step = "interview"
      PROVE  Carried(n)' /\ OnOffer(n)'
  <2>1. hand'[h] = At(step, n) /\ \A g \in Hands : g # h => hand'[g] = hand[g]
    BY <1>2, <1>7
  <2>2. hand'[h].at = step /\ hand'[h].task = n /\ hand'[h] # Idle
    BY <1>3, <2>1 DEF Steps
  <2>3. \A g \in Hands : Past(g, n)' <=> g = h
    BY <1>4, <1>7, <2>1, <2>2 DEF Past, Offering
  <2>4. step # "drawup" => Bidding(h, n)'
    BY <2>2 DEF Bidding
  <2>5. OnOffer(n)'
    BY <2>2 DEF OnOffer
  <2>6. Carried(n)'
    BY <1>7, <2>2, <2>3, <2>4 DEF Carried
  <2> QED
    BY <2>5, <2>6
<1>8. CASE Putup(h) /\ n \notin myAds
  <2>1. \A g \in Hands : ~Past(g, n)
    BY <1>8 DEF Carried
  <2>2. n \notin peerAds /\ ~(bids[n] > 0)
    BY <2>1 DEF Carried, Bidding, Past, Offering
  <2>3. /\ hand' = [hand EXCEPT ![h] = At("drawup", n)] /\ n \in myAds'
        /\ UNCHANGED <<peerAds, bids>>
    BY <1>1, <1>8 DEF Putup
  <2> QED
    BY <1>7, <2>1, <2>2, <2>3
<1>9. CASE Drawup(h)
  <2>1. hand[h].at = "drawup" /\ Past(h, n)
    BY <1>9 DEF Drawup, IsAt, Past, Offering
  <2>2. \A g \in Hands : Past(g, n) => g = h
    BY <2>1 DEF Carried
  <2>3. n \notin peerAds
    BY <2>1, <2>2 DEF Carried, Bidding, Past, Offering
  <2>4. ~(bids[n] > 0) /\ n \in myAds
    BY <2>1 DEF Carried
  <2>5. hand' = [hand EXCEPT ![h] = At("bid", n)] /\ UNCHANGED <<myAds, bids>>
    BY <1>9, <2>3 DEF Drawup
  <2> QED
    BY <1>7, <2>2, <2>4, <2>5
<1>10. CASE Handout(h)
  <2>1. hand[h].at = "bid" /\ Past(h, n)
    BY <1>10 DEF Handout, IsAt, Past, Offering
  <2>2. (\A g \in Hands : Past(g, n) => g = h) /\ n \in myAds /\ ~(bids[n] > 0)
    BY <2>1 DEF Carried
  <2>3. bids[n] = 0
    BY <1>5, <2>2
  <2>4. /\ hand' = [hand EXCEPT ![h] = At("interview", n)] /\ bids'[n] = 1
        /\ UNCHANGED <<myAds>>
    BY <1>10, <2>3 DEF Handout, WorkflowTypeOK
  <2> QED
    BY <1>7, <2>2, <2>4
<1>11. CASE Interview(h)
  <2>1. hand[h].at = "interview" /\ Past(h, n)
    BY <1>11 DEF Interview, IsAt, Past, Offering
  <2>2. n \in myAds /\ bids[n] > 0
    BY <2>1 DEF Carried
  <2>3. ClaimCall(n, Self)
    BY <1>1, <1>11, <2>2 DEF Interview
  <2>4. Self \in Peers
    BY WorkflowAssumption
  <2>5. state'[n] # "ready"
    BY <2>3, <2>4, CallsHold
  <2> QED
    BY <2>5 DEF Fresh, New
<1> QED
  BY <1>6, <1>8, <1>9, <1>10, <1>11 DEF BoardStep

\* What a step does to a task that nobody raised yet, and to one that is new.
BoardKeeps(n) ==
    /\ Unraised(n) /\ Untouched(n) => Untouched(n)'
    /\ Fresh(n) /\ Fresh(n)' /\ Carried(n) => Carried(n)' /\ (OnOffer(n) => OnOffer(n)')
    /\ TakeReady /\ n = Head(readyCh[Board]) => OnOffer(n)'

\* The board drops nothing that it has taken up, and takes up what it is told of.
LEMMA NextBoardKeeps ==
    ASSUME IInv, QueueInv, WorkflowTypeOK, [WorkflowNext]_allVars, NEW n \in Nodes
    PROVE  BoardKeeps(n)
<1>0. TypeOK
  BY DEF IInv
<1>1. CASE UNCHANGED boardVars /\ ~TakeReady
  <2>1. UNCHANGED <<myAds, peerAds, bids, hand, beat>>
    BY <1>1 DEF boardVars
  <2>2. Kept(n)
    BY <2>1 DEF Kept
  <2>3. Untouched(n) => Untouched(n)'
    BY <2>1 DEF Untouched, In, HasHand
  <2> QED
    BY <1>1, <2>2, <2>3, KeptIsCarried DEF BoardKeeps
<1>2. ASSUME NEW h \in Hands, NEW m \in Nodes, Take(h, m), ~Untouched(m) \/ ~Unraised(m),
             UNCHANGED <<myAds, peerAds, bids>>, In(n, beat)' => In(n, beat),
             TakeReady => m = Head(readyCh[Board])
      PROVE  BoardKeeps(n)
  <2>1. /\ Kept(n) /\ OnOffer(m)'
        /\ n # m /\ Untouched(n) => Untouched(n)'
    BY <1>2, TakeIsKept
  <2> QED
    BY <1>2, <2>1, KeptIsCarried DEF BoardKeeps
<1>3. CASE TakeReady
  <2>1. readyCh[Board] \in Seq(Nodes) /\ readyCh[Board] # <<>> /\ Board \in ReadyWatchers
    BY <1>0, <1>3, WorkflowAssumption DEF TakeReady, ReceiveReady, TypeOK
  <2>2. PICK m \in Nodes : m = Head(readyCh[Board]) /\ In(m, readyCh[Board])
    BY <2>1, TailMembers
  <2>3. ~Unraised(m)
    BY <2>1, <2>2 DEF QueueInv, UnraisedUnseen, Announced
  <2>4. Take("ready", m) /\ UNCHANGED <<myAds, peerAds, bids, beat>>
    BY <1>3, <2>2 DEF TakeReady
  <2>5. In(n, beat)' => In(n, beat)
    BY <2>4 DEF In
  <2>6. "ready" \in Hands
    BY DEF Hands
  <2> QED
    BY <1>2, <2>2, <2>3, <2>4, <2>5, <2>6
<1>4. CASE TakeReopened /\ ~TakeReady
  <2>1. reopenedCh \in Seq(Nodes) /\ reopenedCh # <<>>
    BY <1>0, <1>4 DEF TakeReopened, ReceiveReopened, TypeOK
  <2>2. PICK m \in Nodes : m = Head(reopenedCh) /\ In(m, reopenedCh)
    BY <2>1, TailMembers
  <2>3. ~Unraised(m)
    BY <2>1, <2>2 DEF QueueInv, UnraisedUnseen
  <2>4. Take("reopened", m) /\ UNCHANGED <<myAds, peerAds, bids, beat>>
    BY <1>4, <2>2 DEF TakeReopened
  <2>5. In(n, beat)' => In(n, beat)
    BY <2>4 DEF In
  <2>6. "reopened" \in Hands
    BY DEF Hands
  <2> QED
    BY <1>2, <1>4, <2>3, <2>4, <2>5, <2>6
<1>5. CASE TakeExpired /\ ~TakeReady
  <2>1. beat \in Seq(Nodes) /\ beat # <<>>
    BY <1>5 DEF TakeExpired, WorkflowTypeOK
  <2>2. Head(beat) \in Nodes /\ In(Head(beat), beat) /\ \A x : In(x, Tail(beat)) => In(x, beat)
    BY <2>1, TailMembers
  <2>3. PICK m \in Nodes : m = Head(beat) /\ In(m, beat)
    BY <2>2
  <2>4. ~Untouched(m)
    BY <2>3 DEF Untouched
  <2>5. Take("heartbeat", m) /\ UNCHANGED <<myAds, peerAds, bids>> /\ beat' = Tail(beat)
    BY <1>5, <2>3 DEF TakeExpired
  <2>6. In(n, beat)' => In(n, beat)
    BY <2>2, <2>5 DEF In
  <2>7. "heartbeat" \in Hands
    BY DEF Hands
  <2> QED
    BY <1>2, <1>5, <2>4, <2>5, <2>6, <2>7
<1>6. CASE Heartbeat /\ ~TakeReady
  <2>1. UNCHANGED <<myAds, peerAds, bids, hand>> /\ beat' \in Orders(Expired)
    BY <1>6 DEF Heartbeat
  <2>2. IsFiniteSet(Expired)
    BY NodesAssumption, FS_Subset DEF Expired
  <2>3. In(n, beat') => n \in Expired
    BY <2>1, <2>2, OrdersDistinct
  <2>4. Unraised(n) => ~In(n, beat)'
    BY <2>3 DEF Expired, Unraised, In
  <2>5. Kept(n)
    BY <2>1 DEF Kept
  <2>6. Unraised(n) /\ Untouched(n) => Untouched(n)'
    BY <2>1, <2>4 DEF Untouched, HasHand
  <2> QED
    BY <1>6, <2>5, <2>6, KeptIsCarried DEF BoardKeeps
<1>7. ASSUME NEW h \in Hands, BoardStep(h), ~TakeReady PROVE BoardKeeps(n)
  <2>1. /\ hand[h] # Idle /\ hand[h].task \in Nodes
        /\ n # hand[h].task => Kept(n) /\ (Untouched(n) => Untouched(n)')
    BY <1>0, <1>7, OthersAreKept
  <2>2. CASE n # hand[h].task
    BY <1>7, <2>1, <2>2, KeptIsCarried DEF BoardKeeps
  <2>3. CASE n = hand[h].task
    <3>1. ~Untouched(n)
      BY <2>1, <2>3 DEF Untouched, HasHand
    <3>2. Fresh(n) /\ Fresh(n)' /\ Carried(n) => Carried(n)' /\ OnOffer(n)'
      BY <1>0, <1>7, <2>3, CarriedOn
    <3> QED
      BY <1>7, <3>1, <3>2 DEF BoardKeeps
  <2> QED
    BY <2>2, <2>3
<1> QED
  BY <1>1, <1>3, <1>4, <1>5, <1>6, <1>7, WhoTouches

\* Every step keeps what is new in somebody's hands.
LEMMA NextBoardInv ==
    ASSUME IInv, QueueInv, WorkflowTypeOK, BoardInv, ChannelsFit,
           [WorkflowNext]_allVars, [Next]_tsmVars
    PROVE  BoardInv'
<1>0. TypeOK /\ Board \in ReadyWatchers
  BY WorkflowAssumption DEF IInv
<1>1. \A n \in Nodes : BoardKeeps(n)
  BY NextBoardKeeps
<1>2. \A n \in Nodes : NewMoves(n, Board) /\ (Unraised(n)' => Unraised(n))
  <2> TAKE n \in Nodes
  <2> QED
    BY <1>0, NextNew
<1>3. ASSUME NEW n \in Nodes, Unraised(n)' PROVE Untouched(n)'
  BY <1>1, <1>2, <1>3 DEF BoardInv, BoardKeeps
<1>4. ASSUME NEW n \in Nodes, Fresh(n)'
      PROVE  Carried(n)' /\ (Waiting(n, Board)' \/ OnOffer(n)')
  <2>1. New(n)' /\ local'[n] # "absent" /\ n \notin ReduceTasks
    BY <1>4 DEF Fresh
  <2>2. New(n) \/ (Unraised(n) /\ Waiting(n, Board)')
    BY <1>2, <2>1 DEF NewMoves
  <2>3. CASE Unraised(n) /\ Waiting(n, Board)'
    <3>1. Untouched(n)'
      BY <1>1, <2>3 DEF BoardInv, BoardKeeps
    <3>2. \A h \in Hands : ~Past(h, n)'
      BY <3>1 DEF Untouched, Past, HasHand, Offering, Idle
    <3>3. Carried(n)'
      BY <3>1, <3>2 DEF Carried, Untouched
    <3> QED
      BY <2>3, <3>3
  <2>4. CASE New(n) /\ ~Unraised(n)
    <3>1. Fresh(n)
      BY <2>1, <2>4, WhoImports DEF Fresh
    <3>2. Carried(n) /\ (Waiting(n, Board) \/ OnOffer(n))
      BY <3>1 DEF BoardInv
    <3>3. Carried(n)' /\ (OnOffer(n) => OnOffer(n)')
      BY <1>1, <1>4, <3>1, <3>2 DEF BoardKeeps
    <3>4. Waiting(n, Board) => Waiting(n, Board)' \/ OnOffer(n)'
      <4>1. ASSUME ReceiveReady(Board), n = Head(readyCh[Board]) PROVE OnOffer(n)'
        <5>1. TakeReady
          BY <1>0, <4>1, WhoReceives, WorkflowAssumption
        <5> QED
          BY <1>1, <4>1, <5>1 DEF BoardKeeps
      <4> QED
        BY <1>2, <2>1, <4>1 DEF NewMoves
    <3> QED
      BY <3>2, <3>3, <3>4
  <2>5. New(n) => ~Unraised(n)
    BY DEF New, Unraised
  <2> QED
    BY <2>2, <2>3, <2>4, <2>5
<1> QED
  BY <1>3, <1>4 DEF BoardInv

-----------------------------------------------------------------------------
(* A task to reduce waits for the reducer, is at it, or was put aside for  *)
(* good because there is nothing to reduce or no model to do it.           *)

NothingToReduce(n) ==
    OthersDone(n) /\ \A m \in dag[PlanOf[n]].nodes \ ReduceTasks : answers[m] # "text"
Moved(w) ==
    /\ ~Unraised(w.task)
    /\ w.at \in {"starting", "completing"} => ~New(w.task)
    /\ w.at = "completing" => state[w.task] # "claimed"
WithReducer(n) ==
    /\ state[n] \in Held => Reducing(n)
    /\ New(n) =>
           Reducing(n) \/ Waiting(n, Reducer) \/ NothingToReduce(n) \/ n \in refused
ReduceInv ==
    /\ \A w \in reducing : Moved(w)
    /\ \A n \in ReduceTasks : WithReducer(n)

\* The reducer is at one task until it has completed it.
LEMMA ReducerMoves ==
    ASSUME TypeOK, WorkflowTypeOK, [WorkflowNext]_allVars, ~TakeReduce, NEW v \in reducing
    PROVE  \/ v \in reducing' /\ reducing' = reducing
           \/ /\ v.at = "generating"
              /\ \E w : reducing' = {w} /\ w.task = v.task /\ w.at = "claiming"
           \/ /\ v.at = "claiming" /\ state'[v.task] # "ready"
              /\ \E w : reducing' = {w} /\ w.task = v.task /\ w.at = "starting"
           \/ /\ v.at = "starting" /\ state'[v.task] # "claimed"
              /\ \E w : reducing' = {w} /\ w.task = v.task /\ w.at = "completing"
           \/ /\ v.at = "completing" /\ state'[v.task] # "running"
              /\ reducing' = {}
<1>1. CASE UNCHANGED reducing
  BY <1>1
<1>2. CASE ReducerStep
  <2>1. \/ \E text \in {"empty", "text"} : Reduced(v, text)
        \/ ReducerClaims(v) \/ ReducerStarts(v) \/ ReducerCompletes(v)
    BY <1>2 DEF ReducerStep, WorkflowTypeOK
  <2>2. v.task \in Nodes /\ v \in Reduction /\ Local \in Peers
    BY WorkflowAssumption DEF WorkflowTypeOK, Reduction
  <2>3. ASSUME NEW step, reducing' = {[v EXCEPT !.at = step]}
        PROVE  \E w : reducing' = {w} /\ w.task = v.task /\ w.at = step
    <3>1. /\ [v EXCEPT !.at = step].task = v.task
          /\ [v EXCEPT !.at = step].at = step
      BY <2>2 DEF Reduction
    <3> QED
      BY <2>3, <3>1
  <2>4. CASE \E text \in {"empty", "text"} : Reduced(v, text)
    BY <2>3, <2>4 DEF Reduced
  <2>5. CASE ReducerClaims(v)
    BY <2>2, <2>3, <2>5, CallsHold DEF ReducerClaims
  <2>6. CASE ReducerStarts(v)
    BY <2>2, <2>3, <2>6, CallsHold DEF ReducerStarts
  <2>7. CASE ReducerCompletes(v)
    BY <2>2, <2>7, CallsHold DEF ReducerCompletes
  <2> QED
    BY <2>1, <2>4, <2>5, <2>6, <2>7
<1> QED
  BY <1>1, <1>2, WhoTouches

\* What the reducer takes was announced; it takes it up unless there is nothing to reduce or
\* no model.
LEMMA TakenIsReduced ==
    ASSUME IInv, QueueInv, WorkflowTypeOK, OutputInv, ReductionsComeLast, TakeReduce
    PROVE  /\ \A w \in reducing' : ~Unraised(w.task) /\ w.at = "generating" /\ w.task \in Nodes
           /\ \A n \in ReduceTasks : n = Head(readyCh[Reducer]) =>
                  Reducing(n)' \/ NothingToReduce(n) \/ n \in refused'
<1>1. readyCh[Reducer] \in Seq(Nodes) /\ readyCh[Reducer] # <<>> /\ Reducer \in ReadyWatchers
  BY WorkflowAssumption DEF TakeReduce, ReceiveReady, IInv, TypeOK
<1>2. PICK n \in Nodes : n = Head(readyCh[Reducer]) /\ In(n, readyCh[Reducer])
  BY <1>1, TailMembers
<1>3. Announced(n)
  BY <1>1, <1>2 DEF Announced
<1>4. ~Unraised(n) /\ \A m \in Preds(n) : state[m] = "done"
  BY <1>3 DEF QueueInv, AnnouncedFree, UnraisedUnseen
<1>5. state[n] # "absent"
  BY <1>4 DEF Unraised
<1>6. reducing = {}
  BY DEF TakeReduce
<1>7. n \notin ReduceTasks => reducing' = {}
  BY <1>2, <1>6 DEF TakeReduce, reducerVars
<1>8. \/ reducing' = {}
      \/ n \in ReduceTasks /\ reducing' = {[task |-> n, at |-> "generating"]}
  BY <1>2, <1>6, <1>7 DEF TakeReduce
<1>9. \A w \in reducing' : w = [task |-> n, at |-> "generating"]
  BY <1>8
<1>10. \A w \in reducing' : w.task = n /\ w.at = "generating"
  BY <1>9
<1>11. ASSUME n \in ReduceTasks, Combinable(PlanOf[n]) = {} PROVE NothingToReduce(n)
  <2>1. OthersDone(n)
    BY <1>4, <1>5, <1>11, LastWhenFree
  <2>2. ASSUME NEW m \in dag[PlanOf[n]].nodes \ ReduceTasks PROVE answers[m] # "text"
    <3>1. m \in Combinable(PlanOf[n]) <=> answers[m] = "text"
      BY <1>5, <2>1, CombinableWhenDone
    <3> QED
      BY <1>11, <3>1
  <2> QED
    BY <2>1, <2>2 DEF NothingToReduce
<1>12. ASSUME n \in ReduceTasks, Combinable(PlanOf[n]) # {}
       PROVE  Reducing(n)' \/ n \in refused'
  <2>1. \/ reducing' = {[task |-> n, at |-> "generating"]}
        \/ refused' = refused \cup {n}
    BY <1>2, <1>12 DEF TakeReduce
  <2>2. [task |-> n, at |-> "generating"].task = n
    OBVIOUS
  <2> QED
    BY <2>1, <2>2 DEF Reducing
<1> QED
  BY <1>2, <1>4, <1>10, <1>11, <1>12

\* Every step keeps what the reducer is at, and what it still has to reduce.
LEMMA NextReduceInv ==
    ASSUME IInv, IInv', QueueInv, WorkflowTypeOK, OutputInv, ReduceInv,
           ReductionsComeLast, ChannelsFit, [WorkflowNext]_allVars, [Next]_tsmVars
    PROVE  ReduceInv'
<1>0. TypeOK /\ Reducer \in ReadyWatchers
  BY WorkflowAssumption DEF IInv
<1>1. \A n \in Nodes : NewMoves(n, Reducer) /\ (Unraised(n)' => Unraised(n))
  <2> TAKE n \in Nodes
  <2> QED
    BY <1>0, NextNew
<1>2. ASSUME NEW n \in ReduceTasks
      PROVE  /\ state'[n] = "claimed" =>
                    state[n] = "claimed" \/ \E w \in reducing : ReducerClaims(w) /\ w.task = n
             /\ state'[n] = "running" =>
                    state[n] = "running" \/ \E w \in reducing : ReducerStarts(w) /\ w.task = n
  <2>1. n \in Nodes
    BY WorkflowAssumption
  <2>2. \A h \in Hands : Interview(h) => hand[h].task # n
    BY DEF Interview, IsAt, OutputInv, WayToExecutor, Offering
  <2>3. \A x \in executions : x.task # n
    BY DEF OutputInv, ExecutionsPending
  <2> QED
    BY <1>0, <2>1, <2>2, <2>3, WhoHolds
<1>3. ASSUME NEW n \in Nodes PROVE ~Unraised(n) => ~Unraised(n)' /\ (~New(n) => ~New(n)')
  BY <1>1 DEF NewMoves
<1>4. ASSUME NEW v \in reducing
      PROVE  v.task \in Nodes /\ v.task \in ReduceTasks /\ Moved(v)
  BY DEF WorkflowTypeOK, Reduction, OutputInv, ReducesTraced, ReduceInv
<1>5. ASSUME NEW v \in reducing, v.at = "completing"
      PROVE  state'[v.task] # "claimed"
  <2>1. state[v.task] # "claimed" /\ v.task \in ReduceTasks
    BY <1>4, <1>5 DEF Moved
  <2>2. \A w \in reducing : ~ReducerClaims(w)
    BY <1>5 DEF WorkflowTypeOK, ReducerClaims
  <2> QED
    BY <1>2, <2>1, <2>2
<1>6. ASSUME NEW w \in reducing' PROVE Moved(w)'
  <2>1. CASE TakeReduce
    <3>1. ~Unraised(w.task) /\ w.at = "generating" /\ w.task \in Nodes
      BY <2>1, TakenIsReduced
    <3> QED
      BY <1>3, <3>1 DEF Moved
  <2>2. CASE ~TakeReduce
    <3>1. PICK v \in reducing : w.task = v.task
      BY <2>2, ReducingMoves
    <3>2. /\ v.task \in Nodes /\ ~Unraised(v.task)
          /\ v.at \in {"starting", "completing"} => ~New(v.task)
      BY <1>4 DEF Moved
    <3>3. ~Unraised(v.task)' /\ (~New(v.task) => ~New(v.task)')
      BY <1>3, <3>2
    <3>4. \/ w = v
          \/ w.at = "claiming"
          \/ w.at = "starting" /\ state'[v.task] # "ready"
          \/ w.at = "completing" /\ v.at = "starting" /\ state'[v.task] # "claimed"
      <4>1. \A u \in reducing : u = v
        BY DEF WorkflowTypeOK
      <4>2. \/ reducing' = reducing
            \/ \E u : reducing' = {u} /\ u.at = "claiming"
            \/ \E u : reducing' = {u} /\ u.at = "starting" /\ state'[v.task] # "ready"
            \/ \E u : /\ reducing' = {u} /\ u.at = "completing" /\ v.at = "starting"
                      /\ state'[v.task] # "claimed"
            \/ reducing' = {}
        BY <1>0, <2>2, ReducerMoves
      <4> QED
        BY <4>1, <4>2
    <3>5. ~Unraised(w.task)'
      BY <3>1, <3>3 DEF Unraised
    <3>6. w.at \in {"starting", "completing"} => ~New(w.task)'
      BY <3>1, <3>2, <3>3, <3>4 DEF New
    <3>7. w.at = "completing" => state'[w.task] # "claimed"
      BY <1>5, <3>1, <3>4
    <3> QED
      BY <3>5, <3>6, <3>7 DEF Moved
  <2> QED
    BY <2>1, <2>2
<1>7. ASSUME NEW n \in ReduceTasks, NothingToReduce(n), state[n] # "absent"
      PROVE  NothingToReduce(n)'
  <2>1. n \in Nodes /\ OthersDone(n)
    BY <1>7, WorkflowAssumption DEF NothingToReduce
  <2>2. /\ OthersDone(n)' /\ dag'[PlanOf[n]].nodes = dag[PlanOf[n]].nodes
        /\ \A m \in dag[PlanOf[n]].nodes \ ReduceTasks : answers'[m] = answers[m]
    BY <1>7, <2>1, OthersStayDone
  <2> QED
    BY <1>7, <2>2 DEF NothingToReduce
<1>8. ASSUME NEW n \in ReduceTasks, Reducing(n), state'[n] \in Held \/ New(n)',
             state[n] = state'[n] \/ New(n)
      PROVE  Reducing(n)'
  <2>1. PICK v \in reducing : v.task = n
    BY <1>8 DEF Reducing
  <2>2. ~TakeReduce
    BY <2>1 DEF TakeReduce
  <2>3. Moved(v)
    BY <2>1 DEF ReduceInv
  <2>4. ASSUME v.at = "completing", state'[n] # "running" PROVE FALSE
    <3>1. ~New(n) /\ ~Unraised(n) /\ n \in Nodes
      BY <2>1, <2>3, <2>4, WorkflowAssumption DEF Moved
    <3>2. ~New(n)'
      BY <1>3, <3>1
    <3>3. state[n] # "claimed"
      BY <2>1, <2>3, <2>4 DEF Moved
    <3> QED
      BY <1>8, <2>4, <3>1, <3>2, <3>3 DEF Held
  <2>5. \/ v \in reducing'
        \/ \E w : reducing' = {w} /\ w.task = n
    BY <1>0, <2>1, <2>2, <2>4, ReducerMoves
  <2> QED
    BY <2>1, <2>5 DEF Reducing
<1>9. refused \subseteq refused'
  <2>1. CASE TakeReduce
    BY <2>1 DEF TakeReduce, reducerVars
  <2>2. CASE ~TakeReduce
    BY <2>2, ReducingMoves
  <2> QED
    BY <2>1, <2>2
<1>10. ASSUME NEW n \in ReduceTasks PROVE WithReducer(n)'
  <2>0. n \in Nodes
    BY WorkflowAssumption
  <2>1. ASSUME state'[n] \in Held, state[n] # state'[n] PROVE Reducing(n)'
    <3>1. PICK w \in reducing : (ReducerClaims(w) \/ ReducerStarts(w)) /\ w.task = n
      BY <1>2, <2>1 DEF Held
    <3>2. w \in Reduction
      BY DEF WorkflowTypeOK
    <3>3. \E step : reducing' = {[w EXCEPT !.at = step]}
      BY <3>1 DEF ReducerClaims, ReducerStarts
    <3>4. \A step : [w EXCEPT !.at = step].task = n
      BY <3>1, <3>2 DEF Reduction
    <3> QED
      BY <3>3, <3>4 DEF Reducing
  <2>2. ASSUME state'[n] \in Held, state[n] = state'[n] PROVE Reducing(n)'
    BY <1>8, <2>2 DEF ReduceInv, WithReducer
  <2>3. ASSUME New(n)'
        PROVE  \/ Reducing(n)' \/ Waiting(n, Reducer)'
               \/ NothingToReduce(n)' \/ n \in refused'
    <3>1. New(n) \/ Waiting(n, Reducer)'
      BY <1>1, <2>0, <2>3 DEF NewMoves
    <3>2. n \in refused => n \in refused'
      BY <1>9
    <3>3. ASSUME New(n)
          PROVE  \/ Reducing(n)' \/ Waiting(n, Reducer)'
                 \/ NothingToReduce(n)' \/ n \in refused'
      <4>1. Reducing(n) \/ Waiting(n, Reducer) \/ NothingToReduce(n) \/ n \in refused
        BY <3>3 DEF ReduceInv, WithReducer
      <4>2. state[n] # "absent"
        BY <3>3 DEF New
      <4>3. ASSUME Waiting(n, Reducer), ~Waiting(n, Reducer)'
            PROVE  Reducing(n)' \/ NothingToReduce(n)' \/ n \in refused'
        <5>1. ReceiveReady(Reducer) /\ n = Head(readyCh[Reducer])
          BY <1>1, <2>0, <2>3, <4>3 DEF NewMoves
        <5>2. TakeReduce
          BY <1>0, <5>1, WhoReceives, WorkflowAssumption
        <5>3. Reducing(n)' \/ NothingToReduce(n) \/ n \in refused'
          BY <5>1, <5>2, TakenIsReduced
        <5> QED
          BY <1>7, <4>2, <5>3
      <4> QED
        BY <1>7, <1>8, <2>3, <3>2, <3>3, <4>1, <4>2, <4>3
    <3> QED
      BY <3>1, <3>3
  <2> QED
    BY <2>1, <2>2, <2>3 DEF WithReducer
<1> QED
  BY <1>6, <1>10 DEF ReduceInv

\* At the start nobody has anything.
LEMMA InitKeepsAll == WorkflowInit => BoardInv /\ ExecInv /\ ReduceInv
<1> SUFFICES ASSUME WorkflowInit
             PROVE  BoardInv /\ ExecInv /\ ReduceInv
  OBVIOUS
<1>1. /\ \A n \in Nodes : /\ state[n] = "absent" /\ local[n] = "absent"
                          /\ answers[n] = "unset" /\ bids[n] = 0
      /\ \A h \in Hands : hand[h] = Idle
      /\ myAds = {} /\ peerAds = {} /\ beat = <<>> /\ doneCh = <<>>
      /\ reducing = {} /\ executions = {}
  BY DEF WorkflowInit, Init
<1>2. BoardInv
  BY <1>1 DEF BoardInv, Untouched, HasHand, In, Fresh
<1>3. ExecInv
  BY <1>1 DEF ExecInv, OneEach
<1>4. ReduceInv
  BY <1>1, WorkflowAssumption DEF ReduceInv, WithReducer, New, Held
<1> QED
  BY <1>2, <1>3, <1>4

\* If the reduction of every plan comes last in its graph and the channels are as long as
\* there are tasks, no task gets lost between the components: what is ready for the first
\* time is announced or offered, what is claimed is on the way to the executor, what runs is
\* executed or about to be completed, and what is to be reduced is with the reducer, unless
\* there is nothing to reduce or the reducer had no model for it.
THEOREM ForgetsNothing ==
    ASSUME ReductionsComeLast, ChannelsFit
    PROVE  WorkflowSpec => []NothingIsForgotten
<1>1. /\ IInv /\ IInv' /\ QueueInv /\ OnceInv /\ OutputInv /\ WorkflowTypeOK
      /\ BoardInv /\ ExecInv /\ ReduceInv
      /\ [WorkflowNext]_allVars /\ [Next]_tsmVars
      => (BoardInv /\ ExecInv /\ ReduceInv)'
  BY NextBoardInv, NextExecInv, NextReduceInv
<1>2. IInv /\ WorkflowTypeOK /\ OutputInv /\ BoardInv /\ ExecInv /\ ReduceInv
      => NothingIsForgotten
  <2> SUFFICES ASSUME IInv, WorkflowTypeOK, OutputInv, BoardInv, ExecInv, ReduceInv
               PROVE  NothingIsForgotten
    OBVIOUS
  <2>1. ASSUME NEW n \in Nodes \ ReduceTasks, local[n] # "absent"
        PROVE  /\ state[n] = "ready" /\ lease[n] = 0 =>
                      n \in unannounced \/ In(n, readyCh[Board]) \/ OnOffer(n)
               /\ WithExecutor(n)
    BY <2>1 DEF BoardInv, ExecInv, Fresh, New, Waiting
  <2>2. ASSUME NEW n \in ReduceTasks, state[n] \in Held PROVE Reducing(n)
    BY <2>2 DEF ReduceInv, WithReducer
  <2>3. ASSUME NEW n \in ReduceTasks, state[n] = "ready", lease[n] = 0
        PROVE  \/ n \in unannounced \/ In(n, readyCh[Reducer]) \/ Reducing(n)
               \/ Combinable(PlanOf[n]) = {} \/ n \in refused
    <3>1. n \in Nodes /\ state[n] # "absent"
      BY <2>3, WorkflowAssumption
    <3>2. Reducing(n) \/ Waiting(n, Reducer) \/ NothingToReduce(n) \/ n \in refused
      BY <2>3 DEF ReduceInv, WithReducer, New
    <3>3. ASSUME NothingToReduce(n) PROVE Combinable(PlanOf[n]) = {}
      <4>1. ASSUME NEW m \in Combinable(PlanOf[n]) PROVE FALSE
        <5>1. m \in dag[PlanOf[n]].nodes \ ReduceTasks
          BY DEF Combinable
        <5>2. answers[m] = "text"
          BY <3>1, <3>3, <5>1, CombinableWhenDone DEF NothingToReduce
        <5> QED
          BY <3>3, <5>1, <5>2 DEF NothingToReduce
      <4> QED
        BY <4>1
    <3> QED
      BY <3>2, <3>3 DEF Waiting
  <2> QED
    BY <2>1, <2>2, <2>3 DEF NothingIsForgotten, WithExecutor, Underway
<1>3. TypeOK /\ WorkflowTypeOK /\ [WorkflowNext]_allVars => [Next]_tsmVars
  BY StepIsAllowed DEF allVars
<1> QED
  BY <1>1, <1>2, <1>3, InitKeepsAll, WorkflowTypesHold, UsesStateManager, InvariantHolds,
     QueueHolds, OnceHolds, OutputHolds, PTL DEF WorkflowSpec

=============================================================================
