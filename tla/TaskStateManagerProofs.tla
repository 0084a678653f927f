----------------------- MODULE TaskStateManagerProofs -----------------------
(***************************************************************************)
(* Theorems about TaskStateManager for any plans, graphs, peers, leases    *)
(* and bounds, checked by TLAPS.  The last two sections are about the      *)
(* announcements of ready tasks, on which WorkflowProofs rests.            *)
(***************************************************************************)
EXTENDS TaskStateManager, FiniteSetTheorems, SequenceTheorems, TLAPS

-----------------------------------------------------------------------------
(* Channels and sequences of results.                                      *)

\* Publishing messages of a kind into a channel of that kind keeps its kind.
LEMMA OfferedType ==
    ASSUME NEW T, NEW ch \in Seq(T), NEW msgs \in Seq(T), NEW cap \in Nat
    PROVE  Offered(ch, cap, msgs) \in Seq(T)
<1>1. CASE Len(ch) >= cap
  BY <1>1 DEF Offered
<1>2. CASE ~(Len(ch) >= cap)
  <2> DEFINE k == IF cap - Len(ch) <= Len(msgs) THEN cap - Len(ch) ELSE Len(msgs)
  <2>1. k \in Nat /\ k <= Len(msgs)
    BY <1>2
  <2>2. SubSeq(msgs, 1, k) \in Seq(T)
    BY <2>1
  <2>3. ch \o SubSeq(msgs, 1, k) \in Seq(T)
    BY <2>2
  <2> QED
    BY <1>2, <2>3 DEF Offered
<1> QED
  BY <1>1, <1>2

\* The same for one message, and for messages in any order.
LEMMA OfferedOne ==
    ASSUME NEW T, NEW ch \in Seq(T), NEW m \in T, NEW cap \in Nat
    PROVE  Offered(ch, cap, <<m>>) \in Seq(T)
<1>1. <<m>> \in Seq(T)
  OBVIOUS
<1> QED
  BY <1>1, OfferedType

\* An order of some messages is a sequence of messages.
LEMMA OrdersType ==
    ASSUME NEW T, NEW S \in SUBSET T, IsFiniteSet(S), NEW f \in Orders(S)
    PROVE  f \in Seq(T)
<1>1. Cardinality(S) \in Nat
  BY FS_CardinalityType
<1>2. f \in [1 .. Cardinality(S) -> T]
  BY DEF Orders
<1> QED
  BY <1>1, <1>2

\* Receiving moves the oldest result from one sequence to the other.
LEMMA HearKeepsSent ==
    ASSUME NEW T, NEW h \in Seq(T), NEW s \in Seq(T), s # <<>>
    PROVE  Append(h, Head(s)) \o Tail(s) = h \o s
<1>1. /\ Len(s) \in Nat /\ Len(h) \in Nat /\ Len(s) > 0
      /\ Tail(s) \in Seq(T) /\ Len(Tail(s)) = Len(s) - 1
      /\ \A i \in 1 .. Len(s) - 1 : Tail(s)[i] = s[i + 1]
      /\ Head(s) = s[1] /\ Head(s) \in T
  OBVIOUS
<1> DEFINE A == Append(h, Head(s)) \o Tail(s)
           B == h \o s
<1>2. Append(h, Head(s)) \in Seq(T) /\ Len(Append(h, Head(s))) = Len(h) + 1
  BY <1>1
<1>3. A \in Seq(T) /\ B \in Seq(T) /\ Len(A) = Len(h) + Len(s) /\ Len(B) = Len(h) + Len(s)
  BY <1>1, <1>2
<1>4. ASSUME NEW i \in 1 .. Len(h) + Len(s) PROVE A[i] = B[i]
  <2>1. CASE i <= Len(h)
    BY <1>1, <1>2, <2>1
  <2>2. CASE i = Len(h) + 1
    BY <1>1, <1>2, <2>2
  <2>3. CASE i > Len(h) + 1
    BY <1>1, <1>2, <2>3
  <2> QED
    BY <2>1, <2>2, <2>3, <1>1
<1> QED
  BY <1>3, <1>4

\* Sending appends to all that was sent.
LEMMA AppendConcat ==
    \A h, s \in Seq(Results), r \in Results : h \o Append(s, r) = Append(h \o s, r)
OBVIOUS

\* A part of what is short is short.
LEMMA ShortParts ==
    ASSUME NEW T, NEW h \in Seq(T), NEW s \in Seq(T), Len(h \o s) <= 1, NEW i \in DOMAIN s
    PROVE  i <= 1
OBVIOUS

-----------------------------------------------------------------------------
(* Graphs.                                                                 *)

\* A graph that a plan may have is sound and has tasks of that plan only.
LEMMA DagTypes ==
    /\ NoDag \in Dag
    /\ \A p \in Plans : \A d \in Dags[p] :
           d \in Dag /\ Sound(d) /\ \A n \in d.nodes : PlanOf[n] = p
BY DagsAssumption DEF NoDag, Dag
-----------------------------------------------------------------------------
(* Types.                                                                  *)

\* At first the variables have their types.
LEMMA InitTypeOK == Init => TypeOK
BY DagTypes, TimeAssumption DEF Init, TypeOK, States

\* The node fields that the watchdog and Abandon, and the two disposals, write.
NodeFieldsOK ==
    /\ state \in [Nodes -> States]
    /\ claimedBy \in [Nodes -> Peers \cup {NoPeer}]
    /\ expiresAt \in [Nodes -> Nat]
    /\ claimed \in [Nodes -> Peers \cup {NoPeer}]

\* Reopening a task assigns values of the right kinds, and publishes a task.
LEMMA ReopenTypes ==
    ASSUME TypeOK, NEW n \in Nodes, Reopen(n)
    PROVE  NodeFieldsOK' /\ reopenedCh' \in Seq(Nodes)
<1>1. Offered(reopenedCh, TopicLen, <<n>>) \in Seq(Nodes)
  BY OfferedOne, ChannelAssumption DEF TypeOK
<1> QED
  BY <1>1 DEF Reopen, TypeOK, NodeFieldsOK, States

\* So does disposing of a plan.
LEMMA DisposeTypes ==
    ASSUME TypeOK, NEW p \in Plans, DisposeNodes(p)
    PROVE  NodeFieldsOK'
BY DEF DisposeNodes, TypeOK, NodeFieldsOK, States

\* One lemma for all steps: every action assigns values of the right kinds.
LEMMA NextTypeOK == TypeOK /\ [Next]_tsmVars => TypeOK'
<1> SUFFICES ASSUME TypeOK, [Next]_tsmVars PROVE TypeOK'
  OBVIOUS
<1> USE TimeAssumption, ChannelAssumption
<1>1. ASSUME NEW p \in Plans, NEW d \in Dags[p], Ingest(p, d) PROVE TypeOK'
  <2>1. d \in Dag
    BY DagTypes
  <2>2. predNum' \in [Nodes -> Int]
    BY <1>1, <2>1 DEF Ingest, TypeOK, Dag
  <2>3. now + PlanTTL \in Nat
    BY DEF TypeOK
  <2> QED
    BY <1>1, <2>1, <2>2, <2>3 DEF Ingest, TypeOK, Dag, States, resultVars
<1>2. ASSUME NEW n \in Nodes, PublishRoot(n) PROVE TypeOK'
  <2>1. \A w \in ReadyWatchers : Offered(readyCh[w], TopicLen, <<n>>) \in Seq(Nodes)
    BY OfferedOne DEF TypeOK
  <2>2. readyCh' \in [ReadyWatchers -> Seq(Nodes)]
    BY <1>2, <2>1 DEF PublishRoot
  <2> QED
    BY <1>2, <2>2 DEF PublishRoot, TypeOK, nodeVars, planVars, resultVars
<1>3. ASSUME NEW n \in Nodes, NEW peer \in Peers, Claim(n, peer) PROVE TypeOK'
  <2>1. lease[n] + 1 \in 1 .. MaxClaims /\ now + Lease \in Nat
    BY <1>3 DEF Claim, TypeOK
  <2>2. NewWatchdog(n, peer) \in Watchdog
    BY <2>1 DEF NewWatchdog, Watchdog
  <2> QED
    BY <1>3, <2>1, <2>2 DEF Claim, TypeOK, States, planVars, chanVars, resultVars
<1>4. ASSUME NEW w \in watchdogs, FireWatchdog(w) PROVE TypeOK'
  <2>1. w.node \in Nodes
    BY DEF TypeOK, Watchdog
  <2>3. CASE StillClaimed(w)
    <3>1. NodeFieldsOK' /\ reopenedCh' \in Seq(Nodes)
      BY <1>4, <2>1, <2>3, ReopenTypes DEF FireWatchdog
    <3> QED
      BY <1>4, <3>1 DEF FireWatchdog, TypeOK, NodeFieldsOK, planVars, resultVars
  <2>4. CASE ~StillClaimed(w)
    BY <1>4, <2>4 DEF FireWatchdog, TypeOK, planVars, resultVars
  <2> QED
    BY <2>3, <2>4
<1>5. ASSUME NEW w \in watchdogs, EndWatchdog(w) PROVE TypeOK'
  BY <1>5 DEF EndWatchdog, TypeOK, nodeVars, planVars, chanVars, resultVars
<1>6. ASSUME NEW n \in Nodes, Start(n) PROVE TypeOK'
  BY <1>6 DEF Start, TypeOK, States, planVars, chanVars, resultVars
<1>7. ASSUME NEW n \in Nodes, Complete(n) PROVE TypeOK'
  <2>1. PlanOf[n] \in Plans /\ dag[PlanOf[n]] \in Dag
    BY NodesAssumption DEF TypeOK
  <2>2. Freed(n) \in SUBSET Nodes /\ IsFiniteSet(Freed(n))
    <3>1. Freed(n) \in SUBSET Nodes
      BY <2>1 DEF Freed, Dag
    <3> QED
      BY <3>1, NodesAssumption, FS_Subset
  <2>3. AfterDone(n) \in [Nodes -> States]
    BY DEF AfterDone, TypeOK, States
  <2>4. CountedDown(n) \in [Nodes -> Int]
    BY DEF CountedDown, TypeOK
  <2>5. readyCh' \in [ReadyWatchers -> Seq(Nodes)]
    <3>1. PICK order \in Orders(Freed(n)) :
              readyCh' = [w \in ReadyWatchers |-> Offered(readyCh[w], TopicLen, order)]
      BY <1>7 DEF Complete
    <3>2. order \in Seq(Nodes)
      BY <2>2, OrdersType
    <3>3. \A w \in ReadyWatchers : Offered(readyCh[w], TopicLen, order) \in Seq(Nodes)
      BY <3>2, OfferedType DEF TypeOK
    <3> QED
      BY <3>1, <3>3
  <2>6. notify' \in [Plans -> Seq(Results)]
    <3>1. Ok(n) \in Results
      BY DEF Ok, Results
    <3> QED
      BY <1>7, <2>1, <3>1 DEF Complete, TypeOK
  <2> QED
    BY <1>7, <2>3, <2>4, <2>5, <2>6 DEF Complete, TypeOK
<1>8. ASSUME NEW n \in Nodes, ReportFailure(n) PROVE TypeOK'
  <2>1. Offered(reopenedCh, TopicLen, <<n>>) \in Seq(Nodes)
    BY OfferedOne DEF TypeOK
  <2> QED
    BY <1>8, <2>1 DEF ReportFailure, Failed, TypeOK, States, planVars, resultVars
<1>9. ASSUME NEW n \in Nodes, Abandon(n) PROVE TypeOK'
  <2>1. NodeFieldsOK' /\ reopenedCh' \in Seq(Nodes)
    BY <1>9, ReopenTypes DEF Abandon
  <2> QED
    BY <1>9, <2>1 DEF Abandon, TypeOK, NodeFieldsOK, planVars, resultVars
<1>10. ASSUME NEW p \in Plans, Dispose(p) PROVE TypeOK'
  <2>1. NodeFieldsOK'
    BY <1>10, DisposeTypes DEF Dispose
  <2> QED
    BY <1>10, <2>1 DEF Dispose, TypeOK, NodeFieldsOK, planVars, chanVars, resultVars
<1>11. ASSUME NEW p \in Plans, DeadlineFires(p) PROVE TypeOK'
  <2>1. CASE IsComplete(p)
    BY <1>11, <2>1 DEF DeadlineFires, TypeOK, planVars, chanVars, resultVars
  <2>2. CASE ~IsComplete(p)
    <3>1. NodeFieldsOK'
      BY <1>11, <2>2, DisposeTypes DEF DeadlineFires
    <3> QED
      BY <1>11, <2>2, <3>1
      DEF DeadlineFires, TypeOK, NodeFieldsOK, planVars, chanVars, resultVars
  <2> QED
    BY <2>1, <2>2
<1>12. ASSUME NEW p \in Plans, SendTimeout(p) PROVE TypeOK'
  <2>1. Timeout \in Results
    BY DEF Timeout, Results
  <2> QED
    BY <1>12, <2>1 DEF SendTimeout, TypeOK, nodeVars, planVars, chanVars
<1>13. ASSUME NEW p \in Plans, Hear(p) PROVE TypeOK'
  <2>1. Head(notify[p]) \in Results /\ Tail(notify[p]) \in Seq(Results)
    BY <1>13 DEF Hear, TypeOK
  <2> QED
    BY <1>13, <2>1 DEF Hear, TypeOK, nodeVars, planVars, chanVars
<1>14. ASSUME NEW w \in ReadyWatchers, ReceiveReady(w) PROVE TypeOK'
  <2>1. Tail(readyCh[w]) \in Seq(Nodes)
    BY <1>14 DEF ReceiveReady, TypeOK
  <2> QED
    BY <1>14, <2>1 DEF ReceiveReady, TypeOK, nodeVars, planVars, resultVars
<1>15. ASSUME ReceiveReopened PROVE TypeOK'
  <2>1. Tail(reopenedCh) \in Seq(Nodes)
    BY <1>15 DEF ReceiveReopened, TypeOK
  <2> QED
    BY <1>15, <2>1 DEF ReceiveReopened, TypeOK, nodeVars, planVars, resultVars
<1>16. ASSUME Tick PROVE TypeOK'
  BY <1>16 DEF Tick, TypeOK, nodeVars, planVars, chanVars, resultVars
<1>17. ASSUME UNCHANGED tsmVars PROVE TypeOK'
  BY <1>17 DEF tsmVars, TypeOK, nodeVars, planVars, chanVars, resultVars
<1> QED
  BY <1>1, <1>2, <1>3, <1>4, <1>5, <1>6, <1>7, <1>8, <1>9, <1>10, <1>11, <1>12,
     <1>13, <1>14, <1>15, <1>16, <1>17 DEF Next

\* The state manager never stores a value of the wrong kind: no unknown state,
\* no foreign task in a channel, no lease number beyond the bound.
THEOREM TypesHold == Spec => []TypeOK
BY InitTypeOK, NextTypeOK, PTL DEF Spec

-----------------------------------------------------------------------------
(* Steps that finish nothing, make nothing available and accept no plan.   *)

Begun == {"ready", "claimed", "running", "done", "failed"}

Quiet ==
    /\ plans' = plans /\ dag' = dag /\ predNum' = predNum
    /\ \A n \in Nodes : state'[n] = "done" <=> state[n] = "done"
    /\ \A n \in Nodes : state'[n] = "absent" <=> state[n] = "absent"
    /\ \A n \in Nodes : state'[n] \in Begun => state[n] \in Begun
    /\ \A n \in Nodes : state'[n] \in Live => state[n] \in Live

\* All that depends on the graph alone.
GraphFollowed == PlansKnown /\ DependenciesFirst /\ CountsMatch

\* The predecessors of a task are finitely many tasks.
LEMMA PredsAreNodes ==
    ASSUME TypeOK, NEW n \in Nodes
    PROVE  /\ Preds(n) \in SUBSET Nodes /\ IsFiniteSet(Preds(n))
           /\ DonePreds(n) \in SUBSET Preds(n) /\ IsFiniteSet(DonePreds(n))
<1>1. dag[PlanOf[n]].nodes \in SUBSET Nodes
  BY NodesAssumption DEF TypeOK, Dag
<1>2. Preds(n) \in SUBSET Nodes /\ DonePreds(n) \in SUBSET Preds(n)
  BY <1>1 DEF Preds, PredsIn, DonePreds
<1> QED
  BY <1>2, NodesAssumption, FS_Subset

\* A step that is quiet about the graph keeps what depends on it.
LEMMA QuietKeepsGraph ==
    ASSUME TypeOK, GraphFollowed, Quiet
    PROVE  GraphFollowed'
<1>1. \A n \in Nodes : Preds(n)' = Preds(n)
  BY DEF Quiet, Preds, PredsIn
<1>2. \A n \in Nodes : Preds(n) \in SUBSET Nodes
  BY PredsAreNodes
<1>3. \A n \in Nodes : DonePreds(n)' = DonePreds(n)
  BY <1>1, <1>2 DEF DonePreds, Quiet
<1>4. PlansKnown'
  BY DEF GraphFollowed, PlansKnown, Quiet
<1>5. DependenciesFirst'
  BY <1>1, <1>2 DEF GraphFollowed, DependenciesFirst, Quiet, Begun
<1>6. CountsMatch'
  <2>1. \A p \in plans : dag[p].nodes \in SUBSET Nodes
    BY DEF TypeOK, Dag
  <2> QED
    BY <1>3, <2>1 DEF GraphFollowed, CountsMatch, Quiet
<1> QED
  BY <1>4, <1>5, <1>6 DEF GraphFollowed

\* A quiet step that disposes nothing leaves every plan whole.
LEMMA QuietKeepsWhole ==
    ASSUME TypeOK, DisposedAsAWhole, Quiet,
           \A n \in Nodes : state'[n] = "disposed" => state[n] = "disposed"
    PROVE  DisposedAsAWhole'
<1>1. \A p \in plans : dag[p].nodes \in SUBSET Nodes
  BY DEF TypeOK, Dag
<1> QED
  BY <1>1 DEF DisposedAsAWhole, Quiet

\* A quiet step that neither sends anything nor moves the deadline goroutine
\* changes nothing about a plan's result.
LEMMA QuietKeepsResult ==
    ASSUME TypeOK, NEW p \in Plans, ResultFollows(p), Quiet,
           watch'[p] = watch[p], deadlineAt'[p] = deadlineAt[p],
           Sent(p)' = Sent(p), now' \in Nat, now' >= now
    PROVE  ResultFollows(p)'
<1>1. dag[p].nodes \in SUBSET Nodes /\ dag'[p] = dag[p]
  BY DEF TypeOK, Dag, Quiet
<1>2. IsComplete(p)' <=> IsComplete(p)
  BY <1>1 DEF IsComplete, AllDone, Quiet
<1>3. Missed(p) => Missed(p)'
  BY <1>1, <1>2 DEF Missed, Quiet, TypeOK
<1>4. Succeeded(p) => Succeeded(p)'
  BY <1>1, <1>2 DEF Succeeded
<1> QED
  BY <1>1, <1>2, <1>3, <1>4 DEF ResultFollows

-----------------------------------------------------------------------------
(* The inductive invariant.  Most steps are quiet; the four that are not    *)
(* quiet about a plan's graph or its result are Ingest, Complete,           *)
(* DeadlineFires and SendTimeout.                                           *)

Preserved == GraphFollowed /\ LeaseTableAgrees /\ DisposedAsAWhole

\* The inductive invariant holds before any plan is ingested.
LEMMA InitIInv == Init => IInv
<1> SUFFICES ASSUME Init PROVE IInv
  OBVIOUS
<1>1. TypeOK
  BY InitTypeOK
<1>2. PlansKnown
  BY NodesAssumption DEF Init, PlansKnown, NoDag
<1>3. DependenciesFirst /\ CountsMatch /\ DisposedAsAWhole
  BY DEF Init, DependenciesFirst, CountsMatch, DisposedAsAWhole
<1>4. LeaseTableAgrees
  BY DEF Init, LeaseTableAgrees, Held
<1>5. ASSUME NEW p \in Plans PROVE ResultFollows(p)
  BY DEF Init, ResultFollows, Sent, NoDag
<1> QED
  BY <1>1, <1>2, <1>3, <1>4, <1>5 DEF IInv

\* A step that leaves plans and nodes alone.
LEMMA NodesUntouched ==
    ASSUME IInv, UNCHANGED <<plans, dag, predNum, state, claimed, claimedBy>>
    PROVE  Quiet /\ Preserved'
<1>1. Quiet
  BY DEF Quiet
<1>2. GraphFollowed' /\ DisposedAsAWhole'
  BY <1>1, QuietKeepsGraph, QuietKeepsWhole DEF IInv, GraphFollowed
<1>3. LeaseTableAgrees'
  BY DEF IInv, LeaseTableAgrees
<1> QED
  BY <1>1, <1>2, <1>3 DEF Preserved

\* One node goes from a live state to another, or fails: what Claim, Start, a
\* watchdog, Abandon and a reported failure do.
LEMMA OneNodeMoves ==
    ASSUME IInv, NEW n \in Nodes, NEW s \in {"ready", "claimed", "running", "failed"},
           state[n] \in {"ready", "claimed", "running"},
           state' = [state EXCEPT ![n] = s],
           UNCHANGED <<plans, dag, predNum>>, LeaseTableAgrees'
    PROVE  Quiet /\ Preserved'
<1>1. Quiet
  BY DEF Quiet, IInv, TypeOK, Begun, Live
<1>2. \A m \in Nodes : state'[m] = "disposed" => state[m] = "disposed"
  BY DEF IInv, TypeOK
<1>3. GraphFollowed' /\ DisposedAsAWhole'
  BY <1>1, <1>2, QuietKeepsGraph, QuietKeepsWhole DEF IInv, GraphFollowed
<1> QED
  BY <1>1, <1>3 DEF Preserved

\* All nodes of a plan that have not ended are disposed.
LEMMA PlanDisposed ==
    ASSUME IInv, NEW p \in plans, DisposeNodes(p), UNCHANGED <<plans, dag, predNum>>
    PROVE  /\ Quiet /\ Preserved'
           /\ \A n \in dag[p].nodes : state'[n] \notin Live
<1>1. dag[p].nodes \in SUBSET Nodes /\ p \in Plans
  BY DEF IInv, TypeOK, Dag
<1>2. \A n \in Nodes : state'[n] = IF n \in Disposed(p) THEN "disposed" ELSE state[n]
  BY DEF DisposeNodes
<1>3. \A n \in Disposed(p) : n \in Nodes /\ state[n] \notin {"done", "failed", "absent"}
  BY <1>1, DagTypes DEF Disposed, IInv, PlansKnown
<1>4. Quiet
  BY <1>2, <1>3 DEF Quiet, Begun, Live
<1>5. GraphFollowed'
  BY <1>4, QuietKeepsGraph DEF IInv, GraphFollowed
<1>6. LeaseTableAgrees'
  BY <1>2 DEF DisposeNodes, IInv, LeaseTableAgrees, Held
<1>7. \A n \in dag[p].nodes : state'[n] \notin Live
  BY <1>1, <1>2 DEF Disposed, Live, IInv, TypeOK
<1>8. DisposedAsAWhole'
  <2>1. ASSUME NEW q \in plans, NEW m \in dag[q].nodes, NEW n \in dag[q].nodes,
               state'[m] = "disposed", q # p
        PROVE  state'[n] \notin Live
    <3>1. m \in Nodes /\ n \in Nodes /\ PlanOf[m] = q /\ PlanOf[n] = q
      BY DagTypes DEF IInv, TypeOK, Dag, PlansKnown
    <3>2. m \notin Disposed(p) /\ n \notin Disposed(p)
      BY <3>1, <2>1, DagTypes DEF Disposed, IInv, TypeOK, PlansKnown
    <3> QED
      BY <1>2, <3>1, <3>2, <2>1 DEF IInv, DisposedAsAWhole
  <2> QED
    BY <1>7, <2>1 DEF DisposedAsAWhole
<1> QED
  BY <1>4, <1>5, <1>6, <1>7, <1>8 DEF Preserved

\* A quiet step in which nobody sends, receives or moves a deadline.
LEMMA ResultsUntouched ==
    ASSUME IInv, Quiet, UNCHANGED <<watch, deadlineAt, notify, heard>>,
           now' \in Nat, now' >= now
    PROVE  \A p \in Plans : ResultFollows(p)'
<1> SUFFICES ASSUME NEW p \in Plans PROVE ResultFollows(p)'
  OBVIOUS
<1>1. Sent(p)' = Sent(p)
  BY DEF Sent
<1> QED
  BY <1>1, QuietKeepsResult DEF IInv

\* The mutex is free in every state of the invariant: one result at most was
\* sent for a plan, and its channel has room for one.
LEMMA OneResult ==
    ASSUME IInv, NEW p \in Plans
    PROVE  Sent(p) \in Seq(Results) /\ Len(Sent(p)) <= 1
<1>1. Sent(p) \in Seq(Results)
  BY DEF Sent, IInv, TypeOK
<1>2. Sent(p) = <<>> \/ \E r \in Results : Sent(p) = <<r>>
  <2>1. Timeout \in Results /\ \A n \in Nodes : Ok(n) \in Results
    BY DEF Timeout, Ok, Results
  <2>2. watch[p] \in {"off", "armed", "sending", "exited"} /\ dag[p].nodes \in SUBSET Nodes
    BY DEF IInv, TypeOK, Dag
  <2>3. Succeeded(p) => Sent(p) = <<>> \/ \E r \in Results : Sent(p) = <<r>>
    BY <2>1, <2>2 DEF Succeeded
  <2> QED
    BY <2>1, <2>2, <2>3 DEF IInv, ResultFollows
<1>3. CASE Sent(p) = <<>>
  BY <1>1, <1>3
<1>4. CASE \E r \in Results : Sent(p) = <<r>>
  <2>1. PICK r \in Results : Sent(p) = <<r>>
    BY <1>4
  <2>2. Len(<<r>>) = 1
    OBVIOUS
  <2> QED
    BY <1>1, <2>1, <2>2
<1> QED
  BY <1>2, <1>3, <1>4

\* With one result per plan the buffer of Notify never overflows.
LEMMA MutexIsFree == IInv => NeverWedged
<1> SUFFICES ASSUME IInv, NEW p \in Plans, NEW i \in DOMAIN notify[p]
             PROVE  i <= NotifyCap
  BY DEF NeverWedged, LockFree
<1>1. notify[p] \in Seq(Results) /\ heard[p] \in Seq(Results)
  BY DEF IInv, TypeOK
<1>2. Len(heard[p] \o notify[p]) <= 1
  BY OneResult DEF Sent
<1>3. i <= 1
  BY <1>1, <1>2, ShortParts
<1> QED
  BY <1>1, <1>3, ChannelAssumption

\* A plan is accepted: its roots wait for nothing, the other plans see nothing.
LEMMA IngestKeeps ==
    ASSUME IInv, TypeOK', NEW p \in Plans, NEW d \in Dags[p], Ingest(p, d)
    PROVE  Preserved' /\ \A q \in Plans : ResultFollows(q)'
<1>1. d \in Dag /\ Sound(d) /\ d.nodes \in SUBSET Nodes
      /\ \A n \in d.nodes : PlanOf[n] = p
  BY DagTypes DEF Dag
<1>2. p \notin plans /\ dag[p] = NoDag /\ NoDag.nodes = {} /\ NoDag.notify = FALSE
  <2>1. p \notin plans /\ dag[p] = NoDag
    BY DEF Ingest, IInv, PlansKnown
  <2> QED
    BY <2>1 DEF NoDag
<1>3. \A q \in Plans : dag'[q] = IF q = p THEN d ELSE dag[q]
  BY DEF Ingest, IInv, TypeOK
<1>4. \A q \in Plans \ {p} : \A n \in dag[q].nodes : n \in Nodes /\ PlanOf[n] = q
  <2> SUFFICES ASSUME NEW q \in Plans, NEW n \in dag[q].nodes
               PROVE  n \in Nodes /\ PlanOf[n] = q
    OBVIOUS
  <2>1. n \in Nodes
    BY DEF IInv, TypeOK, Dag
  <2>2. dag[q] \in Dags[q]
    BY DEF IInv, PlansKnown, NoDag
  <2> QED
    BY <2>1, <2>2, DagTypes
<1>5. \A n \in Nodes \ d.nodes : state'[n] = state[n] /\ predNum'[n] = predNum[n]
  BY DEF Ingest
<1>6. \A n \in d.nodes : /\ state'[n] = (IF n \in d.roots THEN "ready" ELSE "pending")
                         /\ predNum'[n] = d.preds[n]
                         /\ state[n] = "absent"
  BY <1>1, <1>2, NodesAssumption DEF Ingest, IInv, PlansKnown, NoDag
<1>7. \A n \in Nodes : PlanOf[n] = p /\ n \notin d.nodes => state[n] = "absent"
  BY <1>2 DEF IInv, PlansKnown, NoDag
<1>8. \A n \in Nodes : PlanOf[n] \in Plans
  BY NodesAssumption
<1>9. PlansKnown'
  <2>1. \A q \in Plans : IF q \in plans' THEN dag'[q] \in Dags[q] ELSE dag'[q] = NoDag
    BY <1>3 DEF Ingest, IInv, PlansKnown
  <2>2. \A n \in Nodes : state'[n] = "absent" <=> n \notin dag'[PlanOf[n]].nodes
    BY <1>1, <1>3, <1>5, <1>6, <1>7, <1>8 DEF IInv, PlansKnown
  <2> QED
    BY <2>1, <2>2 DEF PlansKnown
<1>10. \A n \in Nodes : PlanOf[n] # p => /\ Preds(n)' = Preds(n)
                                        /\ DonePreds(n)' = DonePreds(n)
  <2> SUFFICES ASSUME NEW n \in Nodes, PlanOf[n] # p
               PROVE  Preds(n)' = Preds(n) /\ DonePreds(n)' = DonePreds(n)
    OBVIOUS
  <2>1. Preds(n)' = Preds(n)
    BY <1>3, <1>8 DEF Preds, PredsIn
  <2>2. \A m \in Preds(n) : m \in Nodes \ d.nodes
    BY <1>1, <1>4, <1>8 DEF Preds, PredsIn
  <2> QED
    BY <2>1, <2>2, <1>5 DEF DonePreds
<1>11. \A n \in d.nodes : Preds(n)' = PredsIn(d, n) /\ DonePreds(n)' = {}
  <2> SUFFICES ASSUME NEW n \in d.nodes PROVE Preds(n)' = PredsIn(d, n) /\ DonePreds(n)' = {}
    OBVIOUS
  <2>1. Preds(n)' = PredsIn(d, n)
    BY <1>1, <1>3 DEF Preds, PredsIn
  <2>2. \A m \in PredsIn(d, n) : state'[m] # "done"
    BY <1>6 DEF PredsIn
  <2> QED
    BY <2>1, <2>2 DEF DonePreds
<1>12. DependenciesFirst'
  <2> SUFFICES ASSUME NEW n \in Nodes,
                      state'[n] \in {"ready", "claimed", "running", "done", "failed"},
                      NEW m \in Preds(n)'
               PROVE  state'[m] = "done"
    BY DEF DependenciesFirst
  <2>1. CASE n \in d.nodes
    BY <2>1, <1>1, <1>6, <1>11 DEF Sound
  <2>2. CASE n \notin d.nodes
    <3>1. PlanOf[n] # p
      BY <2>2, <1>5, <1>7
    <3>2. m \in Preds(n) /\ m \in Nodes \ d.nodes
      BY <3>1, <1>1, <1>4, <1>8, <1>10 DEF Preds, PredsIn
    <3> QED
      BY <2>2, <3>2, <1>5 DEF IInv, DependenciesFirst
  <2> QED
    BY <2>1, <2>2
<1>13. CountsMatch'
  <2> SUFFICES ASSUME NEW q \in plans', NEW n \in dag'[q].nodes
               PROVE  predNum'[n] = dag'[q].preds[n] - Cardinality(DonePreds(n)')
    BY DEF CountsMatch
  <2>1. CASE q = p
    <3>1. n \in d.nodes /\ dag'[q] = d
      BY <2>1, <1>3
    <3>2. Cardinality(DonePreds(n)') = 0
      BY <3>1, <1>11, FS_EmptySet
    <3>3. d.preds[n] \in Int
      BY <3>1, <1>1 DEF Dag
    <3> QED
      BY <3>1, <3>2, <3>3, <1>6
  <2>2. CASE q # p
    <3>1. q \in plans /\ q \in Plans /\ dag'[q] = dag[q]
      BY <2>2, <1>3 DEF Ingest, IInv, TypeOK
    <3>2. n \in Nodes /\ PlanOf[n] = q /\ n \notin d.nodes
      BY <2>2, <3>1, <1>1, <1>4
    <3> QED
      BY <2>2, <3>1, <3>2, <1>5, <1>10 DEF IInv, CountsMatch
  <2> QED
    BY <2>1, <2>2
<1>14. LeaseTableAgrees'
  BY <1>1, <1>5, <1>6 DEF Ingest, IInv, LeaseTableAgrees, Held
<1>15. DisposedAsAWhole'
  <2> SUFFICES ASSUME NEW q \in plans', NEW m \in dag'[q].nodes, NEW n \in dag'[q].nodes,
                      state'[m] = "disposed"
               PROVE  state'[n] \notin Live
    BY DEF DisposedAsAWhole
  <2>1. q # p
    BY <1>3, <1>6
  <2>2. q \in plans /\ q \in Plans /\ dag'[q] = dag[q]
    BY <2>1, <1>3 DEF Ingest, IInv, TypeOK
  <2>3. m \in Nodes \ d.nodes /\ n \in Nodes \ d.nodes
    BY <2>1, <2>2, <1>1, <1>4
  <2> QED
    BY <2>2, <2>3, <1>5 DEF IInv, DisposedAsAWhole
<1>16. ASSUME NEW q \in Plans PROVE ResultFollows(q)'
  <2>1. Sent(q)' = Sent(q)
    BY DEF Sent, Ingest, resultVars
  <2>2. CASE q = p
    <3>1. watch[p] = "off" /\ Sent(p) = <<>>
      BY <1>2 DEF IInv, ResultFollows, NoDag
    <3>2. watch'[p] = IF d.notify THEN "armed" ELSE "off"
      BY DEF Ingest, IInv, TypeOK
    <3>3. d.nodes = {} \/ ~IsComplete(p)'
      BY <1>3, <1>6 DEF IsComplete, AllDone
    <3>4. Sent(p)' = <<>> /\ dag'[p] = d
      BY <3>1, <2>1, <2>2, <1>3
    <3>5. Succeeded(p)' \/ ~IsComplete(p)'
      BY <3>3, <3>4 DEF Succeeded
    <3>6. d.notify \in BOOLEAN
      BY <1>1 DEF Dag
    <3> QED
      BY <2>2, <3>2, <3>4, <3>5, <3>6 DEF ResultFollows
  <2>3. CASE q # p
    <3>1. /\ dag'[q] = dag[q] /\ watch'[q] = watch[q] /\ deadlineAt'[q] = deadlineAt[q]
          /\ now' = now
      BY <2>3, <1>3 DEF Ingest, IInv, TypeOK
    <3>2. \A n \in dag[q].nodes : state'[n] = state[n]
      BY <2>3, <1>1, <1>4, <1>5
    <3>3. IsComplete(q)' <=> IsComplete(q)
      BY <3>1, <3>2 DEF IsComplete, AllDone
    <3>4. (Missed(q)' <=> Missed(q)) /\ (Succeeded(q)' <=> Succeeded(q))
      BY <3>1, <3>2, <3>3, <2>1 DEF Missed, Succeeded
    <3> QED
      BY <3>1, <3>3, <3>4, <2>1 DEF IInv, ResultFollows
  <2> QED
    BY <2>2, <2>3
<1> QED
  BY <1>9, <1>12, <1>13, <1>14, <1>15, <1>16 DEF Preserved, GraphFollowed

\* A task completes: each successor counts one predecessor less, and those with
\* none left become ready.  None of them had got anywhere before.
LEMMA CompleteKeeps ==
    ASSUME IInv, TypeOK', NEW n \in Nodes, Complete(n)
    PROVE  Preserved' /\ \A q \in Plans : ResultFollows(q)'
<1> DEFINE p == PlanOf[n]
           d == dag[p]
<1>1. /\ p \in plans /\ p \in Plans /\ d \in Dags[p] /\ d \in Dag /\ Sound(d)
      /\ d.nodes \in SUBSET Nodes /\ n \in d.nodes
      /\ \A m \in d.nodes : PlanOf[m] = p
  <2>1. p \in Plans /\ n \in d.nodes
    BY NodesAssumption DEF Complete, CanComplete, IInv, PlansKnown
  <2>2. p \in plans
    BY <2>1 DEF IInv, PlansKnown, NoDag
  <2>3. d \in Dags[p]
    BY <2>1, <2>2 DEF IInv, PlansKnown
  <2> QED
    BY <2>1, <2>2, <2>3, DagTypes DEF Dag
<1>2. UNCHANGED <<plans, dag, watch, deadlineAt, heard, now>> /\ state[n] = "running"
  BY DEF Complete, CanComplete
<1> DEFINE F == Freed(n)
           S == {m \in d.nodes : m \in d.succ[n]}
<1>3. /\ F \subseteq S
      /\ \A m \in Nodes : predNum'[m] = IF m \in S THEN predNum[m] - 1 ELSE predNum[m]
      /\ \A m \in F : predNum'[m] <= 0
  BY <1>1 DEF Complete, Freed, CountedDown
<1>4. \A m \in Nodes : state'[m] = IF m \in F THEN "ready"
                                   ELSE IF m = n THEN "done" ELSE state[m]
  BY DEF Complete, AfterDone
<1>5. \A m \in S : m \in Nodes /\ PlanOf[m] = p /\ n \in Preds(m)
  BY <1>1 DEF Preds, PredsIn
<1>6. \A m \in S : state[m] \in {"pending", "disposed"} /\ m # n
  <2> SUFFICES ASSUME NEW m \in S PROVE state[m] \in {"pending", "disposed"} /\ m # n
    OBVIOUS
  <2>1. ~(state[m] \in {"ready", "claimed", "running", "done", "failed"})
    BY <1>2, <1>5 DEF IInv, DependenciesFirst
  <2>2. state[m] # "absent" /\ state[m] \in States
    BY <1>1, <1>5 DEF IInv, PlansKnown, TypeOK
  <2> QED
    BY <2>1, <2>2, <1>2 DEF States
<1>7. \A m \in Nodes : state'[m] = "done" <=> (m = n \/ state[m] = "done")
  BY <1>3, <1>4, <1>6
<1>8. \A m \in Nodes : Preds(m)' = Preds(m) /\ Preds(m) \in SUBSET Nodes
  BY <1>2, PredsAreNodes DEF Preds, PredsIn, IInv
<1>9. \A m \in Nodes : DonePreds(m)' = IF n \in Preds(m) THEN DonePreds(m) \cup {n}
                                       ELSE DonePreds(m)
  BY <1>7, <1>8 DEF DonePreds
<1>10. \A m \in Nodes : n \notin DonePreds(m)
  BY <1>2 DEF DonePreds
<1>11. CountsMatch'
  <2> SUFFICES ASSUME NEW q \in plans, NEW m \in dag[q].nodes
               PROVE  predNum'[m] = dag[q].preds[m] - Cardinality(DonePreds(m)')
    BY <1>2 DEF CountsMatch
  <2>1. m \in Nodes /\ q \in Plans /\ PlanOf[m] = q /\ dag[q].preds[m] \in Int
    BY DagTypes DEF IInv, TypeOK, Dag, PlansKnown
  <2>2. predNum[m] = dag[q].preds[m] - Cardinality(DonePreds(m))
    BY DEF IInv, CountsMatch
  <2>3. IsFiniteSet(DonePreds(m)) /\ Cardinality(DonePreds(m)) \in Nat
    BY <2>1, PredsAreNodes, FS_CardinalityType DEF IInv
  <2>4. CASE n \in Preds(m)
    <3>1. n \in dag[q].nodes /\ m \in dag[q].succ[n]
      BY <2>1, <2>4 DEF Preds, PredsIn
    <3>2. q = p
      BY <3>1, DagTypes DEF IInv, TypeOK, PlansKnown
    <3>3. predNum'[m] = predNum[m] - 1
      BY <2>1, <3>1, <3>2, <1>3
    <3>4. Cardinality(DonePreds(m) \cup {n}) = Cardinality(DonePreds(m)) + 1
      BY <2>1, <2>3, <1>10, FS_AddElement
    <3>5. Cardinality(DonePreds(m)') = Cardinality(DonePreds(m)) + 1
      BY <2>1, <2>4, <3>4, <1>9
    <3> QED
      BY <2>1, <2>2, <2>3, <3>3, <3>5
  <2>5. CASE n \notin Preds(m)
    <3>1. m \notin S
      BY <2>5, <1>5
    <3> QED
      BY <2>1, <2>2, <2>5, <3>1, <1>3, <1>9
  <2> QED
    BY <2>4, <2>5
<1>12. \A m \in F : \A k \in Preds(m) : state'[k] = "done"
  <2> SUFFICES ASSUME NEW m \in F PROVE \A k \in Preds(m) : state'[k] = "done"
    OBVIOUS
  <2>1. m \in Nodes /\ m \in d.nodes /\ PlanOf[m] = p
    BY <1>3, <1>5
  <2>2. Preds(m) = PredsIn(d, m) /\ IsFiniteSet(Preds(m))
    BY <2>1, PredsAreNodes DEF Preds, IInv
  <2>3. DonePreds(m)' \in SUBSET Preds(m)
    BY <2>1, <1>8 DEF DonePreds
  <2>4. Cardinality(Preds(m)) <= d.preds[m]
    BY <2>1, <2>2, <1>1 DEF Sound
  <2>5. d.preds[m] <= Cardinality(DonePreds(m)')
    <3>1. predNum'[m] = d.preds[m] - Cardinality(DonePreds(m)') /\ predNum'[m] <= 0
      BY <2>1, <1>1, <1>2, <1>3, <1>11 DEF CountsMatch
    <3>2. d.preds[m] \in Int
      BY <2>1, <1>1 DEF Dag
    <3>3. Cardinality(DonePreds(m)') \in Nat
      BY <2>2, <2>3, FS_Subset, FS_CardinalityType
    <3> QED
      BY <3>1, <3>2, <3>3
  <2>6. DonePreds(m)' = Preds(m)
    <3>1. /\ Cardinality(DonePreds(m)') <= Cardinality(Preds(m))
          /\ Cardinality(DonePreds(m)') = Cardinality(Preds(m)) => DonePreds(m)' = Preds(m)
      BY <2>2, <2>3, FS_Subset
    <3>2. /\ Cardinality(DonePreds(m)') \in Nat /\ Cardinality(Preds(m)) \in Nat
          /\ d.preds[m] \in Int
      BY <2>1, <2>2, <2>3, <1>1, FS_Subset, FS_CardinalityType DEF Dag
    <3> QED
      BY <3>1, <3>2, <2>4, <2>5
  <2> QED
    BY <2>1, <2>6, <1>8 DEF DonePreds
<1>13. DependenciesFirst'
  <2> SUFFICES ASSUME NEW m \in Nodes,
                      state'[m] \in {"ready", "claimed", "running", "done", "failed"},
                      NEW k \in Preds(m)
               PROVE  state'[k] = "done"
    BY <1>8 DEF DependenciesFirst
  <2>1. CASE m \in F
    BY <2>1, <1>12
  <2>2. CASE m \notin F
    <3>1. state[m] \in {"ready", "claimed", "running", "done", "failed"}
      BY <2>2, <1>2, <1>4
    <3>2. state[k] = "done" /\ k \in Nodes
      BY <3>1, <1>8 DEF IInv, DependenciesFirst
    <3> QED
      BY <3>2, <1>7
  <2> QED
    BY <2>1, <2>2
<1>14. PlansKnown'
  BY <1>1, <1>2, <1>3, <1>4, <1>5 DEF IInv, PlansKnown
<1>15. LeaseTableAgrees'
  <2>1. /\ claimed' = [claimed EXCEPT ![n] = NoPeer] /\ claimedBy' = claimedBy
        /\ claimed \in [Nodes -> Peers \cup {NoPeer}]
    BY DEF Complete, IInv, TypeOK
  <2>2. \A m \in F : state[m] \notin Held
    BY <1>3, <1>6 DEF Held
  <2> QED
    BY <2>1, <2>2, <1>2, <1>3, <1>4, <1>6 DEF IInv, LeaseTableAgrees, Held
<1>16. DisposedAsAWhole'
  <2> SUFFICES ASSUME NEW q \in plans, NEW m \in dag[q].nodes, NEW k \in dag[q].nodes,
                      state'[m] = "disposed"
               PROVE  state'[k] \notin Live
    BY <1>2 DEF DisposedAsAWhole
  <2>1. m \in Nodes /\ k \in Nodes /\ PlanOf[m] = q /\ PlanOf[k] = q
    BY DagTypes DEF IInv, TypeOK, Dag, PlansKnown
  <2>2. state[m] = "disposed"
    BY <2>1, <1>4
  <2>3. state[k] \notin Live /\ q # p
    BY <2>2, <1>1, <1>2 DEF IInv, DisposedAsAWhole, Live
  <2>4. k \notin F
    BY <2>1, <2>3, <1>3, <1>5
  <2> QED
    BY <2>1, <2>3, <2>4, <1>1, <1>4
<1>17. ASSUME NEW q \in Plans PROVE ResultFollows(q)'
  <2>1. dag[q].nodes \in SUBSET Nodes
    BY DEF IInv, TypeOK, Dag
  <2>2. CASE q # p
    <3>1. \A m \in dag[q].nodes : state'[m] = state[m]
      <4> SUFFICES ASSUME NEW m \in dag[q].nodes PROVE state'[m] = state[m]
        OBVIOUS
      <4>1. PlanOf[m] = q
        BY DagTypes DEF IInv, PlansKnown, NoDag
      <4> QED
        BY <4>1, <2>1, <2>2, <1>1, <1>3, <1>4, <1>5
    <3>2. notify'[q] = notify[q]
      BY <2>2 DEF Complete, IInv, TypeOK
    <3>3. Sent(q)' = Sent(q)
      BY <3>2, <1>2 DEF Sent
    <3>4. /\ IsComplete(q)' <=> IsComplete(q)
          /\ Missed(q)' <=> Missed(q)
      BY <3>1, <1>2 DEF IsComplete, AllDone, Missed
    <3>5. Succeeded(q)' <=> Succeeded(q)
      BY <3>3, <3>4, <1>2 DEF Succeeded
    <3> QED
      BY <3>3, <3>4, <3>5, <1>2 DEF IInv, ResultFollows
  <2>3. CASE q = p
    <3>1. ~IsComplete(p) /\ ~Missed(p) /\ ~Succeeded(p)
      BY <1>1, <1>2 DEF IsComplete, AllDone, Missed, Succeeded, Live
    <3>2. watch[p] \in {"off", "armed"} /\ Sent(p) = <<>>
      BY <1>1, <3>1 DEF IInv, ResultFollows, TypeOK
    <3>3. IsComplete(p)' <=> AllDone(p, AfterDone(n))
      BY <1>2 DEF IsComplete, AllDone, Complete
    <3>4. CASE AllDone(p, AfterDone(n)) /\ dag[p].notify
      <4>1. notify'[p] = Append(notify[p], Ok(n))
        BY <3>4, <1>1 DEF Complete, IInv, TypeOK
      <4>2. Sent(p)' = <<Ok(n)>>
        <5>1. heard[p] \in Seq(Results) /\ notify[p] \in Seq(Results) /\ Ok(n) \in Results
          BY <1>1 DEF IInv, TypeOK, Ok, Results
        <5>2. heard[p] \o Append(notify[p], Ok(n)) = Append(heard[p] \o notify[p], Ok(n))
          BY <5>1, AppendConcat
        <5>3. Append(<<>>, Ok(n)) = <<Ok(n)>>
          OBVIOUS
        <5> QED
          BY <4>1, <5>2, <5>3, <3>2, <1>2 DEF Sent
      <4>3. \A m \in d.succ[n] \cap d.nodes : FALSE
        <5> SUFFICES ASSUME NEW m \in d.succ[n] \cap d.nodes PROVE FALSE
          OBVIOUS
        <5>1. m \in S /\ m \in Nodes
          BY <1>5
        <5>2. AfterDone(n)[m] = "done"
          BY <3>4 DEF AllDone
        <5>3. state'[m] = "done"
          BY <5>2 DEF Complete
        <5> QED
          BY <5>1, <5>3, <1>6, <1>7
      <4>4. Succeeded(p)'
        BY <4>2, <4>3, <3>3, <3>4, <1>1, <1>2 DEF Succeeded
      <4> QED
        BY <2>3, <4>4, <3>2, <3>4, <1>1, <1>2 DEF ResultFollows, IInv
    <3>5. CASE ~(AllDone(p, AfterDone(n)) /\ dag[p].notify)
      <4>1. notify' = notify
        BY <3>5 DEF Complete
      <4>2. Sent(p)' = <<>>
        BY <4>1, <3>2, <1>2 DEF Sent
      <4>3. watch[p] = "armed" => dag[p].notify
        BY <1>1 DEF IInv, ResultFollows
      <4> QED
        BY <2>3, <4>2, <4>3, <3>2, <3>3, <3>5, <1>1, <1>2 DEF ResultFollows, IInv
    <3> QED
      BY <3>4, <3>5
  <2> QED
    BY <2>2, <2>3
<1> QED
  BY <1>11, <1>13, <1>14, <1>15, <1>16, <1>17 DEF Preserved, GraphFollowed

\* The deadline passes: a plan that is not complete is disposed, and its result
\* is about to be sent.
LEMMA DeadlineKeeps ==
    ASSUME IInv, TypeOK', NEW p \in Plans, DeadlineFires(p)
    PROVE  Preserved' /\ \A q \in Plans : ResultFollows(q)'
<1>1. /\ UNCHANGED <<plans, dag, predNum, deadlineAt, notify, heard, now>>
      /\ watch[p] = "armed" /\ deadlineAt[p] <= now
      /\ \A q \in Plans : Sent(q)' = Sent(q)
  BY DEF DeadlineFires, planVars, resultVars, Sent
<1>2. p \in plans
  BY <1>1 DEF IInv, PlansKnown, ResultFollows, NoDag
<1>3. Quiet /\ Preserved' /\ (~IsComplete(p) => \A n \in dag[p].nodes : state'[n] \notin Live)
  <2>1. CASE IsComplete(p)
    BY <2>1, <1>1, NodesUntouched DEF DeadlineFires
  <2>2. CASE ~IsComplete(p)
    BY <2>2, <1>1, <1>2, PlanDisposed DEF DeadlineFires
  <2> QED
    BY <2>1, <2>2
<1>4. IsComplete(p)' <=> IsComplete(p)
  BY <1>1, <1>3 DEF IsComplete, AllDone, Quiet, IInv, TypeOK, Dag
<1>5. watch' = [watch EXCEPT ![p] = IF IsComplete(p) THEN "exited" ELSE "sending"]
  BY DEF DeadlineFires
<1>6. ASSUME NEW q \in Plans PROVE ResultFollows(q)'
  <2>1. CASE q # p
    <3>1. watch'[q] = watch[q] /\ now \in Nat
      BY <2>1, <1>5 DEF IInv, TypeOK
    <3> QED
      BY <3>1, <1>1, <1>3, QuietKeepsResult DEF IInv
  <2>2. CASE q = p
    <3>1. /\ watch'[p] = (IF IsComplete(p) THEN "exited" ELSE "sending")
          /\ dag[p].notify
      BY <1>1, <1>5 DEF IInv, TypeOK, ResultFollows
    <3>2. IsComplete(p) => Succeeded(p)'
      BY <1>1, <1>4 DEF IInv, ResultFollows, Succeeded
    <3>3. ~IsComplete(p) => Missed(p)' /\ Sent(p)' = <<>>
      BY <1>1, <1>3, <1>4 DEF IInv, ResultFollows, Missed, Succeeded
    <3> QED
      BY <2>2, <1>1, <3>1, <3>2, <3>3 DEF ResultFollows
  <2> QED
    BY <2>1, <2>2
<1> QED
  BY <1>3, <1>6

\* The timeout is sent to a plan that has heard nothing yet.
LEMMA TimeoutKeeps ==
    ASSUME IInv, TypeOK', NEW p \in Plans, SendTimeout(p)
    PROVE  Preserved' /\ \A q \in Plans : ResultFollows(q)'
<1>1. /\ UNCHANGED <<plans, dag, predNum, state, claimed, claimedBy, deadlineAt, heard, now>>
      /\ watch[p] = "sending" /\ watch' = [watch EXCEPT ![p] = "exited"]
      /\ notify' = [notify EXCEPT ![p] = Append(@, Timeout)]
  BY DEF SendTimeout, nodeVars, planVars
<1>2. Quiet /\ Preserved'
  BY <1>1, NodesUntouched
<1>3. ASSUME NEW q \in Plans PROVE ResultFollows(q)'
  <2>1. CASE q # p
    <3>1. watch'[q] = watch[q] /\ notify'[q] = notify[q] /\ now \in Nat
      BY <1>1, <2>1 DEF IInv, TypeOK
    <3>2. Sent(q)' = Sent(q)
      BY <1>1, <3>1 DEF Sent
    <3> QED
      BY <3>1, <3>2, <1>1, <1>2, QuietKeepsResult DEF IInv
  <2>2. CASE q = p
    <3>1. Sent(p) = <<>> /\ Missed(p) /\ watch'[p] = "exited"
      BY <1>1 DEF IInv, TypeOK, ResultFollows
    <3>2. dag[p].notify
      BY <1>1 DEF IInv, ResultFollows
    <3>3. Sent(p)' = <<Timeout>>
      <4>1. heard[p] \in Seq(Results) /\ notify[p] \in Seq(Results) /\ Timeout \in Results
        BY DEF IInv, TypeOK, Timeout, Results
      <4>2. heard[p] \o Append(notify[p], Timeout) = Append(heard[p] \o notify[p], Timeout)
        BY <4>1, AppendConcat
      <4>3. Append(<<>>, Timeout) = <<Timeout>>
        OBVIOUS
      <4>4. notify'[p] = Append(notify[p], Timeout)
        BY <1>1 DEF IInv, TypeOK
      <4> QED
        BY <4>2, <4>3, <4>4, <3>1, <1>1 DEF Sent
    <3>4. Missed(p)'
      BY <1>1, <3>1 DEF Missed, IsComplete, AllDone
    <3> QED
      BY <2>2, <1>1, <3>1, <3>2, <3>3, <3>4 DEF ResultFollows
  <2> QED
    BY <2>1, <2>2
<1> QED
  BY <1>2, <1>3

\* A result is received: what was sent is still what was sent.
LEMMA HearKeepsEverySent ==
    ASSUME IInv, NEW p \in Plans, Hear(p)
    PROVE  \A q \in Plans : Sent(q)' = Sent(q)
<1> SUFFICES ASSUME NEW q \in Plans PROVE Sent(q)' = Sent(q)
  OBVIOUS
<1>1. CASE q # p
  BY <1>1 DEF Hear, Sent, IInv, TypeOK
<1>2. CASE q = p
  <2>1. heard[p] \in Seq(Results) /\ notify[p] \in Seq(Results) /\ notify[p] # <<>>
    BY DEF Hear, IInv, TypeOK
  <2>2. heard'[p] = Append(heard[p], Head(notify[p])) /\ notify'[p] = Tail(notify[p])
    BY DEF Hear, IInv, TypeOK
  <2>3. Append(heard[p], Head(notify[p])) \o Tail(notify[p]) = heard[p] \o notify[p]
    BY <2>1, HearKeepsSent
  <2> QED
    BY <1>2, <2>2, <2>3 DEF Sent
<1> QED
  BY <1>1, <1>2

\* Reading a result keeps the invariant: what was sent has been sent.
LEMMA HearKeeps ==
    ASSUME IInv, TypeOK', NEW p \in Plans, Hear(p)
    PROVE  Preserved' /\ \A q \in Plans : ResultFollows(q)'
<1>1. UNCHANGED <<plans, dag, predNum, state, claimed, claimedBy, deadlineAt, watch, now>>
  BY DEF Hear, nodeVars, planVars
<1>2. Quiet /\ Preserved'
  BY <1>1, NodesUntouched
<1>3. now \in Nat
  BY DEF IInv, TypeOK
<1> QED
  BY <1>1, <1>2, <1>3, HearKeepsEverySent, QuietKeepsResult DEF IInv

\* Every step keeps the inductive invariant, by the lemmas above.
LEMMA NextIInv == IInv /\ [Next]_tsmVars => IInv'
<1> SUFFICES ASSUME IInv, [Next]_tsmVars PROVE IInv'
  OBVIOUS
<1>1. TypeOK'
  BY NextTypeOK DEF IInv
<1> DEFINE Keeps == Preserved' /\ \A q \in Plans : ResultFollows(q)'
<1>2. now \in Nat
  BY DEF IInv, TypeOK
<1>3. ASSUME NEW p \in Plans, NEW d \in Dags[p], Ingest(p, d) PROVE Keeps
  BY <1>1, <1>3, IngestKeeps
<1>4. ASSUME NEW n \in Nodes, PublishRoot(n) PROVE Keeps
  BY <1>2, <1>4, NodesUntouched, ResultsUntouched
  DEF PublishRoot, nodeVars, planVars, resultVars
<1>5. ASSUME NEW n \in Nodes, NEW peer \in Peers, Claim(n, peer) PROVE Keeps
  <2>1. LeaseTableAgrees'
    BY <1>5, PeersAssumption DEF Claim, CanClaim, IInv, TypeOK, LeaseTableAgrees, Held
  <2>2. Quiet /\ Preserved'
    BY <1>5, <2>1, OneNodeMoves DEF Claim, CanClaim, planVars
  <2> QED
    BY <1>2, <1>5, <2>2, ResultsUntouched DEF Claim, planVars, resultVars
<1>6. ASSUME NEW w \in watchdogs, FireWatchdog(w) PROVE Keeps
  <2>1. w.node \in Nodes
    BY DEF IInv, TypeOK, Watchdog
  <2>2. Quiet /\ Preserved'
    <3>1. CASE StillClaimed(w)
      <4>1. LeaseTableAgrees'
        BY <1>6, <2>1, <3>1 DEF FireWatchdog, Reopen, IInv, TypeOK, LeaseTableAgrees, Held
      <4> QED
        BY <1>6, <2>1, <3>1, <4>1, OneNodeMoves
        DEF FireWatchdog, StillClaimed, Reopen, planVars
    <3>2. CASE ~StillClaimed(w)
      BY <1>6, <3>2, NodesUntouched DEF FireWatchdog, planVars
    <3> QED
      BY <3>1, <3>2
  <2> QED
    BY <1>2, <1>6, <2>2, ResultsUntouched DEF FireWatchdog, planVars, resultVars
<1>7. ASSUME NEW w \in watchdogs, EndWatchdog(w) PROVE Keeps
  BY <1>2, <1>7, NodesUntouched, ResultsUntouched
  DEF EndWatchdog, nodeVars, planVars, resultVars
<1>8. ASSUME NEW n \in Nodes, Start(n) PROVE Keeps
  <2>1. LeaseTableAgrees'
    BY <1>8 DEF Start, IInv, TypeOK, LeaseTableAgrees, Held
  <2>2. Quiet /\ Preserved'
    BY <1>8, <2>1, OneNodeMoves DEF Start, planVars
  <2> QED
    BY <1>2, <1>8, <2>2, ResultsUntouched DEF Start, planVars, resultVars
<1>9. ASSUME NEW n \in Nodes, Complete(n) PROVE Keeps
  BY <1>1, <1>9, CompleteKeeps
<1>10. ASSUME NEW n \in Nodes, ReportFailure(n) PROVE Keeps
  <2>1. LeaseTableAgrees'
    BY <1>10 DEF ReportFailure, Failed, IInv, TypeOK, LeaseTableAgrees, Held
  <2>2. Quiet /\ Preserved'
    BY <1>10, <2>1, OneNodeMoves DEF ReportFailure, Failed, Held, planVars
  <2> QED
    BY <1>2, <1>10, <2>2, ResultsUntouched DEF ReportFailure, Failed, planVars, resultVars
<1>11. ASSUME NEW n \in Nodes, Abandon(n) PROVE Keeps
  <2>1. LeaseTableAgrees'
    BY <1>11 DEF Abandon, Reopen, IInv, TypeOK, LeaseTableAgrees, Held
  <2>2. Quiet /\ Preserved'
    BY <1>11, <2>1, OneNodeMoves DEF Abandon, Reopen, planVars
  <2> QED
    BY <1>2, <1>11, <2>2, ResultsUntouched DEF Abandon, planVars, resultVars
<1>12. ASSUME NEW p \in Plans, Dispose(p) PROVE Keeps
  <2>1. Quiet /\ Preserved'
    BY <1>12, PlanDisposed DEF Dispose, planVars
  <2> QED
    BY <1>2, <1>12, <2>1, ResultsUntouched DEF Dispose, planVars, resultVars
<1>13. ASSUME NEW p \in Plans, DeadlineFires(p) PROVE Keeps
  BY <1>1, <1>13, DeadlineKeeps
<1>14. ASSUME NEW p \in Plans, SendTimeout(p) PROVE Keeps
  BY <1>1, <1>14, TimeoutKeeps
<1>15. ASSUME NEW p \in Plans, Hear(p) PROVE Keeps
  BY <1>1, <1>15, HearKeeps
<1>16. ASSUME NEW w \in ReadyWatchers, ReceiveReady(w) PROVE Keeps
  BY <1>2, <1>16, NodesUntouched, ResultsUntouched
  DEF ReceiveReady, nodeVars, planVars, resultVars
<1>17. ASSUME ReceiveReopened PROVE Keeps
  BY <1>2, <1>17, NodesUntouched, ResultsUntouched
  DEF ReceiveReopened, nodeVars, planVars, resultVars
<1>18. ASSUME Tick PROVE Keeps
  BY <1>2, <1>18, NodesUntouched, ResultsUntouched DEF Tick, nodeVars, planVars, resultVars
<1>19. ASSUME UNCHANGED tsmVars PROVE Keeps
  BY <1>2, <1>19, NodesUntouched, ResultsUntouched DEF tsmVars, nodeVars, planVars, resultVars
<1>20. Keeps
  BY <1>3, <1>4, <1>5, <1>6, <1>7, <1>8, <1>9, <1>10, <1>11, <1>12, <1>13, <1>14,
     <1>15, <1>16, <1>17, <1>18, <1>19 DEF Next
<1> QED
  BY <1>1, <1>20 DEF IInv, Preserved, GraphFollowed

\* In every reachable state, for any plans with sound graphs, the tasks are worked
\* off in the order of the graph, the lease table agrees with the node states and
\* the result of a plan is in step with its deadline goroutine.
THEOREM InvariantHolds == Spec => []IInv
BY InitIInv, NextIInv, PTL DEF Spec

-----------------------------------------------------------------------------
(* What follows from the invariant.                                        *)

\* What a plan was sent is nothing, a timeout, or how it ended.
LEMMA SentShapes ==
    ASSUME IInv, NEW p \in Plans
    PROVE  \/ Sent(p) = <<>>
           \/ Missed(p) /\ p \in plans /\ Sent(p) = <<Timeout>>
           \/ Succeeded(p) /\ p \in plans
<1>1. watch[p] \in {"off", "armed", "sending", "exited"}
  BY DEF IInv, TypeOK
<1>2. watch[p] # "off" => p \in plans
  BY DEF IInv, PlansKnown, ResultFollows, NoDag
<1> QED
  BY <1>1, <1>2 DEF IInv, ResultFollows

\* A plan is never told twice how it ended.
THEOREM ResultIsUnique == Spec => []AtMostOneResult
<1>1. IInv => AtMostOneResult
  BY OneResult DEF AtMostOneResult
<1> QED
  BY <1>1, InvariantHolds, PTL

\* A result that was sent is true: ok, of the last task and all are done, or
\* timeout, with some task not done and none left to run.
THEOREM ResultIsTrue == Spec => []ResultIsTruthful
<1>1. ASSUME IInv PROVE ResultIsTruthful
  <2> SUFFICES ASSUME NEW p \in Plans, NEW i \in DOMAIN Sent(p)
               PROVE  LET r == Sent(p)[i] IN
                      /\ p \in plans
                      /\ IF r.status = "ok"
                         THEN /\ IsComplete(p)
                              /\ r.by \in dag[p].nodes
                              /\ dag[p].succ[r.by] \cap dag[p].nodes = {}
                         ELSE /\ ~IsComplete(p)
                              /\ \A n \in dag[p].nodes : state[n] \notin Live
                              /\ deadlineAt[p] <= now
    BY DEF ResultIsTruthful
  <2>1. Sent(p) # <<>>
    OBVIOUS
  <2>2. CASE Missed(p) /\ p \in plans /\ Sent(p) = <<Timeout>>
    <3>1. Sent(p)[i] = Timeout
      BY <2>2
    <3> QED
      BY <2>2, <3>1 DEF Missed, Timeout
  <2>3. CASE Succeeded(p) /\ p \in plans
    <3>1. PICK n \in dag[p].nodes :
              Sent(p) = <<Ok(n)>> /\ dag[p].succ[n] \cap dag[p].nodes = {}
      BY <2>1, <2>3 DEF Succeeded
    <3>2. Sent(p)[i] = Ok(n)
      BY <3>1
    <3> QED
      BY <2>3, <3>1, <3>2 DEF Succeeded, Ok
  <2> QED
    BY <1>1, <2>1, <2>2, <2>3, SentShapes
<1> QED
  BY <1>1, InvariantHolds, PTL

\* A plan that asked to be told does not end without a result.
THEOREM NoSilentEnd == Spec => []NoPlanEndsInSilence
<1>1. ASSUME IInv PROVE NoPlanEndsInSilence
  <2> SUFFICES ASSUME NEW p \in plans, dag[p].notify, dag[p].nodes # {},
                      IsComplete(p) \/ watch[p] = "exited"
               PROVE  Sent(p) # <<>>
    BY DEF NoPlanEndsInSilence
  <2>1. p \in Plans /\ watch[p] \in {"armed", "sending", "exited"}
    BY <1>1 DEF IInv, TypeOK, ResultFollows
  <2>2. Succeeded(p) => Sent(p) # <<>>
    BY DEF Succeeded
  <2>3. <<Timeout>> # <<>>
    OBVIOUS
  <2> QED
    BY <1>1, <2>1, <2>2, <2>3 DEF IInv, ResultFollows, Missed
<1> QED
  BY <1>1, InvariantHolds, PTL

\* Sending a result under the mutex never blocks the state manager.
THEOREM MutexNeverStuck == Spec => []NeverWedged
BY MutexIsFree, InvariantHolds, PTL

\* No task is offered before all that it depends on is done.
THEOREM OrderIsKept == Spec => []DependenciesFirst
<1>1. IInv => DependenciesFirst
  BY DEF IInv
<1> QED
  BY <1>1, InvariantHolds, PTL

\* Steps that claim nothing keep every watch, if they end no watchdog of a claim.
LEMMA WatchKept ==
    ASSUME ClaimIsWatched,
           \A n \in Nodes : state'[n] = "claimed" =>
               /\ state[n] = "claimed" /\ claimed'[n] = claimed[n]
               /\ lease'[n] = lease[n] /\ expiresAt'[n] = expiresAt[n],
           \A w \in watchdogs : w.by \notin Cancellable /\ state'[w.node] = "claimed" => w \in watchdogs'
    PROVE  ClaimIsWatched'
BY DEF ClaimIsWatched

\* A claim keeps a watchdog of its own as long as the claim lasts.
LEMMA WatchHolds == IInv /\ ClaimIsWatched /\ [Next]_tsmVars => ClaimIsWatched'
<1> SUFFICES ASSUME IInv, ClaimIsWatched, [Next]_tsmVars PROVE ClaimIsWatched'
  OBVIOUS
<1>0. TypeOK
  BY DEF IInv
<1>1. ASSUME NEW n \in Nodes, NEW peer \in Peers, Claim(n, peer) PROVE ClaimIsWatched'
  <2> SUFFICES ASSUME NEW m \in Nodes, state'[m] = "claimed", claimed'[m] \notin Cancellable
               PROVE  \E w \in watchdogs' : /\ w.node = m /\ w.lease = lease'[m]
                                            /\ w.fireAt = expiresAt'[m] /\ w.by = claimed'[m]
    BY DEF ClaimIsWatched
  <2>1. CASE m = n
    <3> DEFINE w == NewWatchdog(n, peer)
    <3>1. w.node = n /\ w.lease = lease[n] + 1 /\ w.fireAt = now + Lease /\ w.by = peer
      BY DEF NewWatchdog
    <3>2. w \in watchdogs'
      BY <1>1 DEF Claim
    <3>3. lease'[n] = lease[n] + 1 /\ expiresAt'[n] = now + Lease /\ claimed'[n] = peer
      BY <1>0, <1>1 DEF Claim, TypeOK
    <3> QED
      BY <2>1, <3>1, <3>2, <3>3
  <2>2. CASE m # n
    <3>1. /\ state[m] = "claimed" /\ claimed'[m] = claimed[m] /\ lease'[m] = lease[m]
          /\ expiresAt'[m] = expiresAt[m] /\ watchdogs \subseteq watchdogs'
      BY <1>0, <1>1, <2>2 DEF Claim, TypeOK
    <3> QED
      BY <3>1 DEF ClaimIsWatched
  <2> QED
    BY <2>1, <2>2
<1>2. ASSUME NEW w \in watchdogs, FireWatchdog(w) PROVE ClaimIsWatched'
  <2>1. w.node \in Nodes
    BY <1>0 DEF TypeOK, Watchdog
  <2>2. state'[w.node] # "claimed" /\ watchdogs' = watchdogs \ {w} /\ lease' = lease
    BY <1>0, <1>2, <2>1 DEF FireWatchdog, StillClaimed, Reopen, TypeOK
  <2>3. \A n \in Nodes : n # w.node =>
            state'[n] = state[n] /\ claimed'[n] = claimed[n] /\ expiresAt'[n] = expiresAt[n]
    BY <1>0, <1>2, <2>1 DEF FireWatchdog, Reopen, TypeOK
  <2> QED
    BY <2>1, <2>2, <2>3, WatchKept
<1>3. ASSUME NEW w \in watchdogs, EndWatchdog(w) PROVE ClaimIsWatched'
  BY <1>3, WatchKept DEF EndWatchdog, nodeVars
<1>4. ASSUME NEW n \in Nodes, Start(n) \/ Complete(n) \/ ReportFailure(n) \/ Abandon(n)
      PROVE  ClaimIsWatched'
  <2>1. watchdogs' = watchdogs /\ lease' = lease
    BY <1>4 DEF Start, Complete, ReportFailure, Failed, Abandon, AfterDone
  <2>2. \A m \in Nodes : state'[m] = "claimed" =>
            state[m] = "claimed" /\ claimed'[m] = claimed[m] /\ expiresAt'[m] = expiresAt[m]
    BY <1>0, <1>4 DEF Start, Complete, AfterDone, ReportFailure, Failed, Abandon, Reopen, TypeOK
  <2> QED
    BY <2>1, <2>2, WatchKept
<1>5. ASSUME NEW p \in Plans, Dispose(p) \/ DeadlineFires(p) PROVE ClaimIsWatched'
  <2>1. watchdogs' = watchdogs /\ lease' = lease
    BY <1>5 DEF Dispose, DeadlineFires
  <2>2. \A m \in Nodes : state'[m] = "claimed" =>
            state[m] = "claimed" /\ claimed'[m] = claimed[m] /\ expiresAt'[m] = expiresAt[m]
    BY <1>0, <1>5 DEF Dispose, DeadlineFires, DisposeNodes, TypeOK
  <2> QED
    BY <2>1, <2>2, WatchKept
<1>6. ASSUME NEW p \in Plans, NEW d \in Dags[p], Ingest(p, d) PROVE ClaimIsWatched'
  <2>1. watchdogs' = watchdogs /\ UNCHANGED <<lease, claimed, expiresAt>>
    BY <1>6 DEF Ingest
  <2>2. \A m \in Nodes : state'[m] = "claimed" => state[m] = "claimed"
    BY <1>0, <1>6 DEF Ingest, TypeOK
  <2> QED
    BY <2>1, <2>2, WatchKept
<1>7. CASE UNCHANGED <<nodeVars, watchdogs>>
  BY <1>7, WatchKept DEF nodeVars
<1>8. ASSUME NEW p \in Plans, SendTimeout(p) \/ Hear(p) PROVE UNCHANGED <<nodeVars, watchdogs>>
  BY <1>8 DEF SendTimeout, Hear
<1>9. ASSUME NEW n \in Nodes, PublishRoot(n) PROVE UNCHANGED <<nodeVars, watchdogs>>
  BY <1>9 DEF PublishRoot
<1>10. ASSUME NEW w \in ReadyWatchers, ReceiveReady(w) PROVE UNCHANGED <<nodeVars, watchdogs>>
  BY <1>10 DEF ReceiveReady
<1>11. ReceiveReopened \/ Tick \/ UNCHANGED tsmVars => UNCHANGED <<nodeVars, watchdogs>>
  BY DEF ReceiveReopened, Tick, tsmVars
<1> QED
  BY <1>1, <1>2, <1>3, <1>4, <1>5, <1>6, <1>7, <1>8, <1>9, <1>10, <1>11 DEF Next

\* Three places agree on who holds a task, and a task that is only claimed is watched over
\* by the watchdog of its own lease, though others may be left (Claim, its goroutine).
THEOREM LeasesAgree == Spec => []LeasesHold
<1>1. Init => ClaimIsWatched
  BY DEF Init, ClaimIsWatched
<1>2. IInv => LeaseTableAgrees
  BY DEF IInv
<1> QED
  BY <1>1, <1>2, WatchHolds, InvariantHolds, PTL DEF Spec, LeasesHold

\* A plan of which a task is disposed has no live task.
THEOREM DisposalIsWhole == Spec => []DisposedAsAWhole
<1>1. IInv => DisposedAsAWhole
  BY DEF IInv
<1> QED
  BY <1>1, InvariantHolds, PTL

-----------------------------------------------------------------------------
(* Channels that hold no message twice, and have room for every message.    *)

Distinct(s) == \A i, j \in DOMAIN s : s[i] = s[j] => i = j

\* A sequence of members of a set that are all different is no longer than the set.
LEMMA DistinctIsShort ==
    ASSUME NEW T, IsFiniteSet(T), NEW len \in Nat, NEW f \in [1 .. len -> T], Distinct(f)
    PROVE  len <= Cardinality(T)
<1>1. IsFiniteSet(1 .. len) /\ Cardinality(1 .. len) = len
  BY FS_Interval
<1>2. Cardinality(T) \in Nat
  BY FS_CardinalityType
<1>3. CASE Cardinality(T) < len
  <2>1. \E i, j \in 1 .. len : i # j /\ f[i] = f[j]
    BY <1>1, <1>3, FS_PigeonHole
  <2> QED
    BY <2>1 DEF Distinct
<1> QED
  BY <1>2, <1>3

\* An order of some messages holds each of them, once.
LEMMA OrdersDistinct ==
    ASSUME NEW S, IsFiniteSet(S), NEW f \in Orders(S)
    PROVE  f \in Seq(S) /\ Distinct(f) /\ \A x : In(x, f) <=> x \in S
<1>1. f \in Seq(S)
  BY OrdersType
<1> DEFINE k == Cardinality(S)
<1>2. k \in Nat /\ f \in [1 .. k -> S] /\ \A x \in S : \E i \in 1 .. k : f[i] = x
  BY FS_CardinalityType DEF Orders
<1>3. IsFiniteSet(1 .. k) /\ Cardinality(1 .. k) = k
  BY <1>2, FS_Interval
<1>4. f \in Surjection(1 .. k, S)
  BY <1>2 DEF Surjection
<1>5. f \in Injection(1 .. k, S)
  BY <1>3, <1>4, FS_SurjSameCardinalityImpliesInj
<1>6. Distinct(f)
  BY <1>5 DEF Injection, IsInjective, Distinct
<1>7. \A x : In(x, f) <=> x \in S
  BY <1>2 DEF In
<1> QED
  BY <1>1, <1>6, <1>7

\* new is ch with the first k messages of s appended.
Prolongs(new, ch, s, k) ==
    /\ k <= Len(s)
    /\ DOMAIN new = 1 .. Len(ch) + k
    /\ \A i \in 1 .. Len(ch) : new[i] = ch[i]
    /\ \A i \in 1 .. k : new[Len(ch) + i] = s[i]

\* Publishing messages appends the first of them, and all if there is room.
LEMMA OfferedPart ==
    ASSUME NEW T, NEW ch \in Seq(T), NEW s \in Seq(T), NEW cap \in Nat
    PROVE  \E k \in Nat : /\ Prolongs(Offered(ch, cap, s), ch, s, k)
                          /\ Len(ch) + Len(s) <= cap => k = Len(s)
<1> DEFINE m == Len(ch)
           n == Len(s)
           new == Offered(ch, cap, s)
<1>0. m \in Nat /\ n \in Nat /\ DOMAIN ch = 1 .. m
  BY LenProperties
<1>1. CASE m >= cap
  <2>1. new = ch
    BY <1>1 DEF Offered
  <2> HIDE DEF m, n, new
  <2>2. /\ 0 \in Nat /\ 0 <= n /\ (m + n <= cap => 0 = n)
        /\ DOMAIN new = 1 .. m + 0
        /\ \A i \in 1 .. m : new[i] = ch[i]
        /\ \A i \in 1 .. 0 : new[m + i] = s[i]
    BY <1>0, <1>1, <2>1
  <2>3. Prolongs(new, ch, s, 0) /\ (m + n <= cap => 0 = n)
    BY <2>2 DEF m, n, Prolongs
  <2>4. 0 \in Nat /\ Prolongs(Offered(ch, cap, s), ch, s, 0)
        /\ (Len(ch) + Len(s) <= cap => 0 = Len(s))
    BY <2>3 DEF m, n, new
  <2> WITNESS 0 \in Nat
  <2> QED
    BY <2>4
<1>2. CASE ~(m >= cap)
  <2> DEFINE k == IF cap - m <= n THEN cap - m ELSE n
             part == SubSeq(s, 1, k)
  <2>1. new = ch \o part
    BY <1>2 DEF Offered
  <2> HIDE DEF m
  <2>2. k \in Nat /\ k <= n /\ (m + n <= cap => k = n)
    <3> HIDE DEF n
    <3> QED
      BY <1>0, <1>2
  <2> HIDE DEF k
  <2>3. part \in Seq(T) /\ Len(part) = k /\ \A i \in 1 .. k : part[i] = s[i]
    BY <2>2
  <2> HIDE DEF part, n, new
  <2>4. /\ new \in Seq(T) /\ Len(new) = m + k
        /\ \A i \in 1 .. m + k : new[i] = IF i <= m THEN ch[i] ELSE part[i - m]
    <3>1. /\ ch \o part \in Seq(T)
          /\ Len(ch \o part) = Len(ch) + Len(part)
          /\ \A i \in 1 .. Len(ch) + Len(part) :
                 (ch \o part)[i] = IF i <= Len(ch) THEN ch[i] ELSE part[i - Len(ch)]
      BY <2>3, ConcatProperties
    <3>2. m = Len(ch) /\ Len(part) = k
      BY <2>3 DEF m
    <3> QED
      BY <2>1, <3>1, <3>2
  <2>5. DOMAIN new = 1 .. m + k
    BY <2>4, LenProperties
  <2>6. \A i \in 1 .. m : new[i] = ch[i]
    BY <1>0, <2>2, <2>4
  <2>7. \A i \in 1 .. k : new[m + i] = s[i]
    <3> TAKE i \in 1 .. k
    <3>1. m + i \in 1 .. m + k /\ ~(m + i <= m) /\ (m + i) - m = i
      BY <1>0, <2>2
    <3> QED
      BY <2>3, <2>4, <3>1
  <2>8. Prolongs(new, ch, s, k)
    BY <2>2, <2>5, <2>6, <2>7 DEF m, n, Prolongs
  <2> QED
    BY <2>2, <2>8 DEF m, n, new
<1> QED
  BY <1>1, <1>2

\* What is in a channel after a publication.
LEMMA OfferedMembers ==
    ASSUME NEW T, NEW ch \in Seq(T), NEW s \in Seq(T), NEW cap \in Nat, NEW x
    PROVE  /\ In(x, Offered(ch, cap, s)) => In(x, ch) \/ In(x, s)
           /\ In(x, ch) => In(x, Offered(ch, cap, s))
           /\ Len(ch) + Len(s) <= cap /\ In(x, s) => In(x, Offered(ch, cap, s))
<1> DEFINE new == Offered(ch, cap, s)
           m == Len(ch)
           n == Len(s)
<1>0. m \in Nat /\ n \in Nat /\ DOMAIN ch = 1 .. m /\ DOMAIN s = 1 .. n
  BY LenProperties
<1>8. PICK k \in Nat : Prolongs(new, ch, s, k) /\ (m + n <= cap => k = n)
  BY OfferedPart
<1>1. /\ k <= n /\ (m + n <= cap => k = n)
      /\ DOMAIN new = 1 .. m + k
      /\ \A i \in 1 .. m : new[i] = ch[i]
      /\ \A i \in 1 .. k : new[m + i] = s[i]
  BY <1>8 DEF Prolongs
<1> HIDE DEF new, m, n
<1>2. ASSUME NEW i \in DOMAIN new PROVE In(new[i], ch) \/ In(new[i], s)
  <2>1. CASE i <= m
    <3>1. i \in DOMAIN ch /\ new[i] = ch[i]
      BY <1>0, <1>1, <2>1
    <3> QED
      BY <3>1 DEF In
  <2>2. CASE ~(i <= m)
    <3>1. i - m \in 1 .. k /\ i - m \in DOMAIN s /\ m + (i - m) = i
      BY <1>0, <1>1, <2>2
    <3>2. new[i] = s[i - m]
      BY <1>1, <3>1
    <3> QED
      BY <3>1, <3>2 DEF In
  <2> QED
    BY <2>1, <2>2
<1>3. \A i \in DOMAIN ch : i \in DOMAIN new /\ new[i] = ch[i]
  BY <1>0, <1>1
<1>4. \A i \in 1 .. k : m + i \in DOMAIN new /\ new[m + i] = s[i]
  BY <1>0, <1>1
<1>5. In(x, new) => In(x, ch) \/ In(x, s)
  BY <1>2 DEF In
<1>6. In(x, ch) => In(x, new)
  BY <1>3 DEF In
<1>7. m + n <= cap /\ In(x, s) => In(x, new)
  BY <1>0, <1>1, <1>4 DEF In
<1> QED
  BY <1>5, <1>6, <1>7 DEF new, m, n

\* Publishing messages that are not in a channel, each once, leaves each in it once.
LEMMA OfferedDistinct ==
    ASSUME NEW T, NEW ch \in Seq(T), NEW s \in Seq(T), NEW cap \in Nat,
           Distinct(ch), Distinct(s), \A x : In(x, s) => ~In(x, ch)
    PROVE  Distinct(Offered(ch, cap, s))
<1> DEFINE new == Offered(ch, cap, s)
           m == Len(ch)
           n == Len(s)
<1>0. m \in Nat /\ n \in Nat /\ DOMAIN ch = 1 .. m /\ DOMAIN s = 1 .. n
  BY LenProperties
<1>8. PICK k \in Nat : Prolongs(new, ch, s, k)
  BY OfferedPart
<1>1. /\ k <= n
      /\ DOMAIN new = 1 .. m + k
      /\ \A i \in 1 .. m : new[i] = ch[i]
      /\ \A i \in 1 .. k : new[m + i] = s[i]
  BY <1>8 DEF Prolongs
<1> HIDE DEF new, m, n
<1>2. \A i \in 1 .. m : i \in DOMAIN ch /\ new[i] = ch[i] /\ In(new[i], ch)
  BY <1>0, <1>1 DEF In
<1>3. ASSUME NEW i \in DOMAIN new, ~(i \in 1 .. m)
      PROVE  i - m \in DOMAIN s /\ new[i] = s[i - m] /\ In(new[i], s)
  <2>1. i - m \in 1 .. k /\ i - m \in DOMAIN s /\ m + (i - m) = i
    BY <1>0, <1>1, <1>3
  <2>2. new[i] = s[i - m]
    BY <1>1, <2>1
  <2> QED
    BY <2>1, <2>2 DEF In
<1>4. ASSUME NEW i \in DOMAIN new, NEW j \in DOMAIN new, new[i] = new[j] PROVE i = j
  <2>1. CASE i \in 1 .. m /\ j \in 1 .. m
    BY <1>2, <1>4, <2>1 DEF Distinct
  <2>2. CASE i \notin 1 .. m /\ j \notin 1 .. m
    <3>1. i - m = j - m
      BY <1>3, <1>4, <2>2 DEF Distinct
    <3>2. i \in Int /\ j \in Int
      BY <1>0, <1>1
    <3> QED
      BY <1>0, <3>1, <3>2
  <2>3. CASE ~((i \in 1 .. m) <=> (j \in 1 .. m))
    BY <1>2, <1>3, <1>4, <2>3
  <2> QED
    BY <2>1, <2>2, <2>3
<1> QED
  BY <1>4 DEF Distinct, new, m, n

\* Two sequences that share no member are together no longer than the set they are over.
LEMMA DistinctFit ==
    ASSUME NEW T, IsFiniteSet(T), NEW ch \in Seq(T), NEW s \in Seq(T),
           Distinct(ch), Distinct(s), \A x : In(x, s) => ~In(x, ch)
    PROVE  Len(ch) + Len(s) <= Cardinality(T)
<1> DEFINE cap == Len(ch) + Len(s)
           new == Offered(ch, cap, s)
<1>1. Len(ch) \in Nat /\ Len(s) \in Nat /\ cap \in Nat
  BY LenProperties
<1>2. Distinct(new)
  BY <1>1, OfferedDistinct
<1>3. new \in Seq(T)
  BY <1>1, OfferedType
<1>4. DOMAIN new = 1 .. cap
  <2>1. PICK k \in Nat : Prolongs(new, ch, s, k) /\ (Len(ch) + Len(s) <= cap => k = Len(s))
    BY <1>1, OfferedPart
  <2> QED
    BY <1>1, <2>1 DEF Prolongs
<1> HIDE DEF new, cap
<1>5. new \in [1 .. cap -> T]
  <2>1. Len(new) = cap
    BY <1>1, <1>3, <1>4, LenProperties
  <2> QED
    BY <1>3, <1>4, <2>1
<1>6. cap <= Cardinality(T)
  BY <1>1, <1>2, <1>5, DistinctIsShort
<1> QED
  BY <1>6 DEF cap

\* One message is a sequence without repetition.
LEMMA SingleDistinct ==
    ASSUME NEW T, NEW m \in T
    PROVE  /\ <<m>> \in Seq(T) /\ Len(<<m>>) = 1 /\ Distinct(<<m>>)
           /\ \A x : In(x, <<m>>) <=> x = m
<1>1. DOMAIN <<m>> = {1} /\ <<m>>[1] = m
  OBVIOUS
<1> QED
  BY <1>1 DEF Distinct, In

\* Receiving takes the oldest message out of a channel.
LEMMA TailMembers ==
    ASSUME NEW T, NEW s \in Seq(T), s # <<>>
    PROVE  /\ Head(s) \in T /\ Tail(s) \in Seq(T) /\ In(Head(s), s)
           /\ \A x : In(x, Tail(s)) => In(x, s)
           /\ \A x : In(x, s) => x = Head(s) \/ In(x, Tail(s))
           /\ Distinct(s) => Distinct(Tail(s)) /\ ~In(Head(s), Tail(s))
<1> DEFINE t == Tail(s)
<1>1. /\ Len(s) \in Nat /\ Len(s) > 0 /\ DOMAIN s = 1 .. Len(s) /\ Head(s) = s[1] /\ s[1] \in T
      /\ t \in Seq(T) /\ DOMAIN t = 1 .. Len(s) - 1
      /\ \A i \in 1 .. Len(s) - 1 : t[i] = s[i + 1]
  OBVIOUS
<1> HIDE DEF t
<1>2. \A i \in DOMAIN t : i + 1 \in DOMAIN s /\ i + 1 # 1 /\ t[i] = s[i + 1]
  BY <1>1
<1>3. \A i \in DOMAIN s : i = 1 \/ (i - 1 \in DOMAIN t /\ t[i - 1] = s[i])
  BY <1>1
<1>4. 1 \in DOMAIN s
  BY <1>1
<1>5. /\ \A x : In(x, t) => In(x, s)
      /\ \A x : In(x, s) => x = s[1] \/ In(x, t)
  BY <1>2, <1>3 DEF In
<1>6. ASSUME Distinct(s) PROVE Distinct(t) /\ ~In(s[1], t)
  <2>1. \A i \in DOMAIN t : t[i] # s[1]
    BY <1>2, <1>4, <1>6 DEF Distinct
  <2>2. ASSUME NEW i \in DOMAIN t, NEW j \in DOMAIN t, t[i] = t[j] PROVE i = j
    <3>1. i + 1 = j + 1
      BY <1>2, <1>6, <2>2 DEF Distinct
    <3> QED
      BY <1>1, <3>1
  <2> QED
    BY <2>1, <2>2 DEF Distinct, In
<1>7. In(s[1], s)
  BY <1>4 DEF In
<1> QED
  BY <1>1, <1>5, <1>6, <1>7 DEF t

-----------------------------------------------------------------------------
(* Announcements.  A task is announced once, when all that it depends on is *)
(* done; before that it is in no channel and has had no lease.              *)

Unraised(n) == state[n] \in {"absent", "pending"}
Announced(n) == n \in unannounced \/ \E w \in ReadyWatchers : In(n, readyCh[w])

UnraisedUnseen ==
    \A n \in Nodes : Unraised(n) => ~Announced(n) /\ lease[n] = 0 /\ ~In(n, reopenedCh)
HeldIsLeased == \A n \in Nodes : state[n] \in Held => lease[n] > 0
AnnouncedOnce ==
    \A w \in ReadyWatchers :
        Distinct(readyCh[w]) /\ \A n \in unannounced : ~In(n, readyCh[w])
AnnouncedFree == \A n \in Nodes : Announced(n) => \A m \in Preds(n) : state[m] = "done"

QueueInv == UnraisedUnseen /\ HeldIsLeased /\ AnnouncedOnce /\ AnnouncedFree

\* Nothing is announced at the start.
LEMMA InitQueueInv == Init => QueueInv
BY DEF Init, QueueInv, UnraisedUnseen, HeldIsLeased, AnnouncedOnce, AnnouncedFree, Unraised,
   Announced, Held, Distinct, In

DoneStays == \A m \in Nodes : state[m] = "done" => state'[m] = "done"

\* Steps that announce nothing keep the invariant.
LEMMA OthersKeepQueue ==
    ASSUME TypeOK, QueueInv, dag' = dag, DoneStays, unannounced' = unannounced,
           \A n \in Nodes : Unraised(n)' =>
               Unraised(n) /\ lease'[n] = lease[n] /\ (In(n, reopenedCh)' => In(n, reopenedCh)),
           \A n \in Nodes : state'[n] \in Held => lease'[n] > 0,
           \A w \in ReadyWatchers : Distinct(readyCh[w])'
               /\ \A n \in Nodes : In(n, readyCh[w])' => In(n, readyCh[w])
    PROVE  QueueInv'
<1>1. \A n \in Nodes : Announced(n)' => Announced(n)
  BY DEF Announced
<1>2. unannounced \subseteq Nodes
  BY DEF TypeOK
<1>3. \A n \in Nodes : Preds(n)' = Preds(n) /\ Preds(n) \subseteq Nodes
  BY PredsAreNodes DEF Preds
<1>4. UnraisedUnseen' /\ HeldIsLeased'
  BY <1>1 DEF QueueInv, UnraisedUnseen, HeldIsLeased
<1>5. AnnouncedOnce'
  BY <1>2 DEF QueueInv, AnnouncedOnce
<1>6. AnnouncedFree'
  BY <1>1, <1>3 DEF QueueInv, AnnouncedFree, DoneStays
<1> QED
  BY <1>4, <1>5, <1>6 DEF QueueInv

\* The tasks of a new plan have not been seen; its roots depend on nothing.
LEMMA IngestKeepsQueue ==
    ASSUME IInv, IInv', QueueInv, NEW p \in Plans, NEW d \in Dags[p], Ingest(p, d)
    PROVE  QueueInv'
<1>1. TypeOK /\ d \in Dag /\ d.nodes \subseteq Nodes /\ \A n \in d.nodes : PlanOf[n] = p
  BY DagTypes DEF IInv, Dag
<1>2. /\ p \notin plans /\ dag' = [dag EXCEPT ![p] = d]
      /\ unannounced' = unannounced \cup (d.roots \cap d.nodes)
      /\ UNCHANGED <<lease, readyCh, reopenedCh>>
      /\ state' = [n \in Nodes |-> IF n \notin d.nodes THEN state[n]
                                   ELSE IF n \in d.roots THEN "ready" ELSE "pending"]
  BY DEF Ingest
<1>3. \A n \in d.nodes : state[n] = "absent"
  BY <1>1, <1>2 DEF IInv, PlansKnown, NoDag
<1>4. \A n \in Nodes : Unraised(n)' => Unraised(n) /\ n \notin d.roots \cap d.nodes
  BY <1>2, <1>3 DEF Unraised
<1>5. \A n \in Nodes, w \in ReadyWatchers : In(n, readyCh[w])' <=> In(n, readyCh[w])
  BY <1>2 DEF In
<1>6. \A n \in Nodes : Announced(n)' => Announced(n) \/ n \in d.roots \cap d.nodes
  BY <1>2, <1>5 DEF Announced
<1>7. UnraisedUnseen'
  <2>1. \A n \in Nodes : In(n, reopenedCh)' <=> In(n, reopenedCh)
    BY <1>2 DEF In
  <2> QED
    BY <1>2, <1>4, <1>6, <2>1 DEF QueueInv, UnraisedUnseen
<1>8. HeldIsLeased'
  BY <1>2 DEF QueueInv, HeldIsLeased, Held
<1>9. AnnouncedOnce'
  <2>1. \A n \in d.nodes : Unraised(n)
    BY <1>3 DEF Unraised
  <2>2. \A n \in unannounced', w \in ReadyWatchers : ~In(n, readyCh[w])
    BY <1>1, <1>2, <2>1 DEF QueueInv, UnraisedUnseen, AnnouncedOnce, Announced
  <2>3. unannounced' \subseteq Nodes
    BY <1>1, <1>2 DEF TypeOK
  <2>4. \A w \in ReadyWatchers : readyCh'[w] = readyCh[w]
    BY <1>2
  <2> QED
    BY <1>5, <2>2, <2>3, <2>4 DEF QueueInv, AnnouncedOnce, Distinct
<1>10. AnnouncedFree'
  <2> SUFFICES ASSUME NEW n \in Nodes, Announced(n)', NEW m \in Preds(n)'
               PROVE  state'[m] = "done"
    BY DEF AnnouncedFree
  <2>1. CASE n \in d.roots \cap d.nodes
    <3>1. state'[n] = "ready"
      BY <1>2, <2>1
    <3> QED
      BY <3>1 DEF IInv, DependenciesFirst
  <2>2. CASE n \notin d.roots \cap d.nodes
    <3>1. Announced(n) /\ ~Unraised(n)
      BY <1>6, <2>2 DEF QueueInv, UnraisedUnseen
    <3>2. n \in dag[PlanOf[n]].nodes /\ PlanOf[n] \in Plans
      BY <3>1, NodesAssumption DEF Unraised, IInv, PlansKnown
    <3>3. PlanOf[n] # p
      BY <1>2, <3>2 DEF IInv, PlansKnown, NoDag
    <3>4. Preds(n)' = Preds(n)
      BY <1>2, <3>2, <3>3 DEF Preds, TypeOK, IInv
    <3>5. m \in Nodes /\ state[m] = "done"
      BY <1>1, <3>1, <3>4, PredsAreNodes DEF QueueInv, AnnouncedFree
    <3>6. m \notin d.nodes
      BY <1>3, <3>5
    <3> QED
      BY <1>2, <3>5, <3>6
  <2> QED
    BY <2>1, <2>2
<1> QED
  BY <1>7, <1>8, <1>9, <1>10 DEF QueueInv

\* Announcing a root moves it from where it waits to the channels.
LEMMA PublishKeepsQueue ==
    ASSUME TypeOK, QueueInv, NEW n \in Nodes, PublishRoot(n)
    PROVE  QueueInv'
<1>1. /\ n \in unannounced /\ unannounced' = unannounced \ {n}
      /\ \A w \in ReadyWatchers : readyCh'[w] = Offered(readyCh[w], TopicLen, <<n>>)
      /\ UNCHANGED <<state, lease, dag, reopenedCh>>
  BY DEF PublishRoot, nodeVars, planVars
<1>2. <<n>> \in Seq(Nodes) /\ Distinct(<<n>>) /\ \A x : In(x, <<n>>) <=> x = n
  BY SingleDistinct
<1>3. \A w \in ReadyWatchers : readyCh[w] \in Seq(Nodes) /\ TopicLen \in Nat
  BY ChannelAssumption DEF TypeOK
<1>4. \A w \in ReadyWatchers, m \in Nodes :
          In(m, readyCh'[w]) => In(m, readyCh[w]) \/ m = n
  <2> TAKE w \in ReadyWatchers, m \in Nodes
  <2> DEFINE one == <<n>>
  <2>1. readyCh'[w] = Offered(readyCh[w], TopicLen, one)
    BY <1>1
  <2>2. one \in Seq(Nodes) /\ (In(m, one) => m = n)
    BY <1>2
  <2> HIDE DEF one
  <2> QED
    BY <1>3, <2>1, <2>2, OfferedMembers
<1>5. \A w \in ReadyWatchers : ~In(n, readyCh[w])
  BY <1>1 DEF QueueInv, AnnouncedOnce
<1>6. \A w \in ReadyWatchers : Distinct(readyCh'[w])
  BY <1>1, <1>2, <1>3, <1>5, OfferedDistinct DEF QueueInv, AnnouncedOnce
<1>7. \A m \in Nodes : Announced(m)' => Announced(m)
  BY <1>1, <1>4 DEF Announced, In
<1>8. unannounced \subseteq Nodes
  BY DEF TypeOK
<1>9. AnnouncedOnce'
  <2>1. \A w \in ReadyWatchers : Distinct(readyCh[w])'
    BY <1>6 DEF Distinct
  <2>2. \A w \in ReadyWatchers : \A m \in unannounced' : ~In(m, readyCh[w])'
    BY <1>1, <1>4, <1>8 DEF QueueInv, AnnouncedOnce, In
  <2> QED
    BY <2>1, <2>2 DEF AnnouncedOnce
<1>10. UnraisedUnseen' /\ HeldIsLeased'
  <2>1. \A m \in Nodes : /\ Unraised(m)' => Unraised(m)
                         /\ In(m, reopenedCh)' => In(m, reopenedCh)
    BY <1>1 DEF Unraised, In
  <2> QED
    BY <1>1, <1>7, <2>1 DEF QueueInv, UnraisedUnseen, HeldIsLeased
<1>11. AnnouncedFree'
  <2>1. \A m \in Nodes : Preds(m)' = Preds(m)
    BY <1>1 DEF Preds
  <2> QED
    BY <1>1, <1>7, <2>1 DEF QueueInv, AnnouncedFree
<1> QED
  BY <1>9, <1>10, <1>11 DEF QueueInv

\* The tasks that a completion makes ready had not been raised before.
LEMMA FreedWereUnraised ==
    ASSUME IInv, NEW n \in Nodes, CanComplete(n)
    PROVE  /\ Freed(n) \subseteq Nodes /\ n \notin Freed(n)
           /\ \A m \in Freed(n) : Unraised(m)
<1>1. /\ PlanOf[n] \in Plans /\ n \in dag[PlanOf[n]].nodes /\ state[n] = "running"
      /\ PlanOf[n] \in plans /\ dag[PlanOf[n]] \in Dags[PlanOf[n]]
  BY NodesAssumption DEF CanComplete, IInv, PlansKnown, NoDag
<1>2. /\ dag[PlanOf[n]].nodes \subseteq Nodes
      /\ \A m \in dag[PlanOf[n]].nodes : PlanOf[m] = PlanOf[n]
  BY <1>1, DagTypes DEF Dag
<1>3. ASSUME NEW m \in Freed(n) PROVE m \in Nodes /\ m # n /\ Unraised(m)
  <2>1. m \in dag[PlanOf[n]].succ[n] /\ m \in dag[PlanOf[n]].nodes
    BY <1>3 DEF Freed
  <2>2. m \in Nodes /\ n \in Preds(m)
    BY <1>1, <1>2, <2>1 DEF Preds, PredsIn
  <2>3. state[m] \notin {"ready", "claimed", "running", "done", "failed"}
    BY <1>1, <2>2 DEF IInv, DependenciesFirst
  <2>4. state[m] # "disposed"
    BY <1>1, <2>1 DEF IInv, DisposedAsAWhole, Live
  <2>5. state[m] \in States
    BY <2>2 DEF IInv, TypeOK
  <2> QED
    BY <1>1, <2>2, <2>3, <2>4, <2>5 DEF States, Unraised
<1> QED
  BY <1>3

\* A completion announces what it makes ready; none of it had been announced.
LEMMA CompleteKeepsQueue ==
    ASSUME IInv, IInv', QueueInv, NEW n \in Nodes, Complete(n)
    PROVE  QueueInv' /\ DoneStays
<1> DEFINE S == Freed(n)
<1>0. TypeOK
  BY DEF IInv
<1>1. S \subseteq Nodes /\ n \notin S /\ \A m \in S : Unraised(m)
  BY FreedWereUnraised DEF Complete
<1>2. PICK order \in Orders(S) :
          readyCh' = [w \in ReadyWatchers |-> Offered(readyCh[w], TopicLen, order)]
  BY DEF Complete
<1>3. IsFiniteSet(S) /\ S \in SUBSET Nodes
  BY <1>1, NodesAssumption, FS_Subset
<1>4. /\ UNCHANGED <<lease, dag, reopenedCh, unannounced>> /\ state[n] = "running"
      /\ state' = [m \in Nodes |-> IF m \in S THEN "ready" ELSE IF m = n THEN "done" ELSE state[m]]
  BY DEF Complete, CanComplete, AfterDone
<1> HIDE DEF S
<1>5. order \in Seq(S) /\ Distinct(order) /\ \A x : In(x, order) <=> x \in S
  BY <1>3, OrdersDistinct
<1>6. order \in Seq(Nodes)
  BY <1>3, OrdersType
<1>7. \A w \in ReadyWatchers : /\ readyCh[w] \in Seq(Nodes) /\ TopicLen \in Nat
                               /\ readyCh'[w] = Offered(readyCh[w], TopicLen, order)
  BY <1>0, <1>2, ChannelAssumption DEF TypeOK
<1>8. \A w \in ReadyWatchers, m \in Nodes :
          In(m, readyCh'[w]) => In(m, readyCh[w]) \/ m \in S
  BY <1>5, <1>6, <1>7, OfferedMembers
<1>9. \A m \in S : ~Announced(m)
  BY <1>1 DEF QueueInv, UnraisedUnseen
<1>10. ASSUME NEW w \in ReadyWatchers PROVE Distinct(readyCh'[w])
  <2>1. \A x : In(x, order) => ~In(x, readyCh[w])
    BY <1>5, <1>9 DEF Announced
  <2>2. Distinct(readyCh[w])
    BY DEF QueueInv, AnnouncedOnce
  <2> QED
    BY <1>5, <1>6, <1>7, <2>1, <2>2, OfferedDistinct
<1>11. \A m \in Nodes : Announced(m)' => Announced(m) \/ m \in S
  BY <1>4, <1>8 DEF Announced, In
<1>12. unannounced \subseteq Nodes
  BY <1>0 DEF TypeOK
<1>13. AnnouncedOnce'
  <2>1. \A w \in ReadyWatchers : Distinct(readyCh[w])'
    BY <1>10 DEF Distinct
  <2>2. \A w \in ReadyWatchers : \A m \in unannounced : ~In(m, readyCh'[w])
    BY <1>8, <1>9, <1>12 DEF QueueInv, AnnouncedOnce, Announced
  <2>3. \A w \in ReadyWatchers : \A m \in unannounced' : ~In(m, readyCh[w])'
    BY <1>4, <2>2 DEF In
  <2> QED
    BY <2>1, <2>3 DEF AnnouncedOnce
<1>14. \A m \in Nodes : Unraised(m)' => Unraised(m) /\ m \notin S
  BY <1>4 DEF Unraised
<1>15. UnraisedUnseen'
  <2>1. \A m \in Nodes : In(m, reopenedCh)' <=> In(m, reopenedCh)
    BY <1>4 DEF In
  <2> QED
    BY <1>4, <1>11, <1>14, <2>1 DEF QueueInv, UnraisedUnseen
<1>16. HeldIsLeased'
  BY <1>4 DEF QueueInv, HeldIsLeased, Held
<1>17. DoneStays
  <2>1. \A m \in S : state[m] # "done"
    BY <1>1 DEF Unraised
  <2> QED
    BY <1>4, <2>1 DEF DoneStays
<1>18. AnnouncedFree'
  <2> SUFFICES ASSUME NEW m \in Nodes, Announced(m)', NEW q \in Preds(m)'
               PROVE  state'[q] = "done"
    BY DEF AnnouncedFree
  <2>1. CASE m \in S
    <3>1. state'[m] = "ready"
      BY <1>4, <2>1
    <3> QED
      BY <3>1 DEF IInv, DependenciesFirst
  <2>2. CASE m \notin S
    <3>1. Announced(m) /\ q \in Preds(m)
      BY <1>4, <1>11, <2>2 DEF Preds
    <3>2. q \in Nodes /\ state[q] = "done"
      BY <1>0, <3>1, PredsAreNodes DEF QueueInv, AnnouncedFree
    <3> QED
      BY <1>17, <3>2 DEF DoneStays
  <2> QED
    BY <2>1, <2>2
<1> QED
  BY <1>13, <1>15, <1>16, <1>17, <1>18 DEF QueueInv

\* Receiving takes an announcement out of a channel.
LEMMA ReceiveKeepsQueue ==
    ASSUME TypeOK, QueueInv, NEW w \in ReadyWatchers, ReceiveReady(w)
    PROVE  QueueInv'
<1>1. /\ readyCh[w] # <<>> /\ readyCh' = [readyCh EXCEPT ![w] = Tail(readyCh[w])]
      /\ UNCHANGED <<state, lease, dag, reopenedCh, unannounced>>
  BY DEF ReceiveReady, nodeVars, planVars
<1>2. readyCh[w] \in Seq(Nodes) /\ Distinct(readyCh[w])
  BY DEF TypeOK, QueueInv, AnnouncedOnce
<1>3. Distinct(Tail(readyCh[w])) /\ \A x : In(x, Tail(readyCh[w])) => In(x, readyCh[w])
  BY <1>1, <1>2, TailMembers
<1>4. \A u \in ReadyWatchers : readyCh'[u] = IF u = w THEN Tail(readyCh[w]) ELSE readyCh[u]
  BY <1>1 DEF TypeOK
<1>5. \A u \in ReadyWatchers : /\ Distinct(readyCh'[u])
                               /\ \A n \in Nodes : In(n, readyCh'[u]) => In(n, readyCh[u])
  BY <1>3, <1>4 DEF QueueInv, AnnouncedOnce
<1>6. \A u \in ReadyWatchers : /\ Distinct(readyCh[u])'
                               /\ \A n \in Nodes : In(n, readyCh[u])' => In(n, readyCh[u])
  BY <1>5 DEF Distinct, In
<1>7. \A n \in Nodes : /\ Unraised(n)' => Unraised(n)
                       /\ In(n, reopenedCh)' => In(n, reopenedCh)
                       /\ state'[n] \in Held => lease'[n] > 0
  BY <1>1 DEF Unraised, In, QueueInv, HeldIsLeased
<1> QED
  BY <1>1, <1>6, <1>7, OthersKeepQueue DEF DoneStays

\* One task goes from a state in which it has been raised to another.
LEMMA MovesKeepQueue ==
    ASSUME TypeOK, QueueInv, NEW n \in Nodes, NEW s \in States \ {"absent", "pending"},
           state[n] \in {"ready", "claimed", "running"}, state' = [state EXCEPT ![n] = s],
           \/ s \in {"claimed", "running"} /\ reopenedCh' = reopenedCh
           \/ s \notin Held /\ reopenedCh' = Offered(reopenedCh, TopicLen, <<n>>),
           \/ lease' = lease /\ (s \in Held => state[n] \in Held)
           \/ lease' = [lease EXCEPT ![n] = @ + 1],
           UNCHANGED <<dag, unannounced, readyCh>>
    PROVE  QueueInv' /\ DoneStays
<1>1. \A m \in Nodes : state'[m] = IF m = n THEN s ELSE state[m]
  BY DEF TypeOK
<1>2. DoneStays
  BY <1>1 DEF DoneStays
<1>3. \A m \in Nodes : Unraised(m)' => Unraised(m) /\ m # n
  BY <1>1 DEF Unraised
<1>4. \A m \in Nodes : m # n => lease'[m] = lease[m]
  BY DEF TypeOK
<1>5. \A m \in Nodes : state'[m] \in Held => lease'[m] > 0
  <2>1. lease[n] \in Nat /\ (state[n] \in Held => lease[n] > 0)
    BY DEF TypeOK, QueueInv, HeldIsLeased
  <2>2. s \in Held => lease'[n] > 0
    BY <2>1 DEF TypeOK
  <2> QED
    BY <1>1, <1>4, <2>2 DEF QueueInv, HeldIsLeased
<1>6. \A m \in Nodes : m # n /\ In(m, reopenedCh)' => In(m, reopenedCh)
  <2>1. CASE reopenedCh' = reopenedCh
    BY <2>1 DEF In
  <2>2. CASE reopenedCh' = Offered(reopenedCh, TopicLen, <<n>>)
    <3>1. <<n>> \in Seq(Nodes) /\ \A x : In(x, <<n>>) <=> x = n
      BY SingleDistinct
    <3>2. reopenedCh \in Seq(Nodes) /\ TopicLen \in Nat
      BY ChannelAssumption DEF TypeOK
    <3>3. \A m \in Nodes : In(m, reopenedCh') => In(m, reopenedCh) \/ m = n
      BY <2>2, <3>1, <3>2, OfferedMembers
    <3> QED
      BY <3>3 DEF In
  <2> QED
    BY <2>1, <2>2
<1>7. \A w \in ReadyWatchers : /\ Distinct(readyCh[w])'
                               /\ \A m \in Nodes : In(m, readyCh[w])' => In(m, readyCh[w])
  BY DEF Distinct, In, QueueInv, AnnouncedOnce
<1> QED
  BY <1>2, <1>3, <1>4, <1>5, <1>6, <1>7, OthersKeepQueue

\* Disposing of a plan announces nothing and revives nothing.
LEMMA DisposalKeepsQueue ==
    ASSUME IInv, QueueInv, NEW p \in Plans, DisposeNodes(p),
           UNCHANGED <<dag, lease, unannounced, readyCh, reopenedCh>>
    PROVE  QueueInv' /\ DoneStays
<1>1. \A m \in Nodes : state'[m] = IF m \in Disposed(p) THEN "disposed" ELSE state[m]
  BY DEF DisposeNodes
<1>2. \A m \in Disposed(p) : state[m] # "done"
  BY DEF Disposed
<1>3. DoneStays
  BY <1>1, <1>2 DEF DoneStays
<1>4. \A m \in Nodes : /\ Unraised(m)' => Unraised(m)
                       /\ In(m, reopenedCh)' => In(m, reopenedCh)
                       /\ state'[m] \in Held => lease'[m] > 0
  BY <1>1 DEF Unraised, In, QueueInv, HeldIsLeased, Held
<1>5. \A w \in ReadyWatchers : /\ Distinct(readyCh[w])'
                               /\ \A m \in Nodes : In(m, readyCh[w])' => In(m, readyCh[w])
  BY DEF Distinct, In, QueueInv, AnnouncedOnce
<1> QED
  BY <1>3, <1>4, <1>5, OthersKeepQueue DEF IInv

\* Steps that touch no task and no announcement keep the invariant.
LEMMA StillKeepsQueue ==
    ASSUME TypeOK, QueueInv, UNCHANGED <<state, dag, lease, unannounced, readyCh>>,
           \A n \in Nodes : In(n, reopenedCh)' => In(n, reopenedCh)
    PROVE  QueueInv' /\ DoneStays
<1>1. \A m \in Nodes : /\ Unraised(m)' => Unraised(m)
                       /\ state'[m] \in Held => lease'[m] > 0
  BY DEF Unraised, QueueInv, HeldIsLeased
<1>2. \A w \in ReadyWatchers : /\ Distinct(readyCh[w])'
                               /\ \A m \in Nodes : In(m, readyCh[w])' => In(m, readyCh[w])
  BY DEF Distinct, In, QueueInv, AnnouncedOnce
<1>3. DoneStays
  BY DEF DoneStays
<1> QED
  BY <1>1, <1>2, <1>3, OthersKeepQueue

\* Every step of the state manager keeps the invariant, and what is done.
LEMMA NextQueueInv ==
    ASSUME IInv, IInv', QueueInv, [Next]_tsmVars
    PROVE  QueueInv' /\ DoneStays
<1>0. TypeOK
  BY DEF IInv
<1>1. ASSUME NEW p \in Plans, NEW d \in Dags[p], Ingest(p, d) PROVE QueueInv' /\ DoneStays
  <2>1. \A n \in d.nodes : state[n] = "absent"
    BY <1>1, DagTypes DEF Ingest, IInv, PlansKnown, NoDag, Dag
  <2> QED
    BY <1>1, <2>1, IngestKeepsQueue DEF Ingest, DoneStays
<1>2. ASSUME NEW n \in Nodes, PublishRoot(n) PROVE QueueInv' /\ DoneStays
  BY <1>0, <1>2, PublishKeepsQueue DEF PublishRoot, nodeVars, DoneStays
<1>3. ASSUME NEW n \in Nodes, Complete(n) PROVE QueueInv' /\ DoneStays
  BY <1>3, CompleteKeepsQueue
<1>4. ASSUME NEW w \in ReadyWatchers, ReceiveReady(w) PROVE QueueInv' /\ DoneStays
  BY <1>0, <1>4, ReceiveKeepsQueue DEF ReceiveReady, nodeVars, DoneStays
<1>5. ASSUME NEW n \in Nodes, NEW peer \in Peers, Claim(n, peer) PROVE QueueInv' /\ DoneStays
  <2>1. "claimed" \in States \ {"absent", "pending"}
    BY DEF States
  <2> QED
    BY <1>0, <1>5, <2>1, MovesKeepQueue DEF Claim, CanClaim, planVars, chanVars
<1>6. ASSUME NEW n \in Nodes, Start(n) PROVE QueueInv' /\ DoneStays
  <2>1. "running" \in States \ {"absent", "pending"}
    BY DEF States
  <2> QED
    BY <1>0, <1>6, <2>1, MovesKeepQueue DEF Start, planVars, chanVars, Held
<1>7. ASSUME NEW n \in Nodes, state[n] \in Held, NEW s \in {"ready", "failed"},
             state' = [state EXCEPT ![n] = s],
             reopenedCh' = Offered(reopenedCh, TopicLen, <<n>>),
             UNCHANGED <<lease, dag, unannounced, readyCh>>
      PROVE  QueueInv' /\ DoneStays
  <2>1. s \in States \ {"absent", "pending"} /\ s \notin Held
    BY DEF States, Held
  <2> QED
    BY <1>0, <1>7, <2>1, MovesKeepQueue DEF Held
<1>8. ASSUME NEW n \in Nodes, ReportFailure(n) \/ Abandon(n) PROVE QueueInv' /\ DoneStays
  BY <1>7, <1>8 DEF ReportFailure, Failed, Abandon, Reopen, planVars, Held
<1>9. ASSUME NEW w \in watchdogs, FireWatchdog(w) PROVE QueueInv' /\ DoneStays
  <2>1. w.node \in Nodes
    BY <1>0 DEF TypeOK, Watchdog
  <2>2. CASE StillClaimed(w)
    BY <1>7, <1>9, <2>1, <2>2 DEF FireWatchdog, Reopen, StillClaimed, planVars, Held
  <2>3. CASE ~StillClaimed(w)
    BY <1>0, <1>9, <2>3, StillKeepsQueue DEF FireWatchdog, planVars, In
  <2> QED
    BY <2>2, <2>3
<1>10. ASSUME NEW p \in Plans, Dispose(p) PROVE QueueInv' /\ DoneStays
  BY <1>10, DisposalKeepsQueue DEF Dispose, planVars, chanVars
<1>11. ASSUME NEW p \in Plans, DeadlineFires(p) PROVE QueueInv' /\ DoneStays
  <2>1. CASE IsComplete(p)
    BY <1>0, <1>11, <2>1, StillKeepsQueue DEF DeadlineFires, planVars, chanVars, In
  <2>2. CASE ~IsComplete(p)
    BY <1>11, <2>2, DisposalKeepsQueue DEF DeadlineFires, planVars, chanVars
  <2> QED
    BY <2>1, <2>2
<1>12. CASE ReceiveReopened
  <2>1. reopenedCh # <<>> /\ reopenedCh' = Tail(reopenedCh) /\ reopenedCh \in Seq(Nodes)
    BY <1>0, <1>12 DEF ReceiveReopened, TypeOK
  <2>2. \A x : In(x, Tail(reopenedCh)) => In(x, reopenedCh)
    BY <2>1, TailMembers
  <2>3. \A n \in Nodes : In(n, reopenedCh)' => In(n, reopenedCh)
    BY <2>1, <2>2 DEF In
  <2> QED
    BY <1>0, <1>12, <2>3, StillKeepsQueue DEF ReceiveReopened, nodeVars, planVars
<1>13. CASE \/ \E w \in watchdogs : EndWatchdog(w)
            \/ \E p \in Plans : SendTimeout(p) \/ Hear(p)
            \/ Tick \/ UNCHANGED tsmVars
  <2>1. UNCHANGED <<state, dag, lease, unannounced, readyCh, reopenedCh>>
    BY <1>13 DEF EndWatchdog, SendTimeout, Hear, Tick, tsmVars, nodeVars, planVars, chanVars
  <2> QED
    BY <1>0, <2>1, StillKeepsQueue DEF In
<1> QED
  BY <1>1, <1>2, <1>3, <1>4, <1>5, <1>6, <1>8, <1>9, <1>10, <1>11, <1>12, <1>13 DEF Next

\* In every reachable state of the state manager a task is announced once, and after all
\* that it depends on is done.
LEMMA QueueHolds == Spec => []QueueInv
<1>1. IInv /\ IInv' /\ QueueInv /\ [Next]_tsmVars => QueueInv'
  BY NextQueueInv
<1> QED
  BY <1>1, InitQueueInv, InvariantHolds, PTL DEF Spec

\* No step takes a task or the graph of its plan away.
GraphStays ==
    \A n \in Nodes : state[n] # "absent" =>
        state'[n] # "absent" /\ PlanOf[n] \in Plans /\ dag'[PlanOf[n]] = dag[PlanOf[n]]

\* Only Ingest touches the graphs, and not those of plans that are there.
LEMMA NextGraphStays ==
    ASSUME IInv, IInv', [Next]_tsmVars
    PROVE  GraphStays
<1>1. dag' = dag \/ \E p \in Plans : p \notin plans /\ \E d : dag' = [dag EXCEPT ![p] = d]
  BY DEF Next, Ingest, PublishRoot, Claim, FireWatchdog, EndWatchdog, Start, Complete,
     ReportFailure, Failed, Abandon, Dispose, DeadlineFires, SendTimeout, Hear, ReceiveReady,
     ReceiveReopened, Tick, tsmVars, planVars
<1>2. SUFFICES ASSUME NEW n \in Nodes, state[n] # "absent"
               PROVE  state'[n] # "absent" /\ PlanOf[n] \in Plans
                      /\ dag'[PlanOf[n]] = dag[PlanOf[n]]
  BY DEF GraphStays
<1>3. PlanOf[n] \in Plans /\ n \in dag[PlanOf[n]].nodes
  BY <1>2, NodesAssumption DEF IInv, PlansKnown
<1>4. PlanOf[n] \in plans
  BY <1>3 DEF IInv, PlansKnown, NoDag
<1>5. dag'[PlanOf[n]] = dag[PlanOf[n]]
  BY <1>1, <1>3, <1>4 DEF IInv, TypeOK
<1> QED
  BY <1>3, <1>5 DEF IInv, PlansKnown

-----------------------------------------------------------------------------
(* Tasks that have become ready and had no lease yet, when no channel is   *)
(* shorter than the number of tasks.                                       *)

New(n) == state[n] = "ready" /\ lease[n] = 0
Waiting(n, w) == n \in unannounced \/ In(n, readyCh[w])

\* A channel that holds no task twice has room for tasks that are not in it.
LEMMA RoomForOthers ==
    ASSUME ChannelsFit, NEW ch \in Seq(Nodes), NEW s \in Seq(Nodes), Distinct(ch), Distinct(s),
           \A x : In(x, s) => ~In(x, ch)
    PROVE  \A x : In(x, ch) \/ In(x, s) => In(x, Offered(ch, TopicLen, s))
<1>1. Len(ch) + Len(s) <= Cardinality(Nodes)
  BY NodesAssumption, DistinctFit
<1>2. Len(ch) \in Nat /\ Len(s) \in Nat /\ Cardinality(Nodes) \in Nat /\ TopicLen \in Nat
  BY NodesAssumption, FS_CardinalityType, ChannelAssumption, LenProperties
<1>3. Len(ch) + Len(s) <= TopicLen
  BY <1>1, <1>2 DEF ChannelsFit
<1> QED
  BY <1>2, <1>3, OfferedMembers

\* What is raised stays so.
RaisedStays == \A n \in Nodes : Unraised(n)' => Unraised(n)

\* A new task was new before, or waits to be received; and it waits until it is received.
NewMoves(n, w) ==
    New(n)' => /\ New(n) \/ (Unraised(n) /\ Waiting(n, w)')
               /\ Waiting(n, w) => Waiting(n, w)' \/ (ReceiveReady(w) /\ n = Head(readyCh[w]))

\* A step that announces nothing.
LEMMA StillNew ==
    ASSUME UNCHANGED <<unannounced, readyCh>>, NEW n \in Nodes, NEW w \in ReadyWatchers,
           New(n)' => New(n)
    PROVE  NewMoves(n, w)
BY DEF NewMoves, Waiting, In

\* The roots of a new plan wait to be announced.
LEMMA IngestNew ==
    ASSUME IInv, NEW p \in Plans, NEW d \in Dags[p], Ingest(p, d),
           NEW n \in Nodes, NEW w \in ReadyWatchers
    PROVE  NewMoves(n, w) /\ (Unraised(n)' => Unraised(n))
<1>1. /\ unannounced' = unannounced \cup (d.roots \cap d.nodes) /\ UNCHANGED <<lease, readyCh>>
      /\ state'[n] = IF n \notin d.nodes THEN state[n]
                     ELSE IF n \in d.roots THEN "ready" ELSE "pending"
  BY DEF Ingest
<1>2. n \in d.nodes => Unraised(n)
  BY DagTypes DEF Ingest, IInv, PlansKnown, NoDag, Unraised
<1> QED
  BY <1>1, <1>2 DEF NewMoves, New, Waiting, Unraised, In

\* A root that is announced is in every channel.
LEMMA PublishNew ==
    ASSUME IInv, QueueInv, ChannelsFit, NEW m \in Nodes, PublishRoot(m),
           NEW n \in Nodes, NEW w \in ReadyWatchers
    PROVE  NewMoves(n, w) /\ (Unraised(n)' => Unraised(n))
<1> DEFINE one == <<m>>
<1>1. /\ m \in unannounced /\ unannounced' = unannounced \ {m} /\ UNCHANGED <<state, lease>>
      /\ readyCh'[w] = Offered(readyCh[w], TopicLen, one)
  BY DEF PublishRoot, nodeVars
<1>2. one \in Seq(Nodes) /\ Distinct(one) /\ \A x : In(x, one) <=> x = m
  BY SingleDistinct
<1>3. readyCh[w] \in Seq(Nodes) /\ Distinct(readyCh[w]) /\ ~In(m, readyCh[w])
  BY <1>1 DEF IInv, TypeOK, QueueInv, AnnouncedOnce
<1> HIDE DEF one
<1>4. \A x : In(x, readyCh[w]) \/ x = m => In(x, readyCh'[w])
  BY <1>1, <1>2, <1>3, RoomForOthers
<1>5. Waiting(n, w) => Waiting(n, w)'
  BY <1>1, <1>4 DEF Waiting, In
<1> QED
  BY <1>1, <1>5 DEF NewMoves, New, Unraised

\* What a completion makes ready is in every channel.
LEMMA CompleteNew ==
    ASSUME IInv, QueueInv, ChannelsFit, NEW m \in Nodes, Complete(m),
           NEW n \in Nodes, NEW w \in ReadyWatchers
    PROVE  NewMoves(n, w) /\ (Unraised(n)' => Unraised(n))
<1> DEFINE S == Freed(m)
<1>1. S \subseteq Nodes /\ \A x \in S : Unraised(x)
  BY FreedWereUnraised DEF Complete
<1>2. PICK order \in Orders(S) : readyCh'[w] = Offered(readyCh[w], TopicLen, order)
  BY DEF Complete
<1>3. IsFiniteSet(S) /\ S \in SUBSET Nodes
  BY <1>1, NodesAssumption, FS_Subset
<1>4. /\ UNCHANGED <<lease, unannounced>>
      /\ state'[n] = IF n \in S THEN "ready" ELSE IF n = m THEN "done" ELSE state[n]
  BY DEF Complete, AfterDone
<1> HIDE DEF S
<1>5. order \in Seq(Nodes) /\ Distinct(order) /\ \A x : In(x, order) <=> x \in S
  BY <1>3, OrdersDistinct, OrdersType
<1>6. \A x \in S : ~In(x, readyCh[w])
  BY <1>1 DEF QueueInv, UnraisedUnseen, Announced
<1>7. readyCh[w] \in Seq(Nodes) /\ Distinct(readyCh[w])
  BY DEF IInv, TypeOK, QueueInv, AnnouncedOnce
<1>8. \A x : In(x, readyCh[w]) \/ x \in S => In(x, readyCh'[w])
  BY <1>2, <1>5, <1>6, <1>7, RoomForOthers
<1>9. Waiting(n, w) \/ n \in S => Waiting(n, w)'
  BY <1>4, <1>8 DEF Waiting, In
<1>10. n \in S => Unraised(n)
  BY <1>1
<1> QED
  BY <1>4, <1>9, <1>10 DEF NewMoves, New, Unraised

\* Who receives takes the oldest task.
LEMMA ReceiveNew ==
    ASSUME IInv, NEW u \in ReadyWatchers, ReceiveReady(u),
           NEW n \in Nodes, NEW w \in ReadyWatchers
    PROVE  NewMoves(n, w) /\ (Unraised(n)' => Unraised(n))
<1>1. /\ readyCh[u] # <<>> /\ readyCh' = [readyCh EXCEPT ![u] = Tail(readyCh[u])]
      /\ UNCHANGED <<state, lease, unannounced>>
  BY DEF ReceiveReady, nodeVars
<1>2. readyCh'[w] = IF w = u THEN Tail(readyCh[u]) ELSE readyCh[w]
  BY <1>1 DEF IInv, TypeOK
<1>3. CASE w # u
  BY <1>1, <1>2, <1>3 DEF NewMoves, New, Waiting, Unraised, In
<1>4. CASE w = u
  <2>1. In(n, readyCh[u]) => n = Head(readyCh[u]) \/ In(n, Tail(readyCh[u]))
    <3>1. readyCh[u] \in Seq(Nodes)
      BY DEF IInv, TypeOK
    <3> QED
      BY <1>1, <3>1, TailMembers
  <2>2. In(n, readyCh[u]) => n = Head(readyCh[u]) \/ In(n, readyCh[w])'
    BY <1>2, <1>4, <2>1 DEF In
  <2>3. Waiting(n, w) => Waiting(n, w)' \/ n = Head(readyCh[w])
    BY <1>1, <1>4, <2>2 DEF Waiting
  <2> QED
    BY <1>1, <1>4, <2>3 DEF NewMoves, New, Unraised
<1> QED
  BY <1>3, <1>4

\* A task that somebody held is not new again.
LEMMA HeldNotNew ==
    ASSUME IInv, QueueInv, NEW m \in Nodes, state[m] \in Held, NEW s,
           state' = [state EXCEPT ![m] = s], s \notin {"absent", "pending"},
           UNCHANGED <<lease, unannounced, readyCh>>,
           NEW n \in Nodes, NEW w \in ReadyWatchers
    PROVE  NewMoves(n, w) /\ (Unraised(n)' => Unraised(n))
<1>1. state'[n] = IF n = m THEN s ELSE state[n]
  BY DEF IInv, TypeOK
<1>2. lease[m] > 0
  BY DEF QueueInv, HeldIsLeased
<1>3. New(n)' => New(n)
  BY <1>1, <1>2 DEF New, IInv, TypeOK
<1> QED
  BY <1>1, <1>3, StillNew DEF Unraised

\* Every step of the state manager.
LEMMA NextNew ==
    ASSUME IInv, QueueInv, ChannelsFit, [Next]_tsmVars, NEW n \in Nodes, NEW w \in ReadyWatchers
    PROVE  NewMoves(n, w) /\ (Unraised(n)' => Unraised(n))
<1>1. ASSUME NEW p \in Plans, NEW d \in Dags[p], Ingest(p, d)
      PROVE  NewMoves(n, w) /\ (Unraised(n)' => Unraised(n))
  BY <1>1, IngestNew
<1>2. ASSUME NEW m \in Nodes, PublishRoot(m) \/ Complete(m)
      PROVE  NewMoves(n, w) /\ (Unraised(n)' => Unraised(n))
  BY <1>2, PublishNew, CompleteNew
<1>3. ASSUME NEW u \in ReadyWatchers, ReceiveReady(u)
      PROVE  NewMoves(n, w) /\ (Unraised(n)' => Unraised(n))
  BY <1>3, ReceiveNew
<1>4. ASSUME NEW m \in Nodes, NEW peer \in Peers, Claim(m, peer)
      PROVE  NewMoves(n, w) /\ (Unraised(n)' => Unraised(n))
  <2>1. /\ state[m] = "ready" /\ state' = [state EXCEPT ![m] = "claimed"]
        /\ lease' = [lease EXCEPT ![m] = @ + 1] /\ UNCHANGED <<unannounced, readyCh>>
    BY <1>4 DEF Claim, CanClaim, chanVars
  <2>2. (New(n)' => New(n)) /\ (Unraised(n)' => Unraised(n))
    BY <2>1 DEF New, Unraised, IInv, TypeOK
  <2> QED
    BY <2>1, <2>2, StillNew
<1>5. ASSUME NEW m \in Nodes, Start(m) \/ ReportFailure(m) \/ Abandon(m)
      PROVE  NewMoves(n, w) /\ (Unraised(n)' => Unraised(n))
  <2>1. state[m] \in Held /\ UNCHANGED <<lease, unannounced, readyCh>>
    BY <1>5 DEF Start, ReportFailure, Failed, Abandon, Reopen, Held, chanVars
  <2>2. PICK s : s \notin {"absent", "pending"} /\ state' = [state EXCEPT ![m] = s]
    <3>1. \E s \in {"running", "failed", "ready"} : state' = [state EXCEPT ![m] = s]
      BY <1>5 DEF Start, ReportFailure, Failed, Abandon, Reopen
    <3> QED
      BY <3>1
  <2> QED
    BY <2>1, <2>2, HeldNotNew
<1>6. ASSUME NEW v \in watchdogs, FireWatchdog(v)
      PROVE  NewMoves(n, w) /\ (Unraised(n)' => Unraised(n))
  <2>1. v.node \in Nodes
    BY DEF IInv, TypeOK, Watchdog
  <2>2. CASE StillClaimed(v)
    <3>1. /\ state[v.node] \in Held /\ UNCHANGED <<lease, unannounced, readyCh>>
          /\ state' = [state EXCEPT ![v.node] = "ready"]
      BY <1>6, <2>2 DEF FireWatchdog, Reopen, StillClaimed, Held
    <3>2. PICK m \in Nodes : m = v.node
      BY <2>1
    <3>3. "ready" \notin {"absent", "pending"}
      OBVIOUS
    <3> QED
      BY <3>1, <3>2, <3>3, HeldNotNew
  <2>3. CASE ~StillClaimed(v)
    BY <1>6, <2>3, StillNew DEF FireWatchdog, New, Unraised
  <2> QED
    BY <2>2, <2>3
<1>7. ASSUME NEW p \in Plans, Dispose(p) \/ DeadlineFires(p)
      PROVE  NewMoves(n, w) /\ (Unraised(n)' => Unraised(n))
  <2>1. /\ UNCHANGED <<lease, unannounced, readyCh>>
        /\ state'[n] = state[n] \/ state'[n] = "disposed"
    BY <1>7 DEF Dispose, DeadlineFires, DisposeNodes, chanVars
  <2> QED
    BY <2>1, StillNew DEF New, Unraised
<1>8. CASE \/ \E v \in watchdogs : EndWatchdog(v)
           \/ \E p \in Plans : SendTimeout(p) \/ Hear(p)
           \/ ReceiveReopened \/ Tick \/ UNCHANGED tsmVars
  <2>1. UNCHANGED <<state, lease, unannounced, readyCh>>
    BY <1>8 DEF EndWatchdog, SendTimeout, Hear, ReceiveReopened, Tick, tsmVars, nodeVars, chanVars
  <2> QED
    BY <2>1, StillNew DEF New, Unraised
<1> QED
  BY <1>1, <1>2, <1>3, <1>4, <1>5, <1>6, <1>7, <1>8 DEF Next

=============================================================================
