-------------------------- MODULE TaskStateManager --------------------------
(***************************************************************************)
(* The task state manager of a Lucinda node: the one component that knows  *)
(* the state of every sub-task of every plan (internal/                    *)
(* task_management_layer/task_state_manager/manager.go).                   *)
(*                                                                         *)
(* Every method runs under one mutex, so a method is one action.  What     *)
(* happens outside the mutex is an action of its own: the publication of   *)
(* the roots by Ingest, the lease watchdog that every Claim starts, the    *)
(* deadline goroutine of every plan and its timeout message.               *)
(***************************************************************************)
EXTENDS Channels, TaskGraph

CONSTANTS
    Plans,          \* plan IDs
    Nodes,          \* task IDs, those of all plans
    PlanOf,         \* the plan whose ID prefixes a task ID
    Dags,           \* Dags[p]: the graphs that plan p may be ingested with
    Peers,          \* those who claim tasks
    NoPeer,         \* the empty string as a peer ID
    Cancellable,    \* peers whose Claim comes with a context that may end
    ReadyWatchers,  \* subscribers of TaskReady
    TopicLen,       \* the length of a subscriber's channel
    NotifyCap,      \* the length of a plan's Notify channel
    Lease,          \* leaseDuration
    PlanTTL,        \* from the ingestion of a plan to its Deadline
    MaxTime,        \* bound: the last instant
    MaxClaims       \* bound: how often one task may be claimed

\* A task plan as the planner builds it.  preds is PredecessorNums: a count,
\* and not necessarily the number of edges of succ that end in the node.
Dag == [nodes  : SUBSET Nodes,
        roots  : SUBSET Nodes,
        succ   : [Nodes -> SUBSET Nodes],
        preds  : [Nodes -> Int],
        notify : BOOLEAN]

NoDag == [nodes  |-> {}, roots |-> {}, succ |-> [n \in Nodes |-> {}],
          preds  |-> [n \in Nodes |-> 0], notify |-> FALSE]

ASSUME NodesAssumption == IsFiniteSet(Nodes) /\ PlanOf \in [Nodes -> Plans]
ASSUME DagsAssumption ==
    /\ Dags \in [Plans -> SUBSET Dag]
    /\ \A p \in Plans : \A d \in Dags[p] : Sound(d) /\ \A n \in d.nodes : PlanOf[n] = p
ASSUME PeersAssumption == NoPeer \notin Peers /\ Cancellable \subseteq Peers
ASSUME TimeAssumption ==
    Lease \in Nat /\ PlanTTL \in Nat /\ MaxTime \in Nat /\ MaxClaims \in Nat
ASSUME ChannelAssumption == TopicLen \in Nat /\ NotifyCap \in Nat \ {0}

\* The channels of the bus have room for a message about every task.
ChannelsFit == Cardinality(Nodes) <= TopicLen

VARIABLES
    plans,        \* the keys of m.plans
    dag,          \* m.plans: the graph of each plan
    predNum,      \* plan.PredecessorNums, counting down
    state,        \* node.State; "absent" when m.nodes has no such node
    claimedBy,    \* node.ClaimedBy
    expiresAt,    \* node.ExpiresAt
    claimed,      \* m.claimed
    lease,        \* how often the node has been claimed
    watchdogs,    \* the lease watchdogs still running
    watch,        \* the deadline goroutine of each plan
    deadlineAt,   \* plan.Deadline
    unannounced,  \* roots that Ingest has made ready and not yet published
    readyCh,      \* the channel of each subscriber of TaskReady
    reopenedCh,   \* the channel of the subscriber of TaskRepublished
    notify,       \* plan.Notify: buffered results, then those of blocked senders
    heard,        \* the results that the plan's requester has received
    now           \* the clock

nodeVars == <<state, claimedBy, expiresAt, claimed, lease>>
planVars == <<plans, dag, predNum, deadlineAt>>
chanVars == <<unannounced, readyCh, reopenedCh>>
resultVars == <<notify, heard>>
tsmVars == <<nodeVars, planVars, chanVars, resultVars, watchdogs, watch, now>>

States ==
    {"absent", "pending", "ready", "claimed", "running", "done", "failed", "disposed"}
Live == {"pending", "ready", "claimed", "running"}
Held == {"claimed", "running"}

Results == [status : {"ok"}, by : Nodes] \cup [status : {"timeout"}]
Ok(n) == [status |-> "ok", by |-> n]
Timeout == [status |-> "timeout"]

Watchdog == [node : Nodes, lease : 1 .. MaxClaims, fireAt : Nat, by : Peers]

Init ==
    /\ plans = {}
    /\ dag = [p \in Plans |-> NoDag]
    /\ predNum = [n \in Nodes |-> 0]
    /\ state = [n \in Nodes |-> "absent"]
    /\ claimedBy = [n \in Nodes |-> NoPeer]
    /\ expiresAt = [n \in Nodes |-> 0]
    /\ claimed = [n \in Nodes |-> NoPeer]
    /\ lease = [n \in Nodes |-> 0]
    /\ watchdogs = {}
    /\ watch = [p \in Plans |-> "off"]
    /\ deadlineAt = [p \in Plans |-> 0]
    /\ unannounced = {}
    /\ readyCh = [w \in ReadyWatchers |-> <<>>]
    /\ reopenedCh = <<>>
    /\ notify = [p \in Plans |-> <<>>]
    /\ heard = [p \in Plans |-> <<>>]
    /\ now = 0

-----------------------------------------------------------------------------
(* The mutex.  Complete sends the result while it holds the mutex: if the  *)
(* Notify channel has no room for it, nobody else gets the mutex until a   *)
(* result is received.  The deadline goroutine sends after it unlocks.     *)

LockFree ==
    \A p \in Plans : \A i \in DOMAIN notify[p] : notify[p][i].status = "ok" => i <= NotifyCap

AllDoneUnlessLive(p, st) == \A n \in dag[p].nodes : st[n] \notin Live  \* mutant
AllDone(p, st) == \A n \in dag[p].nodes : st[n] = "done"
IsComplete(p) == AllDone(p, state)

\* Expired lists the claimed tasks whose lease has run out, to the second.
Expired == {n \in Nodes : state[n] = "claimed" /\ expiresAt[n] > 0 /\ expiresAt[n] < now}

\* Back to ready, and back to the board: what the watchdog and Abandon do.
Reopen(n) ==
    /\ state' = [state EXCEPT ![n] = "ready"]
    /\ claimedBy' = [claimedBy EXCEPT ![n] = NoPeer]
    /\ expiresAt' = [expiresAt EXCEPT ![n] = 0]
    /\ claimed' = [claimed EXCEPT ![n] = NoPeer]
    /\ reopenedCh' = Offered(reopenedCh, TopicLen, <<n>>)

\* Every node of the plan that has not ended is disposed.
DisposedUnlessRunning(p) ==  \* mutant
    {n \in dag[p].nodes : state[n] \notin {"done", "disposed", "failed", "running"}}
Disposed(p) == {n \in dag[p].nodes : state[n] \notin {"done", "disposed", "failed"}}
DisposeNodes(p) ==
    LET gone == Disposed(p) IN
    /\ state' = [n \in Nodes |-> IF n \in gone THEN "disposed" ELSE state[n]]
    /\ claimedBy' = [n \in Nodes |-> IF n \in gone THEN NoPeer ELSE claimedBy[n]]
    /\ expiresAt' = [n \in Nodes |-> IF n \in gone THEN 0 ELSE expiresAt[n]]
    /\ claimed' = [n \in Nodes |-> IF n \in gone THEN NoPeer ELSE claimed[n]]

-----------------------------------------------------------------------------
(* Ingest registers the plan and makes its roots ready under the mutex,    *)
(* arms the deadline, and publishes the roots one by one after unlocking.  *)

Ingest(p, d) ==
    /\ LockFree
    /\ p \notin plans
    /\ now + PlanTTL <= MaxTime
    /\ plans' = plans \cup {p}
    /\ dag' = [dag EXCEPT ![p] = d]
    /\ predNum' = [n \in Nodes |-> IF n \in d.nodes THEN d.preds[n] ELSE predNum[n]]
    /\ state' = [n \in Nodes |-> IF n \notin d.nodes THEN state[n]
                                 ELSE IF n \in d.roots THEN "ready" ELSE "pending"]
    /\ unannounced' = unannounced \cup (d.roots \cap d.nodes)
    /\ deadlineAt' = [deadlineAt EXCEPT ![p] = now + PlanTTL]
    /\ watch' = [watch EXCEPT ![p] = IF d.notify THEN "armed" ELSE "off"]
    /\ UNCHANGED <<claimedBy, expiresAt, claimed, lease, watchdogs, readyCh, reopenedCh,
                   resultVars, now>>

PublishRoot(n) ==
    /\ n \in unannounced
    /\ unannounced' = unannounced \ {n}
    /\ readyCh' = [w \in ReadyWatchers |-> Offered(readyCh[w], TopicLen, <<n>>)]
    /\ UNCHANGED <<nodeVars, planVars, reopenedCh, resultVars, watchdogs, watch, now>>

-----------------------------------------------------------------------------
(* Claim gives a ready task to a peer and starts the watchdog of the lease. *)

CanClaimFailed(n) == LockFree /\ state[n] \in {"ready", "failed"}  \* mutant
CanClaim(n) == LockFree /\ state[n] = "ready"

LateWatchdog(n, peer) ==  \* mutant: the timer is longer than the lease
    [node |-> n, lease |-> lease[n] + 1, fireAt |-> now + Lease + 1, by |-> peer]
StaleWatchdog(n, peer) ==  \* mutant: the number of the lease before
    [node |-> n, lease |-> lease[n], fireAt |-> now + Lease, by |-> peer]
NewWatchdog(n, peer) ==
    [node |-> n, lease |-> lease[n] + 1, fireAt |-> now + Lease, by |-> peer]

Claim(n, peer) ==
    /\ CanClaim(n)
    /\ lease[n] < MaxClaims /\ now + Lease <= MaxTime
    /\ state' = [state EXCEPT ![n] = "claimed"]
    /\ claimedBy' = [claimedBy EXCEPT ![n] = peer]
    /\ expiresAt' = [expiresAt EXCEPT ![n] = now + Lease]
    /\ claimed' = [claimed EXCEPT ![n] = peer]
    /\ lease' = [lease EXCEPT ![n] = @ + 1]
    /\ watchdogs' = watchdogs \cup {NewWatchdog(n, peer)}
    /\ UNCHANGED <<planVars, chanVars, resultVars, watch, now>>

StillClaimedAndOver(w) == w.node \in Expired  \* mutant: Expired is strict
StillClaimed(w) == state[w.node] = "claimed"

\* The timer of a watchdog fires.  It looks at the node's state only: it does
\* not know whether the node is still under the lease it was started for.
FireWatchdog(w) ==
    /\ LockFree
    /\ w \in watchdogs /\ w.fireAt <= now
    /\ watchdogs' = watchdogs \ {w}
    /\ IF StillClaimed(w)
       THEN Reopen(w.node)
       ELSE UNCHANGED <<state, claimedBy, expiresAt, claimed, reopenedCh>>
    /\ UNCHANGED <<lease, planVars, unannounced, readyCh, resultVars, watch, now>>

\* The context of a Claim ends, and its watchdog with it.
EndWatchdog(w) ==
    /\ w \in watchdogs /\ w.by \in Cancellable
    /\ watchdogs' = watchdogs \ {w}
    /\ UNCHANGED <<nodeVars, planVars, chanVars, resultVars, watch, now>>

-----------------------------------------------------------------------------
(* Start, Complete, Failed, Abandon, Dispose.  A call that returns an error *)
(* (or nil for a task that is already there) changes nothing: no step.      *)

Start(n) ==
    /\ LockFree
    /\ state[n] = "claimed"
    /\ state' = [state EXCEPT ![n] = "running"]
    /\ UNCHANGED <<claimedBy, expiresAt, claimed, lease, planVars, chanVars, resultVars,
                   watchdogs, watch, now>>

CanCompleteAgain(n) == LockFree /\ state[n] \in {"running", "done"}  \* mutant
CanComplete(n) == LockFree /\ state[n] = "running"

\* The counts after n is done, and the successors that this makes ready.
CountedDown(n) ==
    LET d == dag[PlanOf[n]] IN
    [m \in Nodes |-> IF m \in d.succ[n] \cap d.nodes THEN predNum[m] - 1 ELSE predNum[m]]
FreedEarly(n) ==  \* mutant: one predecessor short
    LET d == dag[PlanOf[n]] IN {m \in d.succ[n] \cap d.nodes : CountedDown(n)[m] <= 1}
Freed(n) ==
    LET d == dag[PlanOf[n]] IN {m \in d.succ[n] \cap d.nodes : CountedDown(n)[m] <= 0}
AfterDone(n) ==
    [m \in Nodes |-> IF m \in Freed(n) THEN "ready" ELSE IF m = n THEN "done" ELSE state[m]]

Complete(n) ==
    LET p == PlanOf[n] IN
    /\ CanComplete(n)
    /\ state' = AfterDone(n)
    /\ claimed' = [claimed EXCEPT ![n] = NoPeer]
    /\ predNum' = CountedDown(n)
    /\ \E order \in Orders(Freed(n)) :
           readyCh' = [w \in ReadyWatchers |-> Offered(readyCh[w], TopicLen, order)]
    /\ notify' = IF AllDone(p, AfterDone(n)) /\ dag[p].notify
                 THEN [notify EXCEPT ![p] = Append(@, Ok(n))] ELSE notify
    /\ UNCHANGED <<claimedBy, expiresAt, lease, plans, dag, deadlineAt, unannounced,
                   reopenedCh, heard, watchdogs, watch, now>>

Failed(n) ==
    /\ LockFree
    /\ state[n] # "absent"
    /\ state' = [state EXCEPT ![n] = "failed"]
    /\ claimedBy' = [claimedBy EXCEPT ![n] = NoPeer]
    /\ expiresAt' = [expiresAt EXCEPT ![n] = 0]
    /\ claimed' = [claimed EXCEPT ![n] = NoPeer]
    /\ reopenedCh' = Offered(reopenedCh, TopicLen, <<n>>)
    /\ UNCHANGED <<lease, planVars, unannounced, readyCh, resultVars, watchdogs, watch, now>>

Abandon(n) ==
    /\ LockFree
    /\ state[n] = "claimed"
    /\ Reopen(n)
    /\ UNCHANGED <<lease, planVars, unannounced, readyCh, resultVars, watchdogs, watch, now>>

Dispose(p) ==
    /\ LockFree
    /\ p \in plans
    /\ DisposeNodes(p)
    /\ UNCHANGED <<lease, planVars, chanVars, resultVars, watchdogs, watch, now>>

-----------------------------------------------------------------------------
(* The deadline goroutine disposes what is not done under the mutex, and   *)
(* sends the timeout after it unlocks.                                     *)

DeadlineFires(p) ==
    /\ LockFree
    /\ watch[p] = "armed" /\ deadlineAt[p] <= now
    /\ IF IsComplete(p)
       THEN /\ watch' = [watch EXCEPT ![p] = "exited"]
            /\ UNCHANGED <<state, claimedBy, expiresAt, claimed>>
       ELSE /\ watch' = [watch EXCEPT ![p] = "sending"]
            /\ DisposeNodes(p)
    /\ UNCHANGED <<lease, planVars, chanVars, resultVars, watchdogs, now>>

SendTimeout(p) ==
    /\ watch[p] = "sending"
    /\ watch' = [watch EXCEPT ![p] = "exited"]
    /\ notify' = [notify EXCEPT ![p] = Append(@, Timeout)]
    /\ UNCHANGED <<nodeVars, planVars, chanVars, heard, watchdogs, now>>

-----------------------------------------------------------------------------
(* The others: who waits for the result, who subscribed to the events, and *)
(* the clock.                                                              *)

Hear(p) ==
    /\ notify[p] # <<>>
    /\ heard' = [heard EXCEPT ![p] = Append(@, Head(notify[p]))]
    /\ notify' = [notify EXCEPT ![p] = Tail(@)]
    /\ UNCHANGED <<nodeVars, planVars, chanVars, watchdogs, watch, now>>

ReceiveReady(w) ==
    /\ readyCh[w] # <<>>
    /\ readyCh' = [readyCh EXCEPT ![w] = Tail(@)]
    /\ UNCHANGED <<nodeVars, planVars, unannounced, reopenedCh, resultVars, watchdogs,
                   watch, now>>

ReceiveReopened ==
    /\ reopenedCh # <<>>
    /\ reopenedCh' = Tail(reopenedCh)
    /\ UNCHANGED <<nodeVars, planVars, unannounced, readyCh, resultVars, watchdogs,
                   watch, now>>

Tick ==
    /\ now < MaxTime
    /\ now' = now + 1
    /\ UNCHANGED <<nodeVars, planVars, chanVars, resultVars, watchdogs, watch>>

\* Who calls Failed reports on a task that it holds.
ReportFailure(n) == state[n] \in Held /\ Failed(n)

Next ==
    \/ \E p \in Plans : \E d \in Dags[p] : Ingest(p, d)
    \/ \E n \in Nodes : PublishRoot(n)
    \/ \E n \in Nodes, peer \in Peers : Claim(n, peer)
    \/ \E w \in watchdogs : FireWatchdog(w)
    \/ \E w \in watchdogs : EndWatchdog(w)
    \/ \E n \in Nodes : Start(n)
    \/ \E n \in Nodes : Complete(n)
    \/ \E n \in Nodes : ReportFailure(n)
    \/ \E n \in Nodes : Abandon(n)
    \/ \E p \in Plans : Dispose(p)
    \/ \E p \in Plans : DeadlineFires(p)
    \/ \E p \in Plans : SendTimeout(p)
    \/ \E p \in Plans : Hear(p)
    \/ \E w \in ReadyWatchers : ReceiveReady(w)
    \/ ReceiveReopened
    \/ Tick

Spec == Init /\ [][Next]_tsmVars

\* Time passes, a goroutine whose timer has run out gets to run, a send that
\* has room is made and the requester reads its channel.  Nobody has to claim,
\* start or complete anything.
Fairness ==
    /\ WF_tsmVars(Tick)
    /\ \A p \in Plans : WF_tsmVars(DeadlineFires(p))
    /\ \A p \in Plans : WF_tsmVars(SendTimeout(p))
    /\ \A p \in Plans : WF_tsmVars(Hear(p))
    /\ \A n \in Nodes, i \in 1 .. MaxClaims, t \in 0 .. MaxTime, peer \in Peers :
           WF_tsmVars(FireWatchdog([node |-> n, lease |-> i, fireAt |-> t, by |-> peer]))

FairSpec == Spec /\ Fairness

-----------------------------------------------------------------------------
(* What the state manager promises.                                        *)

TypeOK ==
    /\ plans \subseteq Plans
    /\ dag \in [Plans -> Dag]
    /\ predNum \in [Nodes -> Int]
    /\ state \in [Nodes -> States]
    /\ claimedBy \in [Nodes -> Peers \cup {NoPeer}]
    /\ expiresAt \in [Nodes -> Nat]
    /\ claimed \in [Nodes -> Peers \cup {NoPeer}]
    /\ lease \in [Nodes -> 0 .. MaxClaims]
    /\ watchdogs \subseteq Watchdog
    /\ watch \in [Plans -> {"off", "armed", "sending", "exited"}]
    /\ deadlineAt \in [Plans -> Nat]
    /\ unannounced \subseteq Nodes
    /\ readyCh \in [ReadyWatchers -> Seq(Nodes)]
    /\ reopenedCh \in Seq(Nodes)
    /\ notify \in [Plans -> Seq(Results)]
    /\ heard \in [Plans -> Seq(Results)]
    /\ now \in Nat

Preds(n) == PredsIn(dag[PlanOf[n]], n)
DonePreds(n) == {m \in Preds(n) : state[m] = "done"}

\* A task is offered, held, run or ended only after every task it depends on
\* is done, however often it or they were claimed, abandoned or reopened.
DependenciesFirst ==
    \A n \in Nodes : state[n] \in {"ready", "claimed", "running", "done", "failed"} =>
        \A m \in Preds(n) : state[m] = "done"

\* PredecessorNums counts each completion of a predecessor exactly once.
CountsMatch ==
    \A p \in plans : \A n \in dag[p].nodes :
        predNum[n] = dag[p].preds[n] - Cardinality(DonePreds(n))

\* The lease table m.claimed, the ClaimedBy of the nodes and their states, three
\* places that six methods and a timer update, agree on who holds what.
LeaseTableAgrees ==
    \A n \in Nodes :
        /\ claimed[n] # NoPeer <=> state[n] \in Held
        /\ claimed[n] # NoPeer => claimedBy[n] = claimed[n]

\* A claimed task is never forgotten: the watchdog of the very lease it is
\* under is running and fires at its end, unless its context may be cancelled.
ClaimIsWatched ==
    \A n \in Nodes : state[n] = "claimed" /\ claimed[n] \notin Cancellable =>
        \E w \in watchdogs :
            /\ w.node = n /\ w.lease = lease[n]
            /\ w.fireAt = expiresAt[n] /\ w.by = claimed[n]

\* Who holds a task is the same in all three places, and whoever only claims it is watched,
\* however many leases the task has had and whatever watchdogs of them are left.
LeasesHold == LeaseTableAgrees /\ ClaimIsWatched

\* A plan is disposed as a whole: no task of it is still to run, to be claimed
\* or running once one of them is disposed; nor does one come back to life.
DisposedAsAWhole ==
    \A p \in plans : \A m, n \in dag[p].nodes : state[m] = "disposed" => state[n] \notin Live

\* All results that were ever sent for a plan, received or not.
Sent(p) == heard[p] \o notify[p]

\* "Terminal notification - sent exactly once per plan" (TaskPlan.Notify), the
\* half that says at most once: Complete and the deadline race for it.
AtMostOneResult == \A p \in Plans : Len(Sent(p)) <= 1

\* The other half, as far as it is a matter of state: a plan that ended (all is
\* done, or its deadline goroutine is through with it) has its result, or the
\* deadline goroutine is about to send it.
NoPlanEndsInSilence ==
    \A p \in plans :
        /\ dag[p].notify /\ dag[p].nodes # {}
        /\ IsComplete(p) \/ watch[p] = "exited"
        => Sent(p) # <<>>

\* What the result says is so, and stays so.  Ok: every task is done, and the
\* text is that of a task on which none depends.  Timeout: some task is not
\* done, none is live any more, and the deadline has passed.
ResultIsTruthful ==
    \A p \in Plans : \A i \in DOMAIN Sent(p) :
        LET r == Sent(p)[i] IN
        /\ p \in plans
        /\ IF r.status = "ok"
           THEN /\ IsComplete(p)
                /\ r.by \in dag[p].nodes
                /\ dag[p].succ[r.by] \cap dag[p].nodes = {}
           ELSE /\ ~IsComplete(p)
                /\ \A n \in dag[p].nodes : state[n] \notin Live
                /\ deadlineAt[p] <= now

\* Complete's send on Notify, made under the mutex, never blocks the manager.
NeverWedged == LockFree

\* The inductive invariant behind these: besides the properties above, that the
\* registered plans are those of Dags and the known tasks are theirs, and how far
\* the deadline goroutine of a plan has got when its result is sent.
PlansKnown ==
    /\ \A p \in Plans : IF p \in plans THEN dag[p] \in Dags[p] ELSE dag[p] = NoDag
    /\ \A n \in Nodes : state[n] = "absent" <=> n \notin dag[PlanOf[n]].nodes

\* The plan has missed its deadline: part of it will never run.
Missed(p) ==
    /\ ~IsComplete(p)
    /\ \A n \in dag[p].nodes : state[n] \notin Live
    /\ deadlineAt[p] <= now

\* The plan is done, and its last task has sent the result.
Succeeded(p) ==
    /\ IsComplete(p)
    /\ IF dag[p].nodes = {} THEN Sent(p) = <<>>
       ELSE \E n \in dag[p].nodes :
                Sent(p) = <<Ok(n)>> /\ dag[p].succ[n] \cap dag[p].nodes = {}

ResultFollows(p) ==
    /\ watch[p] = "off" <=> ~dag[p].notify
    /\ watch[p] = "off" => Sent(p) = <<>>
    /\ watch[p] = "armed" => Succeeded(p) \/ (~IsComplete(p) /\ Sent(p) = <<>>)
    /\ watch[p] = "sending" => Missed(p) /\ Sent(p) = <<>>
    /\ watch[p] = "exited" => Succeeded(p) \/ (Missed(p) /\ Sent(p) = <<Timeout>>)

IInv ==
    /\ TypeOK
    /\ PlansKnown
    /\ DependenciesFirst
    /\ CountsMatch
    /\ LeaseTableAgrees
    /\ DisposedAsAWhole
    /\ \A p \in Plans : ResultFollows(p)

\* The plan-level view of all this: PlanExecution, with a plan over as soon as a
\* task of it is disposed or its deadline goroutine has been at work.
Abstract == INSTANCE PlanExecution WITH
    known <- plans,
    done  <- {n \in Nodes : state[n] = "done"},
    over  <- {p \in plans : watch[p] \in {"sending", "exited"}
                            \/ \E n \in dag[p].nodes : state[n] = "disposed"},
    told  <- [p \in Plans |-> Sent(p)]

\* Tasks finish once each and in the order of the graph, none after its plan is
\* over, and the requester is told one true result.
ImplementsPlanExecution == Abstract!Spec

\* Every plan with a Notify channel is answered, whatever its graph and even if
\* nobody ever claims a task of it.
EveryPlanIsAnswered ==
    \A p \in Plans : (p \in plans /\ dag[p].notify) ~> (heard[p] # <<>>)

\* No peer keeps a task that it does not start.
EveryLeaseEnds ==
    \A n \in Nodes, i \in 1 .. MaxClaims :
        (state[n] = "claimed" /\ lease[n] = i /\ claimed[n] \notin Cancellable)
            ~> ~(state[n] = "claimed" /\ lease[n] = i)

=============================================================================
