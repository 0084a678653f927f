------------------------------ MODULE Workflow ------------------------------
(***************************************************************************)
(* How one node works a plan off: the planner, the task board, the task    *)
(* tracer, the executor and the reducer around the task state manager,     *)
(* connected by the event bus (internal/task_workflow_layer).              *)
(*                                                                         *)
(* Every step of a component ends where it gives up a lock or leaves a     *)
(* message in a channel; what it does to the state manager is the action   *)
(* of TaskStateManager.  There are no other nodes: ads and bids that come  *)
(* over the transport arrive as generic maps, which the board's handlers   *)
(* ignore.                                                                 *)
(***************************************************************************)
EXTENDS TaskStateManager

CONSTANTS
    Self,         \* the ID of this node, the peer that the board claims for
    Local,        \* the name the reducer claims under
    Board,        \* the board's subscription of TaskReady
    Reducer,      \* the reducer's
    ReduceTasks,  \* the tasks whose stage is reduce
    Fallback      \* Fallback[p]: the graph of plan p when there is no model

ASSUME WorkflowAssumption ==
    /\ {Self, Local} \subseteq Peers
    /\ {Board, Reducer} \subseteq ReadyWatchers /\ Board # Reducer
    /\ ReduceTasks \subseteq Nodes
    /\ \A p \in Plans : Fallback[p] \in Dags[p]

VARIABLES
    provided,     \* whether a provider was found when the node started
    local,        \* tracer.local: the output of each task in it
    assigned,     \* tracer.assigned
    myAds,        \* board.myAds
    peerAds,      \* board.peerAds
    bids,         \* board.bids: how many for each task
    hand,         \* what each goroutine of the board that handles ads is at
    beat,         \* the expired tasks that the heartbeat still has to offer
    assignedCh,   \* the executor's channel for TaskAssigned
    doneCh,       \* the board's channel for TaskDone
    settling,     \* the result whose output is stored and that is not completed
    executions,   \* the executor's goroutines
    assignments,  \* how often each task has been assigned
    reducing,     \* what the reducer is at
    answers,      \* what the model answered to each task
    combined,     \* the tasks whose outputs went into each reduce task
    refused       \* the reduce tasks for which the reducer had outputs and no model

tracerVars == <<local, assigned>>
boardVars == <<myAds, peerAds, bids, hand, beat>>
busVars == <<assignedCh, doneCh>>
executorVars == <<executions, assignments>>
reducerVars == <<reducing, combined, refused>>
flowVars == <<provided, tracerVars, boardVars, busVars, settling, executorVars,
              reducerVars, answers>>
allVars == <<tsmVars, flowVars>>

\* An output is a text, empty or not; "unset" is empty because nothing was stored.
Outputs == {"unset", "empty", "text"}
Hands == {"ready", "reopened", "heartbeat"}
Idle == [at |-> "idle"]
At(step, n) == [at |-> step, task |-> n]
Steps == {"putup", "drawup", "bid", "interview"}
HandStates == {Idle} \cup [at : Steps, task : Nodes]
Execution == [task : Nodes, no : Nat, at : {"assigned", "generating"}]
Result == [task : Nodes, answer : {"empty", "text"}]
Reduction == [task : Nodes, at : {"generating", "claiming", "starting", "completing"}]

WorkflowInit ==
    /\ Init
    /\ provided \in BOOLEAN
    /\ local = [n \in Nodes |-> "absent"] /\ assigned = [n \in Nodes |-> "absent"]
    /\ myAds = {} /\ peerAds = {}
    /\ bids = [n \in Nodes |-> 0]
    /\ hand = [h \in Hands |-> Idle] /\ beat = <<>>
    /\ assignedCh = <<>> /\ doneCh = <<>>
    /\ settling = {}
    /\ executions = {} /\ assignments = [n \in Nodes |-> 0]
    /\ reducing = {} /\ combined = [n \in Nodes |-> {}] /\ refused = {}
    /\ answers = [n \in Nodes |-> "unset"]

-----------------------------------------------------------------------------
(* Calls of the state manager whose error the caller ignores or only logs. *)

ClaimCall(n, peer) ==
    LockFree /\ IF state[n] = "ready" THEN Claim(n, peer) ELSE UNCHANGED tsmVars
StartCall(n) ==
    LockFree /\ IF state[n] = "claimed" THEN Start(n) ELSE UNCHANGED tsmVars
CompleteCall(n) ==
    LockFree /\ IF state[n] = "running" THEN Complete(n) ELSE UNCHANGED tsmVars

-----------------------------------------------------------------------------
(* The tracer.                                                             *)

Import(ns) ==
    local' = [n \in Nodes |-> IF n \in ns /\ local[n] = "absent" THEN "unset" ELSE local[n]]

SetOutputAssignedFirst(n, text) ==  \* mutant: the maps are searched the other way round
    IF assigned[n] # "absent"
    THEN assigned' = [assigned EXCEPT ![n] = text] /\ UNCHANGED local
    ELSE /\ local' = [local EXCEPT ![n] = IF @ = "absent" THEN @ ELSE text]
         /\ UNCHANGED assigned
SetOutput(n, text) ==
    IF local[n] # "absent"
    THEN local' = [local EXCEPT ![n] = text] /\ UNCHANGED assigned
    ELSE /\ assigned' = [assigned EXCEPT ![n] = IF @ = "absent" THEN @ ELSE text]
         /\ UNCHANGED local

\* Remove takes the task out of local first: the entry of a task that this node
\* both owns and executes stays in assigned.
Remove(n) ==
    IF local[n] # "absent"
    THEN local' = [local EXCEPT ![n] = "absent"] /\ UNCHANGED assigned
    ELSE assigned' = [assigned EXCEPT ![n] = "absent"] /\ UNCHANGED local

-----------------------------------------------------------------------------
(* The planner registers the tasks in the tracer and ingests the plan.     *)
(* Without a model it makes a plan of the prompt itself, which Dags has in *)
(* any case: the provider it happens to ask may have no model.             *)

PlanTask(p, d) ==
    /\ provided \/ d = Fallback[p]
    /\ Ingest(p, d)
    /\ Import(d.nodes)
    /\ UNCHANGED <<provided, assigned, boardVars, busVars, settling, executorVars,
                   reducerVars, answers>>

Announce(n) == PublishRoot(n) /\ UNCHANGED flowVars

-----------------------------------------------------------------------------
(* The board.  Three goroutines offer tasks: the watchers of TaskReady and *)
(* TaskRepublished, and the heartbeat.                                     *)

Take(h, n) == hand[h] = Idle /\ hand' = [hand EXCEPT ![h] = At("putup", n)]
IsAt(h, step) == hand[h].at = step

TakeReady ==
    /\ ReceiveReady(Board)
    /\ Take("ready", Head(readyCh[Board]))
    /\ UNCHANGED <<provided, tracerVars, myAds, peerAds, bids, beat, busVars, settling,
                   executorVars, reducerVars, answers>>

TakeReopened ==
    /\ ReceiveReopened
    /\ Take("reopened", Head(reopenedCh))
    /\ UNCHANGED <<provided, tracerVars, myAds, peerAds, bids, beat, busVars, settling,
                   executorVars, reducerVars, answers>>

Heartbeat ==
    /\ LockFree
    /\ hand["heartbeat"] = Idle /\ beat = <<>>
    /\ Expired # {}
    /\ beat' \in Orders(Expired)
    /\ UNCHANGED <<tsmVars, provided, tracerVars, myAds, peerAds, bids, hand, busVars,
                   settling, executorVars, reducerVars, answers>>

TakeExpired ==
    /\ beat # <<>>
    /\ Take("heartbeat", Head(beat))
    /\ beat' = Tail(beat)
    /\ UNCHANGED <<tsmVars, provided, tracerVars, myAds, peerAds, bids, busVars, settling,
                   executorVars, reducerVars, answers>>

\* A task is put up unless it is up already, not (or no longer) in the tracer, or
\* one for the reducer.
Putup(h) ==
    LET n == hand[h].task
        skip == n \in myAds \/ local[n] = "absent" \/ n \in ReduceTasks
    IN
    /\ IsAt(h, "putup")
    /\ myAds' = IF skip THEN myAds ELSE myAds \cup {n}
    /\ hand' = [hand EXCEPT ![h] = IF skip THEN Idle ELSE At("drawup", n)]
    /\ UNCHANGED <<tsmVars, provided, tracerVars, peerAds, bids, beat, busVars, settling,
                   executorVars, reducerVars, answers>>

DrawupAlways(h) ==  \* mutant: an ad that was drawn up before is drawn up again
    /\ IsAt(h, "drawup")
    /\ peerAds' = peerAds \cup {hand[h].task}
    /\ hand' = [hand EXCEPT ![h] = At("bid", hand[h].task)]
    /\ UNCHANGED <<tsmVars, provided, tracerVars, myAds, bids, beat, busVars, settling,
                   executorVars, reducerVars, answers>>

\* The board draws its own ad up like that of a peer: once, whatever comes later.
Drawup(h) ==
    LET n == hand[h].task IN
    /\ IsAt(h, "drawup")
    /\ peerAds' = peerAds \cup {n}
    /\ hand' = [hand EXCEPT ![h] = IF n \in peerAds THEN Idle ELSE At("bid", n)]
    /\ UNCHANGED <<tsmVars, provided, tracerVars, myAds, bids, beat, busVars, settling,
                   executorVars, reducerVars, answers>>

HandoutSecond(h) ==  \* mutant: one bid does not suffice for an interview
    LET n == hand[h].task IN
    /\ IsAt(h, "bid")
    /\ bids' = [bids EXCEPT ![n] = @ + 1]
    /\ hand' = [hand EXCEPT ![h] = IF bids[n] = 1 THEN At("interview", n) ELSE Idle]
    /\ UNCHANGED <<tsmVars, provided, tracerVars, myAds, peerAds, beat, busVars, settling,
                   executorVars, reducerVars, answers>>

\* The node bids on its own ad; its CV always qualifies, since the planner asks
\* for no model and no memory.  The first bid starts the interview.
Handout(h) ==
    LET n == hand[h].task IN
    /\ IsAt(h, "bid")
    /\ bids' = [bids EXCEPT ![n] = @ + 1]
    /\ hand' = [hand EXCEPT ![h] = IF bids[n] = 0 THEN At("interview", n) ELSE Idle]
    /\ UNCHANGED <<tsmVars, provided, tracerVars, myAds, peerAds, beat, busVars, settling,
                   executorVars, reducerVars, answers>>

\* The best bid wins: the task is claimed for this node and assigned to it,
\* whether or not the claim succeeds.
Interview(h) ==
    LET n == hand[h].task
        held == local[n] # "absent" /\ bids[n] > 0 /\ n \in myAds
    IN
    /\ IsAt(h, "interview")
    /\ IF held
       THEN /\ ClaimCall(n, Self)
            /\ assignedCh' = Offered(assignedCh, TopicLen, <<n>>)
            /\ bids' = [bids EXCEPT ![n] = 0]
            /\ myAds' = myAds \ {n}
       ELSE UNCHANGED <<tsmVars, assignedCh, bids, myAds>>
    /\ hand' = [hand EXCEPT ![h] = Idle]
    /\ UNCHANGED <<provided, tracerVars, peerAds, beat, doneCh, settling, executorVars,
                   reducerVars, answers>>

SettleAtOnce ==  \* mutant: a result is taken while another is being completed
    /\ doneCh # <<>>
    /\ LET r == Head(doneCh) IN SetOutput(r.task, r.answer) /\ settling' = settling \cup {r}
    /\ doneCh' = Tail(doneCh)
    /\ UNCHANGED <<tsmVars, provided, boardVars, assignedCh, executorVars, reducerVars,
                   answers>>

\* The watcher of TaskDone stores the output and then completes the task.
Settle ==
    /\ settling = {} /\ doneCh # <<>>
    /\ LET r == Head(doneCh) IN SetOutput(r.task, r.answer) /\ settling' = {r}
    /\ doneCh' = Tail(doneCh)
    /\ UNCHANGED <<tsmVars, provided, boardVars, assignedCh, executorVars, reducerVars,
                   answers>>

Settled(r) ==
    /\ r \in settling
    /\ CompleteCall(r.task)
    /\ settling' = settling \ {r}
    /\ UNCHANGED <<provided, tracerVars, boardVars, busVars, executorVars, reducerVars,
                   answers>>

-----------------------------------------------------------------------------
(* The executor: a goroutine for each assignment.                          *)

TakeAssigned ==
    /\ assignedCh # <<>>
    /\ LET n == Head(assignedCh) IN
       /\ assignments' = [assignments EXCEPT ![n] = @ + 1]
       /\ executions' = executions \cup
              {[task |-> n, no |-> assignments[n] + 1, at |-> "assigned"]}
    /\ assignedCh' = Tail(assignedCh)
    /\ UNCHANGED <<tsmVars, provided, tracerVars, boardVars, doneCh, settling, reducerVars,
                   answers>>

\* Without a provider the task is dropped.  Otherwise it is started, and
\* executed even if the state manager refuses to start it.
Begin(x) ==
    /\ x \in executions /\ x.at = "assigned"
    /\ IF provided
       THEN /\ StartCall(x.task)
            /\ assigned' = [assigned EXCEPT ![x.task] = IF @ = "absent" THEN "unset" ELSE @]
            /\ executions' = (executions \ {x}) \cup {[x EXCEPT !.at = "generating"]}
            /\ UNCHANGED local
       ELSE /\ local' = [local EXCEPT ![x.task] = "absent"]
            /\ assigned' = [assigned EXCEPT ![x.task] =
                   IF local[x.task] = "absent" THEN "absent"
                   ELSE IF @ = "absent" THEN "unset" ELSE @]
            /\ executions' = executions \ {x}
            /\ UNCHANGED tsmVars
    /\ UNCHANGED <<provided, boardVars, busVars, settling, assignments, reducerVars, answers>>

Generated(x, text) ==
    /\ x \in executions /\ x.at = "generating"
    /\ executions' = executions \ {x}
    /\ answers' = [answers EXCEPT ![x.task] = text]
    /\ doneCh' = Offered(doneCh, TopicLen, <<[task |-> x.task, answer |-> text]>>)
    /\ UNCHANGED <<tsmVars, provided, tracerVars, boardVars, assignedCh, settling,
                   assignments, reducerVars>>

GenerateFails(x) ==
    /\ x \in executions /\ x.at = "generating"
    /\ executions' = executions \ {x}
    /\ Remove(x.task)
    /\ UNCHANGED <<tsmVars, provided, boardVars, busVars, settling, assignments,
                   reducerVars, answers>>

-----------------------------------------------------------------------------
(* The reducer: claims, starts and completes the last task itself.         *)

\* The tasks of the plan that have an output that is not empty.
Combinable(p) ==
    {m \in dag[p].nodes \ ReduceTasks :
        IF local[m] = "absent" THEN assigned[m] = "text" ELSE local[m] = "text"}

\* GetPlanProv returns any entry of a map, another one at every call, and a provider may
\* have no models: then the reducer gives the task up, though the planner had a model.
TakeReduce ==
    /\ reducing = {}
    /\ ReceiveReady(Reducer)
    /\ LET n == Head(readyCh[Reducer])
           parts == Combinable(PlanOf[n])
       IN IF n \in ReduceTasks
          THEN /\ LockFree
               /\ combined' = [combined EXCEPT ![n] = parts]
               /\ IF parts = {}
                  THEN UNCHANGED <<reducing, refused>>
                  ELSE \/ /\ provided
                          /\ reducing' = {[task |-> n, at |-> "generating"]}
                          /\ UNCHANGED refused
                       \/ /\ refused' = refused \cup {n}
                          /\ UNCHANGED reducing
          ELSE UNCHANGED reducerVars
    /\ UNCHANGED <<provided, tracerVars, boardVars, busVars, settling, executorVars, answers>>

ReducedOrGivenUp(w, text) ==  \* mutant: without an answer of the model there is none
    /\ w \in reducing /\ w.at = "generating"
    /\ SetOutput(w.task, text)
    /\ answers' = [answers EXCEPT ![w.task] = text]
    /\ reducing' \in {{}, {[w EXCEPT !.at = "claiming"]}}
    /\ UNCHANGED <<tsmVars, provided, boardVars, busVars, settling, executorVars, combined,
                   refused>>

\* The model's answer, or the outputs one after the other if it gives none.
Reduced(w, text) ==
    /\ w \in reducing /\ w.at = "generating"
    /\ SetOutput(w.task, text)
    /\ answers' = [answers EXCEPT ![w.task] = text]
    /\ reducing' = {[w EXCEPT !.at = "claiming"]}
    /\ UNCHANGED <<tsmVars, provided, boardVars, busVars, settling, executorVars, combined,
                   refused>>

ReducerClaims(w) ==
    /\ w \in reducing /\ w.at = "claiming"
    /\ ClaimCall(w.task, Local)
    /\ reducing' = {[w EXCEPT !.at = "starting"]}
    /\ UNCHANGED <<provided, tracerVars, boardVars, busVars, settling, executorVars,
                   combined, refused, answers>>

ReducerStarts(w) ==
    /\ w \in reducing /\ w.at = "starting"
    /\ StartCall(w.task)
    /\ reducing' = {[w EXCEPT !.at = "completing"]}
    /\ UNCHANGED <<provided, tracerVars, boardVars, busVars, settling, executorVars,
                   combined, refused, answers>>

ReducerCompletes(w) ==
    /\ w \in reducing /\ w.at = "completing"
    /\ CompleteCall(w.task)
    /\ reducing' = {}
    /\ UNCHANGED <<provided, tracerVars, boardVars, busVars, settling, executorVars,
                   combined, refused, answers>>

-----------------------------------------------------------------------------
(* Timers, the reader of the result and the clock, as in TaskStateManager. *)

Beside ==
    /\ \/ \E w \in watchdogs : FireWatchdog(w)
       \/ \E p \in Plans : DeadlineFires(p)
       \/ \E p \in Plans : SendTimeout(p)
       \/ \E p \in Plans : Hear(p)
       \/ Tick
    /\ UNCHANGED flowVars

BoardStep(h) == Putup(h) \/ Drawup(h) \/ Handout(h) \/ Interview(h)
ExecutionStep(n) ==
    \E x \in executions :
        /\ x.task = n
        /\ Begin(x) \/ GenerateFails(x) \/ \E text \in {"empty", "text"} : Generated(x, text)
ReducerStep ==
    \E w \in reducing :
        \/ \E text \in {"empty", "text"} : Reduced(w, text)
        \/ ReducerClaims(w) \/ ReducerStarts(w) \/ ReducerCompletes(w)

WorkflowNext ==
    \/ \E p \in Plans : \E d \in Dags[p] : PlanTask(p, d)
    \/ \E n \in Nodes : Announce(n)
    \/ TakeReady \/ TakeReopened \/ Heartbeat \/ TakeExpired
    \/ \E h \in Hands : BoardStep(h)
    \/ Settle
    \/ \E r \in settling : Settled(r)
    \/ TakeAssigned
    \/ \E n \in Nodes : ExecutionStep(n)
    \/ TakeReduce
    \/ ReducerStep
    \/ Beside

WorkflowSpec == WorkflowInit /\ [][WorkflowNext]_allVars

\* The goroutines run: each of the board's, the executor's and the reducer's, and
\* the planner's while it publishes roots.  Time need not pass.
WorkflowFairness ==
    /\ \A n \in Nodes : WF_allVars(Announce(n)) /\ WF_allVars(ExecutionStep(n))
    /\ WF_allVars(TakeReady) /\ WF_allVars(TakeReopened)
    /\ \A h \in Hands : WF_allVars(BoardStep(h))
    /\ WF_allVars(Settle) /\ WF_allVars(\E r \in settling : Settled(r))
    /\ WF_allVars(TakeAssigned)
    /\ WF_allVars(TakeReduce) /\ WF_allVars(ReducerStep)
    /\ \A p \in Plans : WF_tsmVars(Hear(p))

FairWorkflow == WorkflowSpec /\ WorkflowFairness

-----------------------------------------------------------------------------
(* What the workflow promises.                                             *)

WorkflowTypeOK ==
    /\ provided \in BOOLEAN
    /\ local \in [Nodes -> Outputs \cup {"absent"}]
    /\ assigned \in [Nodes -> Outputs \cup {"absent"}]
    /\ myAds \subseteq Nodes /\ peerAds \subseteq Nodes
    /\ bids \in [Nodes -> Nat]
    /\ hand \in [Hands -> HandStates]
    /\ beat \in Seq(Nodes)
    /\ assignedCh \in Seq(Nodes) /\ doneCh \in Seq(Result)
    /\ settling \subseteq Result /\ \A r, s \in settling : r = s
    /\ executions \subseteq Execution
    /\ assignments \in [Nodes -> Nat]
    /\ reducing \subseteq Reduction /\ \A v, w \in reducing : v = w
    /\ combined \in [Nodes -> SUBSET Nodes] /\ refused \subseteq ReduceTasks
    /\ answers \in [Nodes -> Outputs]

\* No task is ever given to two goroutines of the executor, although a task can
\* be offered three ways: when it gets ready, when its lease ends and by the
\* heartbeat.
ExecutedOnce ==
    /\ \A n \in Nodes : assignments[n] <= 1
    /\ \A x, y \in executions : x.task = y.task => x = y

\* What the tracer has for a task that is done is what the model answered; one that
\* failed, or that the reducer gave up, was not answered and is never done.
DoneHasItsOutput ==
    \A n \in Nodes : state[n] = "done" => local[n] = answers[n] /\ answers[n] # "unset"

\* A plan of a list of sub-tasks without cycles has its reduction at the end.
ReductionsComeLast ==
    \A p \in Plans : \A d \in Dags[p] : \A r \in ReduceTasks \cap d.nodes :
        EverythingLeadsTo(d, r)

\* What is reduced are the answers to all the other tasks of the plan; only empty
\* ones are left out.
EveryAnswerIsReduced ==
    \A w \in reducing : \A n \in dag[PlanOf[w.task]].nodes \ ReduceTasks :
        /\ answers[n] # "unset"
        /\ n \in combined[w.task] <=> answers[n] = "text"

OnOffer(n) == \E h \in Hands : hand[h] # Idle /\ hand[h].task = n
Executing(n, step) == \E x \in executions : x.task = n /\ x.at = step
Reducing(n) == \E w \in reducing : w.task = n

\* Every task that has become ready and does not run yet, and every task that
\* runs, is in somebody's hands, unless its execution failed (which takes it out
\* of the tracer) or its lease ended before it ran; a reduce task that is held is
\* with the reducer, and one that is ready unless there is nothing to reduce or the
\* reducer had no model for it.  The channels are as long as there are tasks.
NothingIsForgotten ==
    /\ \A n \in Nodes \ ReduceTasks : local[n] # "absent" =>
           /\ state[n] = "ready" /\ lease[n] = 0 =>
                  n \in unannounced \/ In(n, readyCh[Board]) \/ OnOffer(n)
           /\ state[n] = "claimed" => In(n, assignedCh) \/ Executing(n, "assigned")
           /\ state[n] = "running" =>
                  \/ Executing(n, "generating")
                  \/ \E text \in {"empty", "text"} :
                         LET r == [task |-> n, answer |-> text] IN In(r, doneCh) \/ r \in settling
    /\ \A n \in ReduceTasks :
           /\ state[n] \in Held => Reducing(n)
           /\ state[n] = "ready" /\ lease[n] = 0 =>
                  \/ n \in unannounced \/ In(n, readyCh[Reducer]) \/ Reducing(n)
                  \/ Combinable(PlanOf[n]) = {} \/ n \in refused

\* Self-healing (README): a task that is ready again because its lease expired is
\* offered again and on its way to be claimed.
ExpiredIsReoffered ==
    \A n \in Nodes \ ReduceTasks : state[n] = "ready" /\ lease[n] > 0 /\ local[n] # "absent" =>
        In(n, reopenedCh) \/ OnOffer(n)

\* A plan that nothing disturbs succeeds: its deadline has not come, no lease ended
\* before its task ran, no execution failed, and the reducer had something to reduce
\* and a model to do it.
Disturbed(p) ==
    \/ deadlineAt[p] <= now
    \/ \E n \in dag[p].nodes :
           \/ local[n] = "absent"
           \/ state[n] = "ready" /\ lease[n] > 0
           \/ n \in ReduceTasks /\ state[n] = "ready" /\ Combinable(p) = {}
           \/ n \in refused
UndisturbedPlansSucceed ==
    \A p \in Plans :
        (p \in plans) ~>
            Disturbed(p) \/ (\E i \in DOMAIN heard[p] : heard[p][i].status = "ok")

=============================================================================
