# A TLA+ verification of Lucinda

Lucinda decomposes a user's request into a graph of sub-tasks, offers the
sub-tasks on a task board, lets peers bid for them, executes the winners' ones
on local language models and reduces the outputs to one answer. This directory
holds TLA+ modules translated from its Go source, TLC configurations that check
them on small instances and TLAPS proofs about them for all instances.

File names below are relative to the repository.

## 1. Inventory

| Component | Source | State | Operations |
|---|---|---|---|
| TaskStateManager | `internal/task_management_layer/task_state_manager` | plans, nodes with their states, the lease table, one deadline goroutine per plan, one watchdog per claim | Ingest, Claim, Start, Complete, Failed, Abandon, Dispose, Expired, queries |
| TaskTracer | `internal/task_management_layer/task_tracer` | local and assigned tasks with their outputs | Import, Assigned, SetOutput, Remove, getters |
| TaskPostman | `internal/task_management_layer/task_postman` | one goroutine per watch, cancels | Watch, Publish, Deliver, Stop |
| TaskBoard | `internal/task_workflow_layer/task_board` | my ads, peers' ads, bids | Putup, Drawup, Ripup, Handout, Interview, heartbeat, five watches |
| TaskExecutor | `internal/task_workflow_layer/task_executor` | one goroutine per assignment | execute |
| TaskReducer | `internal/task_workflow_layer/task_reducer` | none of its own | reduce |
| TaskPlanner | `internal/task_workflow_layer/task_planner` | none of its own | plan, parse, fallbackPlan |
| TaskWrapper, UserServer | `internal/task_wrapper`, `internal/user_server` | the table of streams, the HTTP server | Wrap, handleChat, handleStream, Start, Shutdown |
| EventBus | `pkg/infrastructure_layer/eventbus` | subscribers' channels by topic | Subscribe, UnSubscribe, Publish, Release |
| Transport | `pkg/infrastructure_layer/transport` | protocols, incoming channels, outgoing channels and their workers, peers | Start, Open, Close, Stop, Send, Publish, Dial |
| HardwareMonitor | `pkg/infrastructure_layer/hardware_monitor` | the cached snapshot | Start, Stop, Snapshot, collect |
| ModuleManager | `pkg/infrastructure_layer/module_manager` | modules, capability grants | Register, Unregister, Grant, Require, getters |
| ProviderController, drivers | `pkg/infrastructure_layer/provider` | the list of providers | LoadProviders, Register, GetPlanProv, GPU |
| CapabilityCV | `api/v1/domain/capability` | none | Match |

How they interact. `handleChat` wraps a prompt into a task and publishes
TaskPreplanned. The planner builds a plan, imports its tasks into the tracer and
calls Ingest. The state manager publishes TaskReady; the board puts an ad up,
draws it up again as if it came from a peer, bids for it and interviews the
bidders, which calls Claim and publishes TaskAssigned. The executor calls Start
and publishes TaskDone, on which the board stores the output and calls Complete.
Complete counts down the successors, publishes those that became ready and, for
the last task, sends the plan's result on the Notify channel that
`handleStream` is waiting on. The reduce task, always last, is claimed, started
and completed by the reducer. Every publication goes through the event bus,
whose channels drop what does not fit.

What is hard. The state manager is called from the goroutines of the planner,
the board, any number of executors and the reducer; in the same maps work the
watchdogs of all claims and the deadline goroutines of all plans, none of which
is told when it has become irrelevant. Publications and one of the two sends on
Notify happen outside the mutex, the other inside it. Leases expire while
assignments are still in a channel. Events get lost, tasks never start, and
plans can be such that they never finish.

What makes each component correct:

* TaskStateManager: dependencies are respected in every interleaving; one true
  result per plan; a disposed plan stays disposed; a lease ends only at its end
  or by its holder, and does end; the mutex is always released.
* Board, tracer, executor, reducer: a task is executed at most once at a time;
  a ready task is on its way to somebody who takes it; a task that is done has
  its output in the tracer; the reducer combines every output.
* Planner: the graph of a well-formed decomposition is `Sound` (below), its only
  sink is the reduce task and every task can become ready.
* EventBus, Transport: no operation on a closed channel; order per channel.
* UserServer: whoever was told a tracking ID finds its stream; one reader gets the
  result, and then the entry is gone; a graceful Shutdown is one.
* Drivers: a stream that ends says whether it is whole; no goroutine waits for ever.
* ProviderController, Match, the board's bids: a bid rests on what a provider of the
  node reported for it, and a provider that hangs does not hold up the board.
* ModuleManager, HardwareMonitor: registry consistency, a snapshot of the last measurement.

## 2. Modules

| Module | What it is |
|---|---|
| `Channels` | A buffered Go channel as the event bus uses it: `Offered` appends what fits and drops the rest; `In` is what waits in it. |
| `TaskGraph` | The graph of a plan, what makes it `Sound`, and when everything in it leads to a task. |
| `TaskStateManager` | The state manager. One action per method or goroutine step. |
| `PlanExecution` | What the requester of a plan may rely on; no peers, leases, timers or channels. |
| `TaskStateManagerProofs` | Type correctness, the inductive invariant and the safety properties, proved. |
| `PlanExecutionProofs` | That `TaskStateManager` implements `PlanExecution`, proved. |
| `MCTaskStateManager` | The instances for TLC: seven shapes of graphs. |
| `Workflow` | Planner, board, tracer, executor and reducer around the state manager: it extends `TaskStateManager` and composes its actions. |
| `WorkflowProofs` | That the workflow is a user of the state manager as specified and implements `PlanExecution`, that no task is executed twice or forgotten, and that every answer is reduced, proved. |
| `MCWorkflow` | The instances for TLC: two tasks and their reduction. |
| `PlanParse` | How the planner makes a graph of a model's decomposition. One action per iteration of its loops. |
| `PlanParseProofs` | That counts and successor lists agree, that the graphs are `Sound`, and that the reduction comes last, proved. |
| `MCPlanParse` | The instance for TLC: every decomposition of up to three sub-tasks. |
| `Transport` | The channels of one node's libp2p transport and the goroutines around them. |
| `TransportProofs` | That the tables hold open channels only and that accepted messages are served, proved. |
| `MCTransport` | The instances for TLC: a node, one other and itself. |
| `EventBus` | The event bus: lists of subscribers' channels, and publications that overlap. |
| `Postman` | Watches, deliveries and Stop: it extends `EventBus` and composes its actions. |
| `PostmanProofs` | That events are kept, in order and in open channels, and that the postman is a user of the bus, proved. |
| `MCPostman` | The instance for TLC: a watch, a delivery, and somebody who uses the bus directly. |
| `UserServer` | The HTTP server, its handlers, Wrap and the planner's channel. It extends `PlanExecution`: of the state manager it uses what that specification promises. |
| `UserServerProofs` | Who finds a stream, who gets the result and what Shutdown leaves, and that server and planner are users of `PlanExecution`, proved. |
| `MCUserServer` | The instance for TLC: two prompts and two streams. |
| `Providers` | The streams of the drivers, and the bid of the board with its GPU query and `Match`. |
| `ProvidersProofs` | That streams are whole and bids are backed, proved. |
| `MCProviders` | The instance for TLC: one provider of each driver, one stream and one bid. |

### TaskStateManager and its code

`state`, `claimedBy` and `expiresAt` are the fields of a `TaskNode`; `claimed` is
`manager.claimed`; `dag` holds the graph of a `TaskPlan` as the planner made it
and `predNum` its `PredecessorNums` as they are counted down. `watch` is the
program counter of the goroutine that `startDeadlineWatch` starts and
`watchdogs` the set of the goroutines that `Claim` starts. `notify` is the
Notify channel: the first `NotifyCap` elements are in its buffer, the rest are
senders that are blocked. Since `Complete` sends under the mutex, a blocked
`Complete` means that nobody gets the mutex: that is `LockFree`, a conjunct of
every action that locks. `heard` is what `handleStream` has received.

Each method is one action because it runs under the mutex from its first to its
last access. Three things do not and are actions of their own: the publication
of the roots after Ingest has unlocked (`PublishRoot`), the timeout that the
deadline goroutine sends after it has unlocked (`SendTimeout`) and the watchdogs
(`FireWatchdog`, `EndWatchdog`). A call that only returns an error changes
nothing and is no step. `Complete` publishes the successors it made ready in
some order, since the order only depends on how the planner listed them.

Abstractions: task specifications and outputs are left out; an ok result carries
the task whose output it is. A successor occurs once per task, as a set; the
planner's lists may repeat one, and then the count is that much larger, which
comes to the same. A task belongs to one plan (`PlanOf`), because task IDs
are prefixed with the ID of their plan, a time in nanoseconds. A watchdog's timer
starts with the lease, not a moment later. `Failed` is enabled for held tasks
only (`ReportFailure`): nothing in the repository calls it, and its comment
in `TaskNode` says that execution failed. Abandon, Dispose and Failed are part
of the interface, so they may be called at any time.

`Sound` is the assumption on the graphs: a root has no predecessor, and a task
waits for at least as many completions as it has predecessors. It does not exclude
cycles, unknown dependencies, unreachable tasks or an empty plan. The planner
violates it only if the model's decomposition lists one ID twice, once with and
once without dependencies, or names a task `reduce`.

### Workflow and its code

| Variables | Code |
|---|---|
| `local`, `assigned` | the tracer's maps; the value is the task's output: `unset` and `empty` are both the empty text, one never written and one written |
| `myAds`, `peerAds`, `bids` | the board's maps; a bid is counted, its contents never decide anything on one node |
| `hand` | what the three goroutines that offer tasks are at: the watches of TaskReady and TaskRepublished and the heartbeat |
| `beat` | what is left of the list that `Expired` returned to the heartbeat |
| `readyCh`, `reopenedCh`, `assignedCh`, `doneCh` | the subscriptions of TaskReady (one each for board and reducer), TaskRepublished, TaskAssigned and TaskDone |
| `settling` | between SetOutput and Complete in the watch of TaskDone |
| `executions`, `reducing` | the goroutines of the executor and the progress of the reducer |
| `assignments`, `answers`, `combined`, `refused` | history: how often a task was assigned, what the model answered to it, what a reduction was made of, which reduce tasks the reducer gave up for want of a model |

One call of Putup goes through Putup, Drawup, Handout and Interview on one
goroutine, with the board's mutex taken anew in each: these are the actions
`Putup`, `Drawup`, `Handout` and `Interview`, and `hand[h].at` says which comes
next. `Interview` holds the mutex over Claim and the publication, so these are one
action. `Settle` and `Settled` are the two calls of the watch of TaskDone. An
execution is begun (`Begin`), and answered (`Generated`) or not
(`GenerateFails`); the reducer collects (`TakeReduce`), gets an answer or
concatenates (`Reduced`), claims, starts and completes. Where the code ignores
or only logs the error of a call, the action takes the refused call as no change
(`ClaimCall`, `StartCall`, `CompleteCall`).

Abstractions:

* There is one node. Messages of other nodes arrive through
  `Postman.Deliver` with the body that JSON decoding yields, a generic map, and the
  watches of TaskAdReceived and TaskCVReceived return for anything that is not
  the Go type they expect. `handleStream` sees local plans only.
* The node's own bid qualifies: the planner asks for no model and no memory. So
  the branch of Interview that assigns without a qualified bid is not reached.
* `Ripup` is not modelled; nothing calls it.
* The planner's imports and its Ingest are one step: nobody knows the plan's tasks
  before it is ingested.
* Whether there is a provider is decided at the start (`provided`), since the table is filled
  before anything else runs. Which one a call gets is not: `controller.List` ranges over a map,
  so `GetPlanProv` returns any provider at any call, and one may have no models. The planner
  then makes the plan of the prompt (`Fallback`, one of `Dags`), the executor asks without
  a model, and the reducer returns an error (`reducer.go:125`). So `TakeReduce` may give the
  task up whenever there are outputs, and `refused` remembers it.
* The reducer reads the outputs in one step. It is the only reader, and each output
  that it needs is stored before its TaskReady is published
  (`EveryAnswerIsReduced` would fail otherwise).
* The executor's entry in `assigned` is made in the step that calls Start.
* The components are not stopped.

### PlanParse and its code

`input` is `parsed.Nodes`, a list of names with lists of the names they depend
on; `i` and `j` are the places of the two nested loops; `nodes` (its keys),
`roots`, `successors` and `predNums` are the variables of `parse`. `Declare` is an
iteration of the first loop, `Link` one of the inner loop of the second and
`Linked` its end; `AppendReduce` is the rest of the function. `FallBack` is
`fallbackPlan`, reached when the model does not answer and when its answer cannot
be read.

Abstractions: an answer is what `json.Unmarshal` yields of it, or nothing; a
map entry that was never written is an empty list or zero, which is how it
reads; the order in which Go walks `nodes` only decides the order of `leaves`,
which are counted and each given one successor. Prompts, tools and labels are
left out.

`WellFormed` is what the properties ask of a model's answer: distinct names,
none of them `reduce`. With a name twice, once with and once without
dependencies, a root depends on something; a sub-task called `reduce` is
overwritten and its count lost. The prompt does not forbid either. Everything else is allowed: dependencies that are
unknown, repeated (counted twice, and entered twice), cyclic, or on the
reduction. `ReductionIsLast` compares the graph with a definition that knows
only the decomposition: if every sub-task can be worked off at all, the graph
does so, round by round, and the reduction comes after the last. If not, the plan
cannot finish: an empty decomposition has no root, and with a cycle beside a part
that can be executed the reduction waits for the leaves only, runs without the
cycle, and the plan ends with its deadline.

### Transport and its code

| Variables | Code |
|---|---|
| `started`, `host` | `IsStarted` and `Host`; `hosts` says what has become of each host that Start made |
| `watchers`, `cancelled` | the goroutines that Start leaves behind to stop the transport, and the contexts that are cancelled |
| `ins`, `outs` | the two tables, as the code names them |
| `inlet`, `arrived`, `inClosed` | the channels that Open makes: what for, how full, whether closed |
| `handled`, `handler` | the stream handlers that are registered with the host, and the goroutine of a stream |
| `outlet`, `queued`, `outClosed` | the channels that Send and Open make: for whom and under which context, how full, whether closed; `into` is the inlet of the node's own channel |
| `worker` | `sendWorker` or, where `into` is an inlet, `selfSendWorker` |
| `call` | a call of Send or Publish between its two halves: the lock is released when the channel is found |
| `cleaning` | the goroutines that `DisconnectedF` has started |
| `crashed` | a goroutine has sent on a closed channel, which ends a Go program; nothing happens afterwards |

Each method under the lock is one action; what it does without the lock is another
(`Put` after `GetOrCreateOutChannel`, `CloseHost` after `Stop`). Channels are named,
so that goroutines can hold on to one which the table no longer has. The
worker's deferred `removeOutChannel` is a step of its own (`RemoveOutChannel`), because it takes
the lock anew.

Abstractions: messages are counted and not told apart; a channel keeps their
order by itself. A message that a worker has taken is written to a stream or lost.
An inlet has one stream at a time. Nobody sends before the first Start, where
`Host` is nil. A restarted host has a new identity in the code and keeps it in the
model, which only adds behaviours: after a restart, what was sent to the old ID
goes to the node itself. Dial and discovery are left out: they open connections,
which may come and go at any time in the model.

### EventBus, Postman and their code

| Variables | Code |
|---|---|
| `subscribers` | the map of the bus |
| `topicOf`, `buffer`, `closed` | the channels: for which topic Subscribe made them, what is in them, whether closed |
| `publishing`, `published` | who is in the loop of Publish and before which subscriber, and how many events each has published |
| `crashed` | a goroutine has sent on a closed channel or closed one, which ends a Go program |
| `released`, `owed` | history: Release was called; what was published for a channel and neither skipped nor received |
| `watch`, `chan`, `delivery` | where the goroutines of Watch and Deliver are, and the channel of each watch |
| `cancels`, `cancelled` | `postman.cancels`, and the contexts that have ended |
| `stop` | where Stop is |

`Subscribe`, `UnSubscribe` and `Release` hold the write lock from end to end, so each is
an action, enabled when nobody is in Publish (`Unlocked`). Publish holds the read
lock, and so publications overlap: `BeginPublish`, an `Offer` per subscriber,
`EndPublish`. `UnSubscribe` shifts the list in place while it ranges over it. The
channel occurs once (`EachListedOnce`, proved), so what is left is the list without it; the
last turn of the loop sees the last element a second time, which is another channel or
none. Of a channel that is not in the list, or a topic without subscribers, nothing happens.

In `Postman` a watch registers its cancel (`Watch`), subscribes (`WatchSubscribes`) and
starts its goroutine, which waits for an event (`Handle`), publishes while its
handler runs (`HandlerPublishes`), returns (`HandlerReturns`) and ends
(`WatchEnds`). `select` takes any case that is ready, so a cancelled watch with events
left may handle some of them first. `wg.Wait` counts goroutines that were started
(`Running`), not calls of Watch that have still to start one.

Abstractions: an event is who published it as his how-manieth; Go's lock lets a
waiting writer go before new readers, which the model leaves open; a handler may
publish at any time and any number of times up to `MaxEvents`; a delivery's context, or the
transport, may end it at any time. Watches come before Stop: in
`cmd/pc/main.go` the components are started before the signal and stopped after it.
`Cancel` is the context of `main`, which all of them are given. `Channels` is this bus as
the other modules use it: one reader per channel and no publication in between.

### UserServer and its code

| Variables | Code |
|---|---|
| `server`, `shutdown` | where the goroutine of `Start` and `main`'s call of `Shutdown` are; `missed` is a Shutdown that found no server, `quiet` one that returned nil after it, `late` one that ran out of its ten seconds |
| `signalled` | the context of `main` has ended |
| `chat` | the handler of each POST to `/chat`: Wrap has published, the entry is in the table, the client has its tracking ID |
| `streams` | the keys of `HTTPServer.streams` |
| `stream`, `gone` | the handler of each request to `/stream`, and the clients that have disconnected |
| `taken` | how many results were received from the channel of a plan; what was sent to it is `told` of `PlanExecution` |
| `prompts`, `planning` | the planner's subscription of TaskPreplanned, and the task that `plan` is at |

`Chat` is Wrap, which publishes before `handleChat` has locked the table (`List`) and
answered (`AnswerChat`). So a plan may be told its result before its channel is in the table,
and the channel keeps it. `OpenStream` is the lookup of `handleStream`, `Receive` and
`NoticeGone` are the cases of its select, either of which may be taken when both are ready;
`EndStream` writes what there is and deletes the entry. `Listen` is `ListenAndServe`,
which returns at once if a Shutdown that found the server came first. One that came before
`Start` had made the server (`missed`) returned nil and did nothing (`server.go:164`), and
the server listens and serves.

Abstractions: tracking IDs, times in nanoseconds, are distinct. A request for an
unknown plan or without a prompt changes nothing. `http.Server` does what its documentation
says: Shutdown stops new requests and waits for the handlers. The end of the process is
not modelled, so a server that Shutdown has missed serves for good. A planner whose context has ended may or may not take another
prompt. Which plans are made of a prompt is `PlanParse`'s subject, how they execute that of
`TaskStateManager`, which implements `PlanExecution`.

### Providers and its code

| Variables | Code |
|---|---|
| `callee`, `call`, `made` | the calls of `Stream`: for which provider, where the request or the goroutine is, how many chunks it has read |
| `ch`, `got`, `reader` | the channel (64 chunks), what its reader has, and whether it goes on reading |
| `cancelled`, `cut` | the contexts that are cancelled; history: the bodies that ended before a last chunk |
| `bid`, `cv`, `wanted` | `submitBid` for each ad: where it is, what `buildCV` has collected, the ad's spec |
| `query`, `reply` | the goroutine that `buildCV` starts for `controller.GPU`, and the channel of one between them |

`ReadChunk` is an iteration of the scan loop that finds a chunk; the chunk is sent
(`Send`) or given up when the context ends (`NoticeCancel`). The last chunk of vLLM
(`[DONE]`) is sent outside the select, so there `NoticeCancel` does not apply to it. A body
that ends, whether the server ended it, the client's timeout or the context did, closes the
channel (`EndOfBody`). `Choose`, `Answer`, `NoAnswer` and `NoneLeft` are the loop of
`controller.GPU` over a map, hence in any order; `Report` puts the snapshot into the channel;
`TakeReply` and `BidTimeout` are the select of `buildCV`, each with the rest of `submitBid`
up to Handout, whose bid `Workflow` goes on with.

Abstractions: a chunk is its number and whether it is the last; lines that are none are
skipped. Specs and snapshots are what the check of `Match` looks at; `cv.Tools` and
`cv.Labels` are never filled, so the checks of these pass. vLLM reports a percentage where
Ollama reports bytes (`vllm_provider.go:209`, "percentage, approximate"), and both are
subtracted from a total in bytes: `Used` says for each provider what it may report. The free
memory comes from the hardware monitor's snapshot and is any of `FreeGB`. `Stream` has no
caller but `vllm_provider_test.go`; its reader is modelled as any that may read, stop or
cancel.

## 3. Runs

Deadlock is not checked: the system is meant to come to rest when its plans have
ended, and the bounded clock stops. The transport may rest for good too: it is
stopped and there is no channel left to make, or it has crashed; and so may the postman.

| Run | Instance | Shows |
|---|---|---|
| `tsm_shapes` | 1 plan of up to 4 tasks with any of 7 graphs, one peer, lease 1, deadline 2, 2 claims per task | the safety properties and the refinement |
| `tsm_live` | 1 plan of 2 tasks in 3 variants, a peer whose claims can be cancelled and one whose cannot, a channel of length 1 | the liveness properties |
| `workflow` | 1 plan: two tasks side by side or in line and their reduction, or one task; with and without a model; lease 1, deadline 2, 2 claims per task | safety of the pipeline |
| `workflow_live` | the same, deadline 1, 1 claim per task | that an undisturbed plan succeeds |
| `workflow_expired` | as `workflow` | that a task whose lease expired is not offered again: a counterexample |
| `plan_parse` | every decomposition of up to 3 sub-tasks, each depending on up to 2 of 3 names and `reduce`, with repetition | the planner's graphs: counts, soundness, order of execution |
| `transport` | the node, one other and an ID that cannot be decoded; 2 inlets and 2 outlets of length 1, one caller, one host, a context that may be cancelled | types, that tables hold open channels, that accepted messages are served, that the node's own channel leads to its open inlet |
| `transport_live` | the node and one other, 1 inlet, 2 outlets | that workers of closed outlets end |
| `transport_close_receives` | one inlet | that a handler puts into a closed inlet: a counterexample |
| `postman` | one topic, two channels of length 2, a watch, a delivery and one other that publishes twice | types, order, that each subscriber gets each event, that only Release leads to a crash, that Stop returns |
| `user_server` | 2 prompts, a planner's channel for 1, 2 streams | that streams are found until one has ended, that one reader gets the true result, what Shutdown leaves, that streams end |
| `providers` | 1 stream of either driver, up to 3 chunks, a channel of length 2; 1 bid, 2 providers, 6 specs | that streams are whole or known to be cut, that bids are backed, that goroutines end |

The bounds: `MaxTime` is the last instant, and an action that starts a timer is
guarded so that the timer ends by then; `MaxClaims` bounds how often one task is
claimed. Two claims of a task are enough for a watchdog to meet a lease that is
not its own, which is the only interaction between leases; a deadline later
than the first lease and as late as the second gives both orders of watchdogs and
deadline. Diamond and join have a task that waits for two; fork has two that become
ready in one step; dangling and cyclic graphs never finish, and the plan without
Notify has no deadline goroutine. Plans do not interact but through the mutex,
so one plan is enough but for `NeverWedged`, which is implied, for any number of
plans, by what is proved. In `tsm_shapes` the event channels have no room, since
nothing in the state manager reads them; `tsm_live` gives them room for one.

In the workflow runs, two tasks and a reduction are the least with which tasks
run in parallel, wait for each other and are combined. Leases end at any point,
before and after the executor has started a task, and so does the deadline. The
channels have room for every task, as those of the code (100 events) have for the
plans it makes; what happens when they have not is the subject of `tsm_shapes`
and of the proofs, which assume nothing about `TopicLen` but for
`NothingIsForgotten` (`ChannelsFit`). `NothingIsForgotten`
and `UndisturbedPlansSucceed` name what their promise depends on: a task that
failed, whose lease ended before it ran, or that the reducer gave up, waits for the deadline.

Three sub-tasks with two dependencies each contain every chain, fork, join and
cycle of three, repeated and unknown dependencies, and a sub-task that waits for
two; the names that a model makes up are interchangeable, hence the symmetry.

Two outlets are the least with which the worker of a first removes a second from the
table while a message is on its way into it; two inlets are a protocol
that is opened twice. The second Start is left to the proofs, which have any number of hosts. `MaxCleaning` bounds the
disconnections of a node whose clean-up has not run: one is enough for each order of
clean-up, Stop and removal. Channels of length one are both empty and full.

One topic is the least with which a handler publishes to the topic it watches, and two
channels that with which a list is shifted and one subscriber is full while the other is not. Two events of
one publisher have an order; a third publisher makes three publications overlap. Channels of
length two hold two events of one publisher; the code's hold 100. More of
everything is left to the proofs.

Two prompts and a planner's channel for one are the least with which a prompt is dropped,
two streams those with which a result has two readers and an entry is deleted under one of
them. Three chunks in a channel of two fill it and block the goroutine. One of the two
providers has models and one has none; each may report nothing in use, which
`controller.GPU` passes over, or enough or too much for the spec that wants memory. Streams and bids
share no variable, and calls and ads none among themselves, so one of each is enough.

Fairness (`Fairness` of the state manager): time passes; a goroutine whose timer has run out runs; the
send of the deadline goroutine is made; the reader of Notify reads. This is the
Go scheduler's and the server's part. Nobody has to claim, start, complete or
abandon anything, so the liveness properties hold with peers that do nothing.

In the workflow (`WorkflowFairness`) the goroutines of the board, the executor
and the reducer run, the planner publishes the roots and the server reads. Weak
fairness is enough, since each step stays enabled until it is taken: a task that
waits in a channel does so until its one reader takes it. Time need not pass, so
it is not the deadline that makes `UndisturbedPlansSucceed` hold. A model that is
asked answers or fails.

In the transport only the workers are assumed to run (`Fairness` of `Transport`),
and a write to a stream to return, with an error if the connection is gone. Nobody
has to send, to receive or to disconnect.

In the postman the goroutines run and handlers return (`Fairness` of `Postman`); a
delivery ends when its context has. Nobody has to publish or to call Stop, and no
message has to come in. Publishers stop at `MaxEvents`; in the code a cancelled watch under an
unending stream of events would end by the random choice of `select`.

In the server (`ServerFairness`) the handlers run, the planner takes prompts until
its context ends, and the state manager closes or gives up every plan, which is what
`EveryPlanIsAnswered` shows of it. Nobody has to ask, to leave or to send a signal. With the
providers (`ProvidersFairness`) goroutines run, the timeouts of the HTTP client and of
`buildCV` fire, and a reader that has not left reads on. No server has to answer: `Respond`,
`ReadChunk` and `Answer` have no fairness.

### What the counterexamples mean

`ExpiredIsReoffered` says what README.md says of self-healing. `Drawup` returns
for an ad it has drawn up before (`board.go:192`), and nothing removes an ad from
`peerAds`. So after a lease has expired the task is put up, and neither bid for nor
claimed: the plan ends with its deadline. The same early return is what keeps a
task from being executed twice (`ExecutedOnce`).

`CloseStopsReceiving` says what the comment of Close says, of a transport that runs: there is
one Start in the run, and while it has not been stopped only Close closes inlets. The
goroutine of a stream outlives the handler's removal, and its next message goes to the
closed inlet. After Stop the same happens, which is not what the comment is about.

More behaviours of the models are at odds with comments, and no run is spent on them.

`GetPlanProv` "returns the first available provider" (`controller.go:101`), which is any entry
of a map and may have no models. If one provider has models and another has none, planner and
executor may get the one and the reducer the other. It then returns an error, and the plan, all
of whose sub-tasks are answered, times out. `NothingIsForgotten` and `UndisturbedPlansSucceed` name
this case (`refused`).

A Shutdown that comes before `Start` has made the server returns nil and stops nothing, while its comment
says that it "gracefully stops the HTTP server" (`server.go:158`); the server may go on to serve,
until the process ends. `QuietMeansQuiet` promises nothing of that Shutdown.

In the state manager, `Claim` starts a goroutine that knows the task but not the lease
(`manager.go:131-150`). If the task is abandoned and claimed again, the first goroutine finds
it claimed and reopens it, however much of the second lease is left; README.md:102 speaks of
a 30-second lease. No component calls Abandon today; the interface offers it. `LeasesHold`
says what does hold: the watchdog of the very lease is there as well.

The executor logs the error of Start and goes on (`executor.go:136`), so a task that was
disposed between its assignment and its start is executed, though `task_plan.go:72` says of
`StateDisposed` "will never run". Its result is refused by Complete (`ImplementsPlanExecution`).

`task_plan.go:18-20` asks for exactly one result on every path "so the SSE handler never blocks
forever". `StreamsEnd` names the paths on which it does: the planner's channel was full and the
prompt was dropped, or another stream of the same plan got the result, until the client leaves.

`controller.GPU` promises the snapshot of "the first local provider that responds"
(`controller.go:140`) and passes over one that responds that nothing is in use, so an idle node
reports no video memory. A node without models bids for any model (`cv.go:34`). The last chunk
of vLLM is sent outside the select (`vllm_provider.go:271`): if the channel is full and the
reader has gone, the goroutine stays, cancelled or not (`LeftBehind`).

Two of `host.go`. A worker that ends deletes the entry of its node and protocol
(`host.go:396`), even if a newer outlet has taken the place of its own; that one is then
open after Stop, which "closes all channels" (`host.go:226`), until its context ends. No
message is lost by it (`AcceptedIsServed`). And a Send to the node itself before Open makes an
outlet to the network, which Open keeps, so that the node does not reach "its own incoming
handlers" (`host.go:541`).

Likewise of the bus. `Publish` returns nil whatever happens (`eventbus.go:82`), and its
comment promises "an error if the topic channels are full" (`eventbus.go:65`). And
a comment in `postman_test.go:75-76` says that "EventBus Publish skips closed channels": Stop closes
none, and after Release, which does, a publication crashes. `OnlyReleaseCrashes` says that
there is no other way; nothing in the repository calls Release.

## 4. Proofs

Assumed of the constants: the named assumptions of `TaskStateManager` (task IDs
are finite in number and belong to a plan; every graph is `Sound`; durations are
natural numbers; Notify has room for one). Nothing bounds plans, tasks, peers,
lengths of channels, time or claims.

None of the safety properties is inductive alone. `IInv` adds to them

* `PlansKnown`: a registered plan has one of its graphs, and the known tasks are
  those of registered plans;
* `CountsMatch`: a count is what the planner gave less the number of
  predecessors that are done. With `Sound`, a count of zero then means that all
  predecessors are done, which gives `DependenciesFirst`; with
  `DependenciesFirst`, a task whose predecessor is running is pending or disposed,
  which is why `Complete` may set it to ready without looking;
* `ResultFollows`: how far the deadline goroutine has got decides what has been
  sent. This gives one true result in spite of the race.

`TaskStateManagerProofs` proves `Init => IInv`, `IInv /\ [Next]_tsmVars => IInv'`
with a lemma per group of actions, and each property from `IInv`.
`PlanExecutionProofs` uses `IInv` to map each step to a step or a stutter of
`PlanExecution`.

`WorkflowProofs` proves that the variables of the workflow keep their types and
that each of its steps is a step of `TaskStateManager` or none. So
`WorkflowSpec => Spec` (`UsesStateManager`), and what is proved of the state manager
holds when the real components call it; `WorkflowAnswersOnce` is one instance.
`AssignedOnce` proves `ExecutedOnce` for any number of tasks and any lengths of
channels. It needs `OnceInv`: a task is drawn up once, and from then on it is at one
place at most (a goroutine that bids for it, the executor's channel, or
assigned), and tasks that were not drawn up are at none.
`OutputIsTheAnswer` proves `DoneHasItsOutput` from it. `OutputInv` follows the answer: a result
that is on its way belongs to an execution that has ended, and is the answer to its task; a task
that is executed is not done, so that to take it out of the tracer harms nobody; and only the
reducer touches a reduce task, which is in the tracer because it was announced (`QueuedHolds`: what
is announced is of a registered plan). `AnsweredInv` adds that what is done was answered: a
task is completed with a result of its execution, or by a reducer that has stored its answer,
so one that failed or was given up is never done.

Since `Spec` implements `PlanExecution`, so does the workflow (`WorkflowImplements`); and the
server takes no step that `PlanExecution` does not allow (`UsesPlanExecution`). The parts
fit: from the prompt to the result, what is proved of the one may be used of the other.

Two theorems need more than the named assumptions. They are stated with their hypotheses
(`ASSUME ... PROVE`), and `MCWorkflow` assumes both of its instance, so that TLC
evaluates them there:

* `ReductionsComeLast` (of `Workflow`): in each graph everything leads to its reduce task,
  on some tasks by way of others. `ParsedGraphsLeadToReduction` proves it of the graphs that
  `parse` makes of decompositions of which every sub-task can be worked off. It does not
  hold with a cycle beside a part that can be executed, where the code reduces without
  the cycle.
* `ChannelsFit` (of `TaskStateManager`): no channel of the bus is shorter than the number of tasks.
  The code's have room for 100 events. With more tasks, `Publish` may drop a TaskReady, and
  that task is lost to the board.

`ReducesEveryAnswer` proves `EveryAnswerIsReduced` from the first. `QueueInv`, about the state
manager alone, follows the announcements: a task that waits for others is in no
channel and has had no lease, one that was announced is in a channel once and has nothing
left to wait for. So when the reducer takes a reduce task out of its channel, all
that leads to it is done; with `ReductionsComeLast` those are all the tasks of its plan,
since the set of the tasks that are done has with each the ones it depends on
(`DependenciesFirst`). `OutputIsTheAnswer` says that their outputs in the tracer are their
answers. `AnswersInv` keeps this while the reducer works: a task that is done stays done, has its
answer (`AnsweredInv`), and nothing is asked about it again.

`ForgetsNothing` proves `NothingIsForgotten` from both. Each of its parts is an invariant of
a stretch of the way:

* `ExecInv`: a task that was claimed for the executor waits in its channel or with a goroutine; one
  that runs is being asked about, or its result is in the channel of results or with the
  watch of TaskDone. Each result is there once (`OneEach`), so there is always room for it.
* `BoardInv`: of a task that was not announced yet the board knows nothing (`Untouched`). One that is
  ready for the first time is still announced, or at exactly one of the three goroutines
  that offer tasks, and that one carries it (`Carried`): it is among the board's ads just when a
  goroutine has put it up, among the peers' ads only if that one has drawn it up, and has
  a bid just when it is at the interview. Hence no branch of Putup, Drawup or Interview
  that returns early applies to it.
* `ReduceInv`: a reduce task that is held is at the reducer. One that is ready for the first time
  waits in the reducer's channel, is at the reducer, was given up for want of a model
  (`refused`), or all that it depends on is done and nobody answered with a text
  (`NothingToReduce`); the last two stay so.

That the channels have room is counted (`RoomForOthers`): no channel holds a task twice
(`AnnouncedOnce`, `OnceInv`, `OneEach`), so with what is sent there are no more than there are tasks.

`PlanParseProofs` proves that the graphs of well-formed answers are `Sound`, which
is what `TaskStateManager` assumes of the graphs that it is given, and that counts
are exact (`CountsExact`). An edge is a place in a successor list
(`EdgesInto`); `ParseInv` says that in the second loop the count of every name is the
number of its edges so far, that only a sub-task with dependencies has any, and
that roots and nodes are sub-tasks of the input. The last gives that nothing leads to
`reduce` before it is appended, and so that its count may be assigned.

`ReductionComesLast` proves `ReductionIsLast` for decompositions of any length. `ListsInv` says
what the loops have written when they are at `i` and `j`, and `Parsed` what the finished graph
is: an edge for each dependency, and one to the reduction from each sub-task that nothing
depends on. `Workable` and `Executed` are recursive functions, and the provers have no
induction; so `AllRounds` builds a function with all the rounds out of finitely many,
by the least number at which that would fail (`LeastNumber`, from the library's theorem
that `<` on the naturals is well-founded), and the defining equations follow for the CHOOSE that
a recursive function is (`WorkableRounds`, `ExecutedRounds`). The rounds are then compared
by the first in which they would differ (`SameRounds`). `LastOfSome` is what makes the reduction
come last: of any sub-tasks there is one that none of them depends on.

`TransportProofs` proves the safety properties of the transport for any number of
nodes, protocols, contexts, callers and channels. `TransportInv` adds to them

* `UnusedAreUnused`: a channel that has not been made is empty, open, and neither in a
  table nor in anybody's hands;
* `OpenIsServed`: the worker of an open outlet works, unless its context is cancelled or
  its node's ID is none. This is what makes a `Put` safe: the caller has looked the outlet
  up before, and by now it may be out of the table;
* `CallsAreMeant`: a call that still has nodes to send to has a protocol and a context.

`TablesAreOpen` says too that an outlet was made for the place where it is; so the
worker that clears its place removes no outlet but the one there, and `NoDeadOutlet`
survives although it may be another's. That `Open` keeps an outlet it finds is in
accord with `SelfLeadsHome`, because an outlet to an inlet would lead to the one that is open,
and there is none.

`PostmanProofs` proves the safety properties of bus and postman for any number of topics,
publishers, watches, deliveries and channels of any length. `BusInv` adds to them

* `EachListedOnce`: a channel is in one list and once, so that whoever is under way comes
  to it once and taking it out leaves none behind to crash on;
* `ListedAreOpen`: what is in a list is open, before Release;
* `NotAhead`: no channel that a publisher has still to go to holds the event that he is
  publishing, which gives the order;
* `OwedIsPending`: what is owed to a channel is the number of events in it and of the
  publishers that have still to come to it. When there are none, `EveryEventCounts` is left.

Each step of the postman is a step of the bus or none (`UsesBus`).

`UserServerProofs` proves the safety properties of the server for any number of prompts and
streams and any length of the planner's channel. Two facts carry it: `ToldOnce`, that a plan is
told at most one result and only once it is known, which follows from the guards of
`PlanExecution`; and `StreamsInv`, which ties each entry of the table to the stage of its
POST and each stream to the result that it got.

`ProvidersProofs` proves the safety properties of streams and bids for any providers, calls, ads,
chunks and lengths of channels. `StreamInv` says that what was received and what is in the
channel are the chunks 1, 2, ... up to the one in the goroutine's hands (`InOrder`,
`Counted`), and that a last chunk is the last of all (`LastIsLast`). `BidInv` says that a
snapshot other than the empty one is that of the provider that was asked last (`Reported`); `Match`
asks for more free memory than the empty one has, so what it accepts is backed
(`MatchIsBacked`).

`LeasesHold` is proved in two steps: `LeaseTableAgrees` is part of `IInv`, and
`WatchHolds` shows that no step takes a claim's own watchdog away.

Only model-checked is what the provers cannot reach: liveness. It needs ENABLED and
fairness (`EveryPlanIsAnswered`, `EveryLeaseEnds`, `UndisturbedPlansSucceed`, `ClosedOutletsEnd`,
`StopDoesReturn`, `StreamsEnd`, `GoroutinesEnd`). Every other property of a passing run, and the
refinement, is a theorem.

## 5. Plan

1. Done: `Channels`, `TaskStateManager`, `PlanExecution`, their runs and proofs.
2. Done: `Workflow`, its runs, that it uses the state manager as specified and that
   no task is executed twice.
3. Done: `PlanParse`, its run, and the proof that its graphs are `Sound` when names
   are distinct and none is `reduce`.
4. Done: `EventBus` and `Postman`, their run and the proofs of their safety properties.
5. Done: `Transport`, its runs, and the proofs of its safety properties.
6. Done: `UserServer` and `Providers`, their runs and the proofs of their safety properties.
7. Done: the proofs of `EveryAnswerIsReduced`, `NothingIsForgotten` and `ReductionIsLast`, and that
   workflow and server fit `PlanExecution`.

Not modelled, and why:

* `HardwareMonitor`: its snapshot is an input of `Providers`. Nothing subscribes to the event it
  publishes and nothing restarts it; what it measures is I/O.
* `ModuleManager`, `LoadProviders`, `Register`: tables that are filled before anything starts.
* Of the board, `Ripup`, which nothing calls, and messages of other nodes, which its handlers do
  not recognise; of the executor, the execution for another node, whose assignment cannot arrive.
* Of the transport, Dial and mDNS discovery, which open connections and touch no channel.
* Of the drivers, the translation of messages; the text of prompts; the construction in
  `cmd/pc/main.go`.
