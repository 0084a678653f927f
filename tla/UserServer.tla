----------------------------- MODULE UserServer -----------------------------
(***************************************************************************)
(* The HTTP server of a node (internal/user_server/server.go), the wrapper *)
(* that makes a task of a prompt (internal/task_wrapper), and what is      *)
(* between a prompt and its answer: the planner's channel, and the state   *)
(* manager, of which only what PlanExecution promises is used.             *)
(*                                                                         *)
(* A plan ID is the tracking ID of one POST to /chat.  The channel that    *)
(* the server makes for it holds what was told and not yet taken.          *)
(***************************************************************************)
EXTENDS PlanExecution, Channels

CONSTANTS
    Streams,   \* the requests to /stream, one connection each
    TopicLen,  \* the length of the planner's channel
    None

ASSUME ServerAssumption == None \notin Plans /\ TopicLen \in Nat

VARIABLES
    server,    \* what main's goroutine is at with the http.Server
    shutdown,  \* what main is at with Shutdown
    chat,      \* what the handler of each POST is at
    streams,   \* s.streams: the plans that have an entry
    stream,    \* the handler of each request to /stream
    gone,      \* the requests whose client has disconnected
    taken,     \* how many results were received from each plan's channel
    prompts,   \* the planner's channel for TaskPreplanned
    planning,  \* the plan that the planner is at
    signalled  \* the context of main has ended

planVars == <<known, dag, done, over, told>>
mainVars == <<server, shutdown, signalled>>
plannerVars == <<prompts, planning>>
streamVars == <<streams, stream, gone, taken>>
serverVars == <<planVars, mainVars, chat, streamVars, plannerVars>>

Result == [status : {"ok"}, by : Nodes] \cup [status : {"timeout"}]
Nothing == [status |-> "none"]
Request == [at : {"none", "waiting", "writing", "leaving", "ended", "notfound"},
            plan : Plans \cup {None}, got : Result \cup {Nothing}]

ServerInit ==
    /\ Init
    /\ server = "unmade" /\ shutdown = "no" /\ signalled = FALSE
    /\ chat = [p \in Plans |-> "none"]
    /\ streams = {} /\ gone = {}
    /\ stream = [c \in Streams |-> [at |-> "none", plan |-> None, got |-> Nothing]]
    /\ taken = [p \in Plans |-> 0]
    /\ prompts = <<>> /\ planning = None

-----------------------------------------------------------------------------
(* Starting and stopping.  The server listens on a goroutine of its own.   *)

MakeServer ==
    /\ server = "unmade"
    /\ server' = "made"
    /\ UNCHANGED <<planVars, shutdown, signalled, chat, streamVars, plannerVars>>

ListenAnyway ==  \* mutant: Shutdown before ListenAndServe has no effect
    /\ server = "made"
    /\ server' = "serving"
    /\ UNCHANGED <<planVars, shutdown, signalled, chat, streamVars, plannerVars>>
\* ListenAndServe returns at once if Shutdown came before and found the server; one that
\* missed it has changed nothing, and the server serves on until the process ends.
Listen ==
    /\ server = "made"
    /\ server' = IF shutdown \in {"no", "missed"} THEN "serving" ELSE "closed"
    /\ UNCHANGED <<planVars, shutdown, signalled, chat, streamVars, plannerVars>>

Signal ==
    /\ ~signalled
    /\ signalled' = TRUE
    /\ UNCHANGED <<planVars, server, shutdown, chat, streamVars, plannerVars>>

Pending(c) == stream[c].at \in {"waiting", "writing", "leaving"}
Active == {p \in Plans : chat[p] \in {"wrapped", "listed"}} \cup {c \in Streams : Pending(c)}

\* A server that is not made yet is missed: Shutdown returns nil, and nothing keeps the
\* server from starting.
BeginShutdown ==
    /\ signalled /\ shutdown = "no"
    /\ shutdown' = IF server = "unmade" THEN "missed" ELSE "waiting"
    /\ server' = IF server = "serving" THEN "closed" ELSE server
    /\ UNCHANGED <<planVars, signalled, chat, streamVars, plannerVars>>

\* Shutdown returns when the handlers have, or after ten seconds.
EndShutdown ==
    /\ shutdown = "waiting"
    /\ shutdown' \in {"late"} \cup (IF Active = {} THEN {"quiet"} ELSE {})
    /\ UNCHANGED <<planVars, server, signalled, chat, streamVars, plannerVars>>

-----------------------------------------------------------------------------
(* POST /chat.                                                             *)

ChatUnnamed(p) ==  \* mutant: the task is published before it has its ID
    /\ server = "serving" /\ chat[p] = "none"
    /\ chat' = [chat EXCEPT ![p] = "wrapped"]
    /\ prompts' = Offered(prompts, TopicLen, <<None>>)
    /\ UNCHANGED <<planVars, mainVars, streamVars, planning>>
\* Wrap makes the task and publishes TaskPreplanned, which is dropped if the
\* planner's channel is full; the client is answered all the same.
Chat(p) ==
    /\ server = "serving" /\ chat[p] = "none"
    /\ chat' = [chat EXCEPT ![p] = "wrapped"]
    /\ prompts' = Offered(prompts, TopicLen, <<p>>)
    /\ UNCHANGED <<planVars, mainVars, streamVars, planning>>

ListAfterAnswer(p) ==  \* mutant: the client gets its tracking ID first
    /\ \/ chat[p] = "wrapped" /\ chat' = [chat EXCEPT ![p] = "answered"] /\ UNCHANGED streams
       \/ chat[p] = "answered" /\ p \notin streams /\ taken[p] = 0
          /\ streams' = streams \cup {p} /\ UNCHANGED chat
    /\ UNCHANGED <<planVars, mainVars, stream, gone, taken, plannerVars>>
List(p) ==
    /\ chat[p] = "wrapped"
    /\ chat' = [chat EXCEPT ![p] = "listed"]
    /\ streams' = streams \cup {p}
    /\ UNCHANGED <<planVars, mainVars, stream, gone, taken, plannerVars>>

AnswerChat(p) ==
    /\ chat[p] = "listed"
    /\ chat' = [chat EXCEPT ![p] = "answered"]
    /\ UNCHANGED <<planVars, mainVars, streamVars, plannerVars>>

-----------------------------------------------------------------------------
(* The planner: one prompt after the other.  When its context has ended it *)
(* need not take another.                                                  *)

TakePrompt ==
    /\ planning = None /\ prompts # <<>>
    /\ planning' = Head(prompts)
    /\ prompts' = Tail(prompts)
    /\ UNCHANGED <<planVars, mainVars, chat, streamVars>>

PlanWithoutNotify ==  \* mutant: the channel is not copied from the task to the plan
    /\ planning # None
    /\ Accept(planning) /\ ~dag'[planning].notify
    /\ planning' = None
    /\ UNCHANGED <<mainVars, chat, streamVars, prompts>>
\* The plan gets the channel that the server made.
Plan ==
    /\ planning # None
    /\ Accept(planning) /\ dag'[planning].notify
    /\ planning' = None
    /\ UNCHANGED <<mainVars, chat, streamVars, prompts>>

-----------------------------------------------------------------------------
(* GET /stream, for a tracking ID that a client was given.                 *)

OpenStream(c, p) ==
    /\ server = "serving" /\ stream[c].at = "none" /\ chat[p] = "answered"
    /\ stream' = [stream EXCEPT ![c] =
           [at |-> IF p \in streams THEN "waiting" ELSE "notfound", plan |-> p, got |-> Nothing]]
    /\ UNCHANGED <<planVars, mainVars, chat, streams, gone, taken, plannerVars>>

HangUp(c) ==
    /\ stream[c].at \in {"waiting", "writing"} /\ c \notin gone
    /\ gone' = gone \cup {c}
    /\ UNCHANGED <<planVars, mainVars, chat, streams, stream, taken, plannerVars>>

Buffered(p) == taken[p] < Len(told[p])

ReceiveAndKeep(c) ==  \* mutant: the result stays in the channel
    LET p == stream[c].plan IN
    /\ stream[c].at = "waiting" /\ Buffered(p)
    /\ stream' = [stream EXCEPT ![c].at = "writing", ![c].got = told[p][taken[p] + 1]]
    /\ UNCHANGED <<planVars, mainVars, chat, streams, gone, taken, plannerVars>>
Receive(c) ==
    LET p == stream[c].plan IN
    /\ stream[c].at = "waiting" /\ Buffered(p)
    /\ stream' = [stream EXCEPT ![c].at = "writing", ![c].got = told[p][taken[p] + 1]]
    /\ taken' = [taken EXCEPT ![p] = @ + 1]
    /\ UNCHANGED <<planVars, mainVars, chat, streams, gone, plannerVars>>

\* Whoever waits for a client that is gone may take either case of the select.
NoticeGone(c) ==
    /\ stream[c].at = "waiting" /\ c \in gone
    /\ stream' = [stream EXCEPT ![c].at = "leaving"]
    /\ UNCHANGED <<planVars, mainVars, chat, streams, gone, taken, plannerVars>>

EndStreamKeeping(c) ==  \* mutant: the entry outlives a client that has gone
    /\ stream[c].at \in {"writing", "leaving"}
    /\ streams' = IF stream[c].at = "writing" THEN streams \ {stream[c].plan} ELSE streams
    /\ stream' = [stream EXCEPT ![c].at = "ended"]
    /\ UNCHANGED <<planVars, mainVars, chat, gone, taken, plannerVars>>
\* The result is written, if there is one, and the entry deleted.
EndStream(c) ==
    /\ stream[c].at \in {"writing", "leaving"}
    /\ streams' = streams \ {stream[c].plan}
    /\ stream' = [stream EXCEPT ![c].at = "ended"]
    /\ UNCHANGED <<planVars, mainVars, chat, gone, taken, plannerVars>>

-----------------------------------------------------------------------------
\* The state manager, as it is specified: tasks finish, plans end and are answered.
OfManager(step) == step /\ UNCHANGED <<mainVars, chat, streamVars, plannerVars>>

ChatStep(p) == List(p) \/ AnswerChat(p)
StreamStep(c) == Receive(c) \/ NoticeGone(c) \/ EndStream(c)

ServerNext ==
    \/ MakeServer \/ Listen \/ Signal \/ BeginShutdown \/ EndShutdown
    \/ \E p \in Plans : Chat(p) \/ ChatStep(p)
    \/ TakePrompt \/ Plan
    \/ \E c \in Streams : StreamStep(c) \/ HangUp(c) \/ \E p \in Plans : OpenStream(c, p)
    \/ \E n \in Nodes : OfManager(Finish(n))
    \/ \E p \in Plans : OfManager(Close(p) \/ GiveUp(p))

ServerSpec == ServerInit /\ [][ServerNext]_serverVars

\* Handlers run, the planner plans until its context ends, and the state manager answers
\* every plan (EveryPlanIsAnswered).  Nobody has to ask, and no task has to finish.
ServerFairness ==
    /\ \A p \in Plans : WF_serverVars(ChatStep(p))
    /\ \A c \in Streams : WF_serverVars(StreamStep(c))
    /\ WF_serverVars(~signalled /\ TakePrompt) /\ WF_serverVars(Plan)
    /\ \A p \in Plans :
           WF_serverVars(OfManager(Close(p))) /\ WF_serverVars(OfManager(GiveUp(p)))
    /\ WF_serverVars(EndShutdown)
FairServer == ServerSpec /\ ServerFairness

-----------------------------------------------------------------------------
(* What the server promises.                                               *)

ServerTypeOK ==
    /\ server \in {"unmade", "made", "serving", "closed"}
    /\ shutdown \in {"no", "missed", "waiting", "quiet", "late"} /\ signalled \in BOOLEAN
    /\ chat \in [Plans -> {"none", "wrapped", "listed", "answered"}]
    /\ streams \subseteq Plans /\ gone \subseteq Streams
    /\ stream \in [Streams -> Request]
    /\ taken \in [Plans -> Nat]
    /\ prompts \in Seq(Plans) /\ planning \in Plans \cup {None}

\* Whoever was told a tracking ID finds its stream until a stream of that plan has ended,
\* whether it was served or its client left; then nobody does and nothing is left of it.
EntryUntilServed ==
    /\ \A p \in Plans : chat[p] \in {"listed", "answered"} =>
        (p \in streams <=> \A c \in Streams : stream[c].plan = p => stream[c].at # "ended")
    /\ \A c \in Streams : stream[c].at = "notfound" =>
        \E d \in Streams : stream[d].plan = stream[c].plan /\ stream[d].at = "ended"

\* However many streams wait for a plan, one of them at most gets its result: the one that
\* was told, and true.  The channel never holds more than it has room for.
OneReaderGetsTheTruth ==
    /\ \A p \in Plans : taken[p] <= Len(told[p]) /\ Len(told[p]) <= 1
    /\ \A c \in Streams : stream[c].got # Nothing =>
        LET p == stream[c].plan IN
        /\ taken[p] = 1 /\ stream[c].got = told[p][1]
        /\ stream[c].got.status = "ok" => dag[p].nodes \subseteq done
        /\ \A d \in Streams : stream[d].plan = p /\ stream[d].got # Nothing => d = c

\* A Shutdown that found the server lets no handler start any more, whether the server was
\* serving or about to listen; and when it returns without an error, it has interrupted
\* nobody (server.go:158) and no handler runs.  One that came before the server was made
\* ("missed") returns without an error as well, but promises neither.
QuietMeansQuiet ==
    /\ server = "serving" => shutdown \in {"no", "missed"}
    /\ shutdown = "quiet" => Active = {}

\* A stream ends: with the result, or because its client leaves.  It does not if the
\* prompt was dropped, or if another stream of the plan has taken the result.
Dropped(p) ==
    chat[p] # "none" /\ p \notin known /\ planning # p /\ \A i \in DOMAIN prompts : prompts[i] # p
Rival(c) ==
    \E d \in Streams : d # c /\ stream[d].plan = stream[c].plan /\ stream[d].got # Nothing
StreamsEnd ==
    \A c \in Streams :
        (stream[c].at = "waiting") ~>
            \/ stream[c].at = "ended" \/ Rival(c) \/ signalled
                \/ \E p \in Plans : stream[c].plan = p /\ Dropped(p)

=============================================================================
