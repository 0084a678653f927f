----------------------------- MODULE Providers -----------------------------
(***************************************************************************)
(* What a node does with its model servers: the Stream call of the drivers *)
(* (provider/drivers/vllm, provider/drivers/ollama), and the GPU query     *)
(* that the task board makes for every bid (board.buildCV, controller.GPU) *)
(* with the match that decides on it (CapabilityCV.Match).                 *)
(*                                                                         *)
(* A server may answer, fail or hang at any time.  Whoever waits for one   *)
(* relies on the timeout of the HTTP client.                               *)
(***************************************************************************)
EXTENDS Integers, Sequences

CONSTANTS
    Providers,  \* the registered providers
    Driver,     \* Driver[p]: "vllm" or "ollama"
    Models,     \* Models[p]: the models that p is configured with
    TotalVRAM,  \* TotalVRAM[p]: as configured
    Used,       \* Used[p]: what GPU of p may find in use, bytes or (vLLM) per cent
    Calls,      \* the calls of Stream
    ChLen,      \* the length of a stream's channel
    MaxChunks,  \* bound: the chunks that a server sends in a stream
    Ads,        \* the ads that this node draws up
    Specs,      \* what tasks want: vram, model and priority
    FreeGB,     \* what the hardware monitor may report as free memory
    None

ASSUME ProvidersAssumption ==
    /\ Driver \in [Providers -> {"vllm", "ollama"}]
    /\ TotalVRAM \in [Providers -> Nat] /\ Used \in [Providers -> SUBSET Nat]
    /\ ChLen \in Nat \ {0} /\ MaxChunks \in Nat
    /\ \A spec \in Specs : spec.vram \in Nat /\ spec.priority \in Nat
    /\ FreeGB \subseteq Nat
    /\ None \notin Providers

VARIABLES
    callee,     \* the provider that each call of Stream is for
    call,       \* what the goroutine of each Stream call is at
    made,       \* how many chunks it has read from the server
    ch,         \* its channel
    got,        \* what the reader of the channel has received
    reader,     \* what the reader is at
    cancelled,  \* the calls whose context is cancelled
    cut,        \* the calls whose body ended before the last chunk
    bid,        \* what the board is at with each ad
    query,      \* the goroutine that asks the providers for their GPU
    reply,      \* the channel between the two
    wanted,     \* what the task of each ad wants
    cv          \* the free memory and the GPUs in the bid

callVars == <<callee, call, made, ch, got, reader, cancelled, cut>>
bidVars == <<bid, query, reply, wanted, cv>>
providerVars == <<callVars, bidVars>>

\* A chunk is its place in the answer, and whether it says that it is the last.
Chunk == [no : Nat, done : BOOLEAN]
Snapshot == [used : Nat, free : Int]
Unread == [vram |-> 0, model |-> None, priority |-> 0]
ZeroSnapshot == [used |-> 0, free |-> 0]
Query == [at : {"none", "choosing", "asking", "reporting", "ended"},
          left : SUBSET Providers, who : Providers \cup {None}, snap : Snapshot]

ProvidersInit ==
    /\ callee = [c \in Calls |-> None] /\ call = [c \in Calls |-> "none"]
    /\ made = [c \in Calls |-> 0]
    /\ ch = [c \in Calls |-> <<>>] /\ got = [c \in Calls |-> <<>>]
    /\ reader = [c \in Calls |-> "reading"]
    /\ cancelled = {} /\ cut = {}
    /\ bid = [a \in Ads |-> "none"]
    /\ query = [a \in Ads |->
           [at |-> "none", left |-> {}, who |-> None, snap |-> ZeroSnapshot]]
    /\ reply = [a \in Ads |-> <<>>]
    /\ wanted = [a \in Ads |-> Unread]
    /\ cv = [a \in Ads |-> [free |-> 0, gpus |-> <<>>]]

-----------------------------------------------------------------------------
(* Stream: the request, then a goroutine that reads the body line by line. *)
(* Lines that are no chunk are skipped and change nothing.                 *)

CallStream(c, p) ==
    /\ call[c] = "none"
    /\ call' = [call EXCEPT ![c] = "requesting"]
    /\ callee' = [callee EXCEPT ![c] = p]
    /\ UNCHANGED <<made, ch, got, reader, cancelled, cut, bidVars>>

Respond(c) ==
    /\ call[c] = "requesting"
    /\ call' = [call EXCEPT ![c] = "scanning"]
    /\ UNCHANGED <<callee, made, ch, got, reader, cancelled, cut, bidVars>>

\* An error, a status other than 200, the timeout, a cancelled context: Stream fails.
Refuse(c) ==
    /\ call[c] = "requesting"
    /\ call' = [call EXCEPT ![c] = "failed"]
    /\ UNCHANGED <<callee, made, ch, got, reader, cancelled, cut, bidVars>>

\* "[DONE]" of vLLM counts as a chunk without text; Ollama's last one has a flag.
ReadChunk(c) ==
    /\ call[c] = "scanning" /\ made[c] < MaxChunks
    /\ made' = [made EXCEPT ![c] = @ + 1]
    /\ \E last \in BOOLEAN : call' = [call EXCEPT ![c] = IF last THEN "finishing" ELSE "sending"]
    /\ UNCHANGED <<callee, ch, got, reader, cancelled, cut, bidVars>>

\* The server ends it, the client's timeout or a cancelled context does: there is no error
\* in the channel.
EndOfBody(c) ==
    /\ call[c] = "scanning"
    /\ call' = [call EXCEPT ![c] = "closed"]
    /\ cut' = cut \cup {c}
    /\ UNCHANGED <<callee, made, ch, got, reader, cancelled, bidVars>>

SendOrDrop(c) ==  \* mutant: a chunk that finds the channel full is dropped
    /\ call[c] \in {"sending", "finishing"}
    /\ ch' = IF Len(ch[c]) < ChLen
             THEN [ch EXCEPT ![c] = Append(@, [no |-> made[c], done |-> call[c] = "finishing"])]
             ELSE ch
    /\ call' = [call EXCEPT ![c] = IF @ = "finishing" THEN "closed" ELSE "scanning"]
    /\ UNCHANGED <<callee, made, got, reader, cancelled, cut, bidVars>>
Send(c) ==
    /\ call[c] \in {"sending", "finishing"} /\ Len(ch[c]) < ChLen
    /\ ch' = [ch EXCEPT ![c] = Append(@, [no |-> made[c], done |-> call[c] = "finishing"])]
    /\ call' = [call EXCEPT ![c] = IF @ = "finishing" THEN "closed" ELSE "scanning"]
    /\ UNCHANGED <<callee, made, got, reader, cancelled, cut, bidVars>>

\* The last chunk of vLLM is sent outside the select.
NoticeCancel(c) ==
    /\ c \in cancelled
    /\ call[c] = "sending" \/ (call[c] = "finishing" /\ Driver[callee[c]] = "ollama")
    /\ call' = [call EXCEPT ![c] = "closed"]
    /\ UNCHANGED <<callee, made, ch, got, reader, cancelled, cut, bidVars>>

-----------------------------------------------------------------------------
(* The caller of Stream, who may cancel its context and may stop reading.  *)

Streaming(c) == call[c] \in {"scanning", "sending", "finishing", "closed"}

Receive(c) ==
    /\ reader[c] = "reading" /\ ch[c] # <<>>
    /\ got' = [got EXCEPT ![c] = Append(@, Head(ch[c]))]
    /\ ch' = [ch EXCEPT ![c] = Tail(@)]
    /\ UNCHANGED <<callee, call, made, reader, cancelled, cut, bidVars>>

SeeTheEnd(c) ==
    /\ reader[c] = "reading" /\ call[c] = "closed" /\ ch[c] = <<>>
    /\ reader' = [reader EXCEPT ![c] = "finished"]
    /\ UNCHANGED <<callee, call, made, ch, got, cancelled, cut, bidVars>>

Leave(c) ==
    /\ reader[c] = "reading" /\ Streaming(c)
    /\ reader' = [reader EXCEPT ![c] = "gone"]
    /\ UNCHANGED <<callee, call, made, ch, got, cancelled, cut, bidVars>>

Cancel(c) ==
    /\ call[c] # "none" /\ c \notin cancelled
    /\ cancelled' = cancelled \cup {c}
    /\ UNCHANGED <<callee, call, made, ch, got, reader, cut, bidVars>>

-----------------------------------------------------------------------------
(* The GPU query of a bid.  controller.GPU asks the providers one after    *)
(* the other, in the order of a map; one that fails or uses nothing is     *)
(* passed over.                                                            *)

DrawUpUnread(a) ==  \* mutant: the ad's spec is not passed on
    /\ bid[a] = "none"
    /\ bid' = [bid EXCEPT ![a] = "waiting"]
    /\ query' = [query EXCEPT ![a].at = "choosing", ![a].left = Providers]
    /\ \E free \in FreeGB : cv' = [cv EXCEPT ![a].free = free]
    /\ UNCHANGED <<callVars, reply, wanted>>
\* The board takes the monitor's snapshot and starts the query.
DrawUp(a) ==
    /\ bid[a] = "none"
    /\ bid' = [bid EXCEPT ![a] = "waiting"]
    /\ query' = [query EXCEPT ![a].at = "choosing", ![a].left = Providers]
    /\ \E spec \in Specs : wanted' = [wanted EXCEPT ![a] = spec]
    /\ \E free \in FreeGB : cv' = [cv EXCEPT ![a].free = free]
    /\ UNCHANGED <<callVars, reply>>

Choose(a, p) ==
    /\ query[a].at = "choosing" /\ p \in query[a].left
    /\ query' = [query EXCEPT ![a].at = "asking", ![a].left = @ \ {p}, ![a].who = p]
    /\ UNCHANGED <<callVars, bid, reply, wanted, cv>>

Answer(a) ==
    LET p == query[a].who IN
    /\ query[a].at = "asking"
    /\ \E used \in Used[p] :
           query' = IF used = 0
                    THEN [query EXCEPT ![a].at = "choosing"]
                    ELSE [query EXCEPT ![a].at = "reporting",
                              ![a].snap = [used |-> used, free |-> TotalVRAM[p] - used]]
    /\ UNCHANGED <<callVars, bid, reply, wanted, cv>>

\* An error or the client's timeout.
NoAnswer(a) ==
    /\ query[a].at = "asking"
    /\ query' = [query EXCEPT ![a].at = "choosing"]
    /\ UNCHANGED <<callVars, bid, reply, wanted, cv>>

NoneLeft(a) ==
    /\ query[a].at = "choosing" /\ query[a].left = {}
    /\ query' = [query EXCEPT ![a].at = "reporting", ![a].who = None]
    /\ UNCHANGED <<callVars, bid, reply, wanted, cv>>

ReportInPerson(a) ==  \* mutant: the channel has no room, the board must be there
    /\ query[a].at = "reporting" /\ bid[a] = "waiting"
    /\ query' = [query EXCEPT ![a].at = "ended"]
    /\ reply' = [reply EXCEPT ![a] = <<query[a].snap>>]
    /\ UNCHANGED <<callVars, bid, wanted, cv>>
\* The channel has room for the one snapshot, whether or not the board waits for it.
Report(a) ==
    /\ query[a].at = "reporting"
    /\ query' = [query EXCEPT ![a].at = "ended"]
    /\ reply' = [reply EXCEPT ![a] = <<query[a].snap>>]
    /\ UNCHANGED <<callVars, bid, wanted, cv>>

-----------------------------------------------------------------------------
(* CapabilityCV.Match for what buildCV makes: there are no tools and no    *)
(* labels in it, and one GPU at most.  A negative score is a refusal.      *)

AllModels == UNION {Models[p] : p \in Providers}

MatchUnknown(spec, free, gpus) ==  \* mutant: no snapshot of a GPU counts as any GPU
    /\ spec.vram > 0 /\ gpus # <<>> => gpus[1].free >= spec.vram
    /\ spec.model # None /\ AllModels # {} => spec.model \in AllModels
    /\ free - spec.priority >= 0
Match(spec, free, gpus) ==
    /\ spec.vram > 0 => gpus # <<>> /\ gpus[1].free >= spec.vram
    /\ spec.model # None /\ AllModels # {} => spec.model \in AllModels
    /\ free - spec.priority >= 0

\* The bid is made or not with the GPUs that the board has by then.
Decide(a, gpus) ==
    /\ bid' = [bid EXCEPT ![a] = IF Match(wanted[a], cv[a].free, gpus) THEN "made" ELSE "declined"]
    /\ cv' = [cv EXCEPT ![a].gpus = gpus]

TakeReply(a) ==
    /\ bid[a] = "waiting" /\ reply[a] # <<>>
    /\ Decide(a, reply[a])
    /\ reply' = [reply EXCEPT ![a] = <<>>]
    /\ UNCHANGED <<callVars, query, wanted>>

\* Two seconds have passed.
BidTimeout(a) ==
    /\ bid[a] = "waiting"
    /\ Decide(a, <<>>)
    /\ UNCHANGED <<callVars, query, reply, wanted>>

-----------------------------------------------------------------------------
StreamStep(c) == EndOfBody(c) \/ Send(c) \/ NoticeCancel(c)
ReaderStep(c) == Receive(c) \/ SeeTheEnd(c)
QueryStep(a) == (\E p \in Providers : Choose(a, p)) \/ NoAnswer(a) \/ NoneLeft(a) \/ Report(a)

ProvidersNext ==
    \/ \E c \in Calls :
           \/ (\E p \in Providers : CallStream(c, p)) \/ Respond(c) \/ Refuse(c) \/ ReadChunk(c) \/ StreamStep(c)
           \/ ReaderStep(c) \/ Leave(c) \/ Cancel(c)
    \/ \E a \in Ads : DrawUp(a) \/ Answer(a) \/ QueryStep(a) \/ TakeReply(a) \/ BidTimeout(a)

ProvidersSpec == ProvidersInit /\ [][ProvidersNext]_providerVars

\* Goroutines run, timers fire, and whoever reads a stream reads on.  No server has to answer.
ProvidersFairness ==
    /\ \A c \in Calls : WF_providerVars(Refuse(c)) /\ WF_providerVars(StreamStep(c))
                        /\ WF_providerVars(ReaderStep(c))
    /\ \A a \in Ads : WF_providerVars(QueryStep(a)) /\ WF_providerVars(BidTimeout(a))
FairProviders == ProvidersSpec /\ ProvidersFairness

-----------------------------------------------------------------------------
(* What streams and bids promise.                                          *)

ProvidersTypeOK ==
    /\ callee \in [Calls -> Providers \cup {None}]
    /\ call \in [Calls -> {"none", "requesting", "failed", "scanning", "sending", "finishing",
                           "closed"}]
    /\ made \in [Calls -> Nat]
    /\ ch \in [Calls -> Seq(Chunk)] /\ got \in [Calls -> Seq(Chunk)]
    /\ reader \in [Calls -> {"reading", "finished", "gone"}]
    /\ cancelled \subseteq Calls /\ cut \subseteq Calls
    /\ bid \in [Ads -> {"none", "waiting", "made", "declined"}]
    /\ query \in [Ads -> Query]
    /\ reply \in [Ads -> Seq(Snapshot)]
    /\ wanted \in [Ads -> Specs \cup {Unread}]
    /\ \A a \in Ads : bid[a] # "none" => wanted[a] \in Specs
    /\ cv \in [Ads -> [free : Nat, gpus : Seq(Snapshot)]]

\* A reader gets the chunks as the server sent them, none left out, and the last one last.
\* Whoever got the last one got them all; whoever saw the end of the channel without it
\* knows that the answer was cut short, by the server or by a cancellation.
DoneMeansAll ==
    \A c \in Calls :
        LET n == Len(got[c]) IN
        /\ n <= made[c] /\ \A i \in 1 .. n : got[c][i].no = i
        /\ \A i \in 1 .. n : got[c][i].done => i = made[c] /\ call[c] = "closed" /\ c \notin cut
        /\ reader[c] = "finished" =>
               \/ n > 0 /\ got[c][n].done
               \/ c \in cut /\ n = made[c]
               \/ c \in cancelled

\* A bid for a task that needs video memory is backed by a provider that was asked for this
\* bid, answered in time and reported as much.  A model that is wanted is there, unless the
\* node has no models at all.  No bid is made beyond the memory that is free.
BidsAreBacked ==
    \A a \in Ads : bid[a] = "made" =>
        /\ wanted[a].vram > 0 =>
               /\ query[a].at = "ended" /\ query[a].who \in Providers
               /\ query[a].snap.used \in Used[query[a].who]
               /\ TotalVRAM[query[a].who] - query[a].snap.used >= wanted[a].vram
        /\ wanted[a].model # None =>
               (\E p \in Providers : wanted[a].model \in Models[p])
               \/ \A p \in Providers : Models[p] = {}
        /\ wanted[a].priority <= cv[a].free

\* No server that hangs holds up the board, a query or a stream.  A stream's goroutine ends
\* unless its reader has gone without cancelling, or has gone when vLLM sends its last chunk.
Under(c) == call[c] \in {"requesting", "scanning", "sending", "finishing"}
LeftBehind(c) ==
    /\ reader[c] = "gone"
    /\ c \notin cancelled \/ (call[c] = "finishing" /\ Driver[callee[c]] = "vllm")
GoroutinesEnd ==
    /\ \A c \in Calls : Under(c) ~> (~Under(c) \/ LeftBehind(c))
    /\ \A a \in Ads : (bid[a] = "waiting") ~> (bid[a] \in {"made", "declined"})
    /\ \A a \in Ads : (query[a].at = "choosing") ~> (query[a].at = "ended")

=============================================================================
