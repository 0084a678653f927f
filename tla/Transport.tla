----------------------------- MODULE Transport -----------------------------
(***************************************************************************)
(* The transport of one node: Libp2pTransport                              *)
(* (pkg/infrastructure_layer/transport/transporters/host.go).              *)
(*                                                                         *)
(* Two tables under one lock hold the channels: ins, one inlet for each    *)
(* open protocol, and outs, one outlet for each node and protocol.  Around *)
(* them work goroutines that hold on to a channel and not to the lock: the *)
(* worker of each outlet, the handler of each stream, every caller of      *)
(* Send.  Messages are alike: a channel has so many of them.               *)
(***************************************************************************)
EXTENDS Integers

CONSTANTS
    Remote,        \* other nodes
    Undecodable,   \* those whose ID is not a peer's ID
    Self,          \* this node
    Protocols,
    Contexts,
    Cancellable,   \* the contexts that may be cancelled
    Callers,       \* of Send and Publish
    Hosts,         \* the libp2p hosts that Start may make
    Inlets,        \* the channels that Open may make
    Outlets,       \* and those that Open and Send may make
    InsLength,
    OutsLength,
    MaxCleaning,   \* of one node's disconnections that are not yet cleaned up
    None

Nodes == Remote \cup {Self}
Peers == Remote \ Undecodable   \* whom the host may know
OutletInfo == [to : Nodes, proto : Protocols, ctx : Contexts, into : Inlets \cup {None}]
InletInfo  == [proto : Protocols, ctx : Contexts, host : Hosts]

ASSUME TransportAssumption ==
    /\ Self \notin Remote /\ Undecodable \subseteq Remote
    /\ Cancellable \subseteq Contexts
    /\ InsLength \in Nat \ {0} /\ OutsLength \in Nat \ {0}
    /\ MaxCleaning \in Nat
    /\ None \notin Hosts \cup Inlets \cup Outlets
    /\ None \notin OutletInfo /\ None \notin InletInfo

VARIABLES
    started,     \* IsStarted
    host,        \* Host
    hosts,       \* "unused", "open", "closing" or "closed", for each
    watchers,    \* the contexts that Start's goroutines wait for, by host
    cancelled,   \* contexts
    ins, outs,   \* the tables
    inlet,       \* what each inlet was made for, or None
    arrived,     \* how many messages are in it
    inClosed,    \* those that are closed
    handled,     \* those that the host's stream handler puts messages into
    handler,     \* "none", "reading" or "holding": the goroutine of a stream
    outlet,      \* what each outlet was made for, or None
    queued,      \* how many messages are in it
    outClosed,   \* those that are closed
    worker,      \* "none", "run", "hold", "remove" or "ended"
    call,        \* each caller's nodes to send to, protocol, context and outlet
    cleaning,    \* how many goroutines are to clean up after each node
    crashed      \* "no", or where a closed channel was sent on

hostVars  == <<started, host, hosts, watchers, cancelled>>
inVars    == <<ins, inlet, arrived, inClosed, handled, handler>>
outVars   == <<outs, outlet, queued, outClosed, worker>>
vars == <<hostVars, inVars, outVars, call, cleaning, crashed>>

Idle == [todo |-> {}, proto |-> None, ctx |-> None, ch |-> None]

Init ==
    /\ started = FALSE /\ host = None
    /\ hosts = [h \in Hosts |-> "unused"]
    /\ watchers = {} /\ cancelled = {}
    /\ ins = [a \in Protocols |-> None]
    /\ outs = [p \in Nodes |-> [a \in Protocols |-> None]]
    /\ inlet = [c \in Inlets |-> None] /\ arrived = [c \in Inlets |-> 0]
    /\ inClosed = {} /\ handled = {}
    /\ handler = [c \in Inlets |-> "none"]
    /\ outlet = [c \in Outlets |-> None] /\ queued = [c \in Outlets |-> 0]
    /\ outClosed = {}
    /\ worker = [c \in Outlets |-> "none"]
    /\ call = [s \in Callers |-> Idle]
    /\ cleaning = [p \in Peers |-> 0]
    /\ crashed = "no"

\* A goroutine that sends on a closed channel ends the program.
Alive == crashed = "no"
Crash(where) ==
    /\ crashed' = where
    /\ UNCHANGED <<hostVars, inVars, outVars, call, cleaning>>

-----------------------------------------------------------------------------
(* Starting and stopping.                                                  *)

Start(x) ==
    /\ Alive /\ ~started
    /\ \E h \in Hosts :
        /\ hosts[h] = "unused"
        /\ hosts' = [hosts EXCEPT ![h] = "open"]
        /\ host' = h
        /\ watchers' = watchers \cup {<<h, x>>}
    /\ started' = TRUE
    /\ UNCHANGED <<cancelled, inVars, outVars, call, cleaning, crashed>>

Cancel(x) ==
    /\ Alive /\ x \in Cancellable \ cancelled
    /\ cancelled' = cancelled \cup {x}
    /\ UNCHANGED <<started, host, hosts, watchers, inVars, outVars, call, cleaning, crashed>>

\* The outlets in the tables of the nodes ps, and the tables without them.
OutletsOf(ps) == {outs[p][a] : p \in ps, a \in Protocols} \ {None}
OutsWithout(ps) ==
    [p \in Nodes |-> IF p \in ps THEN [a \in Protocols |-> None] ELSE outs[p]]

\* What Stop does under the lock.
Shutdown ==
    /\ inClosed' = inClosed \cup ({ins[a] : a \in Protocols} \ {None})
    /\ ins' = [a \in Protocols |-> None]
    /\ outClosed' = outClosed \cup OutletsOf(Nodes)
    /\ outs' = OutsWithout(Nodes)
    /\ started' = FALSE
    /\ hosts' = [hosts EXCEPT ![host] = "closing"]
    /\ UNCHANGED <<host, cancelled, inlet, arrived, handled, handler, outlet, queued,
                   worker, call, cleaning, crashed>>

Stop == Alive /\ started /\ Shutdown /\ UNCHANGED watchers

\* The goroutine of a Start stops the transport, whatever has become of it.
AutoStop(w) ==
    /\ Alive /\ w \in watchers /\ w[2] \in cancelled
    /\ watchers' = watchers \ {w}
    /\ IF started
       THEN Shutdown
       ELSE UNCHANGED <<started, host, hosts, cancelled, inVars, outVars, call, cleaning, crashed>>

\* What Stop does without the lock.  The nodes that were connected are cleaned up after.
CloseHost(h) ==
    /\ Alive /\ hosts[h] = "closing"
    /\ hosts' = [hosts EXCEPT ![h] = "closed"]
    /\ \E ps \in SUBSET {p \in Peers : cleaning[p] < MaxCleaning} :
        cleaning' = [p \in Peers |-> IF p \in ps THEN cleaning[p] + 1 ELSE cleaning[p]]
    /\ UNCHANGED <<started, host, watchers, cancelled, inVars, outVars, call, crashed>>

-----------------------------------------------------------------------------
(* Protocols.                                                              *)

\* A new outlet with its worker, in the table.
MakeOutlet(c, p, a, x, i) ==
    /\ outlet[c] = None
    /\ outlet' = [outlet EXCEPT ![c] = [to |-> p, proto |-> a, ctx |-> x, into |-> i]]
    /\ worker' = [worker EXCEPT ![c] = "run"]
    /\ outs' = [outs EXCEPT ![p][a] = c]
    /\ UNCHANGED <<queued, outClosed>>

\* The inlet is connected to the node's own outlet, unless there is one already.
Open(x, a) ==
    /\ Alive /\ started /\ ins[a] = None
    /\ \E i \in Inlets :
        /\ inlet[i] = None
        /\ inlet' = [inlet EXCEPT ![i] = [proto |-> a, ctx |-> x, host |-> host]]
        /\ ins' = [ins EXCEPT ![a] = i]
        /\ handled' = handled \cup {i}
        /\ IF outs[Self][a] = None
           THEN \E c \in Outlets : MakeOutlet(c, Self, a, x, i)
           ELSE UNCHANGED outVars
    /\ UNCHANGED <<hostVars, arrived, inClosed, handler, call, cleaning, crashed>>

CloseKeepingSelf(a) ==  \* mutant: the node's own outlet stays in the table
    /\ Alive /\ started /\ ins[a] # None
    /\ inClosed' = inClosed \cup {ins[a]}
    /\ handled' = handled \ {ins[a]}
    /\ ins' = [ins EXCEPT ![a] = None]
    /\ outClosed' = outClosed \cup ({outs[Self][a]} \ {None})
    /\ UNCHANGED <<hostVars, inlet, arrived, handler, outs, outlet, queued, worker,
                   call, cleaning, crashed>>
Close(a) ==
    /\ Alive /\ started /\ ins[a] # None
    /\ inClosed' = inClosed \cup {ins[a]}
    /\ handled' = handled \ {ins[a]}
    /\ ins' = [ins EXCEPT ![a] = None]
    /\ outClosed' = outClosed \cup ({outs[Self][a]} \ {None})
    /\ outs' = [outs EXCEPT ![Self][a] = None]
    /\ UNCHANGED <<hostVars, inlet, arrived, handler, outlet, queued, worker, call, cleaning, crashed>>

-----------------------------------------------------------------------------
(* Receiving.                                                              *)

\* A node opens a stream.
StreamComes(i) ==
    /\ Alive /\ i \in handled /\ hosts[inlet[i].host] \in {"open", "closing"}
    /\ handler[i] = "none"
    /\ handler' = [handler EXCEPT ![i] = "reading"]
    /\ UNCHANGED <<hostVars, ins, inlet, arrived, inClosed, handled, outVars, call, cleaning, crashed>>

HandlerReads(i) ==
    /\ Alive /\ handler[i] = "reading"
    /\ hosts[inlet[i].host] \in {"open", "closing"}
    /\ handler' = [handler EXCEPT ![i] = "holding"]
    /\ UNCHANGED <<hostVars, ins, inlet, arrived, inClosed, handled, outVars, call, cleaning, crashed>>

\* The message is put into the inlet, or dropped if that is full.
HandlerPuts(i) ==
    /\ Alive /\ handler[i] = "holding"
    /\ IF i \in inClosed
       THEN Crash("receive")
       ELSE /\ arrived' = [arrived EXCEPT ![i] = IF @ < InsLength THEN @ + 1 ELSE @]
            /\ handler' = [handler EXCEPT ![i] = "reading"]
            /\ UNCHANGED <<hostVars, ins, inlet, inClosed, handled, outVars, call, cleaning, crashed>>

\* The stream has ended, or the context of Open.
HandlerEnds(i) ==
    /\ Alive
    /\ \/ handler[i] = "reading"
       \/ handler[i] = "holding" /\ inlet[i].ctx \in cancelled
    /\ handler' = [handler EXCEPT ![i] = "none"]
    /\ UNCHANGED <<hostVars, ins, inlet, arrived, inClosed, handled, outVars, call, cleaning, crashed>>

\* Who got the inlet from Incoming receives a message.
Receive(i) ==
    /\ Alive /\ arrived[i] > 0
    /\ arrived' = [arrived EXCEPT ![i] = @ - 1]
    /\ UNCHANGED <<hostVars, ins, inlet, inClosed, handled, handler, outVars, call, cleaning, crashed>>

-----------------------------------------------------------------------------
(* Sending.                                                                *)

BeginSend(s, x, p, a) ==
    /\ Alive /\ host # None /\ call[s] = Idle
    /\ call' = [call EXCEPT ![s] = [todo |-> {p}, proto |-> a, ctx |-> x, ch |-> None]]
    /\ UNCHANGED <<hostVars, inVars, outVars, cleaning, crashed>>

\* Publish sends to the nodes that the host knows when it is called.
BeginPublish(s, x, a) ==
    /\ Alive /\ host # None /\ call[s] = Idle
    /\ \E ps \in SUBSET Peers \ {{}} :
        call' = [call EXCEPT ![s] = [todo |-> ps, proto |-> a, ctx |-> x, ch |-> None]]
    /\ UNCHANGED <<hostVars, inVars, outVars, cleaning, crashed>>

\* Under the lock Send finds the outlet, or makes it.
GetOrCreateOutChannel(s) ==
    /\ Alive /\ call[s].ch = None
    /\ \E p \in call[s].todo, c \in Outlets :
        /\ LET a == call[s].proto IN
           \/ outs[p][a] = c /\ UNCHANGED outVars
           \/ outs[p][a] = None /\ MakeOutlet(c, p, a, call[s].ctx, None)
        /\ call' = [call EXCEPT ![s].todo = @ \ {p}, ![s].ch = c]
    /\ UNCHANGED <<hostVars, inVars, cleaning, crashed>>

Returned(s) == IF call[s].todo = {} THEN Idle ELSE [call[s] EXCEPT !.ch = None]

PutPastRoom(s) ==  \* mutant: one message more than there is room for
    LET c == call[s].ch IN
    /\ Alive /\ c # None /\ c \notin outClosed /\ queued[c] <= OutsLength
    /\ queued' = [queued EXCEPT ![c] = @ + 1]
    /\ call' = [call EXCEPT ![s] = Returned(s)]
    /\ UNCHANGED <<hostVars, inVars, outs, outlet, outClosed, worker, cleaning, crashed>>
\* Without the lock Send puts the message into it, or returns an error.
Put(s) ==
    LET c == call[s].ch IN
    /\ Alive /\ c # None
    /\ \/ /\ c \in outClosed
          /\ Crash("send")
       \/ /\ c \notin outClosed /\ queued[c] < OutsLength
          /\ queued' = [queued EXCEPT ![c] = @ + 1]
          /\ call' = [call EXCEPT ![s] = Returned(s)]
          /\ UNCHANGED <<hostVars, inVars, outs, outlet, outClosed, worker, cleaning, crashed>>
       \/ /\ \/ call[s].ctx \in cancelled
             \/ c \notin outClosed /\ queued[c] = OutsLength
          /\ call' = [call EXCEPT ![s] = Returned(s)]
          /\ UNCHANGED <<hostVars, inVars, outVars, cleaning, crashed>>

-----------------------------------------------------------------------------
(* The workers of the outlets, sendWorker and selfSendWorker.              *)

Take(c) ==
    /\ Alive /\ worker[c] = "run" /\ queued[c] > 0
    /\ outlet[c].to \notin Undecodable
    /\ queued' = [queued EXCEPT ![c] = @ - 1]
    /\ worker' = [worker EXCEPT ![c] = "hold"]
    /\ UNCHANGED <<hostVars, inVars, outs, outlet, outClosed, call, cleaning, crashed>>

\* The message is written to a stream, or lost with it.
Write(c) ==
    /\ Alive /\ worker[c] = "hold" /\ outlet[c].into = None
    /\ worker' = [worker EXCEPT ![c] = "run"]
    /\ UNCHANGED <<hostVars, inVars, outs, outlet, queued, outClosed, call, cleaning, crashed>>

\* The node's own worker puts the message into the inlet, or drops it.
Loop(c) ==
    LET i == outlet[c].into IN
    /\ Alive /\ worker[c] = "hold" /\ i # None
    /\ IF i \in inClosed
       THEN Crash("self")
       ELSE /\ arrived[i] < InsLength \/ outlet[c].ctx \notin cancelled
            /\ arrived' = [arrived EXCEPT ![i] = IF @ < InsLength THEN @ + 1 ELSE @]
            /\ worker' = [worker EXCEPT ![c] = "run"]
            /\ UNCHANGED <<hostVars, ins, inlet, inClosed, handled, handler,
                           outs, outlet, queued, outClosed, call, cleaning, crashed>>

EndsCancelled(c) ==  \* mutant: a closed outlet is received from for ever
    /\ worker[c] = "run"
    /\ outlet[c].ctx \in cancelled \/ outlet[c].to \in Undecodable
EndsUndrained(c) ==  \* mutant: a worker whose outlet is closed leaves what is in it
    /\ worker[c] = "run"
    /\ outlet[c].ctx \in cancelled \/ c \in outClosed \/ outlet[c].to \in Undecodable
Ends(c) ==
    /\ worker[c] = "run"
    /\ \/ outlet[c].ctx \in cancelled
       \/ c \in outClosed /\ queued[c] = 0
       \/ outlet[c].to \in Undecodable

\* The node's own worker just ends, even while it holds a message.  Others have
\* their outlet to remove.
WorkerEnds(c) ==
    /\ Alive
    /\ \/ Ends(c)
       \/ worker[c] = "hold" /\ outlet[c].into # None /\ outlet[c].ctx \in cancelled
    /\ worker' = [worker EXCEPT ![c] = IF outlet[c].into = None THEN "remove" ELSE "ended"]
    /\ UNCHANGED <<hostVars, inVars, outs, outlet, queued, outClosed, call, cleaning, crashed>>

\* Whatever outlet the table has for the node and the protocol by now.
RemoveOutChannel(c) ==
    /\ Alive /\ worker[c] = "remove"
    /\ outs' = [outs EXCEPT ![outlet[c].to][outlet[c].proto] = None]
    /\ worker' = [worker EXCEPT ![c] = "ended"]
    /\ UNCHANGED <<hostVars, inVars, outlet, queued, outClosed, call, cleaning, crashed>>

-----------------------------------------------------------------------------
(* Disconnections.                                                         *)

Disconnect(p) ==
    /\ Alive
    /\ \E h \in Hosts : hosts[h] \in {"open", "closing"}
    /\ cleaning[p] < MaxCleaning
    /\ cleaning' = [cleaning EXCEPT ![p] = @ + 1]
    /\ UNCHANGED <<hostVars, inVars, outVars, call, crashed>>

CleanKeepingEntries(p) ==  \* mutant: closed outlets stay in the table
    /\ Alive /\ cleaning[p] > 0
    /\ cleaning' = [cleaning EXCEPT ![p] = @ - 1]
    /\ outClosed' = outClosed \cup OutletsOf({p})
    /\ UNCHANGED <<hostVars, inVars, outs, outlet, queued, worker, call, crashed>>
CleanOutboundChannels(p) ==
    /\ Alive /\ cleaning[p] > 0
    /\ cleaning' = [cleaning EXCEPT ![p] = @ - 1]
    /\ outClosed' = outClosed \cup OutletsOf({p})
    /\ outs' = OutsWithout({p})
    /\ UNCHANGED <<hostVars, inVars, outlet, queued, worker, call, crashed>>

-----------------------------------------------------------------------------
Work(c) == Take(c) \/ Write(c) \/ Loop(c) \/ WorkerEnds(c) \/ RemoveOutChannel(c)

Next ==
    \/ \E x \in Contexts : Start(x) \/ Cancel(x)
    \/ Stop \/ (\E w \in watchers : AutoStop(w)) \/ (\E h \in Hosts : CloseHost(h))
    \/ \E a \in Protocols : Close(a) \/ (\E x \in Contexts : Open(x, a))
    \/ \E i \in Inlets :
        StreamComes(i) \/ HandlerReads(i) \/ HandlerPuts(i) \/ HandlerEnds(i) \/ Receive(i)
    \/ \E s \in Callers, x \in Contexts, a \in Protocols :
        BeginPublish(s, x, a) \/ (\E p \in Nodes : BeginSend(s, x, p, a))
    \/ \E s \in Callers : GetOrCreateOutChannel(s) \/ Put(s)
    \/ \E c \in Outlets : Work(c)
    \/ \E p \in Peers : Disconnect(p) \/ CleanOutboundChannels(p)

Spec == Init /\ [][Next]_vars

\* Goroutines run, and a write to a stream returns.
Fairness ==
    /\ \A c \in Outlets : WF_vars(Work(c))
LiveSpec == Spec /\ Fairness

-----------------------------------------------------------------------------
(* What the transport promises.                                            *)

HostTypes ==
    /\ started \in BOOLEAN /\ host \in Hosts \cup {None} /\ (started => host \in Hosts)
    /\ hosts \in [Hosts -> {"unused", "open", "closing", "closed"}]
    /\ watchers \subseteq Hosts \X Contexts /\ cancelled \subseteq Cancellable
InTypes ==
    /\ ins \in [Protocols -> Inlets \cup {None}]
    /\ inlet \in [Inlets -> InletInfo \cup {None}] /\ arrived \in [Inlets -> 0 .. InsLength]
    /\ inClosed \subseteq Inlets /\ handled \subseteq Inlets
    /\ handler \in [Inlets -> {"none", "reading", "holding"}]
OutTypes ==
    /\ outs \in [Nodes -> [Protocols -> Outlets \cup {None}]]
    /\ outlet \in [Outlets -> OutletInfo \cup {None}] /\ queued \in [Outlets -> 0 .. OutsLength]
    /\ outClosed \subseteq Outlets
    /\ worker \in [Outlets -> {"none", "run", "hold", "remove", "ended"}]
Call == [todo : SUBSET Nodes, proto : Protocols \cup {None},
         ctx : Contexts \cup {None}, ch : Outlets \cup {None}]

TransportTypeOK ==
    /\ HostTypes /\ InTypes /\ OutTypes
    /\ call \in [Callers -> Call]
    /\ cleaning \in [Peers -> 0 .. MaxCleaning]
    /\ crashed \in {"no", "send", "receive", "self"}

\* What the tables hold is open and was made for its place.  Stop, Close and the clean-up
\* close what they find there, and nothing can be closed twice.
TablesAreOpen ==
    /\ \A a \in Protocols : ins[a] # None =>
           ins[a] \notin inClosed /\ inlet[ins[a]] # None /\ inlet[ins[a]].proto = a
    /\ \A p \in Nodes, a \in Protocols : outs[p][a] # None =>
           LET c == outs[p][a] IN
           c \notin outClosed /\ outlet[c] # None /\ outlet[c].to = p /\ outlet[c].proto = a

\* An outlet to another node that Send can find has a worker, or one that is about to take
\* it out of the table.
NoDeadOutlet ==
    \A p \in Nodes, a \in Protocols :
        LET c == outs[p][a] IN
        c # None /\ outlet[c].into = None => worker[c] \in {"run", "hold", "remove"}

\* Whatever is closed, removed and made anew: a message that Send has accepted has somebody
\* to write it, unless the context of the one who made the outlet is cancelled.
AcceptedIsServed ==
    \A c \in Outlets :
        queued[c] > 0 /\ outlet[c].ctx \notin cancelled /\ outlet[c].to \notin Undecodable =>
            worker[c] \in {"run", "hold"}

\* The node's own outlet, where it leads to an inlet, leads to the one that is open.
SelfLeadsHome ==
    \A a \in Protocols :
        LET c == outs[Self][a] IN
        c # None /\ outlet[c].into # None => outlet[c].into = ins[a]

\* The worker of an outlet that was closed empties it and ends.
ClosedOutletsEnd ==
    \A c \in Outlets : c \in outClosed ~> worker[c] = "ended" \/ crashed # "no"

-----------------------------------------------------------------------------
(* What a comment says and the code does not do; TLC shows how.            *)

\* "Close removes the stream handler for the given protocol and stops receiving messages on
\* that protocol" (host.go:200): while the transport runs, where only Close closes inlets,
\* no handler puts a message into a closed one.
CloseStopsReceiving == started => crashed # "receive"

=============================================================================
