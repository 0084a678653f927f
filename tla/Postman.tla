------------------------------ MODULE Postman ------------------------------
(***************************************************************************)
(* The postman of one node, around its event bus: TaskPostman              *)
(* (internal/task_management_layer/task_postman/postman.go).  A watch is a *)
(* goroutine that hands the events of a topic to a handler, which may      *)
(* publish in turn; a delivery is one that publishes what comes in from    *)
(* the network.                                                            *)
(***************************************************************************)
EXTENDS EventBus

CONSTANTS
    Watches,      \* the calls of Watch,
    Deliveries    \* and of Deliver

ASSUME PostmanAssumption == Watches \cup Deliveries \subseteq Publishers

VARIABLES
    watch,        \* "none", "called", "waiting", "handling" or "ended"
    chan,         \* the channel of each watch
    delivery,     \* "none", "waiting", "publishing" or "ended"
    cancels,      \* the watches that Stop cancels
    cancelled,    \* those whose context has ended
    stop          \* "no", "waiting" or "returned"

postmanVars == <<watch, chan, delivery, cancels, cancelled, stop>>
vars == <<busVars, postmanVars>>

Init ==
    /\ BusInit
    /\ watch = [w \in Watches |-> "none"] /\ chan = [w \in Watches |-> None]
    /\ delivery = [d \in Deliveries |-> "none"]
    /\ cancels = {} /\ cancelled = {} /\ stop = "no"

-----------------------------------------------------------------------------
(* Watch.                                                                  *)

\* Components begin to watch before the postman is stopped.
Watch(w) ==
    /\ Alive /\ stop = "no" /\ watch[w] = "none"
    /\ watch' = [watch EXCEPT ![w] = "called"]
    /\ cancels' = cancels \cup {w}
    /\ UNCHANGED <<busVars, chan, delivery, cancelled, stop>>

WatchSubscribes(w, t) ==
    /\ watch[w] = "called"
    /\ \E c \in Chans : Subscribe(c, t) /\ chan' = [chan EXCEPT ![w] = c]
    /\ watch' = [watch EXCEPT ![w] = "waiting"]
    /\ UNCHANGED <<delivery, cancels, cancelled, stop>>

Handle(w) ==
    /\ watch[w] = "waiting" /\ Receive(chan[w])
    /\ watch' = [watch EXCEPT ![w] = "handling"]
    /\ UNCHANGED <<chan, delivery, cancels, cancelled, stop>>

HandlerPublishes(w, t) ==
    /\ watch[w] = "handling" /\ BeginPublish(w, t)
    /\ UNCHANGED postmanVars

HandlerReturns(w) ==
    /\ Alive /\ watch[w] = "handling" /\ publishing[w] = None
    /\ watch' = [watch EXCEPT ![w] = "waiting"]
    /\ UNCHANGED <<busVars, chan, delivery, cancels, cancelled, stop>>

WatchEnds(w) ==
    /\ Alive /\ watch[w] = "waiting"
    /\ \/ w \in cancelled
       \/ chan[w] \in closed /\ buffer[chan[w]] = <<>>
    /\ watch' = [watch EXCEPT ![w] = "ended"]
    /\ UNCHANGED <<busVars, chan, delivery, cancels, cancelled, stop>>

-----------------------------------------------------------------------------
(* Deliver.                                                                *)

Deliver(d) ==
    /\ Alive /\ delivery[d] = "none"
    /\ delivery' = [delivery EXCEPT ![d] = "waiting"]
    /\ UNCHANGED <<busVars, watch, chan, cancels, cancelled, stop>>

\* A message has come in.
DeliveryPublishes(d, t) ==
    /\ delivery[d] = "waiting" /\ BeginPublish(d, t)
    /\ delivery' = [delivery EXCEPT ![d] = "publishing"]
    /\ UNCHANGED <<watch, chan, cancels, cancelled, stop>>

Delivered(d) ==
    /\ Alive /\ delivery[d] = "publishing" /\ publishing[d] = None
    /\ delivery' = [delivery EXCEPT ![d] = "waiting"]
    /\ UNCHANGED <<busVars, watch, chan, cancels, cancelled, stop>>

\* Its context has ended, or the transport has closed the protocol.
DeliveryEnds(d) ==
    /\ Alive /\ delivery[d] = "waiting"
    /\ delivery' = [delivery EXCEPT ![d] = "ended"]
    /\ UNCHANGED <<busVars, watch, chan, cancels, cancelled, stop>>

-----------------------------------------------------------------------------
(* Stop, and what others do.                                               *)

\* The context that all of them were given ends.
Cancel ==
    /\ Alive /\ cancelled # Watches \cup Deliveries
    /\ cancelled' = Watches \cup Deliveries
    /\ UNCHANGED <<busVars, watch, chan, delivery, cancels, stop>>

\* Stop does not cancel the deliveries.
StopForgetting ==  \* mutant: only the watches that already wait are cancelled
    /\ Alive /\ stop = "no"
    /\ stop' = "waiting"
    /\ cancelled' = cancelled \cup {w \in cancels : watch[w] = "waiting"}
    /\ UNCHANGED <<busVars, watch, chan, delivery, cancels>>
Stop ==
    /\ Alive /\ stop = "no"
    /\ stop' = "waiting"
    /\ cancelled' = cancelled \cup cancels
    /\ UNCHANGED <<busVars, watch, chan, delivery, cancels>>

Running == {w \in Watches : watch[w] \in {"waiting", "handling"}}
           \cup {d \in Deliveries : delivery[d] \in {"waiting", "publishing"}}

StopReturns ==
    /\ Alive /\ stop = "waiting" /\ Running = {}
    /\ stop' = "returned"
    /\ UNCHANGED <<busVars, watch, chan, delivery, cancels, cancelled>>

Others == Publishers \ (Watches \cup Deliveries)
Watched == {chan[w] : w \in Watches}

\* Others use the bus directly.
DirectUse ==
    /\ \/ \E c \in Chans, t \in Topics : Subscribe(c, t)
       \/ \E c \in Chans \ Watched : UnSubscribe(c) \/ Receive(c)
       \/ Release
       \/ \E p \in Others, t \in Topics : BeginPublish(p, t)
    /\ UNCHANGED postmanVars

Publication(p) == Publishes(p) /\ UNCHANGED postmanVars
Watching(w) == Handle(w) \/ HandlerReturns(w) \/ WatchEnds(w)

Next ==
    \/ \E w \in Watches :
        Watch(w) \/ Watching(w) \/ \E t \in Topics : WatchSubscribes(w, t) \/ HandlerPublishes(w, t)
    \/ \E d \in Deliveries :
        Deliver(d) \/ Delivered(d) \/ DeliveryEnds(d) \/ \E t \in Topics : DeliveryPublishes(d, t)
    \/ Cancel \/ Stop \/ StopReturns \/ DirectUse
    \/ \E p \in Publishers : Publication(p)

\* Goroutines run, and handlers return.
Fairness ==
    /\ \A p \in Publishers : WF_vars(Publication(p))
    /\ \A w \in Watches : WF_vars(Watching(w))
    /\ \A d \in Deliveries : WF_vars(Delivered(d)) /\ WF_vars(d \in cancelled /\ DeliveryEnds(d))
    /\ WF_vars(StopReturns)

Spec == Init /\ [][Next]_vars /\ Fairness

-----------------------------------------------------------------------------
(* What the postman promises.                                              *)

PostmanTypeOK ==
    /\ BusTypeOK
    /\ watch \in [Watches -> {"none", "called", "waiting", "handling", "ended"}]
    /\ chan \in [Watches -> Chans \cup {None}]
    /\ delivery \in [Deliveries -> {"none", "waiting", "publishing", "ended"}]
    /\ cancels \subseteq Watches /\ cancelled \subseteq Watches \cup Deliveries
    /\ stop \in {"no", "waiting", "returned"}

\* Stop returns, though handlers go on publishing to each other's topics and watches are
\* still about to subscribe, unless a delivery is left that only its own context ends.
StopDoesReturn ==
    stop = "waiting" ~> \/ stop = "returned" \/ crashed
                        \/ \E d \in Deliveries : delivery[d] # "none" /\ d \notin cancelled

=============================================================================
