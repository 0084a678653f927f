-------------------------- MODULE TransportProofs --------------------------
(***************************************************************************)
(* Theorems about Transport, for any number of nodes, protocols, callers   *)
(* and channels of any length, checked by TLAPS.                           *)
(***************************************************************************)
EXTENDS Transport, TLAPS

\* A channel that has not been made is nowhere.
UnusedAreUnused ==
    /\ \A c \in Outlets : outlet[c] = None => queued[c] = 0 /\ c \notin outClosed
    /\ \A i \in Inlets : inlet[i] = None => i \notin inClosed
    /\ \A s \in Callers : call[s].ch # None => outlet[call[s].ch] # None
    /\ \A c \in Outlets : worker[c] # "none" => outlet[c] # None

\* The worker of an outlet that is open works, unless its context or its node is at fault.
OpenIsServed ==
    \A c \in Outlets :
        outlet[c] # None /\ c \notin outClosed /\ outlet[c].ctx \notin cancelled
            /\ outlet[c].to \notin Undecodable => worker[c] \in {"run", "hold"}

\* A caller that has somebody left to send to has a protocol and a context.
CallsAreMeant ==
    \A s \in Callers : call[s].todo # {} => call[s].proto \in Protocols /\ call[s].ctx \in Contexts

TransportInv ==
    /\ TransportTypeOK /\ UnusedAreUnused /\ CallsAreMeant /\ TablesAreOpen
    /\ NoDeadOutlet /\ OpenIsServed /\ AcceptedIsServed /\ SelfLeadsHome

-----------------------------------------------------------------------------
\* Nothing is made at first.
LEMMA InitTransportInv == Init => TransportInv
<1> SUFFICES ASSUME Init PROVE TransportInv
  OBVIOUS
<1>1. TransportTypeOK
  <2>1. 0 \in 0 .. InsLength /\ 0 \in 0 .. OutsLength /\ 0 \in 0 .. MaxCleaning
    BY TransportAssumption
  <2>2. HostTypes
    BY DEF Init, HostTypes
  <2>3. InTypes
    BY <2>1 DEF Init, InTypes
  <2>4. OutTypes
    BY <2>1 DEF Init, OutTypes
  <2>5. call \in [Callers -> Call]
    BY DEF Init, Idle, Call
  <2>6. cleaning \in [Peers -> 0 .. MaxCleaning] /\ crashed = "no"
    BY <2>1 DEF Init
  <2> QED
    BY <2>2, <2>3, <2>4, <2>5, <2>6 DEF TransportTypeOK
<1>2. UnusedAreUnused /\ CallsAreMeant
  BY DEF Init, UnusedAreUnused, CallsAreMeant, Idle
<1>3. TablesAreOpen /\ NoDeadOutlet /\ SelfLeadsHome
  <2>1. \A a \in Protocols : ins[a] = None
    BY DEF Init
  <2>2. \A p \in Nodes : \A a \in Protocols : outs[p][a] = None
    BY DEF Init
  <2>3. Self \in Nodes
    BY DEF Nodes
  <2> QED
    BY <2>1, <2>2, <2>3 DEF TablesAreOpen, NoDeadOutlet, SelfLeadsHome
<1>4. OpenIsServed /\ AcceptedIsServed
  BY DEF Init, OpenIsServed, AcceptedIsServed
<1> QED
  BY <1>1, <1>2, <1>3, <1>4 DEF TransportInv

-----------------------------------------------------------------------------
(* Types.                                                                  *)

\* What the tables hold of some nodes, and what is left without them.
LEMMA Without ==
    ASSUME OutTypes, NEW ps \in SUBSET Nodes
    PROVE  /\ OutletsOf(ps) \subseteq Outlets
           /\ OutsWithout(ps) \in [Nodes -> [Protocols -> Outlets \cup {None}]]
           /\ \A p \in Nodes, a \in Protocols :
                  OutsWithout(ps)[p][a] = IF p \in ps THEN None ELSE outs[p][a]
           /\ \A p \in ps, a \in Protocols : outs[p][a] # None => outs[p][a] \in OutletsOf(ps)
           /\ \A c \in OutletsOf(ps) : \E p \in ps, a \in Protocols : outs[p][a] = c
<1>1. \A p \in Nodes : \A a \in Protocols : outs[p][a] \in Outlets \cup {None}
  BY DEF OutTypes
<1>2. OutletsOf(ps) \subseteq Outlets
  BY <1>1 DEF OutletsOf
<1>3. /\ OutsWithout(ps) \in [Nodes -> [Protocols -> Outlets \cup {None}]]
      /\ \A p \in Nodes, a \in Protocols :
             OutsWithout(ps)[p][a] = IF p \in ps THEN None ELSE outs[p][a]
  BY <1>1 DEF OutsWithout, OutTypes
<1>4. /\ \A p \in ps, a \in Protocols : outs[p][a] # None => outs[p][a] \in OutletsOf(ps)
      /\ \A c \in OutletsOf(ps) : \E p \in ps, a \in Protocols : outs[p][a] = c
  BY DEF OutletsOf
<1> QED
  BY <1>2, <1>3, <1>4

\* A new outlet is a worker's, in its place of the table, and nothing else is new.
LEMMA Making ==
    ASSUME OutTypes, NEW c \in Outlets, NEW p \in Nodes, NEW a \in Protocols,
           NEW x \in Contexts, NEW i \in Inlets \cup {None}, MakeOutlet(c, p, a, x, i)
    PROVE  /\ OutTypes'
           /\ outlet'[c] = [to |-> p, proto |-> a, ctx |-> x, into |-> i]
           /\ outlet'[c] # None /\ worker'[c] = "run" /\ outs'[p][a] = c
           /\ \A d \in Outlets \ {c} : outlet'[d] = outlet[d] /\ worker'[d] = worker[d]
           /\ \A q \in Nodes, b \in Protocols : q # p \/ b # a => outs'[q][b] = outs[q][b]
           /\ outlet[c] = None /\ queued' = queued /\ outClosed' = outClosed
<1> DEFINE info == [to |-> p, proto |-> a, ctx |-> x, into |-> i]
<1>1. info \in OutletInfo
  BY DEF OutletInfo
<1>2. info # None
  BY <1>1, TransportAssumption
<1>3. /\ outlet' = [outlet EXCEPT ![c] = info] /\ worker' = [worker EXCEPT ![c] = "run"]
      /\ outs' = [outs EXCEPT ![p][a] = c]
      /\ outlet[c] = None /\ queued' = queued /\ outClosed' = outClosed
  BY DEF MakeOutlet
<1> HIDE DEF info
<1>4. OutTypes'
  <2>1. outs' \in [Nodes -> [Protocols -> Outlets \cup {None}]]
    BY <1>3 DEF OutTypes
  <2> QED
    BY <1>1, <1>3, <2>1 DEF OutTypes
<1>5. /\ outlet'[c] = info /\ worker'[c] = "run" /\ outs'[p][a] = c
      /\ \A d \in Outlets \ {c} : outlet'[d] = outlet[d] /\ worker'[d] = worker[d]
      /\ \A q \in Nodes, b \in Protocols : q # p \/ b # a => outs'[q][b] = outs[q][b]
  BY <1>3 DEF OutTypes
<1> QED
  BY <1>2, <1>3, <1>4, <1>5 DEF info

\* The types of a call that has found its outlet or returns.
LEMMA CallTypes ==
    ASSUME call \in [Callers -> Call], NEW s \in Callers
    PROVE  /\ \A c \in Outlets, p \in call[s].todo :
                  [call[s] EXCEPT !.todo = @ \ {p}, !.ch = c] \in Call
           /\ Returned(s) \in Call
BY DEF Returned, Idle, Call

\* A call that is begun, or returns, or goes on to the next node, is meant, and has the
\* outlet that it had or none.
LEMMA Returning ==
    ASSUME TransportInv, NEW s \in Callers, call' = [call EXCEPT ![s] = Returned(s)],
           UNCHANGED outlet
    PROVE  /\ call' \in [Callers -> Call]
           /\ \A r \in Callers : call'[r].ch # None => outlet'[call'[r].ch] # None
           /\ CallsAreMeant'
<1>1. call \in [Callers -> Call]
  BY DEF TransportInv, TransportTypeOK
<1>2. Returned(s) \in Call /\ Returned(s).ch = None
  BY <1>1, CallTypes DEF Returned, Idle, Call
<1>3. Returned(s).todo # {} => Returned(s).proto \in Protocols /\ Returned(s).ctx \in Contexts
  BY <1>1 DEF Returned, Idle, Call, TransportInv, CallsAreMeant
<1>4. \A r \in Callers : call'[r] = IF r = s THEN Returned(s) ELSE call[r]
  BY <1>1
<1>5. \A r \in Callers : call[r].ch # None => outlet[call[r].ch] # None
  BY DEF TransportInv, UnusedAreUnused
<1>6. CallsAreMeant'
  BY <1>3, <1>4 DEF CallsAreMeant, TransportInv
<1> QED
  BY <1>1, <1>2, <1>4, <1>5, <1>6

\* The invariant but for its types speaks of these variables only.
LEMMA Untouched ==
    ASSUME TransportInv, TransportTypeOK', CallsAreMeant',
           UNCHANGED <<cancelled, ins, inlet, inClosed, outVars>>,
           \A s \in Callers : call'[s].ch # None => outlet'[call'[s].ch] # None
    PROVE  TransportInv'
<1>1. UnusedAreUnused'
  BY DEF TransportInv, UnusedAreUnused, outVars
<1>2. TablesAreOpen' /\ NoDeadOutlet' /\ SelfLeadsHome'
  BY DEF TransportInv, TablesAreOpen, NoDeadOutlet, SelfLeadsHome, outVars
<1>3. OpenIsServed' /\ AcceptedIsServed'
  BY DEF TransportInv, OpenIsServed, AcceptedIsServed, outVars
<1> QED
  BY <1>1, <1>2, <1>3 DEF TransportInv

\* Nor does it speak of who is called, while no call changes.
LEMMA CallsKept ==
    ASSUME TransportInv, UNCHANGED call
    PROVE  /\ CallsAreMeant'
           /\ UNCHANGED outlet => \A s \in Callers : call'[s].ch # None => outlet'[call'[s].ch] # None
BY DEF TransportInv, CallsAreMeant, UnusedAreUnused

-----------------------------------------------------------------------------
(* Hosts, handlers and callers that leave the channels as they are.        *)

\* Starting, losing a host and losing a peer touch no table.
LEMMA HostsKeep ==
    ASSUME TransportInv,
           \/ \E x \in Contexts : Start(x)
           \/ \E h \in Hosts : CloseHost(h)
           \/ \E p \in Peers : Disconnect(p)
    PROVE  TransportInv'
<1> USE DEF hostVars, inVars, outVars
<1> TransportTypeOK
  BY DEF TransportInv
<1>1. ASSUME NEW x \in Contexts, Start(x) PROVE TransportTypeOK'
  BY <1>1 DEF Start, TransportTypeOK, HostTypes, InTypes, OutTypes
<1>2. ASSUME NEW h \in Hosts, CloseHost(h) PROVE TransportTypeOK'
  <2>1. HostTypes' /\ InTypes' /\ OutTypes'
    BY <1>2 DEF CloseHost, TransportTypeOK, HostTypes, InTypes, OutTypes
  <2>2. cleaning' \in [Peers -> 0 .. MaxCleaning]
    BY <1>2, TransportAssumption DEF CloseHost, TransportTypeOK
  <2> QED
    BY <1>2, <2>1, <2>2 DEF CloseHost, TransportTypeOK
<1>3. ASSUME NEW p \in Peers, Disconnect(p) PROVE TransportTypeOK'
  <2>1. cleaning' \in [Peers -> 0 .. MaxCleaning]
    BY <1>3, TransportAssumption DEF Disconnect, TransportTypeOK
  <2> QED
    BY <1>3, <2>1 DEF Disconnect, TransportTypeOK, HostTypes, InTypes, OutTypes
<1>4. TransportTypeOK'
  BY <1>1, <1>2, <1>3
<1>5. UNCHANGED <<call, cancelled, ins, inlet, inClosed, outVars>>
  BY DEF Start, CloseHost, Disconnect
<1> QED
  BY <1>4, <1>5, Untouched, CallsKept

\* What goes on at an inlet touches no outlet.
LEMMA InletsKeep ==
    ASSUME TransportInv, NEW i \in Inlets,
           StreamComes(i) \/ HandlerReads(i) \/ HandlerPuts(i) \/ HandlerEnds(i) \/ Receive(i)
    PROVE  TransportInv'
<1> USE DEF hostVars, inVars, outVars
<1>1. arrived \in [Inlets -> 0 .. InsLength] /\ handler \in [Inlets -> {"none", "reading", "holding"}]
  BY DEF TransportInv, TransportTypeOK, InTypes
<1>2. arrived' \in [Inlets -> 0 .. InsLength]
  <2>1. CASE HandlerPuts(i)
    BY <1>1, <2>1, TransportAssumption DEF HandlerPuts, Crash
  <2>2. CASE Receive(i)
    BY <1>1, <2>2, TransportAssumption DEF Receive
  <2>3. CASE StreamComes(i) \/ HandlerReads(i) \/ HandlerEnds(i)
    BY <1>1, <2>3 DEF StreamComes, HandlerReads, HandlerEnds
  <2> QED
    BY <2>1, <2>2, <2>3
<1>3. handler' \in [Inlets -> {"none", "reading", "holding"}]
  BY <1>1 DEF StreamComes, HandlerReads, HandlerPuts, HandlerEnds, Receive, Crash
<1>4. /\ UNCHANGED <<hostVars, ins, inlet, inClosed, handled, outVars, call, cleaning>>
      /\ crashed' \in {crashed, "receive"}
  BY DEF StreamComes, HandlerReads, HandlerPuts, HandlerEnds, Receive, Crash
<1>5. TransportTypeOK'
  BY <1>2, <1>3, <1>4 DEF TransportInv, TransportTypeOK, HostTypes, InTypes, OutTypes
<1> QED
  BY <1>4, <1>5, Untouched, CallsKept

\* A call begins with nodes to send to, a protocol and a context.
LEMMA BeginningKeeps ==
    ASSUME TransportInv, NEW s \in Callers, NEW x \in Contexts, NEW a \in Protocols,
           BeginPublish(s, x, a) \/ \E p \in Nodes : BeginSend(s, x, p, a)
    PROVE  TransportInv'
<1> USE DEF hostVars, inVars, outVars
<1>1. PICK ps \in SUBSET Nodes :
          call' = [call EXCEPT ![s] = [todo |-> ps, proto |-> a, ctx |-> x, ch |-> None]]
  <2>1. Peers \subseteq Nodes
    BY DEF Nodes, Peers
  <2> QED
    BY <2>1 DEF BeginPublish, BeginSend
<1> DEFINE begun == [todo |-> ps, proto |-> a, ctx |-> x, ch |-> None]
<1>2. begun \in Call /\ begun.ch = None /\ begun.proto = a /\ begun.ctx = x
  BY DEF Call
<1> HIDE DEF begun
<1>3. call \in [Callers -> Call] /\ call' = [call EXCEPT ![s] = begun]
  BY <1>1 DEF begun, TransportInv, TransportTypeOK
<1>4. call' \in [Callers -> Call] /\ \A r \in Callers : call'[r] = IF r = s THEN begun ELSE call[r]
  BY <1>2, <1>3
<1>5. UNCHANGED <<hostVars, inVars, outVars, cleaning, crashed>>
  BY DEF BeginPublish, BeginSend
<1>6. TransportTypeOK'
  BY <1>4, <1>5 DEF TransportInv, TransportTypeOK, HostTypes, InTypes, OutTypes
<1>7. CallsAreMeant'
  BY <1>2, <1>4 DEF TransportInv, CallsAreMeant
<1>8. \A r \in Callers : call'[r].ch # None => outlet'[call'[r].ch] # None
  BY <1>2, <1>4, <1>5 DEF TransportInv, UnusedAreUnused
<1> QED
  BY <1>5, <1>6, <1>7, <1>8, Untouched

-----------------------------------------------------------------------------
(* Cancelling and stopping.                                                *)

\* A context that ends leaves the tables alone.
LEMMA CancelKeeps ==
    ASSUME TransportInv, NEW x \in Contexts, Cancel(x)
    PROVE  TransportInv'
<1> USE DEF inVars, outVars
<1>1. cancelled \subseteq cancelled' /\ cancelled' \subseteq Cancellable
  BY DEF Cancel, TransportInv, TransportTypeOK, HostTypes
<1>2. UNCHANGED <<started, host, hosts, watchers, inVars, outVars, call, cleaning, crashed>>
  BY DEF Cancel
<1>3. TransportTypeOK'
  BY <1>1, <1>2 DEF TransportInv, TransportTypeOK, HostTypes, InTypes, OutTypes
<1>4. OpenIsServed' /\ AcceptedIsServed'
  BY <1>1, <1>2 DEF TransportInv, OpenIsServed, AcceptedIsServed
<1>5. UnusedAreUnused' /\ TablesAreOpen' /\ NoDeadOutlet' /\ SelfLeadsHome'
  BY <1>2 DEF TransportInv, UnusedAreUnused, TablesAreOpen, NoDeadOutlet, SelfLeadsHome
<1> QED
  BY <1>2, <1>3, <1>4, <1>5, CallsKept DEF TransportInv

\* Outlets may be closed and taken out of the table together, if nothing is done to those
\* that stay.
LEMMA ClosingOutlets ==
    ASSUME TransportInv, OutTypes', UNCHANGED <<outlet, queued, worker, cancelled>>,
           outClosed \subseteq outClosed',
           \A p \in Nodes, a \in Protocols :
               outs'[p][a] # None => outs'[p][a] = outs[p][a] /\ outs'[p][a] \notin outClosed',
           \A c \in outClosed' : outlet[c] # None
    PROVE  /\ NoDeadOutlet' /\ OpenIsServed' /\ AcceptedIsServed'
           /\ \A p \in Nodes, a \in Protocols : outs'[p][a] # None =>
                  LET c == outs'[p][a] IN
                  c \notin outClosed' /\ outlet'[c] # None /\ outlet'[c].to = p /\ outlet'[c].proto = a
           /\ \A c \in Outlets : outlet'[c] = None => queued'[c] = 0 /\ c \notin outClosed'
           /\ \A c \in Outlets : worker'[c] # "none" => outlet'[c] # None
<1>1. NoDeadOutlet'
  BY DEF TransportInv, NoDeadOutlet
<1>2. OpenIsServed' /\ AcceptedIsServed'
  BY DEF TransportInv, OpenIsServed, AcceptedIsServed
<1>3. \A p \in Nodes, a \in Protocols : outs'[p][a] # None =>
          LET c == outs'[p][a] IN
          c \notin outClosed' /\ outlet'[c] # None /\ outlet'[c].to = p /\ outlet'[c].proto = a
  BY DEF TransportInv, TablesAreOpen
<1>4. /\ \A c \in Outlets : outlet'[c] = None => queued'[c] = 0 /\ c \notin outClosed'
      /\ \A c \in Outlets : worker'[c] # "none" => outlet'[c] # None
  BY DEF TransportInv, UnusedAreUnused
<1> QED
  BY <1>1, <1>2, <1>3, <1>4

\* What the tables hold has been made.
LEMMA HeldIsMade ==
    ASSUME TransportInv, NEW ps \in SUBSET Nodes
    PROVE  \A c \in OutletsOf(ps) : outlet[c] # None
<1>1. OutTypes
  BY DEF TransportInv, TransportTypeOK
<1>2. \A c \in OutletsOf(ps) :
          c # None /\ \E p \in ps, a \in Protocols : outs[p][a] = c
  BY <1>1, Without, TransportAssumption
<1> QED
  BY <1>2 DEF TransportInv, TablesAreOpen

\* Shutting down closes what it takes out of the tables.
LEMMA ShutdownKeeps ==
    ASSUME TransportInv, Shutdown, started, watchers' \subseteq watchers
    PROVE  TransportInv'
<1>1. OutTypes /\ Nodes \in SUBSET Nodes
  BY DEF TransportInv, TransportTypeOK
<1>2. /\ outs' = OutsWithout(Nodes) /\ outClosed' = outClosed \cup OutletsOf(Nodes)
      /\ UNCHANGED <<host, cancelled, inlet, arrived, handled, handler, outlet, queued,
                     worker, call, cleaning, crashed>>
  BY DEF Shutdown
<1>3. OutTypes'
  BY <1>1, <1>2, Without DEF OutTypes
<1>4. \A p \in Nodes, a \in Protocols : outs'[p][a] = None
  BY <1>1, <1>2, Without
<1>5. \A c \in outClosed' : outlet[c] # None
  <2>1. outClosed \subseteq Outlets
    BY <1>1 DEF OutTypes
  <2> QED
    BY <1>1, <1>2, <2>1, HeldIsMade DEF TransportInv, UnusedAreUnused
<1>6. /\ NoDeadOutlet' /\ OpenIsServed' /\ AcceptedIsServed'
      /\ \A c \in Outlets : outlet'[c] = None => queued'[c] = 0 /\ c \notin outClosed'
      /\ \A c \in Outlets : worker'[c] # "none" => outlet'[c] # None
  BY <1>2, <1>3, <1>4, <1>5, ClosingOutlets
<1>7. \A a \in Protocols : ins'[a] = None
  BY DEF Shutdown
<1>8. TransportTypeOK'
  <2>1. \A a \in Protocols : ins[a] \in Inlets \cup {None}
    BY DEF TransportInv, TransportTypeOK, InTypes
  <2>2. InTypes'
    BY <1>2, <2>1 DEF Shutdown, TransportInv, TransportTypeOK, InTypes
  <2>3. HostTypes'
    BY <1>2 DEF Shutdown, TransportInv, TransportTypeOK, HostTypes
  <2> QED
    BY <1>2, <1>3, <2>2, <2>3 DEF TransportInv, TransportTypeOK
<1>9. \A i \in Inlets : inlet'[i] = None => i \notin inClosed'
  <2>1. \A a \in Protocols : ins[a] # None => inlet[ins[a]] # None
    BY DEF TransportInv, TablesAreOpen
  <2> QED
    BY <1>2, <2>1 DEF Shutdown, TransportInv, UnusedAreUnused
<1>10. TablesAreOpen' /\ SelfLeadsHome'
  <2>1. Self \in Nodes
    BY DEF Nodes
  <2> QED
    BY <1>4, <1>7, <2>1 DEF TablesAreOpen, SelfLeadsHome
<1> QED
  BY <1>2, <1>6, <1>8, <1>9, <1>10, CallsKept DEF TransportInv, UnusedAreUnused

\* Stop and the end of a context of Start shut down.
LEMMA StopKeeps ==
    ASSUME TransportInv, Stop \/ \E w \in watchers : AutoStop(w)
    PROVE  TransportInv'
<1>1. CASE Stop
  BY <1>1, ShutdownKeeps DEF Stop
<1>2. ASSUME NEW w \in watchers, AutoStop(w) PROVE TransportInv'
  <2>1. CASE started
    BY <1>2, <2>1, ShutdownKeeps DEF AutoStop
  <2>2. CASE ~started
    <3>1. /\ watchers' \subseteq watchers
          /\ UNCHANGED <<started, host, hosts, cancelled, inVars, outVars, call, cleaning, crashed>>
      BY <1>2, <2>2 DEF AutoStop
    <3>2. TransportTypeOK'
      BY <3>1 DEF TransportInv, TransportTypeOK, HostTypes, InTypes, OutTypes, inVars, outVars
    <3> QED
      BY <3>1, <3>2, Untouched, CallsKept DEF inVars, outVars
  <2> QED
    BY <2>1, <2>2
<1> QED
  BY <1>1, <1>2

-----------------------------------------------------------------------------
(* Opening and closing protocols.                                          *)

\* A new outlet, which nobody has put into, disturbs no other.
LEMMA MakingKeeps ==
    ASSUME TransportInv, NEW c \in Outlets, NEW p \in Nodes, NEW a \in Protocols,
           NEW x \in Contexts, NEW i \in Inlets \cup {None}, MakeOutlet(c, p, a, x, i),
           UNCHANGED cancelled
    PROVE  /\ OutTypes' /\ NoDeadOutlet' /\ OpenIsServed' /\ AcceptedIsServed'
           /\ \A q \in Nodes, b \in Protocols : outs'[q][b] # None =>
                  LET d == outs'[q][b] IN
                  d \notin outClosed' /\ outlet'[d] # None /\ outlet'[d].to = q /\ outlet'[d].proto = b
           /\ \A d \in Outlets : outlet'[d] = None => queued'[d] = 0 /\ d \notin outClosed'
           /\ \A d \in Outlets : worker'[d] # "none" => outlet'[d] # None
           /\ \A d \in Outlets : outlet[d] # None => outlet'[d] # None
<1>1. OutTypes
  BY DEF TransportInv, TransportTypeOK
<1>2. /\ OutTypes'
      /\ outlet'[c] = [to |-> p, proto |-> a, ctx |-> x, into |-> i]
      /\ outlet'[c] # None /\ worker'[c] = "run" /\ outs'[p][a] = c
      /\ \A d \in Outlets \ {c} : outlet'[d] = outlet[d] /\ worker'[d] = worker[d]
      /\ \A q \in Nodes, b \in Protocols : q # p \/ b # a => outs'[q][b] = outs[q][b]
      /\ outlet[c] = None /\ queued' = queued /\ outClosed' = outClosed
  BY <1>1, Making
<1>3. queued[c] = 0 /\ c \notin outClosed
  BY <1>2 DEF TransportInv, UnusedAreUnused
<1>4. \A q \in Nodes, b \in Protocols : outs[q][b] # None =>
          outs[q][b] \in Outlets \ {c} /\ outlet[outs[q][b]] # None
  BY <1>1, <1>2 DEF OutTypes, TransportInv, TablesAreOpen
<1>5. \A q \in Nodes, b \in Protocols :
          \/ q = p /\ b = a /\ outs'[q][b] = c
          \/ outs'[q][b] = None
          \/ /\ outs'[q][b] = outs[q][b] /\ outs[q][b] # None
             /\ outlet'[outs[q][b]] = outlet[outs[q][b]] /\ worker'[outs[q][b]] = worker[outs[q][b]]
  BY <1>2, <1>4
<1>6. NoDeadOutlet'
  BY <1>2, <1>5 DEF TransportInv, NoDeadOutlet
<1>7. OpenIsServed' /\ AcceptedIsServed'
  BY <1>2, <1>3 DEF TransportInv, OpenIsServed, AcceptedIsServed
<1>8. \A q \in Nodes, b \in Protocols : outs'[q][b] # None =>
          LET d == outs'[q][b] IN
          d \notin outClosed' /\ outlet'[d] # None /\ outlet'[d].to = q /\ outlet'[d].proto = b
  BY <1>2, <1>3, <1>5 DEF TransportInv, TablesAreOpen
<1>9. /\ \A d \in Outlets : outlet'[d] = None => queued'[d] = 0 /\ d \notin outClosed'
      /\ \A d \in Outlets : worker'[d] # "none" => outlet'[d] # None
      /\ \A d \in Outlets : outlet[d] # None => outlet'[d] # None
  BY <1>2 DEF TransportInv, UnusedAreUnused
<1> QED
  BY <1>2, <1>6, <1>7, <1>8, <1>9

\* The tables as the invariant has them.
LEMMA TablesHold ==
    ASSUME TransportInv
    PROVE  /\ \A a \in Protocols : ins[a] \in Inlets \cup {None}
           /\ \A a \in Protocols : ins[a] # None =>
                  ins[a] \notin inClosed /\ inlet[ins[a]] # None /\ inlet[ins[a]].proto = a
           /\ \A p \in Nodes, a \in Protocols : outs[p][a] \in Outlets \cup {None}
           /\ \A p \in Nodes, a \in Protocols : outs[p][a] # None =>
                  /\ outs[p][a] \notin outClosed /\ outlet[outs[p][a]] # None
                  /\ outlet[outs[p][a]].to = p /\ outlet[outs[p][a]].proto = a
           /\ Self \in Nodes
BY DEF TransportInv, TransportTypeOK, InTypes, OutTypes, TablesAreOpen, Nodes

\* Open makes an inlet that is in use nowhere else.
LEMMA OpenKeeps ==
    ASSUME TransportInv, NEW x \in Contexts, NEW a \in Protocols, Open(x, a)
    PROVE  TransportInv'
<1>1. PICK i \in Inlets :
          /\ inlet[i] = None
          /\ inlet' = [inlet EXCEPT ![i] = [proto |-> a, ctx |-> x, host |-> host]]
          /\ ins' = [ins EXCEPT ![a] = i]
          /\ handled' = handled \cup {i}
          /\ IF outs[Self][a] = None
             THEN \E c \in Outlets : MakeOutlet(c, Self, a, x, i)
             ELSE UNCHANGED outVars
  BY DEF Open
<1>2. /\ started /\ ins[a] = None
      /\ UNCHANGED <<hostVars, arrived, inClosed, handler, call, cleaning, crashed>>
  BY DEF Open
<1>3. host \in Hosts
  BY <1>2 DEF TransportInv, TransportTypeOK, HostTypes
<1> DEFINE info == [proto |-> a, ctx |-> x, host |-> host]
<1>4. info \in InletInfo /\ info # None /\ info.proto = a
  BY <1>3, TransportAssumption DEF InletInfo
<1>5. inlet' = [inlet EXCEPT ![i] = info]
  BY <1>1
<1> HIDE DEF info
<1>6. InTypes'
  BY <1>1, <1>2, <1>4, <1>5 DEF TransportInv, TransportTypeOK, InTypes
<1>7. /\ \A b \in Protocols : ins'[b] = IF b = a THEN i ELSE ins[b]
      /\ inlet'[i] = info
      /\ \A j \in Inlets \ {i} : inlet'[j] = inlet[j]
  BY <1>1, <1>5 DEF TransportInv, TransportTypeOK, InTypes
<1>8. /\ \A b \in Protocols : ins'[b] # None =>
             ins'[b] \notin inClosed' /\ inlet'[ins'[b]] # None /\ inlet'[ins'[b]].proto = b
      /\ \A j \in Inlets : inlet'[j] = None => j \notin inClosed'
  BY <1>1, <1>2, <1>4, <1>7, TablesHold DEF TransportInv, UnusedAreUnused
<1>9. CASE outs[Self][a] = None
  <2>1. PICK c \in Outlets : MakeOutlet(c, Self, a, x, i)
    BY <1>1, <1>9
  <2>2. OutTypes /\ Self \in Nodes /\ UNCHANGED cancelled
    BY <1>2 DEF TransportInv, TransportTypeOK, Nodes, hostVars
  <2>3. /\ OutTypes' /\ NoDeadOutlet' /\ OpenIsServed' /\ AcceptedIsServed'
        /\ \A q \in Nodes, b \in Protocols : outs'[q][b] # None =>
               LET d == outs'[q][b] IN
               d \notin outClosed' /\ outlet'[d] # None /\ outlet'[d].to = q /\ outlet'[d].proto = b
        /\ \A d \in Outlets : outlet'[d] = None => queued'[d] = 0 /\ d \notin outClosed'
        /\ \A d \in Outlets : worker'[d] # "none" => outlet'[d] # None
        /\ \A d \in Outlets : outlet[d] # None => outlet'[d] # None
    BY <2>1, <2>2, MakingKeeps
  <2>4. /\ outlet'[c] = [to |-> Self, proto |-> a, ctx |-> x, into |-> i] /\ outs'[Self][a] = c
        /\ \A d \in Outlets \ {c} : outlet'[d] = outlet[d]
        /\ \A b \in Protocols : b # a => outs'[Self][b] = outs[Self][b]
        /\ outlet[c] = None
    BY <2>1, <2>2, Making
  <2>5. SelfLeadsHome'
    BY <1>7, <2>4, TablesHold DEF TransportInv, SelfLeadsHome
  <2>6. TransportTypeOK'
    BY <1>2, <1>6, <2>3 DEF TransportInv, TransportTypeOK, HostTypes, hostVars
  <2>7. CallsAreMeant' /\ \A s \in Callers : call'[s].ch # None => outlet'[call'[s].ch] # None
    <3>1. \A s \in Callers : call[s].ch \in Outlets \cup {None}
      BY DEF TransportInv, TransportTypeOK, Call
    <3>2. \A s \in Callers : call[s].ch # None => outlet[call[s].ch] # None
      BY DEF TransportInv, UnusedAreUnused
    <3> QED
      BY <1>2, <2>3, <3>1, <3>2, CallsKept
  <2> QED
    BY <1>8, <2>3, <2>5, <2>6, <2>7 DEF TransportInv, UnusedAreUnused, TablesAreOpen
<1>10. CASE outs[Self][a] # None
  <2>1. UNCHANGED <<outs, outlet, queued, outClosed, worker, cancelled>>
    BY <1>1, <1>2, <1>10 DEF outVars, hostVars
  <2>2. SelfLeadsHome'
    <3>1. outlet[outs[Self][a]].into = None
      BY <1>2, <1>10 DEF TransportInv, SelfLeadsHome
    <3> QED
      BY <1>7, <2>1, <3>1 DEF TransportInv, SelfLeadsHome
  <2>3. TransportTypeOK'
    BY <1>2, <1>6, <2>1 DEF TransportInv, TransportTypeOK, HostTypes, OutTypes, hostVars
  <2>4. NoDeadOutlet' /\ OpenIsServed' /\ AcceptedIsServed'
    BY <2>1 DEF TransportInv, NoDeadOutlet, OpenIsServed, AcceptedIsServed
  <2>5. TablesAreOpen'
    BY <1>8, <2>1, TablesHold DEF TablesAreOpen
  <2>6. UnusedAreUnused'
    BY <1>2, <1>8, <2>1 DEF TransportInv, UnusedAreUnused
  <2> QED
    BY <1>2, <2>2, <2>3, <2>4, <2>5, <2>6, CallsKept DEF TransportInv
<1> QED
  BY <1>9, <1>10

\* Close closes the inlet and the outlet to the node itself that it takes out.
LEMMA CloseKeeps ==
    ASSUME TransportInv, NEW a \in Protocols, Close(a)
    PROVE  TransportInv'
<1>1. /\ ins[a] # None /\ ins' = [ins EXCEPT ![a] = None]
      /\ inClosed' = inClosed \cup {ins[a]} /\ handled' = handled \ {ins[a]}
      /\ outClosed' = outClosed \cup ({outs[Self][a]} \ {None})
      /\ outs' = [outs EXCEPT ![Self][a] = None]
      /\ UNCHANGED <<hostVars, inlet, arrived, handler, outlet, queued, worker, call, cleaning, crashed>>
  BY DEF Close
<1>2. InTypes'
  BY <1>1 DEF TransportInv, TransportTypeOK, InTypes
<1>3. OutTypes'
  BY <1>1, TablesHold DEF TransportInv, TransportTypeOK, OutTypes
<1>4. /\ \A b \in Protocols : ins'[b] = IF b = a THEN None ELSE ins[b]
      /\ \A p \in Nodes, b \in Protocols :
             outs'[p][b] = IF p = Self /\ b = a THEN None ELSE outs[p][b]
  BY <1>1 DEF TransportInv, TransportTypeOK, InTypes, OutTypes
<1>5. /\ NoDeadOutlet' /\ OpenIsServed' /\ AcceptedIsServed'
      /\ \A p \in Nodes, b \in Protocols : outs'[p][b] # None =>
             LET c == outs'[p][b] IN
             c \notin outClosed' /\ outlet'[c] # None /\ outlet'[c].to = p /\ outlet'[c].proto = b
      /\ \A c \in Outlets : outlet'[c] = None => queued'[c] = 0 /\ c \notin outClosed'
      /\ \A c \in Outlets : worker'[c] # "none" => outlet'[c] # None
  <2>1. \A p \in Nodes, b \in Protocols :
            outs'[p][b] # None => outs'[p][b] = outs[p][b] /\ outs'[p][b] \notin outClosed'
    BY <1>1, <1>4, TablesHold
  <2>2. \A c \in outClosed' : outlet[c] # None
    BY <1>1, TablesHold DEF TransportInv, TransportTypeOK, OutTypes, UnusedAreUnused
  <2> QED
    BY <1>1, <1>3, <2>1, <2>2, ClosingOutlets DEF hostVars
<1>6. /\ \A b \in Protocols : ins'[b] # None =>
             ins'[b] \notin inClosed' /\ inlet'[ins'[b]] # None /\ inlet'[ins'[b]].proto = b
      /\ \A j \in Inlets : inlet'[j] = None => j \notin inClosed'
  BY <1>1, <1>4, TablesHold DEF TransportInv, UnusedAreUnused
<1>7. SelfLeadsHome'
  BY <1>1, <1>4, TablesHold DEF TransportInv, SelfLeadsHome
<1>8. TransportTypeOK'
  BY <1>1, <1>2, <1>3 DEF TransportInv, TransportTypeOK, HostTypes, hostVars
<1> QED
  BY <1>1, <1>5, <1>6, <1>7, <1>8, CallsKept DEF TransportInv, UnusedAreUnused, TablesAreOpen

-----------------------------------------------------------------------------
(* Sending.                                                                *)

\* A call that looks for an outlet finds an open one or makes one.
LEMMA SendKeeps ==
    ASSUME TransportInv, NEW s \in Callers, GetOrCreateOutChannel(s)
    PROVE  TransportInv'
<1>1. PICK p \in call[s].todo : \E d \in Outlets :
          /\ LET a == call[s].proto IN
             \/ outs[p][a] = d /\ UNCHANGED outVars
             \/ outs[p][a] = None /\ MakeOutlet(d, p, a, call[s].ctx, None)
          /\ call' = [call EXCEPT ![s].todo = @ \ {p}, ![s].ch = d]
  BY DEF GetOrCreateOutChannel
<1>2. PICK c \in Outlets :
          /\ LET a == call[s].proto IN
             \/ outs[p][a] = c /\ UNCHANGED outVars
             \/ outs[p][a] = None /\ MakeOutlet(c, p, a, call[s].ctx, None)
          /\ call' = [call EXCEPT ![s].todo = @ \ {p}, ![s].ch = c]
  BY <1>1
<1> DEFINE found == [call[s] EXCEPT !.todo = @ \ {p}, !.ch = c]
<1>3. call \in [Callers -> Call] /\ call[s] \in Call
  BY DEF TransportInv, TransportTypeOK
<1>4. p \in Nodes /\ call[s].proto \in Protocols /\ call[s].ctx \in Contexts
  BY <1>3 DEF Call, TransportInv, CallsAreMeant
<1>5. found \in Call /\ found.ch = c /\ found.proto = call[s].proto /\ found.ctx = call[s].ctx
  BY <1>3, CallTypes DEF Call
<1>6. call' = [call EXCEPT ![s] = found]
  BY <1>2, <1>3
<1> HIDE DEF found
<1>7. call' \in [Callers -> Call] /\ \A r \in Callers : call'[r] = IF r = s THEN found ELSE call[r]
  BY <1>3, <1>5, <1>6
<1>8. CallsAreMeant'
  BY <1>4, <1>5, <1>7 DEF TransportInv, CallsAreMeant
<1>9. UNCHANGED <<hostVars, inVars, cleaning, crashed>>
  BY DEF GetOrCreateOutChannel
<1>10. \A r \in Callers : call[r].ch \in Outlets \cup {None} /\ (call[r].ch # None => outlet[call[r].ch] # None)
  BY <1>3 DEF Call, TransportInv, UnusedAreUnused
<1>11. CASE outs[p][call[s].proto] = c /\ UNCHANGED outVars
  <2>1. TransportTypeOK'
    BY <1>7, <1>9, <1>11 DEF TransportInv, TransportTypeOK, HostTypes, InTypes, OutTypes,
                             hostVars, inVars, outVars
  <2>2. c # None /\ outlet[c] # None
    BY <1>4, <1>11, TransportAssumption, TablesHold
  <2>3. \A r \in Callers : call'[r].ch # None => outlet'[call'[r].ch] # None
    BY <1>5, <1>7, <1>10, <1>11, <2>2 DEF outVars
  <2> QED
    BY <1>8, <1>9, <1>11, <2>1, <2>3, Untouched DEF hostVars, inVars
<1>12. CASE MakeOutlet(c, p, call[s].proto, call[s].ctx, None)
  <2>1. /\ OutTypes' /\ NoDeadOutlet' /\ OpenIsServed' /\ AcceptedIsServed'
        /\ \A q \in Nodes, b \in Protocols : outs'[q][b] # None =>
               LET d == outs'[q][b] IN
               d \notin outClosed' /\ outlet'[d] # None /\ outlet'[d].to = q /\ outlet'[d].proto = b
        /\ \A d \in Outlets : outlet'[d] = None => queued'[d] = 0 /\ d \notin outClosed'
        /\ \A d \in Outlets : worker'[d] # "none" => outlet'[d] # None
        /\ \A d \in Outlets : outlet[d] # None => outlet'[d] # None
    <3>1. UNCHANGED cancelled /\ None \in Inlets \cup {None}
      BY <1>9 DEF hostVars
    <3> QED
      BY <1>4, <1>12, <3>1, MakingKeeps
  <2>2. /\ outlet'[c] = [to |-> p, proto |-> call[s].proto, ctx |-> call[s].ctx, into |-> None]
        /\ outlet'[c] # None /\ outs'[p][call[s].proto] = c
        /\ \A d \in Outlets \ {c} : outlet'[d] = outlet[d]
        /\ \A q \in Nodes, b \in Protocols :
               q # p \/ b # call[s].proto => outs'[q][b] = outs[q][b]
        /\ outlet[c] = None
    <3>1. OutTypes
      BY DEF TransportInv, TransportTypeOK
    <3> QED
      BY <1>4, <1>12, <3>1, Making
  <2>3. SelfLeadsHome'
    BY <1>9, <2>2, TablesHold DEF TransportInv, SelfLeadsHome, inVars
  <2>4. TransportTypeOK'
    BY <1>7, <1>9, <2>1 DEF TransportInv, TransportTypeOK, HostTypes, InTypes, hostVars, inVars
  <2>5. \A r \in Callers : call'[r].ch # None => outlet'[call'[r].ch] # None
    BY <1>5, <1>7, <1>10, <2>1, <2>2
  <2>6. TablesAreOpen'
    BY <1>9, <2>1, TablesHold DEF TablesAreOpen, inVars
  <2>7. UnusedAreUnused'
    BY <1>9, <2>1, <2>5 DEF TransportInv, UnusedAreUnused, inVars
  <2> QED
    BY <1>8, <2>1, <2>3, <2>4, <2>6, <2>7 DEF TransportInv
<1> QED
  BY <1>2, <1>11, <1>12

\* Who puts a message into an outlet that is open has a worker to write it.
LEMMA PutKeeps ==
    ASSUME TransportInv, NEW s \in Callers, Put(s)
    PROVE  TransportInv'
<1> DEFINE c == call[s].ch
<1>1. call \in [Callers -> Call] /\ OutTypes
  BY DEF TransportInv, TransportTypeOK
<1>2. c \in Outlets /\ outlet[c] # None
  BY <1>1 DEF Put, Call, TransportInv, UnusedAreUnused
<1>3. CASE Crash("send")
  <2>1. UNCHANGED <<hostVars, inVars, outVars, call, cleaning>> /\ crashed' = "send"
    BY <1>3 DEF Crash
  <2>2. TransportTypeOK'
    BY <2>1 DEF TransportInv, TransportTypeOK, HostTypes, InTypes, OutTypes,
                hostVars, inVars, outVars
  <2> QED
    BY <2>1, <2>2, Untouched, CallsKept DEF hostVars, inVars, outVars
<1>4. CASE call' = [call EXCEPT ![s] = Returned(s)]
           /\ UNCHANGED <<hostVars, inVars, outVars, cleaning, crashed>>
  <2>1. TransportTypeOK'
    BY <1>4, Returning DEF TransportInv, TransportTypeOK, HostTypes, InTypes, OutTypes,
                           hostVars, inVars, outVars
  <2> QED
    BY <1>4, <2>1, Untouched, Returning DEF hostVars, inVars, outVars
<1>5. CASE /\ c \notin outClosed /\ queued[c] < OutsLength
           /\ queued' = [queued EXCEPT ![c] = @ + 1]
           /\ call' = [call EXCEPT ![s] = Returned(s)]
           /\ UNCHANGED <<hostVars, inVars, outs, outlet, outClosed, worker, cleaning, crashed>>
  <2>1. OutTypes'
    BY <1>1, <1>2, <1>5, TransportAssumption DEF OutTypes
  <2>2. TransportTypeOK'
    BY <1>5, <2>1, Returning DEF TransportInv, TransportTypeOK, HostTypes, InTypes, hostVars, inVars
  <2>3. \A d \in Outlets \ {c} : queued'[d] = queued[d]
    BY <1>1, <1>5 DEF OutTypes
  <2>4. AcceptedIsServed'
    BY <1>2, <1>5, <2>3 DEF TransportInv, AcceptedIsServed, OpenIsServed, hostVars
  <2>5. TablesAreOpen' /\ NoDeadOutlet' /\ OpenIsServed' /\ SelfLeadsHome'
    BY <1>5 DEF TransportInv, TablesAreOpen, NoDeadOutlet, OpenIsServed, SelfLeadsHome,
                hostVars, inVars
  <2>6. UnusedAreUnused'
    BY <1>2, <1>5, <2>3, Returning DEF TransportInv, UnusedAreUnused, inVars
  <2> QED
    BY <1>5, <2>2, <2>4, <2>5, <2>6, Returning DEF TransportInv
<1> QED
  BY <1>3, <1>4, <1>5 DEF Put

-----------------------------------------------------------------------------
(* Workers.                                                                *)

\* A worker that takes, writes or loops goes on working.
LEMMA WorkingKeeps ==
    ASSUME TransportInv, NEW c \in Outlets, Take(c) \/ Write(c) \/ Loop(c)
    PROVE  TransportInv'
<1> USE DEF hostVars, inVars, outVars
<1>1. CASE Loop(c) /\ outlet[c].into \in inClosed
  <2>1. UNCHANGED <<hostVars, inVars, outVars, call, cleaning>> /\ crashed' = "self"
    BY <1>1 DEF Loop, Crash
  <2>2. TransportTypeOK'
    BY <2>1 DEF TransportInv, TransportTypeOK, HostTypes, InTypes, OutTypes
  <2> QED
    BY <2>1, <2>2, Untouched, CallsKept
<1>2. CASE ~(Loop(c) /\ outlet[c].into \in inClosed)
  <2>1. /\ worker[c] \in {"run", "hold"}
        /\ \E w \in {"run", "hold"} : worker' = [worker EXCEPT ![c] = w]
        /\ \/ queued' = queued
           \/ queued[c] > 0 /\ queued' = [queued EXCEPT ![c] = @ - 1]
        /\ UNCHANGED <<hostVars, ins, inlet, inClosed, handled, handler, outs, outlet, outClosed,
                       call, cleaning, crashed>>
    BY <1>2 DEF Take, Write, Loop
  <2>2. arrived' \in [Inlets -> 0 .. InsLength]
    BY <1>2, TransportAssumption DEF Take, Write, Loop, TransportInv, TransportTypeOK, InTypes
  <2>3. queued \in [Outlets -> 0 .. OutsLength] /\ worker \in [Outlets -> {"none", "run", "hold", "remove", "ended"}]
    BY DEF TransportInv, TransportTypeOK, OutTypes
  <2>4. /\ queued' \in [Outlets -> 0 .. OutsLength]
        /\ \A d \in Outlets : queued'[d] <= queued[d] /\ queued[d] \in Int /\ queued'[d] \in Int
        /\ \A d \in Outlets : queued[d] = 0 => queued'[d] = 0
    BY <2>1, <2>3, TransportAssumption
  <2>5. /\ worker' \in [Outlets -> {"none", "run", "hold", "remove", "ended"}]
        /\ worker'[c] \in {"run", "hold"} /\ \A d \in Outlets \ {c} : worker'[d] = worker[d]
    BY <2>1, <2>3
  <2>6. TransportTypeOK'
    BY <2>1, <2>2, <2>4, <2>5 DEF TransportInv, TransportTypeOK, HostTypes, InTypes, OutTypes
  <2>7. UnusedAreUnused'
    BY <2>1, <2>4, <2>5 DEF TransportInv, UnusedAreUnused
  <2>8. TablesAreOpen' /\ SelfLeadsHome'
    BY <2>1 DEF TransportInv, TablesAreOpen, SelfLeadsHome
  <2>9. NoDeadOutlet' /\ OpenIsServed'
    BY <2>1, <2>5, TablesHold DEF TransportInv, NoDeadOutlet, OpenIsServed
  <2>10. AcceptedIsServed'
    BY <2>1, <2>4, <2>5 DEF TransportInv, AcceptedIsServed
  <2> QED
    BY <2>1, <2>6, <2>7, <2>8, <2>9, <2>10, CallsKept DEF TransportInv
<1> QED
  BY <1>1, <1>2

\* A worker that ends had its context cancelled, or its outlet closed and emptied.
LEMMA EndingKeeps ==
    ASSUME TransportInv, NEW c \in Outlets, WorkerEnds(c)
    PROVE  TransportInv'
<1> USE DEF hostVars, inVars, outVars
<1>1. /\ worker[c] \in {"run", "hold"}
      /\ \/ outlet[c].ctx \in cancelled \/ outlet[c].to \in Undecodable
         \/ c \in outClosed /\ queued[c] = 0
      /\ worker' = [worker EXCEPT ![c] = IF outlet[c].into = None THEN "remove" ELSE "ended"]
      /\ UNCHANGED <<hostVars, inVars, outs, outlet, queued, outClosed, call, cleaning, crashed>>
  BY DEF WorkerEnds, Ends
<1>2. worker \in [Outlets -> {"none", "run", "hold", "remove", "ended"}] /\ queued \in [Outlets -> 0 .. OutsLength]
  BY DEF TransportInv, TransportTypeOK, OutTypes
<1>3. /\ worker' \in [Outlets -> {"none", "run", "hold", "remove", "ended"}]
      /\ worker'[c] = IF outlet[c].into = None THEN "remove" ELSE "ended"
      /\ \A d \in Outlets \ {c} : worker'[d] = worker[d]
  BY <1>1, <1>2
<1>4. TransportTypeOK'
  BY <1>1, <1>3 DEF TransportInv, TransportTypeOK, HostTypes, InTypes, OutTypes
<1>5. UnusedAreUnused'
  BY <1>1, <1>3 DEF TransportInv, UnusedAreUnused
<1>6. TablesAreOpen' /\ SelfLeadsHome'
  BY <1>1 DEF TransportInv, TablesAreOpen, SelfLeadsHome
<1>7. NoDeadOutlet'
  BY <1>1, <1>3, TablesHold DEF TransportInv, NoDeadOutlet
<1>8. OpenIsServed'
  BY <1>1, <1>3 DEF TransportInv, OpenIsServed
<1>9. AcceptedIsServed'
  BY <1>1, <1>2, <1>3 DEF TransportInv, AcceptedIsServed
<1> QED
  BY <1>1, <1>4, <1>5, <1>6, <1>7, <1>8, <1>9, CallsKept DEF TransportInv

\* The worker that is done with clears its own place in the table.
LEMMA RemovingKeeps ==
    ASSUME TransportInv, NEW c \in Outlets, RemoveOutChannel(c)
    PROVE  TransportInv'
<1> USE DEF hostVars, inVars
<1>1. /\ worker[c] = "remove" /\ worker' = [worker EXCEPT ![c] = "ended"]
      /\ outs' = [outs EXCEPT ![outlet[c].to][outlet[c].proto] = None]
      /\ UNCHANGED <<hostVars, inVars, outlet, queued, outClosed, call, cleaning, crashed>>
  BY DEF RemoveOutChannel
<1>2. OutTypes /\ outlet[c] \in OutletInfo
  BY <1>1 DEF TransportInv, TransportTypeOK, OutTypes, UnusedAreUnused
<1>3. outlet[c].to \in Nodes /\ outlet[c].proto \in Protocols
  BY <1>2 DEF OutletInfo
<1>4. /\ OutTypes' /\ worker'[c] = "ended" /\ \A d \in Outlets \ {c} : worker'[d] = worker[d]
      /\ \A p \in Nodes, a \in Protocols :
             outs'[p][a] = IF p = outlet[c].to /\ a = outlet[c].proto THEN None ELSE outs[p][a]
  BY <1>1, <1>2, <1>3 DEF OutTypes
<1>5. TransportTypeOK'
  BY <1>1, <1>4 DEF TransportInv, TransportTypeOK, HostTypes, InTypes
<1>6. UnusedAreUnused'
  BY <1>1, <1>4 DEF TransportInv, UnusedAreUnused
<1>7. \A p \in Nodes, a \in Protocols : outs'[p][a] # None =>
          outs'[p][a] = outs[p][a] /\ outs[p][a] \in Outlets \ {c}
  BY <1>4, TablesHold
<1>8. TablesAreOpen' /\ SelfLeadsHome'
  <2>1. TablesAreOpen'
    BY <1>1, <1>7 DEF TransportInv, TablesAreOpen
  <2>2. SelfLeadsHome'
    BY <1>1, <1>7, TablesHold DEF TransportInv, SelfLeadsHome
  <2> QED
    BY <2>1, <2>2
<1>9. NoDeadOutlet'
  BY <1>1, <1>4, <1>7 DEF TransportInv, NoDeadOutlet
<1>10. OpenIsServed' /\ AcceptedIsServed'
  BY <1>1, <1>4 DEF TransportInv, OpenIsServed, AcceptedIsServed
<1> QED
  BY <1>1, <1>5, <1>6, <1>8, <1>9, <1>10, CallsKept DEF TransportInv

\* Cleaning closes a peer's outlets as it takes them out.
LEMMA CleaningKeeps ==
    ASSUME TransportInv, NEW p \in Peers, CleanOutboundChannels(p)
    PROVE  TransportInv'
<1> USE DEF hostVars, inVars
<1>1. /\ cleaning[p] > 0 /\ cleaning' = [cleaning EXCEPT ![p] = @ - 1]
      /\ outClosed' = outClosed \cup OutletsOf({p}) /\ outs' = OutsWithout({p})
      /\ UNCHANGED <<hostVars, inVars, outlet, queued, worker, call, crashed>>
  BY DEF CleanOutboundChannels
<1>2. OutTypes /\ {p} \in SUBSET Nodes
  BY DEF TransportInv, TransportTypeOK, Nodes, Peers
<1>3. OutTypes' /\ outClosed \subseteq Outlets
  BY <1>1, <1>2, Without DEF OutTypes
<1>4. \A q \in Nodes, a \in Protocols : outs'[q][a] = IF q \in {p} THEN None ELSE outs[q][a]
  BY <1>1, <1>2, Without
<1>5. \A q \in Nodes, a \in Protocols :
          outs'[q][a] # None => outs'[q][a] = outs[q][a] /\ outs'[q][a] \notin outClosed'
  <2>1. SUFFICES ASSUME NEW q \in Nodes, NEW a \in Protocols, outs'[q][a] # None
                 PROVE  outs'[q][a] = outs[q][a] /\ outs'[q][a] \notin OutletsOf({p}) \cup outClosed
    BY <1>1
  <2>2. q # p /\ outs'[q][a] = outs[q][a] /\ outlet[outs[q][a]].to = q /\ outs[q][a] \notin outClosed
    BY <1>4, <2>1, TablesHold
  <2>3. \A d \in OutletsOf({p}) : outlet[d].to = p
    <3>1. \A d \in OutletsOf({p}) : d \in Outlets /\ \E b \in Protocols : outs[p][b] = d
      BY <1>2, Without
    <3> QED
      BY <1>2, <3>1, TransportAssumption, TablesHold
  <2> QED
    BY <2>2, <2>3
<1>6. \A c \in outClosed' : outlet[c] # None
  BY <1>1, <1>2, <1>3, HeldIsMade DEF TransportInv, UnusedAreUnused
<1>7. /\ NoDeadOutlet' /\ OpenIsServed' /\ AcceptedIsServed'
      /\ \A q \in Nodes, b \in Protocols : outs'[q][b] # None =>
             LET c == outs'[q][b] IN
             c \notin outClosed' /\ outlet'[c] # None /\ outlet'[c].to = q /\ outlet'[c].proto = b
      /\ \A c \in Outlets : outlet'[c] = None => queued'[c] = 0 /\ c \notin outClosed'
      /\ \A c \in Outlets : worker'[c] # "none" => outlet'[c] # None
  BY <1>1, <1>3, <1>5, <1>6, ClosingOutlets
<1>8. TransportTypeOK'
  <2>1. cleaning' \in [Peers -> 0 .. MaxCleaning]
    BY <1>1, TransportAssumption DEF TransportInv, TransportTypeOK
  <2> QED
    BY <1>1, <1>3, <2>1 DEF TransportInv, TransportTypeOK, HostTypes, InTypes
<1>9. SelfLeadsHome'
  <2>1. \A a \in Protocols : outs'[Self][a] # None => outs'[Self][a] = outs[Self][a]
    BY <1>5, TablesHold
  <2> QED
    BY <1>1, <2>1 DEF TransportInv, SelfLeadsHome
<1>10. TablesAreOpen'
  BY <1>1, <1>7, TablesHold DEF TablesAreOpen
<1>11. UnusedAreUnused'
  BY <1>1, <1>7 DEF TransportInv, UnusedAreUnused
<1> QED
  BY <1>1, <1>7, <1>8, <1>9, <1>10, <1>11, CallsKept DEF TransportInv

-----------------------------------------------------------------------------
(* Every step, and the specification.                                      *)

\* Every step keeps the invariant.
LEMMA NextTransportInv == TransportInv /\ [Next]_vars => TransportInv'
<1> SUFFICES ASSUME TransportInv, [Next]_vars PROVE TransportInv'
  OBVIOUS
<1>1. CASE \/ \E x \in Contexts : Start(x)
           \/ \E h \in Hosts : CloseHost(h)
           \/ \E p \in Peers : Disconnect(p)
  BY <1>1, HostsKeep
<1>2. ASSUME NEW x \in Contexts, Cancel(x) PROVE TransportInv'
  BY <1>2, CancelKeeps
<1>3. CASE Stop \/ \E w \in watchers : AutoStop(w)
  BY <1>3, StopKeeps
<1>4. ASSUME NEW a \in Protocols, Close(a) \/ \E x \in Contexts : Open(x, a) PROVE TransportInv'
  BY <1>4, CloseKeeps, OpenKeeps
<1>5. ASSUME NEW i \in Inlets,
             StreamComes(i) \/ HandlerReads(i) \/ HandlerPuts(i) \/ HandlerEnds(i) \/ Receive(i)
      PROVE  TransportInv'
  BY <1>5, InletsKeep
<1>6. ASSUME NEW s \in Callers, NEW x \in Contexts, NEW a \in Protocols,
             BeginPublish(s, x, a) \/ \E p \in Nodes : BeginSend(s, x, p, a)
      PROVE  TransportInv'
  BY <1>6, BeginningKeeps
<1>7. ASSUME NEW s \in Callers, GetOrCreateOutChannel(s) \/ Put(s) PROVE TransportInv'
  BY <1>7, SendKeeps, PutKeeps
<1>8. ASSUME NEW c \in Outlets, Work(c) PROVE TransportInv'
  BY <1>8, WorkingKeeps, EndingKeeps, RemovingKeeps DEF Work
<1>9. ASSUME NEW p \in Peers, CleanOutboundChannels(p) PROVE TransportInv'
  BY <1>9, CleaningKeeps
<1>10. CASE UNCHANGED vars
  <2>1. TransportTypeOK'
    BY <1>10 DEF vars, hostVars, inVars, outVars, TransportInv, TransportTypeOK,
                 HostTypes, InTypes, OutTypes
  <2> QED
    BY <1>10, <2>1, Untouched, CallsKept DEF vars, hostVars, inVars, outVars
<1> QED
  BY <1>1, <1>2, <1>3, <1>4, <1>5, <1>6, <1>7, <1>8, <1>9, <1>10 DEF Next

\* The invariant holds throughout.
LEMMA AlwaysTransportInv == Spec => []TransportInv
BY InitTransportInv, NextTransportInv, PTL DEF Spec

\* The variables have their types: no channel ever holds more than it has room for
\* (host.go:282, 357).
THEOREM TransportTypes == Spec => []TransportTypeOK
<1>1. TransportInv => TransportTypeOK
  BY DEF TransportInv
<1> QED
  BY <1>1, AlwaysTransportInv, PTL

\* Whatever Stop, Close and the clean-up find in the tables is open, so that none of them
\* closes a channel twice (host.go:202, 227, 453).
THEOREM TablesStayOpen == Spec => []TablesAreOpen
<1>1. TransportInv => TablesAreOpen
  BY DEF TransportInv
<1> QED
  BY <1>1, AlwaysTransportInv, PTL

\* Send never finds an outlet to another node whose worker is gone, though a worker may
\* remove another's outlet from the table (host.go:314, 391).
THEOREM OutletsAreWorkedOn == Spec => []NoDeadOutlet
<1>1. TransportInv => NoDeadOutlet
  BY DEF TransportInv
<1> QED
  BY <1>1, AlwaysTransportInv, PTL

\* What Send has accepted is never left without a worker, but by a cancelled context or for
\* an ID that is none (host.go:279, 335).
THEOREM AcceptedStaysServed == Spec => []AcceptedIsServed
<1>1. TransportInv => AcceptedIsServed
  BY DEF TransportInv
<1> QED
  BY <1>1, AlwaysTransportInv, PTL

\* Across any sequence of Open, Close and Stop the node's own outlet leads to no inlet but
\* the one that is open (host.go:540, 563).
THEOREM SelfStaysHome == Spec => []SelfLeadsHome
<1>1. TransportInv => SelfLeadsHome
  BY DEF TransportInv
<1> QED
  BY <1>1, AlwaysTransportInv, PTL

=============================================================================
