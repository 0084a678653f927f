------------------------------ MODULE EventBus ------------------------------
(***************************************************************************)
(* The event bus of one node: InMemoryEventBus                             *)
(* (pkg/infrastructure_layer/eventbus/eventbus.go).                        *)
(*                                                                         *)
(* Subscribe, UnSubscribe and Release hold the lock alone.  Publish shares *)
(* it, so that publications overlap: each offers its event to one          *)
(* subscriber after the other, and nobody waits for a subscriber.          *)
(***************************************************************************)
EXTENDS Integers, Sequences, FiniteSets

CONSTANTS
    Topics,
    Chans,         \* the channels that Subscribe may make
    Publishers,    \* goroutines that may publish
    Length,        \* of a subscriber's channel
    MaxEvents,     \* that each goroutine publishes
    None

ASSUME BusAssumption ==
    /\ Length \in Nat \ {0} /\ MaxEvents \in [Publishers -> Nat]
    /\ IsFiniteSet(Publishers)
    /\ None \notin Topics /\ None \notin [topic : Topics, at : Nat \ {0}]

VARIABLES
    subscribers,   \* the channels of each topic
    topicOf,       \* what each channel was made for, or None
    buffer,        \* the events in it: who published it as his how-manieth
    closed,        \* those that are closed
    publishing,    \* each publisher's topic and the next subscriber's place, or None
    published,     \* how many events each has published
    crashed,       \* a closed channel was sent on or closed
    released,      \* history: Release was called
    owed           \* history: what was published for each channel, less what was
                   \* skipped because it was full and what was received

busHistory == <<released, owed>>
busVars == <<subscribers, topicOf, buffer, closed, publishing, published, crashed, busHistory>>

Event == [from : Publishers, nr : Nat]

BusInit ==
    /\ subscribers = [t \in Topics |-> <<>>]
    /\ topicOf = [c \in Chans |-> None]
    /\ buffer = [c \in Chans |-> <<>>]
    /\ closed = {} /\ crashed = FALSE /\ released = FALSE
    /\ publishing = [p \in Publishers |-> None]
    /\ published = [p \in Publishers |-> 0]
    /\ owed = [c \in Chans |-> 0]

Alive == ~crashed
Unlocked == \A p \in Publishers : publishing[p] = None
Crash ==
    /\ crashed' = TRUE
    /\ UNCHANGED <<subscribers, topicOf, buffer, closed, publishing, published, busHistory>>

Subscribed(t) == {subscribers[t][i] : i \in DOMAIN subscribers[t]}
Without(s, i) == SubSeq(s, 1, i - 1) \o SubSeq(s, i + 1, Len(s))

-----------------------------------------------------------------------------
Subscribe(c, t) ==
    /\ Alive /\ Unlocked /\ topicOf[c] = None
    /\ topicOf' = [topicOf EXCEPT ![c] = t]
    /\ subscribers' = [subscribers EXCEPT ![t] = Append(@, c)]
    /\ UNCHANGED <<buffer, closed, publishing, published, crashed, busHistory>>

UnSubscribeKeepingLength(c) ==  \* mutant: the list is shifted and not shortened
    /\ Alive /\ Unlocked /\ topicOf[c] # None
    /\ LET t == topicOf[c]
           s == subscribers[t] IN
       \E i \in DOMAIN s :
        /\ s[i] = c
        /\ subscribers' = [subscribers EXCEPT ![t] =
               IF i < Len(s) THEN Append(Without(s, i), s[Len(s)]) ELSE Without(s, i)]
        /\ closed' = closed \cup {c}
    /\ UNCHANGED <<topicOf, buffer, publishing, published, crashed, busHistory>>
UnSubscribeLate(c) ==  \* mutant: the channel stays in the list
    /\ Alive /\ Unlocked /\ topicOf[c] # None
    /\ c \in Subscribed(topicOf[c]) \ closed
    /\ closed' = closed \cup {c}
    /\ UNCHANGED <<subscribers, topicOf, buffer, publishing, published, crashed, busHistory>>
\* Of a channel that is not in the list nothing happens.
UnSubscribe(c) ==
    /\ Alive /\ Unlocked /\ topicOf[c] # None
    /\ \E i \in DOMAIN subscribers[topicOf[c]] :
        /\ subscribers[topicOf[c]][i] = c
        /\ IF c \in closed
           THEN Crash
           ELSE /\ subscribers' = [subscribers EXCEPT ![topicOf[c]] = Without(@, i)]
                /\ closed' = closed \cup {c}
                /\ UNCHANGED <<topicOf, buffer, publishing, published, crashed, busHistory>>

\* All subscribers are closed and stay subscribed.
Release ==
    LET all == UNION {Subscribed(t) : t \in Topics} IN
    /\ Alive /\ Unlocked
    /\ IF all \cap closed # {}
       THEN Crash
       ELSE /\ closed' = closed \cup all
            /\ released' = TRUE
            /\ UNCHANGED <<subscribers, topicOf, buffer, publishing, published, crashed, owed>>

BeginPublish(p, t) ==
    /\ Alive /\ publishing[p] = None /\ published[p] < MaxEvents[p]
    /\ publishing' = [publishing EXCEPT ![p] = [topic |-> t, at |-> 1]]
    /\ published' = [published EXCEPT ![p] = @ + 1]
    /\ owed' = [c \in Chans |-> IF c \in Subscribed(t) THEN owed[c] + 1 ELSE owed[c]]
    /\ UNCHANGED <<subscribers, topicOf, buffer, closed, crashed, released>>

OfferPastRoom(p) ==  \* mutant: one event more than there is room for
    LET at == publishing[p].at
        c == subscribers[publishing[p].topic][at] IN
    /\ Alive /\ publishing[p] # None /\ at <= Len(subscribers[publishing[p].topic])
    /\ c \notin closed /\ Len(buffer[c]) <= Length
    /\ publishing' = [publishing EXCEPT ![p].at = at + 1]
    /\ buffer' = [buffer EXCEPT ![c] = Append(@, [from |-> p, nr |-> published[p]])]
    /\ UNCHANGED <<subscribers, topicOf, closed, published, crashed, busHistory>>
OfferUntilFull(p) ==  \* mutant: a subscriber whose channel is full ends the publication
    LET at == publishing[p].at
        chs == subscribers[publishing[p].topic] IN
    /\ Alive /\ publishing[p] # None /\ at <= Len(chs)
    /\ IF chs[at] \in closed
       THEN Crash
       ELSE /\ IF Len(buffer[chs[at]]) < Length
               THEN /\ buffer' = [buffer EXCEPT ![chs[at]] = Append(@, [from |-> p, nr |-> published[p]])]
                    /\ publishing' = [publishing EXCEPT ![p].at = at + 1]
                    /\ UNCHANGED owed
               ELSE /\ owed' = [owed EXCEPT ![chs[at]] = @ - 1]
                    /\ publishing' = [publishing EXCEPT ![p].at = Len(chs) + 1]
                    /\ UNCHANGED buffer
            /\ UNCHANGED <<subscribers, topicOf, closed, published, crashed, released>>
\* The next subscriber gets the event, or is skipped if its channel is full.
Offer(p) ==
    LET at == publishing[p].at
        c == subscribers[publishing[p].topic][at] IN
    /\ Alive /\ publishing[p] # None /\ at <= Len(subscribers[publishing[p].topic])
    /\ IF c \in closed
       THEN Crash
       ELSE /\ publishing' = [publishing EXCEPT ![p].at = at + 1]
            /\ IF Len(buffer[c]) < Length
               THEN /\ buffer' = [buffer EXCEPT ![c] = Append(@, [from |-> p, nr |-> published[p]])]
                    /\ UNCHANGED owed
               ELSE /\ owed' = [owed EXCEPT ![c] = @ - 1]
                    /\ UNCHANGED buffer
            /\ UNCHANGED <<subscribers, topicOf, closed, published, crashed, released>>

EndPublish(p) ==
    /\ Alive /\ publishing[p] # None
    /\ publishing[p].at > Len(subscribers[publishing[p].topic])
    /\ publishing' = [publishing EXCEPT ![p] = None]
    /\ UNCHANGED <<subscribers, topicOf, buffer, closed, published, crashed, busHistory>>

Receive(c) ==
    /\ Alive /\ buffer[c] # <<>>
    /\ buffer' = [buffer EXCEPT ![c] = Tail(@)]
    /\ owed' = [owed EXCEPT ![c] = @ - 1]
    /\ UNCHANGED <<subscribers, topicOf, closed, publishing, published, crashed, released>>

Publishes(p) == Offer(p) \/ EndPublish(p)

BusNext ==
    \/ \E c \in Chans, t \in Topics : Subscribe(c, t)
    \/ \E c \in Chans : UnSubscribe(c) \/ Receive(c)
    \/ Release
    \/ \E p \in Publishers : Publishes(p) \/ \E t \in Topics : BeginPublish(p, t)

BusSpec == BusInit /\ [][BusNext]_busVars

-----------------------------------------------------------------------------
(* What the bus promises.                                                  *)

BusTypeOK ==
    /\ subscribers \in [Topics -> Seq(Chans)]
    /\ topicOf \in [Chans -> Topics \cup {None}]
    /\ buffer \in [Chans -> Seq(Event)] /\ \A c \in Chans : Len(buffer[c]) <= Length
    /\ closed \subseteq Chans /\ crashed \in BOOLEAN /\ released \in BOOLEAN
    /\ publishing \in [Publishers -> [topic : Topics, at : Nat \ {0}] \cup {None}]
    /\ published \in [Publishers -> Nat]
    /\ owed \in [Chans -> Int]

\* However publications overlap and subscribers come and go: a subscriber has what one
\* goroutine publishes in its order and never twice.
InOrder ==
    \A c \in Chans : \A i, j \in DOMAIN buffer[c] :
        i < j /\ buffer[c][i].from = buffer[c][j].from => buffer[c][i].nr < buffer[c][j].nr

\* When no publication is under way, each event that was published for a subscriber is in
\* its channel, was received or found it full: no other subscriber has kept it away.
EveryEventCounts == Unlocked => \A c \in Chans : owed[c] = Len(buffer[c])

\* As long as nobody calls Release, no closed channel is sent on or closed.
OnlyReleaseCrashes == crashed => released

=============================================================================
