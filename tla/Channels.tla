------------------------------ MODULE Channels ------------------------------
(***************************************************************************)
(* The way this program's components hand each other messages: buffered Go *)
(* channels, written to without blocking by the event bus.                 *)
(*                                                                         *)
(* A channel is the sequence of the messages in it, oldest first.          *)
(***************************************************************************)
EXTENDS Integers, Sequences, FiniteSets

LOCAL Least(i, j) == IF i <= j THEN i ELSE j

\* InMemoryEventBus.Publish of the messages msgs, one after the other, to one
\* subscriber whose channel has room for cap messages: `select` with a default
\* branch appends what fits and skips the rest.
Offered(ch, cap, msgs) ==
    IF Len(ch) >= cap THEN ch
    ELSE ch \o SubSeq(msgs, 1, Least(cap - Len(ch), Len(msgs)))

\* A message is in a channel.
In(x, s) == \E i \in DOMAIN s : s[i] = x

\* The orders in which the members of a finite set can be published.
Orders(S) ==
    {f \in [1 .. Cardinality(S) -> S] : \A x \in S : \E i \in DOMAIN f : f[i] = x}

=============================================================================
