---------------------------- MODULE MCTransport ----------------------------
(* A node that talks to another, to itself and to an ID that is none. *)
EXTENDS Transport, TLC

CONSTANTS bob, nobody, me, board, app, s1, h1, i1, i2, o1, o2

\* Channels of a kind are alike.
Alike == Permutations(Inlets) \cup Permutations(Outlets)
=============================================================================
