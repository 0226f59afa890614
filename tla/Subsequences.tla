---------------------------- MODULE Subsequences ----------------------------
(***************************************************************************)
(* Elements of a sequence in their order, as the loops and the removals of *)
(* source/modules/gmoddatapack.cpp take them.  Not recursive, so that what *)
(* they return can be proved (Subsequences_proofs).                        *)
(***************************************************************************)
EXTENDS Naturals, Sequences, FiniteSets, Functions

Ascending(q) == \A i, j \in DOMAIN q : i < j => q[i] < q[j]

(* A set of numbers in ascending order.                                     *)
InOrder(S) == CHOOSE q \in [1 .. Cardinality(S) -> S] : Ascending(q)

(* The elements of q that are in S, in the order of q.                      *)
Those(q, S) ==
  LET at == InOrder({i \in DOMAIN q : q[i] \in S})
  IN [i \in DOMAIN at |-> q[at[i]]]
=============================================================================
