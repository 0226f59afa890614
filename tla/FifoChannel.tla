---------------------------- MODULE FifoChannel ----------------------------
(***************************************************************************)
(* What a custom net channel promises the two Lua scripts at its ends: on  *)
(* every stream, what one end was given to send comes out at the other     *)
(* end in that order, whole, and once.  A packet may complete a transfer   *)
(* on each stream, and a transfer may carry several messages that were     *)
(* sent together.  ReliableChannel implements this over datagrams.         *)
(***************************************************************************)
EXTENDS Naturals, Sequences

CONSTANTS Ends, Streams

VARIABLES
  accepted,   \* accepted[e][s]: how many messages end e was given for stream s
  delivered   \* delivered[e][s]: what came out at end e, by the number it was given

vars == <<accepted, delivered>>

Other(e) == CHOOSE f \in Ends : f # e

Init ==
  /\ accepted = [e \in Ends |-> [s \in Streams |-> 0]]
  /\ delivered = [e \in Ends |-> [s \in Streams |-> <<>>]]

Send(e, s) ==
  /\ accepted' = [accepted EXCEPT ![e][s] = @ + 1]
  /\ UNCHANGED delivered

(* On each stream the messages after those already delivered, or none.     *)
Deliver(e) ==
  /\ \A s \in Streams :
       \E n \in Len(delivered[e][s]) .. accepted[Other(e)][s] :
         delivered'[e][s] = [i \in 1 .. n |-> i]
  /\ delivered' = [delivered EXCEPT ![e] = delivered'[e]]
  /\ UNCHANGED accepted

Next == \E e \in Ends : Deliver(e) \/ \E s \in Streams : Send(e, s)

Spec == Init /\ [][Next]_vars
=============================================================================
