-------------------------- MODULE MCReliableChannel --------------------------
(* Small instances of ReliableChannel for TLC.                              *)
EXTENDS ReliableChannel

CONSTANTS a, b

(* What a and b send, as fragments of each message and file, the limits on  *)
(* a packet, and the datagrams of each end.                                 *)
Use(an, af, bn, bf, max, fileMax, as, bs) ==
  [todo |-> [e \in {a, b} |-> [s \in Streams |->
     IF e = a THEN IF s = "normal" THEN an ELSE af ELSE IF s = "normal" THEN bn ELSE bf]],
   max |-> max, fileMax |-> fileMax, sends |-> [e \in {a, b} |-> IF e = a THEN as ELSE bs]]

(* No packet carries fragments of both streams: more fragments than        *)
(* subchannels; a message one way and a file the other; a message and a    *)
(* file one way, a fragment per packet; messages that are put together.    *)
Separate ==
  { Use(<<2, 1>>, <<>>, <<>>, <<>>, 1, 1, 5, 3),
    Use(<<3>>, <<>>, <<>>, <<2>>, 2, 1, 4, 4),
    Use(<<1>>, <<2>>, <<>>, <<>>, 1, 1, 4, 3),
    Use(<<1, 1, 1>>, <<>>, <<>>, <<>>, 2, 1, 4, 3) }

(* A file of two fragments and then a message of three, two per packet:    *)
(* the third packet carries the last fragments of both.                    *)
Shared == { Use(<<3>>, <<2>>, <<>>, <<>>, 2, 1, 3, 1) }

(* One message of one fragment.                                            *)
Single == { Use(<<1>>, <<>>, <<>>, <<>>, 1, 1, 4, 2) }
==============================================================================
