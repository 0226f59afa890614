----------------------- MODULE ReliableChannel_proofs -----------------------
(***************************************************************************)
(* The types and the alternating bits of ReliableChannel, for any number   *)
(* of subchannels, any messages and files and whatever the network does.   *)
(* As long as no PacketStart callback transmits, a subchannel is sent      *)
(* again only while the other end has not read it, and the assertion on    *)
(* packet headers holds.  What becomes of the messages is proved from it   *)
(* in ReliableChannel_transfers.                                           *)
(*                                                                         *)
(* The bits.  What an end sends and what its peer has read of it is a      *)
(* link; a channel is the sender of one and the receiver of the other.     *)
(* The invariant of a link (Linked) is about one subchannel at a time, and *)
(* about those datagrams only that are not stale:                          *)
(*   - in a free subchannel the bits agree, in one that is to be sent they *)
(*     do not, and every datagram to the sender says so;                   *)
(*   - of a waiting one a datagram says that it is read exactly if it is,  *)
(*     and if the datagram acknowledges the last one it was sent with;     *)
(*   - a datagram to the receiver with its fragments is the last one it    *)
(*     was sent with, and was not read.                                    *)
(* What the fragments are, and how many, does not matter.                  *)
(*                                                                         *)
(* The types.  That a counter of a waiting list does not drop below zero   *)
(* needs the books (Booked): the fragments on their way are those that the *)
(* subchannels carry, and the first item has at least as many that are     *)
(* not acknowledged.                                                       *)
(***************************************************************************)
EXTENDS ReliableChannel, FiniteSetTheorems, WellFoundedInduction, TLAPS

Fields == {"outSeq", "inSeq", "outAck", "outRel", "inRel", "stream", "sub", "waiting", "receive"}
States == {"free", "tosend", "waiting"}

Channel(c) ==
  /\ DOMAIN c = Fields
  /\ c.outSeq \in Nat /\ c.inSeq \in Nat
  /\ DOMAIN c.sub = Subchannel
  /\ \A k \in Subchannel :
       /\ {"state", "seq"} \subseteq DOMAIN c.sub[k]
       /\ c.sub[k].state \in States /\ c.sub[k].seq \in Int
Datagram(p) == p.seq \in Nat /\ p.ack \in Nat

\* The receiver has read what the sender's subchannel k was filled with.
Read(c, d, k) == k \in c.outRel <=> k \in d.inRel

(* Subchannel k of sender c and receiver d, with the datagrams P to the     *)
(* receiver and Q to the sender.                                            *)
Linked(c, d, P, Q, k) ==
  /\ c.sub[k].state = "free" =>
       /\ c.sub[k].seq = -1 /\ Read(c, d, k)
       /\ \A q \in Q : ~Stale(c, q) => Matches(c, q, k)
  /\ c.sub[k].state = "tosend" =>
       /\ ~Read(c, d, k)
       /\ \A q \in Q : ~Stale(c, q) => ~Matches(c, q, k)
  /\ c.sub[k].state = "waiting" =>
       /\ c.sub[k].seq > d.inSeq => ~Read(c, d, k)
       /\ \A q \in Q : ~Stale(c, q) =>
            (Matches(c, q, k) <=> Read(c, d, k) /\ c.sub[k].seq <= q.ack)
  /\ \A p \in P : p.sub = k /\ ~Stale(d, p) =>
       /\ c.sub[k].state = "waiting" /\ c.sub[k].seq = p.seq
       /\ ~Read(c, d, k)

\* Sequence numbers: nothing is ahead of what was sent, nor of what was read.
Numbered(c, d, P, Q) ==
  /\ d.inSeq < c.outSeq
  /\ \A k \in Subchannel : c.sub[k].seq < c.outSeq
  /\ \A p \in P : p.seq < c.outSeq
  /\ \A q \in Q : q.seq < d.outSeq /\ q.ack <= d.inSeq
  /\ \A q, r \in Q : q.seq <= r.seq => q.ack <= r.ack

Link(c, d, P, Q) ==
  Numbered(c, d, P, Q) /\ \A k \in Subchannel : Linked(c, d, P, Q, k)

To(e) == {p \in net : p.to = e}

LinkInv ==
  /\ DOMAIN chan = Ends
  /\ \A e \in Ends : Channel(chan[e])
  /\ \A p \in net : p.to \in Ends /\ Datagram(p)
  /\ \A e \in Ends : Link(chan[e], chan[Peer(e)], To(Peer(e)), To(e))

-----------------------------------------------------------------------------
(* The two ends.                                                            *)
LEMMA Peers ==
  ASSUME NEW e \in Ends
  PROVE  /\ Peer(e) \in Ends /\ Peer(e) # e /\ Peer(Peer(e)) = e
         /\ \A f \in Ends : f = e \/ f = Peer(e)
<1>1. PICK x \in Ends, y \in Ends : x # y /\ Ends = {x, y}
  BY EndsAssumption
<1>2. \A g \in Ends : Peer(g) \in Ends /\ Peer(g) # g
  <2> SUFFICES ASSUME NEW g \in Ends PROVE Peer(g) \in Ends /\ Peer(g) # g
    OBVIOUS
  <2>1. \E f \in Ends : f # g
    BY <1>1
  <2> QED
    BY <2>1 DEF Peer
<1> QED
  BY <1>1, <1>2

(* A set of subchannels that is not empty has a least one.                  *)
LEMMA LeastSubchannel ==
  ASSUME NEW S, S \subseteq Subchannel, S # {}
  PROVE  Min(S) \in S
<1>1. S \subseteq Nat
  BY BoundAssumption DEF Subchannel
<1>2. PICK x \in S : \A y \in S : ~(<<y, x>> \in OpToRel(<, Nat))
  BY <1>1, NatLessThanWellFounded, WFMin
<1>3. \A y \in S : ~(y < x)
  BY <1>1, <1>2, Zenon DEF OpToRel
<1>4. \A y \in S : x =< y
  BY <1>1, <1>3
<1> QED
  BY <1>4 DEF Min

-----------------------------------------------------------------------------
(* The operators on a channel, as far as the links see them.                *)

\* Nothing but the waiting lists, the stream and the receive lists changes.
Same(c, d) ==
  /\ d.outSeq = c.outSeq /\ d.inSeq = c.inSeq
  /\ d.outRel = c.outRel /\ d.inRel = c.inRel /\ d.sub = c.sub

\* A free subchannel may have been filled.
Filled(c, u) ==
  /\ u.outSeq = c.outSeq /\ u.inSeq = c.inSeq /\ u.inRel = c.inRel
  /\ \/ u.sub = c.sub /\ u.outRel = c.outRel
     \/ \E k \in Subchannel :
          /\ c.sub[k].state = "free"
          /\ u.sub[k].state = "tosend" /\ u.sub[k].seq = 0
          /\ \A j \in Subchannel \ {k} : u.sub[j] = c.sub[j]
          /\ u.outRel = Flip(c.outRel, k)

\* Datagram p was sent, with a subchannel or without.
Sent(u, d, p) ==
  /\ d.outSeq = u.outSeq + 1 /\ d.inSeq = u.inSeq
  /\ d.outRel = u.outRel /\ d.inRel = u.inRel
  /\ p.seq = u.outSeq /\ p.ack = u.inSeq /\ p.rel = u.inRel
  /\ \/ p.sub = 0 /\ d.sub = u.sub
     \/ /\ p.sub \in Subchannel /\ u.sub[p.sub].state = "tosend"
        /\ d.sub[p.sub].state = "waiting" /\ d.sub[p.sub].seq = p.seq
        /\ \A j \in Subchannel \ {p.sub} : d.sub[j] = u.sub[j]

\* The header of datagram q was read.
Taken(c, h, q) ==
  /\ h.outSeq = c.outSeq /\ h.inSeq = q.seq
  /\ h.outRel = c.outRel /\ h.inRel = c.inRel
  /\ \A k \in Subchannel :
       \/ /\ c.sub[k].state = "waiting" /\ Matches(c, q, k)
          /\ h.sub[k] = Free
       \/ /\ c.sub[k].state = "waiting" /\ ~Matches(c, q, k) /\ c.sub[k].seq <= q.ack
          /\ h.sub[k].state = "tosend" /\ h.sub[k].seq = c.sub[k].seq
       \/ /\ ~(c.sub[k].state = "waiting" /\ (Matches(c, q, k) \/ c.sub[k].seq <= q.ack))
          /\ h.sub[k] = c.sub[k]

LEMMA Filling ==
  ASSUME NEW c, Channel(c)
  PROVE  Channel(UpdateSubChannels(c)) /\ Filled(c, UpdateSubChannels(c))
<1> DEFINE free == {k \in Subchannel : c.sub[k].state = "free"}
           k == Min(free)
           u == UpdateSubChannels(c)
<1>1. CASE u = c
  BY <1>1 DEF Filled
<1>2. CASE u # c
  <2>1. free # {}
    BY <1>2 DEF UpdateSubChannels
  <2>2. k \in Subchannel /\ c.sub[k].state = "free"
    BY <2>1, LeastSubchannel
  <2>3. u = Fill(c, k, Portion(c))
    BY <1>2, Zenon DEF UpdateSubChannels
  <2> HIDE DEF k, u
  <2>5. /\ DOMAIN u = Fields /\ u.outSeq = c.outSeq /\ u.inSeq = c.inSeq /\ u.inRel = c.inRel
        /\ u.outRel = Flip(c.outRel, k)
        /\ \E start : u.sub = [c.sub EXCEPT ![k] = [state |-> "tosend", seq |-> 0,
                                                    num |-> Portion(c), start |-> start]]
    BY <2>3 DEF Channel, Fields, Fill
  <2>6. Channel(u)
    BY <2>2, <2>5 DEF Channel, States
  <2>7. Filled(c, u)
    BY <2>2, <2>5 DEF Channel, Filled
  <2> QED
    BY <2>6, <2>7 DEF u
<1> HIDE DEF u
<1> QED
  BY <1>1, <1>2 DEF u

LEMMA Cutting ==
  ASSUME NEW e, NEW c, Channel(c)
  PROVE  /\ Channel(CreateFragmentsFromBuffer(e, c))
         /\ Same(c, CreateFragmentsFromBuffer(e, c))
<1> DEFINE d == CreateFragmentsFromBuffer(e, c)
<1>1. d = c \/ \E list : d = [c EXCEPT !.waiting["normal"] = list, !.stream = <<>>]
  BY DEF CreateFragmentsFromBuffer
<1> HIDE DEF d
<1>2. Channel(d) /\ Same(c, d)
  BY <1>1 DEF Channel, Same, Fields
<1> QED
  BY <1>2 DEF d

LEMMA Sending ==
  ASSUME NEW e \in Ends, NEW c, Channel(c)
  PROVE  LET s == SendDatagram(e, c)
             u == UpdateSubChannels(CreateFragmentsFromBuffer(e, c))
         IN /\ Filled(c, u) /\ Channel(u) /\ Sent(u, s.chan, s.packet) /\ Channel(s.chan)
            /\ s.packet.to = Peer(e) /\ Datagram(s.packet)
<1> DEFINE s == SendDatagram(e, c)
           u == UpdateSubChannels(CreateFragmentsFromBuffer(e, c))
           ready == {k \in Subchannel : u.sub[k].state = "tosend"}
           k == IF ready = {} THEN 0 ELSE Min(ready)
<1>1. Channel(u) /\ Filled(c, u)
  BY Filling, Cutting DEF Filled, Same
<1> HIDE DEF u
<1>2. k = 0 \/ (k \in Subchannel /\ u.sub[k].state = "tosend")
  <2>1. ready # {} => Min(ready) \in ready
    BY LeastSubchannel
  <2>2. \A j \in ready : j \in Subchannel /\ u.sub[j].state = "tosend"
    OBVIOUS
  <2> HIDE DEF ready
  <2> QED
    BY <2>1, <2>2
<1>3. k = 0 <=> ready = {}
  BY LeastSubchannel DEF Subchannel
<1>4. /\ s.packet.to = Peer(e) /\ s.packet.seq = u.outSeq /\ s.packet.ack = u.inSeq
      /\ s.packet.rel = u.inRel /\ s.packet.sub = k
      /\ s.chan = [u EXCEPT !.outSeq = @ + 1,
                            !.sub = IF k = 0 THEN @
                                    ELSE [@ EXCEPT ![k].seq = u.outSeq, ![k].state = "waiting"]]
  BY <1>3 DEF SendDatagram, u
<1> HIDE DEF k, s
<1>5. Sent(u, s.chan, s.packet) /\ Channel(s.chan)
  BY <1>1, <1>2, <1>4 DEF Sent, Channel, Fields, States
<1>6. Datagram(s.packet)
  BY <1>1, <1>4 DEF Datagram, Channel
<1> QED
  BY <1>1, <1>4, <1>5, <1>6 DEF s, u

(* The header of a datagram that the assertion lets through.                *)
LEMMA TakingHeader ==
  ASSUME NEW c, Channel(c), NEW q, Datagram(q), \A k \in Subchannel : ~Invalid(c, q, k)
  PROVE  Channel(ProcessPacketHeader(c, q)) /\ Taken(c, ProcessPacketHeader(c, q), q)
<1> DEFINE d == [ReadAcks(c, q) EXCEPT !.inSeq = q.seq, !.outAck = q.ack]
           h == ProcessPacketHeader(c, q)
<1>1. Checked(c, q) = Subchannel
  <2>1. \A k \in Subchannel : 1 .. k \subseteq Subchannel
    BY BoundAssumption DEF Subchannel
  <2> QED
    BY <2>1 DEF Checked
<1>2. \E lists : h = [d EXCEPT !.waiting = lists]
  BY Zenon DEF ProcessPacketHeader
<1>3. \E subs, lists :
        /\ ReadAcks(c, q) = [c EXCEPT !.sub = subs, !.waiting = lists]
        /\ subs = [k \in Subchannel |->
             IF k \in Acked(c, q) THEN Free
             ELSE IF k \in Missed(c, q) THEN [c.sub[k] EXCEPT !.state = "tosend"] ELSE c.sub[k]]
  BY DEF ReadAcks
<1> HIDE DEF h
<1>4. /\ DOMAIN h = Fields /\ h.outSeq = c.outSeq /\ h.inSeq = q.seq
      /\ h.outRel = c.outRel /\ h.inRel = c.inRel
      /\ h.sub = [k \in Subchannel |->
           IF k \in Acked(c, q) THEN Free
           ELSE IF k \in Missed(c, q) THEN [c.sub[k] EXCEPT !.state = "tosend"] ELSE c.sub[k]]
  BY <1>2, <1>3 DEF Channel, Fields
<1>5. ASSUME NEW k \in Subchannel
      PROVE  /\ k \in Acked(c, q) <=> c.sub[k].state = "waiting" /\ Matches(c, q, k)
             /\ k \in Missed(c, q) <=>
                  c.sub[k].state = "waiting" /\ ~Matches(c, q, k) /\ c.sub[k].seq <= q.ack
  BY <1>1 DEF Acked, Missed
<1>6. "state" \in DOMAIN Free /\ "seq" \in DOMAIN Free /\ Free.state = "free" /\ Free.seq = -1
  BY DEF Free
<1>7. \A k \in Subchannel :
        /\ {"state", "seq"} \subseteq DOMAIN h.sub[k]
        /\ h.sub[k].state \in States /\ h.sub[k].seq \in Int
  BY <1>4, <1>6 DEF Channel, States
<1>8. Channel(h)
  BY <1>4, <1>7 DEF Channel, Datagram
<1>9. ASSUME NEW k \in Subchannel, k \in Missed(c, q)
      PROVE  [c.sub[k] EXCEPT !.state = "tosend"].state = "tosend"
             /\ [c.sub[k] EXCEPT !.state = "tosend"].seq = c.sub[k].seq
  BY DEF Channel
<1>10. Taken(c, h, q)
  BY <1>4, <1>5, <1>9, <1>1 DEF Taken, Invalid, Channel, Datagram
<1> QED
  BY <1>8, <1>10 DEF h

(* Reading the fragments may flip the subchannel's bit and does not concern *)
(* what is sent.                                                            *)
LEMMA TakingFragments ==
  ASSUME NEW c, Channel(c), NEW p
  PROVE  LET d == Receive(c, p).chan
         IN /\ Channel(d) /\ d.outSeq = c.outSeq /\ d.inSeq = c.inSeq
            /\ d.outRel = c.outRel /\ d.sub = c.sub
            /\ d.inRel \in {c.inRel, Flip(c.inRel, p.sub)}
<1> DEFINE d == Receive(c, p).chan
<1>1. \E lists, bits :
        /\ d = [c EXCEPT !.receive = lists, !.inRel = bits]
        /\ bits \in {c.inRel, Flip(c.inRel, p.sub)}
  BY DEF Receive
<1> HIDE DEF d
<1> QED
  BY <1>1 DEF Channel, Fields, d

-----------------------------------------------------------------------------
(* What they do to a link.                                                  *)
LEMMA SameLinks ==
  ASSUME NEW c, NEW d, Same(c, d), NEW r, NEW P, NEW Q
  PROVE  (Link(c, r, P, Q) => Link(d, r, P, Q)) /\ (Link(r, c, P, Q) => Link(r, d, P, Q))
BY DEF Same, Link, Numbered, Linked, Read, Stale, Matches

LEMMA FilledLinks ==
  ASSUME NEW c, Channel(c), NEW u, Filled(c, u), NEW r, Channel(r),
         NEW P, NEW Q, \A x \in P \union Q : Datagram(x)
  PROVE  (Link(c, r, P, Q) => Link(u, r, P, Q)) /\ (Link(r, c, P, Q) => Link(r, u, P, Q))
<1>1. Link(r, c, P, Q) => Link(r, u, P, Q)
  BY DEF Filled, Link, Numbered, Linked, Read, Stale, Matches
<1>2. ASSUME Link(c, r, P, Q) PROVE Link(u, r, P, Q)
  <2>1. CASE u.sub = c.sub /\ u.outRel = c.outRel
    BY <1>2, <2>1 DEF Filled, Link, Numbered, Linked, Read, Stale, Matches
  <2>2. ASSUME NEW k \in Subchannel, c.sub[k].state = "free",
               u.sub[k].state = "tosend", u.sub[k].seq = 0,
               \A j \in Subchannel \ {k} : u.sub[j] = c.sub[j],
               u.outRel = Flip(c.outRel, k)
        PROVE  Link(u, r, P, Q)
    <3>1. Numbered(u, r, P, Q)
      BY <1>2, <2>2 DEF Filled, Link, Numbered, Channel
    <3>2. k \in u.outRel <=> k \notin c.outRel
      BY <2>2 DEF Flip, SymDiff
    <3>3. Linked(u, r, P, Q, k)
      BY <1>2, <2>2, <3>2 DEF Filled, Link, Linked, Read, Stale, Matches
    <3>4. ASSUME NEW j \in Subchannel \ {k} PROVE Linked(u, r, P, Q, j)
      <4>1. j \in u.outRel <=> j \in c.outRel
        BY <2>2 DEF Flip, SymDiff
      <4> QED
        BY <1>2, <2>2, <4>1 DEF Filled, Link, Linked, Read, Stale, Matches
    <3> QED
      BY <3>1, <3>3, <3>4 DEF Link
  <2> QED
    BY <2>1, <2>2 DEF Filled
<1> QED
  BY <1>1, <1>2

(* The link a datagram is sent over ...                                     *)
LEMMA SentLinks ==
  ASSUME NEW u, Channel(u), NEW d, NEW p, Sent(u, d, p), NEW r, Channel(r),
         NEW P, NEW Q, \A x \in P \union Q : Datagram(x), Link(u, r, P, Q)
  PROVE  Link(d, r, P \union {p}, Q)
<1>1. Numbered(d, r, P \union {p}, Q)
  BY DEF Sent, Link, Numbered, Channel, Datagram
<1>2. ASSUME NEW k \in Subchannel PROVE Linked(d, r, P \union {p}, Q, k)
  <2>1. CASE p.sub = k
    <3>1. /\ u.sub[k].state = "tosend"
          /\ d.sub[k].state = "waiting" /\ d.sub[k].seq = u.outSeq /\ p.seq = u.outSeq
      BY <2>1, BoundAssumption DEF Sent, Subchannel
    <3>2. /\ ~Read(d, r, k)
          /\ \A q \in Q : ~Stale(d, q) => ~Matches(d, q, k)
          /\ \A x \in P : x.sub = k => Stale(r, x)
      BY <3>1 DEF Sent, Link, Linked, Read, Stale, Matches
    <3> QED
      BY <3>1, <3>2 DEF Linked
  <2>2. CASE p.sub # k
    <3>1. d.sub[k] = u.sub[k]
      BY <2>2 DEF Sent
    <3> QED
      BY <2>2, <3>1 DEF Sent, Link, Linked, Read, Stale, Matches
  <2> QED
    BY <2>1, <2>2
<1> QED
  BY <1>1, <1>2 DEF Link

(* ... and the one it acknowledges.                                         *)
LEMMA AcknowledgedLinks ==
  ASSUME NEW u, Channel(u), NEW d, NEW q, Sent(u, d, q), NEW c, Channel(c),
         NEW P, NEW Q, \A x \in P \union Q : Datagram(x), Link(c, u, P, Q)
  PROVE  Link(c, d, P, Q \union {q})
<1>1. Numbered(c, d, P, Q \union {q})
  BY DEF Sent, Link, Numbered, Channel, Datagram
<1>2. ASSUME NEW k \in Subchannel PROVE Linked(c, d, P, Q \union {q}, k)
  <2>1. /\ Read(c, d, k) <=> Read(c, u, k)
        /\ Matches(c, q, k) <=> Read(c, u, k)
        /\ \A p : Stale(d, p) <=> Stale(u, p)
    BY DEF Sent, Read, Matches, Stale
  <2>2. Linked(c, u, P, Q, k) /\ c.sub[k].seq \in Int /\ u.inSeq \in Nat /\ q.ack = u.inSeq
    BY DEF Link, Channel, Sent
  <2>3. d.inSeq = u.inSeq
    BY DEF Sent
  <2> QED
    BY <2>1, <2>2, <2>3 DEF Linked
<1> QED
  BY <1>1, <1>2 DEF Link

(* A header is read: the link whose sender learns of it ...                 *)
LEMMA TakenLinks ==
  ASSUME NEW c, Channel(c), NEW h, NEW r, Channel(r),
         NEW P, NEW Q, \A x \in P \union Q : Datagram(x), Link(c, r, P, Q),
         NEW q \in Q, ~Stale(c, q), Taken(c, h, q)
  PROVE  Link(h, r, P, Q)
<1>0. Free.state = "free" /\ Free.seq = -1
  BY DEF Free
<1>1. Numbered(h, r, P, Q)
  <2>1. \A k \in Subchannel : h.sub[k].seq \in {-1, c.sub[k].seq}
    BY <1>0 DEF Taken
  <2> QED
    BY <2>1 DEF Taken, Link, Numbered, Channel, Datagram
<1>2. \A x \in Q : ~Stale(h, x) => ~Stale(c, x) /\ q.ack <= x.ack
  BY DEF Stale, Taken, Datagram, Channel, Link, Numbered
<1>3. /\ \A k \in Subchannel : Read(h, r, k) <=> Read(c, r, k)
      /\ \A k \in Subchannel, x \in Q : Matches(h, x, k) <=> Matches(c, x, k)
  BY DEF Taken, Read, Matches
<1>4. ASSUME NEW k \in Subchannel PROVE Linked(h, r, P, Q, k)
  <2>0. Linked(c, r, P, Q, k) /\ c.sub[k].seq \in Int /\ c.sub[k].state \in States
    BY DEF Link, Channel
  <2>1. CASE c.sub[k].state = "waiting" /\ Matches(c, q, k)
    <3>1. Read(c, r, k) /\ c.sub[k].seq <= q.ack
      BY <2>0, <2>1 DEF Linked
    <3>2. \A x \in Q : ~Stale(h, x) => Matches(c, x, k)
      BY <1>2, <2>0, <2>1, <3>1 DEF Linked, Datagram
    <3>3. \A x \in P : x.sub = k => Stale(r, x)
      BY <2>0, <3>1 DEF Linked
    <3>4. h.sub[k] = Free
      BY <2>1 DEF Taken
    <3> QED
      BY <1>0, <1>3, <3>1, <3>2, <3>3, <3>4 DEF Linked
  <2>2. CASE c.sub[k].state = "waiting" /\ ~Matches(c, q, k) /\ c.sub[k].seq <= q.ack
    <3>1. ~Read(c, r, k)
      BY <2>0, <2>2 DEF Linked
    <3>2. \A x \in Q : ~Stale(h, x) => ~Matches(c, x, k)
      BY <1>2, <2>0, <2>2, <3>1 DEF Linked
    <3>3. c.sub[k].seq <= r.inSeq
      BY <2>0, <2>2 DEF Link, Numbered, Datagram, Channel
    <3>4. \A x \in P : x.sub = k => Stale(r, x)
      BY <2>0, <3>3 DEF Linked, Stale
    <3>5. h.sub[k].state = "tosend"
      BY <2>2 DEF Taken
    <3> QED
      BY <1>3, <3>1, <3>2, <3>4, <3>5 DEF Linked
  <2>3. CASE ~(c.sub[k].state = "waiting" /\ (Matches(c, q, k) \/ c.sub[k].seq <= q.ack))
    <3>1. h.sub[k] = c.sub[k]
      BY <2>3 DEF Taken
    <3> QED
      BY <1>2, <1>3, <2>0, <3>1 DEF Linked
  <2> QED
    BY <2>1, <2>2, <2>3
<1> QED
  BY <1>1, <1>4 DEF Link

(* ... and the one whose receiver reads.                                    *)
LEMMA ReadLinks ==
  ASSUME NEW c, Channel(c), NEW r, Channel(r), NEW d,
         NEW P, NEW Q, \A x \in P \union Q : Datagram(x), Link(c, r, P, Q),
         NEW p \in P, ~Stale(r, p), d.outSeq = r.outSeq, d.inSeq = p.seq,
         d.inRel \in {r.inRel, Flip(r.inRel, p.sub)}
  PROVE  Link(c, d, P, Q)
<1>0. p.seq > r.inSeq /\ p.seq \in Nat /\ r.inSeq \in Nat
  BY DEF Stale, Datagram, Channel
<1>1. Numbered(c, d, P, Q)
  BY <1>0 DEF Link, Numbered, Channel, Datagram
<1>2. \A x \in P : ~Stale(d, x) => ~Stale(r, x) /\ x.seq > p.seq
  BY <1>0 DEF Stale, Datagram
<1>3. ASSUME NEW k \in Subchannel PROVE Linked(c, d, P, Q, k)
  <2>0. Linked(c, r, P, Q, k) /\ c.sub[k].seq \in Int /\ c.sub[k].state \in States
    BY DEF Link, Channel
  <2>1. CASE p.sub = k
    <3>1. c.sub[k].state = "waiting" /\ c.sub[k].seq = p.seq /\ ~Read(c, r, k)
      BY <2>0, <2>1 DEF Linked
    <3>2. \A x \in P : x.sub = k => Stale(d, x)
      BY <1>2, <2>0, <3>1, <1>0 DEF Linked, Datagram
    <3>3. \A q \in Q : ~(c.sub[k].seq <= q.ack)
      BY <1>0, <3>1 DEF Link, Numbered, Datagram
    <3>4. ~(c.sub[k].seq > d.inSeq)
      BY <1>0, <3>1
    <3>5. \A q \in Q : ~Stale(c, q) => ~Matches(c, q, k)
      BY <2>0, <3>1, <3>3 DEF Linked
    <3> QED
      BY <3>1, <3>2, <3>3, <3>4, <3>5 DEF Linked
  <2>2. CASE p.sub # k
    <3>1. Read(c, d, k) <=> Read(c, r, k)
      BY <2>2 DEF Read, Flip, SymDiff
    <3>2. c.sub[k].seq > d.inSeq => c.sub[k].seq > r.inSeq
      BY <1>0, <2>0
    <3> QED
      BY <1>2, <2>0, <3>1, <3>2 DEF Linked
  <2> QED
    BY <2>1, <2>2
<1> QED
  BY <1>1, <1>3 DEF Link

-----------------------------------------------------------------------------
(* The steps of the ends.                                                   *)
LEMMA LinkInit == Init => LinkInv
<1> SUFFICES ASSUME Init PROVE LinkInv
  OBVIOUS
<1>1. Channel(NewChannel)
  BY DEF Channel, NewChannel, Fields, States, Free
<1>2. Link(NewChannel, NewChannel, {}, {})
  BY DEF Link, Numbered, Linked, NewChannel, Free, Read
<1>3. /\ chan = [e \in Ends |-> NewChannel] /\ net = {}
      /\ \A e \in Ends : To(e) = {} /\ To(Peer(e)) = {}
  BY DEF Init, To
<1>4. \A e \in Ends : chan[e] = NewChannel /\ chan[Peer(e)] = NewChannel
  BY <1>3, Peers
<1> QED
  BY <1>1, <1>2, <1>3, <1>4 DEF LinkInv

\* What is known of an end and its peer.
LEMMA BothEnds ==
  ASSUME LinkInv, NEW e \in Ends
  PROVE  /\ Channel(chan[e]) /\ Channel(chan[Peer(e)])
         /\ \A x \in To(e) \union To(Peer(e)) : Datagram(x)
         /\ Link(chan[e], chan[Peer(e)], To(Peer(e)), To(e))
         /\ Link(chan[Peer(e)], chan[e], To(e), To(Peer(e)))
<1>1. Peer(e) \in Ends /\ Peer(Peer(e)) = e
  BY Peers
<1>2. \A x \in To(e) \union To(Peer(e)) : Datagram(x)
  BY DEF LinkInv, To
<1>3. /\ Channel(chan[e]) /\ Channel(chan[Peer(e)])
      /\ Link(chan[e], chan[Peer(e)], To(Peer(e)), To(e))
      /\ Link(chan[Peer(e)], chan[Peer(Peer(e))], To(Peer(Peer(e))), To(Peer(e)))
  BY <1>1 DEF LinkInv
<1> QED
  BY <1>1, <1>2, <1>3

\* A step of one end keeps the invariant if both of its links are kept.
LEMMA OneEnd ==
  ASSUME LinkInv, NEW e \in Ends, NEW d, chan' = [chan EXCEPT ![e] = d], Channel(d),
         \A p \in net' : p \in net \/ (p.to \in Ends /\ Datagram(p)),
         Link(d, chan[Peer(e)], To(Peer(e))', To(e)'),
         Link(chan[Peer(e)], d, To(e)', To(Peer(e))')
  PROVE  LinkInv'
<1>1. DOMAIN chan' = Ends /\ \A f \in Ends : Channel(chan'[f])
  BY DEF LinkInv
<1>2. \A p \in net' : p.to \in Ends /\ Datagram(p)
  BY DEF LinkInv
<1>3. chan'[e] = d /\ chan'[Peer(e)] = chan[Peer(e)] /\ Peer(Peer(e)) = e
  BY Peers DEF LinkInv
<1>4. ASSUME NEW f \in Ends
      PROVE  Link(chan'[f], chan'[Peer(f)], To(Peer(f))', To(f)')
  <2>1. f = e \/ f = Peer(e)
    BY Peers
  <2> QED
    BY <2>1, <1>3
<1> QED
  BY <1>1, <1>2, <1>4 DEF LinkInv

LEMMA Accepting ==
  ASSUME LinkInv, NEW e \in Ends, SendMessage(e) \/ SendFile(e)
  PROVE  LinkInv'
<1> DEFINE d == chan'[e]
<1>1. /\ net' = net
      /\ \E lists, stream :
           \/ chan' = [chan EXCEPT ![e].stream = stream]
           \/ chan' = [chan EXCEPT ![e].waiting["file"] = lists]
  BY DEF SendMessage, SendFile
<1>2. chan' = [chan EXCEPT ![e] = d] /\ Channel(d) /\ Same(chan[e], d)
  BY <1>1 DEF LinkInv, Channel, Fields, Same
<1>3. To(e)' = To(e) /\ To(Peer(e))' = To(Peer(e))
  BY <1>1 DEF To
<1> HIDE DEF d
<1>4. /\ Link(d, chan[Peer(e)], To(Peer(e)), To(e))
      /\ Link(chan[Peer(e)], d, To(e), To(Peer(e)))
  BY <1>2, BothEnds, SameLinks
<1> QED
  BY <1>1, <1>2, <1>3, <1>4, OneEnd

LEMMA Transmitting ==
  ASSUME LinkInv, NEW e \in Ends, Transmit(e)
  PROVE  LinkInv'
<1> DEFINE c == chan[e]
           r == chan[Peer(e)]
           u == UpdateSubChannels(CreateFragmentsFromBuffer(e, c))
           d == SendDatagram(e, c).chan
           p == SendDatagram(e, c).packet
<1>1. chan' = [chan EXCEPT ![e] = d] /\ net' = net \union {p}
  BY DEF Transmit
<1>2. /\ Filled(c, u) /\ Channel(u) /\ Sent(u, d, p) /\ Channel(d)
      /\ p.to = Peer(e) /\ Datagram(p) /\ p.to \in Ends
  BY BothEnds, Sending, Peers
<1> HIDE DEF u, d, p
<1>3. To(e)' = To(e) /\ To(Peer(e))' = To(Peer(e)) \union {p}
  BY <1>1, <1>2, Peers DEF To
<1>4. Link(u, r, To(Peer(e)), To(e)) /\ Link(r, u, To(e), To(Peer(e)))
  BY <1>2, BothEnds, FilledLinks
<1>5. Link(d, r, To(Peer(e)) \union {p}, To(e))
  BY <1>2, <1>4, BothEnds, SentLinks
<1>6. Link(r, d, To(e), To(Peer(e)) \union {p})
  BY <1>2, <1>4, BothEnds, AcknowledgedLinks
<1> QED
  BY <1>1, <1>2, <1>3, <1>5, <1>6, OneEnd

(* The assertion, from the invariant.                                       *)
LEMMA HeadersAreValid == LinkInv => HeaderValid
<1> SUFFICES ASSUME LinkInv, NEW p \in net, ~Stale(chan[p.to], p), NEW k \in Subchannel
             PROVE  ~Invalid(chan[p.to], p, k)
  BY DEF HeaderValid
<1> DEFINE e == p.to
           c == chan[e]
<1>1. e \in Ends /\ p \in To(e) /\ Datagram(p)
  BY DEF LinkInv, To
<1> HIDE DEF e
<1>2. /\ Linked(c, chan[Peer(e)], To(Peer(e)), To(e), k)
      /\ c.sub[k].state \in States /\ c.sub[k].seq \in Int
  BY <1>1, BothEnds DEF Link, Channel
<1>3. ~Stale(c, p)
  BY DEF e
<1>4. ~Invalid(c, p, k)
  BY <1>1, <1>2, <1>3 DEF Linked, Invalid, Datagram, States
<1> QED
  BY <1>4 DEF e

LEMMA Processing ==
  ASSUME LinkInv, NEW e \in Ends, NEW p \in net, ProcessPacket(e, p, FALSE)
  PROVE  LinkInv'
<1> DEFINE c == chan[e]
           r == chan[Peer(e)]
           h == ProcessPacketHeader(c, p)
           d == Receive(h, p).chan
<1>1. p.to = e /\ ~Stale(c, p) /\ p \in To(e) /\ Datagram(p)
  BY DEF ProcessPacket, LinkInv, To
<1>2. \A k \in Subchannel : ~Invalid(c, p, k)
  BY <1>1, HeadersAreValid DEF HeaderValid
<1>3. chan' = [chan EXCEPT ![e] = d] /\ net' = net
  BY <1>2 DEF ProcessPacket
<1>4. Channel(h) /\ Taken(c, h, p)
  BY <1>1, <1>2, BothEnds, TakingHeader
<1> HIDE DEF h
<1>5. /\ Channel(d) /\ d.outSeq = h.outSeq /\ d.inSeq = h.inSeq
      /\ d.outRel = h.outRel /\ d.sub = h.sub
      /\ d.inRel \in {h.inRel, Flip(h.inRel, p.sub)}
  BY <1>4, TakingFragments
<1> HIDE DEF d
<1>6. Link(h, r, To(Peer(e)), To(e))
  BY <1>1, <1>4, BothEnds, TakenLinks
<1>7. Link(d, r, To(Peer(e)), To(e))
  BY <1>5, <1>6 DEF Link, Numbered, Linked, Read, Stale, Matches
<1>8. Link(r, d, To(e), To(Peer(e)))
  <2>1. d.outSeq = c.outSeq /\ d.inSeq = p.seq /\ d.inRel \in {c.inRel, Flip(c.inRel, p.sub)}
    BY <1>4, <1>5 DEF Taken
  <2> QED
    BY <2>1, <1>1, BothEnds, ReadLinks
<1>9. To(e)' = To(e) /\ To(Peer(e))' = To(Peer(e))
  BY <1>3 DEF To
<1> QED
  BY <1>3, <1>5, <1>7, <1>8, <1>9, OneEnd

LEMMA LinkStep == ASSUME Transmitters = {} PROVE LinkInv /\ [Next]_vars => LinkInv'
<1> SUFFICES ASSUME LinkInv, [Next]_vars PROVE LinkInv'
  OBVIOUS
<1>1. CASE UNCHANGED vars
  BY <1>1 DEF vars, LinkInv, To
<1>2. ASSUME NEW e \in Ends, SendMessage(e) \/ SendFile(e) \/ Transmit(e) PROVE LinkInv'
  BY <1>2, Accepting, Transmitting
<1>3. ASSUME NEW e \in Ends, NEW p \in net, NEW transmits \in {FALSE} \union {e \in Transmitters},
             ProcessPacket(e, p, transmits)
      PROVE  LinkInv'
  <2>1. transmits = FALSE
    BY <1>3
  <2> QED
    BY <2>1, <1>3, Processing
<1> QED
  BY <1>1, <1>2, <1>3 DEF Next

LEMMA Linking == ASSUME Transmitters = {} PROVE Spec => []LinkInv
BY LinkInit, LinkStep, PTL DEF Spec

-----------------------------------------------------------------------------
(* If no PacketStart callback transmits, no datagram that is accepted       *)
(* claims to have read what its sender had not seen (cnetchan.cpp:2408).    *)
THEOREM HeadersAlwaysValid == ASSUME Transmitters = {} PROVE Spec => []HeaderValid
BY Linking, HeadersAreValid, PTL

(* ... and a subchannel is sent again only while its fragments are unread.  *)
THEOREM OnlyLostIsResent == ASSUME Transmitters = {} PROVE Spec => []ResendOnlyLost
<1>1. LinkInv => ResendOnlyLost
  <2> SUFFICES ASSUME LinkInv, NEW e \in Ends, NEW k \in Subchannel, chan[e].sub[k].state = "tosend"
               PROVE  k \in Unread(e)
    BY DEF ResendOnlyLost
  <2>1. ~Read(chan[e], chan[Peer(e)], k)
    BY BothEnds DEF Link, Linked
  <2> QED
    BY <2>1 DEF Unread, Read
<1> QED
  BY <1>1, Linking, PTL

-----------------------------------------------------------------------------
(* Sums over finite sets, counted in pairs.                                 *)
Pairs(S, f) == UNION {{x} \X (1 .. f[x]) : x \in S}

LEMMA PairsMembers ==
  ASSUME NEW S, NEW f, NEW z
  PROVE  z \in Pairs(S, f) <=> \E x \in S : \E i \in 1 .. f[x] : z = <<x, i>>
<1>1. z \in Pairs(S, f) <=> \E x \in S : z \in {x} \X (1 .. f[x])
  BY DEF Pairs
<1>2. ASSUME NEW x \in S PROVE z \in {x} \X (1 .. f[x]) <=> \E i \in 1 .. f[x] : z = <<x, i>>
  OBVIOUS
<1> QED
  BY <1>1, <1>2

LEMMA TotalIsNat ==
  ASSUME NEW S, IsFiniteSet(S), NEW f, \A x \in S : f[x] \in Nat
  PROVE  IsFiniteSet(Pairs(S, f)) /\ Total(S, f) \in Nat /\ Total(S, f) = Cardinality(Pairs(S, f))
<1> DEFINE g == [x \in S |-> {x} \X (1 .. f[x])]
           G == {{x} \X (1 .. f[x]) : x \in S}
<1>1. g \in Surjection(S, G)
  BY DEF Surjection
<1>2. IsFiniteSet(G)
  BY <1>1, FS_Surjection
<1>3. ASSUME NEW x \in S PROVE IsFiniteSet({x} \X (1 .. f[x]))
  <2> DEFINE n == f[x]
  <2>0. n \in Int
    OBVIOUS
  <2> HIDE DEF n
  <2>1. IsFiniteSet({x})
    BY FS_Singleton
  <2>2. IsFiniteSet(1 .. n)
    BY <2>0, FS_Interval
  <2> QED
    BY <2>1, <2>2, FS_Product DEF n
<1>4. IsFiniteSet(UNION G)
  BY <1>2, <1>3, FS_UNION
<1> QED
  BY <1>4, FS_CardinalityType DEF Pairs, Total

LEMMA TotalOfNone == ASSUME NEW f PROVE Total({}, f) = 0
BY FS_EmptySet DEF Total

LEMMA TotalOfOne ==
  ASSUME NEW x, NEW f, f[x] \in Nat
  PROVE  Total({x}, f) = f[x]
<1> DEFINE n == f[x]
<1>1. Pairs({x}, f) = {x} \X (1 .. n)
  BY DEF Pairs
<1>2. n \in Nat
  OBVIOUS
<1> HIDE DEF n
<1>3. IsFiniteSet({x}) /\ Cardinality({x}) = 1
  BY FS_Singleton
<1>4. IsFiniteSet(1 .. n) /\ Cardinality(1 .. n) = n
  BY <1>2, FS_Interval
<1>5. Cardinality({x} \X (1 .. n)) = 1 * n
  BY <1>3, <1>4, FS_Product
<1>6. Total({x}, f) = Cardinality({x} \X (1 .. n))
  BY <1>1 DEF Pairs, Total
<1> QED
  BY <1>2, <1>5, <1>6 DEF n

\* A sum depends on the summands only ...
LEMMA TotalOfSame ==
  ASSUME NEW S, NEW f, NEW g, \A x \in S : f[x] = g[x]
  PROVE  Total(S, f) = Total(S, g)
<1>1. {{x} \X (1 .. f[x]) : x \in S} = {{x} \X (1 .. g[x]) : x \in S}
  OBVIOUS
<1> QED
  BY <1>1 DEF Total

\* ... can be taken in parts ...
LEMMA TotalOfParts ==
  ASSUME NEW S, IsFiniteSet(S), NEW T \in SUBSET S, NEW f, \A x \in S : f[x] \in Nat
  PROVE  /\ Total(S, f) = Total(T, f) + Total(S \ T, f)
         /\ Total(T, f) \in Nat /\ Total(S \ T, f) \in Nat
<1>1. IsFiniteSet(T) /\ IsFiniteSet(S \ T)
  BY FS_Subset
<1>2. /\ IsFiniteSet(Pairs(T, f)) /\ IsFiniteSet(Pairs(S \ T, f))
      /\ Total(T, f) = Cardinality(Pairs(T, f)) /\ Total(S \ T, f) = Cardinality(Pairs(S \ T, f))
      /\ Total(S, f) = Cardinality(Pairs(S, f))
      /\ Total(T, f) \in Nat /\ Total(S \ T, f) \in Nat
  BY <1>1, TotalIsNat
<1>3. Pairs(S, f) = Pairs(T, f) \union Pairs(S \ T, f)
  BY PairsMembers
<1>4. Pairs(T, f) \intersect Pairs(S \ T, f) = {}
  BY PairsMembers
<1>5. Cardinality(Pairs(T, f) \intersect Pairs(S \ T, f)) = 0
  BY <1>4, FS_EmptySet
<1> DEFINE A == Pairs(T, f)
           B == Pairs(S \ T, f)
<1>6. Cardinality(A \union B) = Cardinality(A) + Cardinality(B) - Cardinality(A \intersect B)
  <2>1. IsFiniteSet(A) /\ IsFiniteSet(B)
    BY <1>2
  <2> HIDE DEF A, B
  <2> QED
    BY <2>1, FS_Union
<1> QED
  BY <1>2, <1>3, <1>5, <1>6

\* ... and is 0 if every summand is.
LEMMA TotalOfZeros ==
  ASSUME NEW S, IsFiniteSet(S), NEW f, \A x \in S : f[x] \in Nat
  PROVE  Total(S, f) = 0 <=> \A x \in S : f[x] = 0
<1>1. Total(S, f) = 0 <=> Pairs(S, f) = {}
  BY TotalIsNat, FS_EmptySet
<1>2. Pairs(S, f) = {} <=> \A x \in S : 1 .. f[x] = {}
  <2>1. ASSUME NEW x \in S, NEW i \in 1 .. f[x] PROVE <<x, i>> \in Pairs(S, f)
    BY PairsMembers
  <2>2. ASSUME NEW z \in Pairs(S, f) PROVE \E x \in S : \E i \in 1 .. f[x] : TRUE
    BY PairsMembers
  <2> QED
    BY <2>1, <2>2
<1> QED
  BY <1>1, <1>2

\* One summand of a sum.
LEMMA TotalWithout ==
  ASSUME NEW S, IsFiniteSet(S), NEW f, \A x \in S : f[x] \in Nat, NEW k \in S
  PROVE  /\ Total(S, f) = f[k] + Total(S \ {k}, f)
         /\ Total(S \ {k}, f) \in Nat
<1>1. /\ Total(S, f) = Total({k}, f) + Total(S \ {k}, f)
      /\ Total(S \ {k}, f) \in Nat
  <2>1. {k} \in SUBSET S
    OBVIOUS
  <2> QED
    BY <2>1, TotalOfParts
<1>2. Total({k}, f) = f[k]
  BY TotalOfOne
<1> QED
  BY <1>1, <1>2

-----------------------------------------------------------------------------
(* Minima.                                                                  *)
LEMMA LeastNumber ==
  ASSUME NEW S, S \subseteq Nat, S # {}
  PROVE  Min(S) \in S /\ \A x \in S : Min(S) <= x
<1>1. PICK x \in S : \A y \in S : ~(<<y, x>> \in OpToRel(<, Nat))
  BY NatLessThanWellFounded, WFMin
<1>2. \A y \in S : ~(y < x)
  BY <1>1, Zenon DEF OpToRel
<1>3. ASSUME NEW y \in S PROVE x =< y
  <2>1. y \in Nat /\ x \in Nat /\ ~(y < x)
    BY <1>2
  <2> QED
    BY <2>1
<1> QED
  BY <1>3 DEF Min

-----------------------------------------------------------------------------
(* The books of a channel: its subchannels and its waiting lists agree on   *)
(* what is on its way.                                                      *)
Ledger(c, s) ==
  /\ c.waiting[s] = <<>> => \A k \in Subchannel : c.sub[k].num[s] = 0
  /\ c.waiting[s] # <<>> =>
       /\ c.waiting[s][1].pending = Total(Subchannel, Carried(c, s))
       /\ c.waiting[s][1].acked + c.waiting[s][1].pending <= c.waiting[s][1].frags
  /\ \A i \in 2 .. Len(c.waiting[s]) :
       c.waiting[s][i].acked = 0 /\ c.waiting[s][i].pending = 0

Booked(e, c) ==
  /\ c \in ChannelType
  /\ \A k \in Subchannel : c.sub[k].state = "free" => \A s \in Streams : c.sub[k].num[s] = 0
  /\ \A s \in Streams : Ledger(c, s)
  /\ \A i \in 1 .. Len(c.stream) : c.stream[i] \in 1 .. Len(setting.todo[e]["normal"])

LEMMA SubchannelsFinite ==
  /\ IsFiniteSet(Subchannel) /\ Subchannel \subseteq Nat \ {0} /\ Subchannel # {}
  /\ \A k \in Subchannel : k \in 1 .. NSubchannels
<1>1. NSubchannels \in Nat \ {0}
  BY BoundAssumption
<1>2. IsFiniteSet(1 .. NSubchannels)
  BY <1>1, FS_Interval
<1> QED
  BY <1>1, <1>2 DEF Subchannel

\* What the fields of a channel are.
LEMMA ChannelFields ==
  ASSUME NEW c \in ChannelType
  PROVE  /\ c.outSeq \in Nat /\ c.inSeq \in Nat /\ c.outAck \in Nat
         /\ c.outRel \in SUBSET Subchannel /\ c.inRel \in SUBSET Subchannel
         /\ c.stream \in Ids /\ c.sub \in [Subchannel -> SubType]
         /\ c.waiting \in [Streams -> Seq(ItemType)] /\ c.receive \in [Streams -> ListType]
BY DEF ChannelType

LEMMA SubFields ==
  ASSUME NEW c \in ChannelType, NEW k \in Subchannel
  PROVE  /\ c.sub[k] \in SubType
         /\ c.sub[k].state \in {"free", "tosend", "waiting"} /\ c.sub[k].seq \in Int
         /\ c.sub[k].start \in [Streams -> Int] /\ c.sub[k].num \in [Streams -> Nat]
BY ChannelFields DEF SubType

LEMMA CarriedIsNat ==
  ASSUME NEW c \in ChannelType, NEW s \in Streams
  PROVE  /\ \A k \in Subchannel : Carried(c, s)[k] = c.sub[k].num[s] /\ Carried(c, s)[k] \in Nat
         /\ Total(Subchannel, Carried(c, s)) \in Nat
<1>1. \A k \in Subchannel : Carried(c, s)[k] = c.sub[k].num[s] /\ Carried(c, s)[k] \in Nat
  BY SubFields DEF Carried
<1> QED
  BY <1>1, TotalIsNat, SubchannelsFinite

LEMMA UnsentIsNat ==
  ASSUME NEW e, NEW c, Booked(e, c), NEW s \in Streams
  PROVE  /\ Unsent(c, s) \in Nat
         /\ c.waiting[s] = <<>> => Unsent(c, s) = 0
         /\ c.waiting[s] # <<>> =>
              /\ c.waiting[s][1] \in ItemType
              /\ Head(c.waiting[s]) = c.waiting[s][1]
              /\ Unsent(c, s) = c.waiting[s][1].frags - c.waiting[s][1].acked - c.waiting[s][1].pending
<1>1. c.waiting[s] \in Seq(ItemType)
  BY ChannelFields DEF Booked
<1>2. CASE c.waiting[s] = <<>>
  BY <1>2 DEF Unsent
<1>3. CASE c.waiting[s] # <<>>
  <2>1. c.waiting[s][1] \in ItemType /\ Head(c.waiting[s]) = c.waiting[s][1]
    BY <1>1, <1>3
  <2>2. Unsent(c, s) = c.waiting[s][1].frags - c.waiting[s][1].acked - c.waiting[s][1].pending
    BY <1>3, <2>1 DEF Unsent
  <2>3. c.waiting[s][1].acked + c.waiting[s][1].pending <= c.waiting[s][1].frags
    BY <1>3 DEF Booked, Ledger
  <2>4. Unsent(c, s) \in Nat
    BY <2>1, <2>2, <2>3 DEF ItemType
  <2> QED
    BY <1>3, <2>1, <2>2, <2>4
<1> QED
  BY <1>2, <1>3

-----------------------------------------------------------------------------
(* The operators on a channel keep the books.                               *)
LEMMA SizeIsPositive ==
  ASSUME setting \in Setting, NEW e \in Ends, NEW ids \in Ids, ids # <<>>,
         \A i \in 1 .. Len(ids) : ids[i] \in 1 .. Len(setting.todo[e]["normal"])
  PROVE  Size(e, ids) \in Nat \ {0}
<1> DEFINE f == setting.todo[e]["normal"]
           S == ToSet(ids)
<1>1. f \in Seq(Nat \ {0})
  BY DEF Setting, Streams
<1>2. S \subseteq 1 .. Len(f) /\ S # {}
  BY DEF ToSet, Ids
<1>3. \A x \in S : f[x] \in Nat \ {0}
  BY <1>1, <1>2
<1> HIDE DEF f, S
<1>4. IsFiniteSet(S)
  <2>1. Len(f) \in Int
    BY <1>1
  <2>2. IsFiniteSet(1 .. Len(f))
    BY <2>1, FS_Interval
  <2> QED
    BY <1>2, <2>2, FS_Subset
<1>5. Total(S, f) \in Nat /\ Total(S, f) # 0
  <2>1. \A x \in S : f[x] \in Nat
    BY <1>3
  <2>2. Total(S, f) \in Nat
    BY <1>4, <2>1, TotalIsNat
  <2>3. Total(S, f) = 0 <=> \A x \in S : f[x] = 0
    BY <1>4, <2>1, TotalOfZeros
  <2> QED
    BY <1>2, <1>3, <2>2, <2>3
<1> QED
  BY <1>5 DEF Size, f, S

LEMMA BookedCut ==
  ASSUME setting \in Setting, NEW e \in Ends, NEW c, Booked(e, c)
  PROVE  Booked(e, CreateFragmentsFromBuffer(e, c))
<1> DEFINE list == c.waiting["normal"]
           n == Size(e, c.stream)
           last == Last(list)
           merges == Len(list) > 1 /\ last.frags + n < MaxPayload
           items == IF merges THEN Append(Front(list), Item(last.ids \o c.stream, last.frags + n))
                    ELSE Append(list, Item(c.stream, n))
           d == CreateFragmentsFromBuffer(e, c)
<1>1. CASE c.stream = <<>>
  BY <1>1 DEF CreateFragmentsFromBuffer
<1>2. CASE c.stream # <<>>
  <2>1. d = [c EXCEPT !.waiting["normal"] = items, !.stream = <<>>]
    BY <1>2 DEF CreateFragmentsFromBuffer
  <2>2. c \in ChannelType /\ c.stream \in Ids /\ list \in Seq(ItemType) /\ "normal" \in Streams
    BY ChannelFields DEF Booked, Streams
  <2>3. n \in Nat \ {0}
    BY <1>2, <2>2, SizeIsPositive DEF Booked
  <2>4. Item(c.stream, n) \in ItemType
    BY <2>2, <2>3 DEF Item, ItemType
  <2> HIDE DEF n
  <2>5. /\ items \in Seq(ItemType) /\ items # <<>>
        /\ list # <<>> => items[1] = list[1]
        /\ \A i \in 2 .. Len(items) :
             items[i].acked = 0 /\ items[i].pending = 0
        /\ list = <<>> => items = <<Item(c.stream, n)>>
    <3>0. \A i \in 2 .. Len(list) : list[i].acked = 0 /\ list[i].pending = 0
      BY <2>2 DEF Booked, Ledger
    <3>1. CASE ~merges
      <4> DEFINE w == Item(c.stream, n)
      <4>1. w.acked = 0 /\ w.pending = 0
        BY DEF Item
      <4>2. items = Append(list, w)
        BY <3>1
      <4>3. w \in ItemType /\ list \in Seq(ItemType)
        BY <2>2, <2>4
      <4> HIDE DEF w, list, items
      <4>4. /\ items \in Seq(ItemType) /\ items # <<>> /\ Len(items) = Len(list) + 1
            /\ \A i \in 1 .. Len(list) : items[i] = list[i]
            /\ items[Len(list) + 1] = w
        BY <4>2, <4>3
      <4>5. list = <<>> => items = <<w>>
        BY <4>2, <4>3
      <4>6. list # <<>> => items[1] = list[1]
        BY <4>3, <4>4
      <4>7. \A i \in 2 .. Len(items) : items[i].acked = 0 /\ items[i].pending = 0
        <5> SUFFICES ASSUME NEW i \in 2 .. Len(items)
                     PROVE  items[i].acked = 0 /\ items[i].pending = 0
          OBVIOUS
        <5>1. i \in 2 .. Len(list) \/ i = Len(list) + 1
          BY <4>3, <4>4
        <5> QED
          BY <5>1, <3>0, <4>1, <4>3, <4>4
      <4> QED
        BY <4>4, <4>5, <4>6, <4>7 DEF w
    <3>2. CASE merges
      <4>1. last \in ItemType /\ last = list[Len(list)]
        BY <3>2, <2>2 DEF Last
      <4>2. Item(last.ids \o c.stream, last.frags + n) \in ItemType
        <5>1. last.ids \in Ids /\ last.frags \in Nat \ {0}
          BY <4>1 DEF ItemType
        <5>2. last.ids \o c.stream \in Ids /\ last.frags + n \in Nat \ {0}
          BY <5>1, <2>2, <2>3 DEF Ids
        <5> QED
          BY <5>2 DEF Item, ItemType
      <4>3. /\ Front(list) \in Seq(ItemType) /\ Len(Front(list)) = Len(list) - 1
            /\ \A i \in 1 .. Len(list) - 1 : Front(list)[i] = list[i]
        BY <3>2, <2>2 DEF Front
      <4> DEFINE w == Item(last.ids \o c.stream, last.frags + n)
                 front == Front(list)
      <4>4. w.acked = 0 /\ w.pending = 0
        BY DEF Item
      <4>5. items = Append(front, w)
        BY <3>2
      <4> HIDE DEF w, front, items
      <4> QED
        BY <3>0, <3>2, <2>2, <4>2, <4>3, <4>4, <4>5 DEF w, front
    <3> QED
      BY <3>1, <3>2
  <2> HIDE DEF items, d
  <2>6. /\ d \in ChannelType /\ d.sub = c.sub /\ d.stream = <<>>
        /\ d.waiting = [c.waiting EXCEPT !["normal"] = items]
    <3> DEFINE W == [c.waiting EXCEPT !["normal"] = items]
    <3>1. W \in [Streams -> Seq(ItemType)]
      BY <2>2, <2>5, ChannelFields
    <3>2. d = [c EXCEPT !.waiting = W, !.stream = <<>>]
      BY <2>1, <2>2 DEF ChannelType
    <3>3. <<>> \in Ids
      BY DEF Ids
    <3> HIDE DEF W
    <3>4. d \in ChannelType /\ d.sub = c.sub /\ d.stream = <<>> /\ d.waiting = W
      BY <3>1, <3>2, <3>3, <2>2 DEF ChannelType
    <3> QED
      BY <3>4 DEF W
  <2>7. ASSUME NEW s \in Streams PROVE Ledger(d, s)
    <3>1. Carried(d, s) = Carried(c, s)
      BY <2>6 DEF Carried
    <3>2. CASE s # "normal"
      <4>1. d.waiting[s] = c.waiting[s]
        BY <2>6, <3>2, <2>2, ChannelFields
      <4> QED
        BY <4>1, <3>1, <2>6 DEF Booked, Ledger
    <3>3. CASE s = "normal"
      <4>1. d.waiting[s] = items
        BY <2>6, <3>3, <2>2, ChannelFields
      <4>2. CASE list # <<>>
        BY <4>1, <4>2, <3>1, <2>5, <3>3, <2>6 DEF Booked, Ledger
      <4>3. CASE list = <<>>
        <5>1. \A k \in Subchannel : Carried(c, s)[k] = 0
          BY <4>3, <3>3, <2>2, CarriedIsNat DEF Booked, Ledger
        <5>2. Total(Subchannel, Carried(c, s)) = 0
          BY <5>1, <2>2, CarriedIsNat, SubchannelsFinite, TotalOfZeros
        <5>3. items[1].acked = 0 /\ items[1].pending = 0 /\ items[1].frags = n
          BY <4>3, <2>5 DEF Item
        <5> QED
          BY <4>1, <5>2, <5>3, <3>1, <2>5, <2>3 DEF Ledger
      <4> QED
        BY <4>2, <4>3
    <3> QED
      BY <3>2, <3>3
  <2> QED
    BY <2>6, <2>7 DEF Booked, d
<1> QED
  BY <1>1, <1>2

LEMMA ItemUpdate ==
  ASSUME NEW x \in ItemType, NEW a \in Nat, NEW n \in Nat
  PROVE  /\ [x EXCEPT !.acked = a, !.pending = n] \in ItemType
         /\ [x EXCEPT !.pending = n] \in ItemType
BY DEF ItemType

LEMMA PortionFits ==
  ASSUME setting \in Setting, NEW e \in Ends, NEW c, Booked(e, c)
  PROVE  /\ Portion(c) \in [Streams -> Nat]
         /\ \A s \in Streams : Portion(c)[s] <= Unsent(c, s)
<1> DEFINE n == Min({setting.max, Unsent(c, "normal")})
           f == Min({setting.max - n, setting.fileMax, Unsent(c, "file")})
<1>1. /\ "normal" \in Streams /\ "file" \in Streams /\ "normal" # "file"
      /\ \A s \in Streams : s = "normal" \/ s = "file"
  BY DEF Streams
<1>2. /\ setting.max \in Nat /\ setting.fileMax \in Nat
      /\ Unsent(c, "normal") \in Nat /\ Unsent(c, "file") \in Nat
  BY <1>1, UnsentIsNat DEF Setting
<1>3. n \in {setting.max, Unsent(c, "normal")} /\ n <= setting.max /\ n <= Unsent(c, "normal")
  <2> DEFINE S == {setting.max, Unsent(c, "normal")}
  <2>1. S \subseteq Nat /\ S # {} /\ setting.max \in S /\ Unsent(c, "normal") \in S
    BY <1>2
  <2> HIDE DEF S
  <2>2. Min(S) \in S /\ \A x \in S : Min(S) <= x
    BY <2>1, LeastNumber
  <2> QED
    BY <2>1, <2>2 DEF S
<1> HIDE DEF n
<1>4. n \in Nat /\ setting.max - n \in Nat
  BY <1>2, <1>3
<1>5. f \in Nat /\ f <= Unsent(c, "file")
  <2> DEFINE S == {setting.max - n, setting.fileMax, Unsent(c, "file")}
  <2>1. S \subseteq Nat /\ S # {} /\ Unsent(c, "file") \in S
    BY <1>2, <1>4
  <2> HIDE DEF S
  <2>2. Min(S) \in S /\ \A x \in S : Min(S) <= x
    BY <2>1, LeastNumber
  <2>3. Min(S) \in Nat /\ Min(S) <= Unsent(c, "file")
    BY <2>1, <2>2
  <2> QED
    BY <2>3 DEF S
<1>6. Portion(c) = [s \in Streams |-> IF s = "normal" THEN n ELSE IF s = "file" THEN f
                                      ELSE Min({setting.max - n, setting.fileMax, Unsent(c, s)})]
  BY <1>1 DEF Portion, n
<1> HIDE DEF f
<1> QED
  BY <1>1, <1>3, <1>4, <1>5, <1>6

\* What filling subchannel k with num fragments of the streams changes.
Loaded(c, d, k, num) ==
  /\ num \in [Streams -> Nat]
  /\ \A s \in Streams : num[s] <= Unsent(c, s)
  /\ \A s \in Streams : num[s] # 0 => c.waiting[s] # <<>>
  /\ d \in ChannelType /\ d.stream = c.stream /\ d.receive = c.receive
  /\ d.outRel = Flip(c.outRel, k) /\ d.inRel = c.inRel
  /\ d.outSeq = c.outSeq /\ d.inSeq = c.inSeq
  /\ k \in Subchannel /\ c.sub[k].state = "free"
  /\ d.sub[k] = [state |-> "tosend", seq |-> 0, num |-> num,
                 start |-> [s \in Streams |-> IF num[s] = 0 THEN -1
                              ELSE c.waiting[s][1].acked + c.waiting[s][1].pending]]
  /\ \A j \in Subchannel \ {k} : d.sub[j] = c.sub[j]
  /\ \A s \in Streams :
       d.waiting[s] = IF num[s] = 0 THEN c.waiting[s]
                      ELSE [c.waiting[s] EXCEPT ![1].pending = @ + num[s]]

LEMMA FillChanges ==
  ASSUME setting \in Setting, NEW e \in Ends, NEW c, Booked(e, c), UpdateSubChannels(c) # c
  PROVE  \E k \in Subchannel : Loaded(c, UpdateSubChannels(c), k, Portion(c))
<1> DEFINE free == {k \in Subchannel : c.sub[k].state = "free"}
           d == UpdateSubChannels(c)
           num == Portion(c)
           k == Min(free)
           start == [s \in Streams |->
                       IF num[s] = 0 THEN -1 ELSE c.waiting[s][1].acked + c.waiting[s][1].pending]
           new == [state |-> "tosend", seq |-> 0, num |-> num, start |-> start]
           sub == [c.sub EXCEPT ![k] = new]
           W == [s \in Streams |-> IF num[s] = 0 THEN c.waiting[s]
                                   ELSE [c.waiting[s] EXCEPT ![1].pending = @ + num[s]]]
<1>1. free # {} /\ d = Fill(c, k, num)
  BY Zenon DEF UpdateSubChannels
<1>2. k \in Subchannel /\ c.sub[k].state = "free"
  <2>1. free \subseteq Nat
    BY SubchannelsFinite
  <2>2. k \in free
    BY <1>1, <2>1, LeastNumber
  <2> QED
    BY <2>2
<1> HIDE DEF k
<1>3. num \in [Streams -> Nat] /\ \A s \in Streams : num[s] <= Unsent(c, s)
  BY PortionFits
<1> HIDE DEF num
<1>4. c \in ChannelType
  BY DEF Booked
<1>5. ASSUME NEW s \in Streams, num[s] # 0
      PROVE  /\ c.waiting[s] # <<>> /\ Head(c.waiting[s]) = c.waiting[s][1]
             /\ c.waiting[s][1] \in ItemType
  BY <1>3, <1>5, UnsentIsNat
<1>6. start \in [Streams -> Int]
  <2>1. ASSUME NEW s \in Streams
        PROVE  (IF num[s] = 0 THEN -1 ELSE c.waiting[s][1].acked + c.waiting[s][1].pending) \in Int
    BY <1>5 DEF ItemType
  <2> QED
    BY <2>1
<1>7. start = [s \in Streams |-> IF num[s] = 0 THEN -1
                 ELSE Head(c.waiting[s]).acked + Head(c.waiting[s]).pending]
  BY <1>5
<1>8. W \in [Streams -> Seq(ItemType)]
  <2>1. ASSUME NEW s \in Streams, num[s] # 0
        PROVE  [c.waiting[s] EXCEPT ![1].pending = @ + num[s]] \in Seq(ItemType)
    <3> DEFINE l == c.waiting[s]
               w == [l[1] EXCEPT !.pending = @ + num[s]]
    <3>1. l \in Seq(ItemType) /\ l # <<>> /\ l[1] \in ItemType /\ num[s] \in Nat
      BY <2>1, <1>3, <1>4, <1>5, ChannelFields
    <3>2. w \in ItemType
      <4>1. l[1].pending + num[s] \in Nat
        BY <3>1 DEF ItemType
      <4> HIDE DEF l
      <4> QED
        BY <3>1, <4>1, ItemUpdate
    <3> HIDE DEF l
    <3> HIDE DEF w
    <3>3. [l EXCEPT ![1] = w] \in Seq(ItemType)
      BY <3>1, <3>2
    <3> QED
      BY <3>3 DEF w, l
  <2>2. ASSUME NEW s \in Streams PROVE c.waiting[s] \in Seq(ItemType)
    BY <1>4, ChannelFields
  <2> QED
    BY <2>1, <2>2
<1>9. sub \in [Subchannel -> SubType]
  <2>1. new \in SubType
    BY <1>3, <1>6 DEF SubType
  <2> HIDE DEF new
  <2> QED
    BY <2>1, <1>2, <1>4, ChannelFields
<1>10. d = [c EXCEPT !.sub = sub, !.outRel = Flip(c.outRel, k), !.waiting = W]
  <2> DEFINE S == [state |-> "tosend", seq |-> 0, num |-> num,
                   start |-> [s \in Streams |-> IF num[s] = 0 THEN -1
                                ELSE Head(c.waiting[s]).acked + Head(c.waiting[s]).pending]]
  <2>1. d = [c EXCEPT !.sub[k] = S, !.outRel = Flip(@, k), !.waiting = W]
    BY <1>1, <1>4 DEF Fill, ChannelType
  <2>2. S = new
    BY <1>7
  <2> HIDE DEF S, new, W, d
  <2>3. d = [c EXCEPT !.sub[k] = new, !.outRel = Flip(@, k), !.waiting = W]
    BY <2>1, <2>2
  <2>4. d = [c EXCEPT !.sub = sub, !.outRel = Flip(c.outRel, k), !.waiting = W]
    BY <2>3, <1>4 DEF ChannelType
  <2> QED
    BY <2>4
<1>11. Flip(c.outRel, k) \in SUBSET Subchannel
  BY <1>2, <1>4, ChannelFields DEF Flip, SymDiff
<1>12. /\ \A s \in Streams : W[s] = IF num[s] = 0 THEN c.waiting[s]
                                    ELSE [c.waiting[s] EXCEPT ![1].pending = @ + num[s]]
       /\ sub[k] = new /\ \A j \in Subchannel \ {k} : sub[j] = c.sub[j]
  BY <1>2, <1>4, ChannelFields
<1> HIDE DEF W, sub, start, d, new
<1>13. /\ d \in ChannelType /\ d.sub = sub /\ d.waiting = W
       /\ d.stream = c.stream /\ d.receive = c.receive
       /\ d.outRel = Flip(c.outRel, k) /\ d.inRel = c.inRel
       /\ d.outSeq = c.outSeq /\ d.inSeq = c.inSeq
  BY <1>4, <1>8, <1>9, <1>10, <1>11 DEF ChannelType
<1>14. Loaded(c, d, k, num)
  BY <1>2, <1>3, <1>5, <1>12, <1>13 DEF Loaded, new, start
<1> QED
  BY <1>2, <1>14 DEF num, d

LEMMA BookedFill ==
  ASSUME setting \in Setting, NEW e \in Ends, NEW c, Booked(e, c)
  PROVE  Booked(e, UpdateSubChannels(c))
<1> DEFINE d == UpdateSubChannels(c)
           num == Portion(c)
<1> SUFFICES ASSUME d # c PROVE Booked(e, d)
  BY Zenon
<1>0. PICK k \in Subchannel : Loaded(c, d, k, num)
  BY FillChanges
<1> HIDE DEF d, num
<1>1. /\ c.sub[k].state = "free"
      /\ d.sub[k] = [state |-> "tosend", seq |-> 0, num |-> num,
                     start |-> [s \in Streams |-> IF num[s] = 0 THEN -1
                                  ELSE c.waiting[s][1].acked + c.waiting[s][1].pending]]
      /\ \A j \in Subchannel \ {k} : d.sub[j] = c.sub[j]
  BY <1>0 DEF Loaded
<1>2. /\ num \in [Streams -> Nat]
      /\ \A s \in Streams : num[s] <= Unsent(c, s) /\ (num[s] # 0 => c.waiting[s] # <<>>)
      /\ d \in ChannelType /\ d.stream = c.stream
      /\ \A s \in Streams :
                 d.waiting[s] = IF num[s] = 0 THEN c.waiting[s]
                                ELSE [c.waiting[s] EXCEPT ![1].pending = @ + num[s]]
  BY <1>0 DEF Loaded
<1>3. c \in ChannelType
  BY DEF Booked
<1>4. d.sub[k].num = num /\ d.sub[k].state = "tosend"
  BY <1>1
<1>5. \A j \in Subchannel : d.sub[j].state = "free" => \A s \in Streams : d.sub[j].num[s] = 0
  BY <1>1, <1>4 DEF Booked
<1>6. ASSUME NEW s \in Streams PROVE Ledger(d, s)
  <2> DEFINE F == Carried(c, s)
             G == Carried(d, s)
  <2>1. /\ \A j \in Subchannel : F[j] = c.sub[j].num[s] /\ F[j] \in Nat
        /\ \A j \in Subchannel : G[j] = d.sub[j].num[s] /\ G[j] \in Nat
    BY <1>2, <1>3, CarriedIsNat
  <2> HIDE DEF F, G
  <2>2. /\ Total(Subchannel, F) = F[k] + Total(Subchannel \ {k}, F)
        /\ Total(Subchannel, G) = G[k] + Total(Subchannel \ {k}, G)
        /\ Total(Subchannel \ {k}, F) \in Nat
    BY <2>1, TotalWithout, SubchannelsFinite
  <2>3. Total(Subchannel \ {k}, F) = Total(Subchannel \ {k}, G)
    BY <1>1, <2>1, TotalOfSame
  <2>4. F[k] = 0 /\ G[k] = num[s]
    BY <1>1, <1>4, <2>1 DEF Booked
  <2>5. Total(Subchannel, G) = Total(Subchannel, F) + num[s]
    BY <1>2, <2>2, <2>3, <2>4
  <2>6. Ledger(c, s)
    BY DEF Booked
  <2>7. CASE num[s] = 0
    <3>1. d.waiting[s] = c.waiting[s]
      BY <1>2, <2>7
    <3>2. Total(Subchannel, G) = Total(Subchannel, F)
      BY <2>2, <2>3, <2>4, <2>7
    <3>3. ASSUME c.waiting[s] = <<>>, NEW j \in Subchannel PROVE d.sub[j].num[s] = 0
      <4>1. c.sub[j].num[s] = 0
        BY <3>3, <2>6 DEF Ledger
      <4> QED
        BY <4>1, <1>1, <1>4, <2>7
    <3> QED
      BY <2>6, <3>1, <3>2, <3>3 DEF Ledger, F, G
  <2>8. CASE num[s] # 0
    <3> DEFINE l == c.waiting[s]
               m == d.waiting[s]
    <3>1. /\ l # <<>> /\ l \in Seq(ItemType) /\ l[1] \in ItemType
          /\ Unsent(c, s) = l[1].frags - l[1].acked - l[1].pending
      BY <1>2, <1>3, <2>8, UnsentIsNat, ChannelFields
    <3>2. m = [l EXCEPT ![1].pending = @ + num[s]] /\ num[s] \in Nat /\ num[s] <= Unsent(c, s)
      BY <1>2, <2>8
    <3> HIDE DEF l, m
    <3>3. /\ m # <<>> /\ Len(m) = Len(l) /\ \A i \in 2 .. Len(l) : m[i] = l[i]
          /\ m[1].pending = l[1].pending + num[s] /\ m[1].acked = l[1].acked
          /\ m[1].frags = l[1].frags
      BY <3>1, <3>2 DEF ItemType
    <3>4. l[1].pending = Total(Subchannel, F) /\ \A i \in 2 .. Len(l) : l[i].acked = 0 /\ l[i].pending = 0
      BY <2>6, <3>1 DEF Ledger, l, F
    <3>5. m[1].pending = Total(Subchannel, G) /\ m[1].acked + m[1].pending <= m[1].frags
      BY <2>5, <3>1, <3>2, <3>3, <3>4 DEF ItemType
    <3> QED
      BY <3>3, <3>4, <3>5 DEF Ledger, m, G
  <2> QED
    BY <2>7, <2>8
<1> QED
  BY <1>2, <1>5, <1>6 DEF Booked

\* What sending datagram p changes.
Shipped(u, d, p) ==
  /\ d \in ChannelType /\ p \in PacketType
  /\ d.waiting = u.waiting /\ d.stream = u.stream /\ d.receive = u.receive
  /\ \A j \in Subchannel :
       /\ d.sub[j].num = u.sub[j].num /\ d.sub[j].start = u.sub[j].start
       /\ d.sub[j].state = "free" <=> u.sub[j].state = "free"
  /\ \A s \in Streams : p.frag[s] = Fragments(u, p.sub, s)

LEMMA Shipping ==
  ASSUME setting \in Setting, NEW e \in Ends, NEW c, Booked(e, c)
  PROVE  LET u == UpdateSubChannels(CreateFragmentsFromBuffer(e, c))
         IN Booked(e, u) /\ Shipped(u, SendDatagram(e, c).chan, SendDatagram(e, c).packet)
<1> DEFINE u == UpdateSubChannels(CreateFragmentsFromBuffer(e, c))
           d == SendDatagram(e, c).chan
           p == SendDatagram(e, c).packet
           ready == {k \in Subchannel : u.sub[k].state = "tosend"}
           k == IF ready = {} THEN 0 ELSE Min(ready)
           frag == [s \in Streams |-> Fragments(u, k, s)]
           sub == IF k = 0 THEN u.sub
                  ELSE [u.sub EXCEPT ![k] = [u.sub[k] EXCEPT !.seq = u.outSeq, !.state = "waiting"]]
<1>1. Booked(e, u)
  BY BookedCut, BookedFill
<1>2. /\ p = [to |-> Peer(e), seq |-> u.outSeq, ack |-> u.inSeq, rel |-> u.inRel, sub |-> k,
              frag |-> frag]
      /\ d = [u EXCEPT !.outSeq = @ + 1,
                       !.sub = IF k = 0 THEN @
                               ELSE [@ EXCEPT ![k].seq = u.outSeq, ![k].state = "waiting"]]
  BY DEF SendDatagram
<1> HIDE DEF u
<1>3. ready # {} => Min(ready) \in ready
  <2>1. ready \subseteq Nat
    BY SubchannelsFinite
  <2> HIDE DEF ready
  <2> QED
    BY <2>1, LeastNumber
<1>4. k \in {0} \union Subchannel /\ (k # 0 => k \in Subchannel /\ u.sub[k].state = "tosend")
  BY <1>3, SubchannelsFinite
<1> HIDE DEF k
<1>5. u \in ChannelType
  BY <1>1 DEF Booked
<1>6. frag \in [Streams -> FragmentsType]
  <2>1. ASSUME NEW s \in Streams PROVE Fragments(u, k, s) \in FragmentsType
    <3>1. CASE k = 0 \/ u.sub[k].num[s] = 0
      <4>1. NoFragments \in FragmentsType
        BY DEF NoFragments, FragmentsType, Ids
      <4> QED
        BY <3>1, <4>1 DEF Fragments
    <3>2. CASE ~(k = 0 \/ u.sub[k].num[s] = 0)
      <4>1. k \in Subchannel /\ u.waiting[s] # <<>>
        BY <3>2, <1>1, <1>4 DEF Booked, Ledger
      <4>2. Head(u.waiting[s]) \in ItemType
        BY <4>1, <1>1, UnsentIsNat
      <4>3. u.sub[k].start[s] \in Int /\ u.sub[k].num[s] \in Nat
        BY <4>1, <1>5, SubFields
      <4> QED
        BY <3>2, <4>2, <4>3 DEF Fragments, FragmentsType, ItemType
    <3> QED
      BY <3>1, <3>2
  <2> QED
    BY <2>1
<1>7. p \in PacketType
  <2>1. Peer(e) \in Ends
    BY Peers
  <2>2. k \in 0 .. NSubchannels
    BY <1>4, BoundAssumption DEF Subchannel
  <2>3. u.outSeq \in Nat /\ u.inSeq \in Nat /\ u.inRel \in SUBSET Subchannel
    BY <1>5, ChannelFields
  <2> HIDE DEF frag, p
  <2> QED
    BY <1>2, <1>6, <2>1, <2>2, <2>3 DEF PacketType
<1>8. sub \in [Subchannel -> SubType]
  <2>1. ASSUME k # 0
        PROVE  [u.sub[k] EXCEPT !.seq = u.outSeq, !.state = "waiting"] \in SubType
    <3>1. u.sub[k] \in SubType /\ u.outSeq \in Int
      BY <2>1, <1>4, <1>5, SubFields, ChannelFields
    <3> QED
      BY <3>1 DEF SubType
  <2>2. u.sub \in [Subchannel -> SubType]
    BY <1>5, ChannelFields
  <2> QED
    BY <1>4, <2>1, <2>2
<1>9. d = [u EXCEPT !.outSeq = u.outSeq + 1, !.sub = sub]
  BY <1>2, <1>4, <1>5 DEF ChannelType
<1>10. ASSUME NEW j \in Subchannel
       PROVE  /\ sub[j].num = u.sub[j].num /\ sub[j].start = u.sub[j].start
              /\ sub[j].state = "free" <=> u.sub[j].state = "free"
  <2>1. u.sub \in [Subchannel -> SubType] /\ u.sub[j] \in SubType
    BY <1>5, ChannelFields
  <2>2. CASE j # k \/ k = 0
    <3>1. sub[j] = u.sub[j]
      BY <2>1, <2>2
    <3> QED
      BY <3>1
  <2>3. CASE j = k /\ k # 0
    <3>1. sub[j] = [u.sub[j] EXCEPT !.seq = u.outSeq, !.state = "waiting"]
      BY <2>1, <2>3
    <3> HIDE DEF sub
    <3> QED
      BY <3>1, <2>1, <2>3, <1>4 DEF SubType
  <2> QED
    BY <2>2, <2>3
<1> HIDE DEF sub, d
<1>11. /\ d \in ChannelType /\ d.sub = sub
       /\ d.waiting = u.waiting /\ d.stream = u.stream /\ d.receive = u.receive
  <2> DEFINE q == u.outSeq + 1
  <2>1. q \in Nat
    BY <1>5, ChannelFields
  <2>2. d = [u EXCEPT !.outSeq = q, !.sub = sub]
    BY <1>9
  <2> HIDE DEF q
  <2> QED
    BY <1>5, <1>8, <2>1, <2>2 DEF ChannelType
<1>12. \A s \in Streams : p.frag[s] = Fragments(u, p.sub, s)
  BY <1>2
<1> HIDE DEF p
<1>13. Shipped(u, d, p)
  BY <1>7, <1>10, <1>11, <1>12 DEF Shipped
<1> QED
  BY <1>1, <1>13 DEF u, d, p

LEMMA BookedShipped ==
  ASSUME NEW e, NEW u, Booked(e, u), NEW d, NEW p, Shipped(u, d, p)
  PROVE  Booked(e, d)
<1>1. ASSUME NEW s \in Streams PROVE Ledger(d, s)
  <2>1. Carried(d, s) = Carried(u, s)
    BY DEF Shipped, Carried
  <2> QED
    BY <2>1 DEF Shipped, Booked, Ledger
<1> QED
  BY <1>1 DEF Shipped, Booked

\* What reading the acknowledgements of a header changes: those of A are
\* freed, those of M are to be sent again.
Ticked(c, d, A, M) ==
  /\ d \in ChannelType
  /\ d.outSeq = c.outSeq /\ d.inSeq = c.inSeq /\ d.outAck = c.outAck
  /\ d.outRel = c.outRel /\ d.inRel = c.inRel
  /\ d.stream = c.stream /\ d.receive = c.receive
  /\ A \in SUBSET Subchannel
  /\ \A k \in Subchannel :
       d.sub[k] = IF k \in A THEN Free
                  ELSE IF k \in M THEN [c.sub[k] EXCEPT !.state = "tosend"] ELSE c.sub[k]
  /\ \A s \in Streams :
       LET n == Total(A, Carried(c, s))
       IN /\ n \in Nat
          /\ n = 0 => d.waiting[s] = c.waiting[s]
          /\ n # 0 => /\ c.waiting[s] # <<>> /\ n <= c.waiting[s][1].pending
                      /\ d.waiting[s] = [c.waiting[s] EXCEPT ![1].acked = @ + n, ![1].pending = @ - n]

LEMMA AckedIsCarried ==
  ASSUME NEW e, NEW c, Booked(e, c), NEW A \in SUBSET Subchannel, NEW s \in Streams
  PROVE  LET n == Total(A, Carried(c, s))
         IN /\ n \in Nat
            /\ n # 0 => c.waiting[s] # <<>> /\ n <= c.waiting[s][1].pending
<1> DEFINE F == Carried(c, s)
<1>1. \A k \in Subchannel : F[k] = c.sub[k].num[s] /\ F[k] \in Nat
  BY CarriedIsNat DEF Booked
<1> HIDE DEF F
<1>2. /\ Total(Subchannel, F) = Total(A, F) + Total(Subchannel \ A, F)
      /\ Total(A, F) \in Nat /\ Total(Subchannel \ A, F) \in Nat
  BY <1>1, TotalOfParts, SubchannelsFinite
<1>3. c.waiting[s] = <<>> => Total(Subchannel, F) = 0
  <2>1. c.waiting[s] = <<>> => \A k \in Subchannel : F[k] = 0
    BY <1>1 DEF Booked, Ledger
  <2>2. Total(Subchannel, F) = 0 <=> \A k \in Subchannel : F[k] = 0
    BY <1>1, TotalOfZeros, SubchannelsFinite
  <2> QED
    BY <2>1, <2>2
<1>4. c.waiting[s] # <<>> => c.waiting[s][1].pending = Total(Subchannel, F)
  BY DEF Booked, Ledger, F
<1> QED
  BY <1>2, <1>3, <1>4 DEF F

LEMMA Ticking ==
  ASSUME NEW e, NEW c, Booked(e, c), NEW p
  PROVE  Ticked(c, ReadAcks(c, p), Acked(c, p), Missed(c, p))
<1> DEFINE A == Acked(c, p)
           M == Missed(c, p)
           d == ReadAcks(c, p)
           n == [s \in Streams |-> Total(A, Carried(c, s))]
           sub == [k \in Subchannel |->
                     IF k \in A THEN Free
                     ELSE IF k \in M THEN [c.sub[k] EXCEPT !.state = "tosend"] ELSE c.sub[k]]
           W == [s \in Streams |->
                   IF n[s] = 0 THEN c.waiting[s]
                   ELSE [c.waiting[s] EXCEPT ![1].acked = @ + n[s], ![1].pending = @ - n[s]]]
<1>1. c \in ChannelType /\ A \in SUBSET Subchannel
  BY DEF Booked, Acked, Checked
<1>2. d = [c EXCEPT !.sub = sub, !.waiting = W]
  BY DEF ReadAcks, Count
<1> HIDE DEF A, M, d
<1>3. \A s \in Streams :
        /\ n[s] = Total(A, Carried(c, s)) /\ n[s] \in Nat
        /\ n[s] # 0 => c.waiting[s] # <<>> /\ n[s] <= c.waiting[s][1].pending
  BY <1>1, AckedIsCarried
<1> HIDE DEF n
<1>4. sub \in [Subchannel -> SubType]
  <2>1. Free \in SubType
    BY DEF Free, SubType
  <2>2. ASSUME NEW k \in Subchannel
        PROVE  c.sub[k] \in SubType /\ [c.sub[k] EXCEPT !.state = "tosend"] \in SubType
    <3>1. c.sub[k] \in SubType
      BY <1>1, SubFields
    <3> QED
      BY <3>1 DEF SubType
  <2> HIDE DEF A, M
  <2> QED
    BY <2>1, <2>2
<1>5. W \in [Streams -> Seq(ItemType)]
  <2>1. ASSUME NEW s \in Streams, n[s] # 0
        PROVE  [c.waiting[s] EXCEPT ![1].acked = @ + n[s], ![1].pending = @ - n[s]] \in Seq(ItemType)
    <3> DEFINE l == c.waiting[s]
               x == l[1].acked + n[s]
               y == l[1].pending - n[s]
               w == [l[1] EXCEPT !.acked = x, !.pending = y]
    <3>1. /\ l \in Seq(ItemType) /\ l # <<>> /\ l[1] \in ItemType /\ n[s] \in Nat
          /\ n[s] <= l[1].pending
      BY <2>1, <1>1, <1>3, ChannelFields
    <3> HIDE DEF l
    <3>2. x \in Nat /\ y \in Nat
      <4>1. l[1].acked \in Nat /\ l[1].pending \in Nat
        BY <3>1 DEF ItemType
      <4> QED
        BY <3>1, <4>1
    <3> HIDE DEF x, y
    <3>3. w \in ItemType
      BY <3>1, <3>2, ItemUpdate
    <3> HIDE DEF w
    <3>4. [l EXCEPT ![1] = w] \in Seq(ItemType)
      BY <3>1, <3>3
    <3>5. [l EXCEPT ![1] = w] = [l EXCEPT ![1].acked = @ + n[s], ![1].pending = @ - n[s]]
      BY <3>1 DEF w, x, y, ItemType
    <3> QED
      BY <3>4, <3>5 DEF l
  <2>2. ASSUME NEW s \in Streams PROVE c.waiting[s] \in Seq(ItemType)
    BY <1>1, ChannelFields
  <2> QED
    BY <2>1, <2>2
<1>6. /\ \A k \in Subchannel :
           sub[k] = IF k \in A THEN Free
                    ELSE IF k \in M THEN [c.sub[k] EXCEPT !.state = "tosend"] ELSE c.sub[k]
      /\ \A s \in Streams :
           /\ n[s] = 0 => W[s] = c.waiting[s]
           /\ n[s] # 0 =>
                W[s] = [c.waiting[s] EXCEPT ![1].acked = @ + n[s], ![1].pending = @ - n[s]]
  OBVIOUS
<1> HIDE DEF sub, W
<1>7. /\ d \in ChannelType /\ d.sub = sub /\ d.waiting = W
      /\ d.outSeq = c.outSeq /\ d.inSeq = c.inSeq /\ d.outAck = c.outAck
      /\ d.outRel = c.outRel /\ d.inRel = c.inRel
      /\ d.stream = c.stream /\ d.receive = c.receive
  BY <1>1, <1>2, <1>4, <1>5 DEF ChannelType
<1>8. Ticked(c, d, A, M)
  BY <1>1, <1>3, <1>6, <1>7 DEF Ticked
<1> QED
  BY <1>8 DEF A, M, d

LEMMA TickedSums ==
  ASSUME NEW e, NEW c, Booked(e, c), NEW d, NEW A, NEW M, Ticked(c, d, A, M), NEW s \in Streams
  PROVE  /\ Total(Subchannel, Carried(d, s))
              = Total(Subchannel, Carried(c, s)) - Total(A, Carried(c, s))
         /\ Total(Subchannel, Carried(c, s)) \in Nat /\ Total(A, Carried(c, s)) \in Nat
         /\ \A k \in Subchannel : d.sub[k].num[s] = IF k \in A THEN 0 ELSE c.sub[k].num[s]
<1> DEFINE F == Carried(c, s)
           G == Carried(d, s)
<1>1. c \in ChannelType /\ d \in ChannelType /\ A \in SUBSET Subchannel
  BY DEF Booked, Ticked
<1>2. /\ \A k \in Subchannel : F[k] = c.sub[k].num[s] /\ F[k] \in Nat
      /\ \A k \in Subchannel : G[k] = d.sub[k].num[s] /\ G[k] \in Nat
  BY <1>1, CarriedIsNat
<1> HIDE DEF F, G
<1>3. ASSUME NEW k \in Subchannel PROVE d.sub[k].num[s] = IF k \in A THEN 0 ELSE c.sub[k].num[s]
  <2>1. CASE k \in A
    <3>1. d.sub[k] = Free
      BY <2>1 DEF Ticked
    <3>2. Free.num[s] = 0
      BY DEF Free
    <3> QED
      BY <2>1, <3>1, <3>2
  <2>2. CASE k \notin A /\ k \in M
    <3>1. d.sub[k] = [c.sub[k] EXCEPT !.state = "tosend"] /\ c.sub[k] \in SubType
      BY <2>2, <1>1, SubFields DEF Ticked
    <3> QED
      BY <2>2, <3>1 DEF SubType
  <2>3. CASE k \notin A /\ k \notin M
    BY <2>3 DEF Ticked
  <2> QED
    BY <2>1, <2>2, <2>3
<1>4. /\ Total(Subchannel, F) = Total(A, F) + Total(Subchannel \ A, F)
      /\ Total(A, F) \in Nat /\ Total(Subchannel \ A, F) \in Nat
      /\ Total(Subchannel, G) = Total(A, G) + Total(Subchannel \ A, G)
  BY <1>1, <1>2, TotalOfParts, SubchannelsFinite
<1>5. Total(Subchannel \ A, F) = Total(Subchannel \ A, G)
  <2>1. \A k \in Subchannel \ A : F[k] = G[k]
    BY <1>2, <1>3
  <2> QED
    BY <2>1, TotalOfSame
<1>6. Total(A, G) = 0
  <2>1. \A k \in A : G[k] = 0
    BY <1>1, <1>2, <1>3
  <2>2. IsFiniteSet(A)
    BY <1>1, SubchannelsFinite, FS_Subset
  <2> QED
    BY <2>1, <2>2, TotalOfZeros
<1> QED
  BY <1>3, <1>4, <1>5, <1>6 DEF F, G

LEMMA BookedTicked ==
  ASSUME NEW e, NEW c, Booked(e, c), NEW d, NEW A, NEW M, Ticked(c, d, A, M),
         \A k \in M : c.sub[k].state = "waiting"
  PROVE  Booked(e, d)
<1>1. c \in ChannelType /\ d \in ChannelType /\ A \in SUBSET Subchannel
  BY DEF Booked, Ticked
<1>2. ASSUME NEW k \in Subchannel, d.sub[k].state = "free", NEW s \in Streams
      PROVE  d.sub[k].num[s] = 0
  <2>1. k \notin A => c.sub[k].state = "free"
    <3>1. CASE k \notin A /\ k \in M
      <4>1. d.sub[k] = [c.sub[k] EXCEPT !.state = "tosend"] /\ c.sub[k] \in SubType
        BY <3>1, <1>1, SubFields DEF Ticked
      <4> QED
        BY <4>1, <1>2 DEF SubType
    <3>2. CASE k \notin A /\ k \notin M
      BY <3>2, <1>2 DEF Ticked
    <3> QED
      BY <3>1, <3>2
  <2>2. d.sub[k].num[s] = IF k \in A THEN 0 ELSE c.sub[k].num[s]
    BY TickedSums
  <2> QED
    BY <2>1, <2>2 DEF Booked
<1>3. ASSUME NEW s \in Streams PROVE Ledger(d, s)
  <2> DEFINE n == Total(A, Carried(c, s))
             t == Total(Subchannel, Carried(c, s))
             l == c.waiting[s]
             m == d.waiting[s]
  <2>1. /\ Total(Subchannel, Carried(d, s)) = t - n /\ n \in Nat /\ t \in Nat
        /\ \A k \in Subchannel : d.sub[k].num[s] = IF k \in A THEN 0 ELSE c.sub[k].num[s]
    BY TickedSums
  <2>2. /\ n = 0 => m = l
        /\ n # 0 => /\ l # <<>> /\ n <= l[1].pending
                    /\ m = [l EXCEPT ![1].acked = @ + n, ![1].pending = @ - n]
    BY DEF Ticked
  <2>3. /\ l \in Seq(ItemType)
        /\ l = <<>> => \A k \in Subchannel : c.sub[k].num[s] = 0
        /\ l # <<>> => l[1].pending = t /\ l[1].acked + l[1].pending <= l[1].frags
        /\ \A i \in 2 .. Len(l) : l[i].acked = 0 /\ l[i].pending = 0
    BY <1>1, ChannelFields DEF Booked, Ledger
  <2> HIDE DEF n, t, l, m
  <2>4. CASE n = 0
    <3>1. Total(Subchannel, Carried(d, s)) = t /\ m = l
      BY <2>1, <2>2, <2>4
    <3>2. m = <<>> => \A k \in Subchannel : d.sub[k].num[s] = 0
      BY <2>1, <2>3, <3>1
    <3> QED
      BY <2>3, <3>1, <3>2 DEF Ledger, m
  <2>5. CASE n # 0
    <3>1. l[1] \in ItemType /\ Len(l) >= 1
      BY <2>2, <2>3, <2>5
    <3>2. m = [l EXCEPT ![1] = [l[1] EXCEPT !.acked = l[1].acked + n, !.pending = l[1].pending - n]]
      BY <2>2, <2>3, <2>5, <3>1 DEF ItemType
    <3>3. /\ m # <<>> /\ Len(m) = Len(l) /\ \A i \in 2 .. Len(l) : m[i] = l[i]
          /\ m[1] = [l[1] EXCEPT !.acked = l[1].acked + n, !.pending = l[1].pending - n]
      <4> DEFINE w == [l[1] EXCEPT !.acked = l[1].acked + n, !.pending = l[1].pending - n]
      <4> HIDE DEF w
      <4>1. m = [l EXCEPT ![1] = w]
        BY <3>2 DEF w
      <4>2. m # <<>> /\ Len(m) = Len(l) /\ m[1] = w /\ \A i \in 2 .. Len(l) : m[i] = l[i]
        BY <2>3, <3>1, <4>1
      <4> QED
        BY <4>2 DEF w
    <3>4. m[1].acked = l[1].acked + n /\ m[1].pending = l[1].pending - n /\ m[1].frags = l[1].frags
      BY <3>1, <3>3 DEF ItemType
    <3>5. l[1].acked \in Nat /\ l[1].pending \in Nat /\ l[1].frags \in Nat
      BY <3>1 DEF ItemType
    <3>6. l[1].pending = t /\ l[1].acked + l[1].pending <= l[1].frags
      BY <2>2, <2>3, <2>5
    <3>7. m[1].pending = Total(Subchannel, Carried(d, s)) /\ m[1].acked + m[1].pending <= m[1].frags
      BY <2>1, <3>4, <3>5, <3>6
    <3> QED
      BY <2>3, <3>3, <3>7 DEF Ledger, m
  <2> QED
    BY <2>4, <2>5
<1>4. \A i \in 1 .. Len(d.stream) : d.stream[i] \in 1 .. Len(setting.todo[e]["normal"])
  BY DEF Booked, Ticked
<1> QED
  BY <1>1, <1>2, <1>3, <1>4 DEF Booked

\* What the rest of the header changes: a first item that is acknowledged
\* as a whole may leave.
Headed(a, h, p) ==
  /\ h \in ChannelType
  /\ h.inSeq = p.seq /\ h.outAck = p.ack
  /\ h.outSeq = a.outSeq /\ h.outRel = a.outRel /\ h.inRel = a.inRel
  /\ h.stream = a.stream /\ h.receive = a.receive /\ h.sub = a.sub
  /\ \A s \in Streams :
       \/ h.waiting[s] = a.waiting[s]
       \/ /\ a.waiting[s] # <<>> /\ a.waiting[s][1].acked = a.waiting[s][1].frags
          /\ h.waiting[s] = Tail(a.waiting[s])

LEMMA Heading ==
  ASSUME NEW c, NEW p \in PacketType, ReadAcks(c, p) \in ChannelType
  PROVE  Headed(ReadAcks(c, p), ProcessPacketHeader(c, p), p)
<1> DEFINE a == ReadAcks(c, p)
           h == ProcessPacketHeader(c, p)
           d == [a EXCEPT !.inSeq = p.seq, !.outAck = p.ack]
           W == [s \in Streams |-> CheckWaitingList(d, s)]
<1>1. h = [d EXCEPT !.waiting = W]
  BY DEF ProcessPacketHeader
<1> HIDE DEF a, h
<1>2. /\ a \in ChannelType /\ p.seq \in Nat /\ p.ack \in Nat
      /\ \A s \in Streams : a.waiting[s] \in Seq(ItemType)
  <2>1. a \in ChannelType
    BY DEF a
  <2> QED
    BY <2>1, ChannelFields DEF PacketType
<1>3. d.waiting = a.waiting
  BY <1>2 DEF ChannelType
<1> HIDE DEF d
<1>4. ASSUME NEW s \in Streams
      PROVE  /\ W[s] \in Seq(ItemType)
             /\ \/ W[s] = a.waiting[s]
                \/ /\ a.waiting[s] # <<>> /\ a.waiting[s][1].acked = a.waiting[s][1].frags
                   /\ W[s] = Tail(a.waiting[s])
  <2>1. a.waiting[s] \in Seq(ItemType)
    BY <1>2
  <2>2. W[s] = CheckWaitingList(d, s)
    OBVIOUS
  <2> HIDE DEF W
  <2>3. \/ W[s] = a.waiting[s]
        \/ /\ a.waiting[s] # <<>> /\ Head(a.waiting[s]).acked = Head(a.waiting[s]).frags
           /\ W[s] = Tail(a.waiting[s])
    BY <1>3, <2>2 DEF CheckWaitingList
  <2> DEFINE l == a.waiting[s]
  <2> HIDE DEF l
  <2>4. l \in Seq(ItemType)
    BY <2>1 DEF l
  <2>5. l # <<>> => Head(l) = l[1] /\ Tail(l) \in Seq(ItemType)
    BY <2>4
  <2> QED
    BY <2>3, <2>4, <2>5 DEF l
<1>5. W \in [Streams -> Seq(ItemType)]
  BY <1>4
<1> HIDE DEF W
<1>6. /\ h \in ChannelType /\ h.waiting = W
      /\ h.inSeq = p.seq /\ h.outAck = p.ack
      /\ h.outSeq = a.outSeq /\ h.outRel = a.outRel /\ h.inRel = a.inRel
      /\ h.stream = a.stream /\ h.receive = a.receive /\ h.sub = a.sub
  BY <1>1, <1>2, <1>5 DEF ChannelType, d
<1>7. Headed(a, h, p)
  BY <1>4, <1>6 DEF Headed
<1> QED
  BY <1>7 DEF a, h

LEMMA BookedHeaded ==
  ASSUME NEW e, NEW a, Booked(e, a), NEW h, NEW p, Headed(a, h, p)
  PROVE  Booked(e, h)
<1>1. a \in ChannelType /\ h \in ChannelType /\ h.sub = a.sub /\ h.stream = a.stream
  BY DEF Booked, Headed
<1>2. ASSUME NEW s \in Streams PROVE Ledger(h, s)
  <2> DEFINE l == a.waiting[s]
             m == h.waiting[s]
  <2>1. Carried(h, s) = Carried(a, s)
    BY <1>1 DEF Carried
  <2>2. Ledger(a, s) /\ l \in Seq(ItemType)
    BY <1>1, ChannelFields DEF Booked
  <2>3. CASE m = l
    BY <1>1, <2>1, <2>2, <2>3 DEF Ledger
  <2>4. CASE l # <<>> /\ l[1].acked = l[1].frags /\ m = Tail(l)
    <3>1. l[1] \in ItemType
      BY <2>2, <2>4
    <3>2. l[1].pending = 0 /\ l[1].pending = Total(Subchannel, Carried(a, s))
      BY <2>2, <2>4, <3>1 DEF Ledger, ItemType
    <3>3. \A k \in Subchannel : h.sub[k].num[s] = 0
      <4>1. \A k \in Subchannel : Carried(a, s)[k] = 0
        <5>1. Total(Subchannel, Carried(a, s)) = 0
          BY <3>2
        <5>2. \A k \in Subchannel : Carried(a, s)[k] \in Nat
          BY <1>1, CarriedIsNat
        <5> QED
          BY <5>1, <5>2, SubchannelsFinite, TotalOfZeros
      <4> QED
        BY <4>1, <1>1, CarriedIsNat
    <3>4. \A i \in 2 .. Len(l) : l[i].acked = 0 /\ l[i].pending = 0
      BY <2>2 DEF Ledger
    <3> HIDE DEF l, m
    <3>5. /\ m \in Seq(ItemType) /\ Len(m) = Len(l) - 1
          /\ \A i \in 1 .. Len(m) : i + 1 \in 2 .. Len(l) /\ m[i] = l[i + 1]
      BY <2>2, <2>4
    <3>6. \A i \in 1 .. Len(m) : m[i].acked = 0 /\ m[i].pending = 0
      BY <3>4, <3>5
    <3>7. m # <<>> => m[1].acked = 0 /\ m[1].pending = 0 /\ m[1].frags \in Nat
      <4> SUFFICES ASSUME m # <<>> PROVE m[1].acked = 0 /\ m[1].pending = 0 /\ m[1].frags \in Nat
        OBVIOUS
      <4>1. 1 \in 1 .. Len(m) /\ m[1] \in ItemType
        BY <3>5
      <4> QED
        BY <3>6, <4>1 DEF ItemType
    <3>8. Total(Subchannel, Carried(h, s)) = 0
      BY <2>1, <3>2
    <3>9. \A i \in 2 .. Len(m) : m[i].acked = 0 /\ m[i].pending = 0
      BY <3>5, <3>6
    <3> QED
      BY <3>3, <3>7, <3>8, <3>9 DEF Ledger, m
  <2> QED
    BY <2>3, <2>4 DEF Headed
<1> QED
  BY <1>1, <1>2 DEF Booked

LEMMA ReadingIsTyped ==
  ASSUME NEW list \in ListType, NEW f \in FragmentsType
  PROVE  /\ ReadSubChannelData(list, f).list \in ListType
         /\ ReadSubChannelData(list, f).ok \in BOOLEAN
<1> DEFINE opened == [open |-> TRUE, ids |-> f.ids, frags |-> f.frags, acked |-> 0,
                      data |-> [i \in 1 .. f.frags |-> <<>>]]
           l == IF f.start = 0 THEN opened ELSE list
           fits == l.open /\ f.start + f.num <= l.frags
           place == f.start + 1 .. f.start + f.num
           data == [i \in DOMAIN l.data |-> IF i \in place THEN f.ids ELSE l.data[i]]
           read == [l EXCEPT !.acked = @ + f.num,
                             !.data = [i \in DOMAIN @ |-> IF i \in place THEN f.ids ELSE @[i]]]
<1>1. ReadSubChannelData(list, f) = IF f.num = 0 THEN [ok |-> TRUE, list |-> list]
                                    ELSE IF ~fits THEN [ok |-> FALSE, list |-> l]
                                    ELSE [ok |-> TRUE, list |-> read]
  BY DEF ReadSubChannelData
<1>2. f.ids \in Ids /\ f.frags \in Nat /\ f.num \in Nat
  BY DEF FragmentsType
<1>3. l \in ListType
  <2>1. [i \in 1 .. f.frags |-> <<>>] \in Seq(Ids)
    <3>1. <<>> \in Ids
      BY DEF Ids
    <3> QED
      BY <1>2, <3>1
  <2>2. opened \in ListType
    BY <1>2, <2>1 DEF ListType
  <2> HIDE DEF opened
  <2> QED
    BY <2>2
<1> HIDE DEF l
<1>4. l.acked \in Nat /\ l.data \in Seq(Ids)
  BY <1>3 DEF ListType
<1>5. data \in Seq(Ids)
  <2> DEFINE old == l.data
  <2> HIDE DEF old
  <2>1. old \in Seq(Ids) /\ DOMAIN old = 1 .. Len(old) /\ Len(old) \in Nat
    BY <1>4 DEF old
  <2>2. [i \in 1 .. Len(old) |-> IF i \in place THEN f.ids ELSE old[i]] \in Seq(Ids)
    BY <1>2, <2>1
  <2> QED
    BY <2>1, <2>2 DEF old
<1>6. read \in ListType
  <2> DEFINE n == l.acked + f.num
  <2>1. n \in Nat
    BY <1>2, <1>4
  <2>2. read = [l EXCEPT !.acked = n, !.data = data]
    BY <1>3 DEF ListType
  <2> HIDE DEF n, data, read
  <2> QED
    BY <1>3, <1>5, <2>1, <2>2 DEF ListType
<1> HIDE DEF read, fits
<1> QED
  BY <1>1, <1>3, <1>6

\* What reading the fragments leaves alone.
Received(c, d) ==
  /\ d \in ChannelType
  /\ d.outSeq = c.outSeq /\ d.inSeq = c.inSeq /\ d.outAck = c.outAck
  /\ d.outRel = c.outRel /\ d.stream = c.stream /\ d.sub = c.sub /\ d.waiting = c.waiting

LEMMA Receiving ==
  ASSUME NEW c \in ChannelType, NEW p \in PacketType
  PROVE  /\ Received(c, Receive(c, p).chan)
         /\ Receive(c, p).out \in [Streams -> Seq(Nat)]
<1> DEFINE n == ReadSubChannelData(c.receive["normal"], p.frag["normal"])
           f == IF n.ok THEN ReadSubChannelData(c.receive["file"], p.frag["file"])
                ELSE [ok |-> FALSE, list |-> c.receive["file"]]
           lists == [s \in Streams |-> IF s = "normal" THEN n.list ELSE f.list]
           done == IF p.sub # 0 /\ f.ok THEN Finished(lists) ELSE {}
           R == [s \in Streams |-> IF s \in done THEN NoBuffer ELSE lists[s]]
           B == IF p.sub # 0 /\ f.ok THEN Flip(c.inRel, p.sub) ELSE c.inRel
           out == [s \in Streams |-> IF s \in done THEN Content(lists[s]) ELSE <<>>]
           d == Receive(c, p).chan
<1>1. /\ "normal" \in Streams /\ "file" \in Streams
      /\ c.receive \in [Streams -> ListType] /\ p.frag \in [Streams -> FragmentsType]
      /\ p.sub \in 0 .. NSubchannels /\ c.inRel \in SUBSET Subchannel
  BY ChannelFields DEF PacketType, Streams
<1>2. d = [c EXCEPT !.receive = R, !.inRel = B] /\ Receive(c, p).out = out
  BY DEF Receive
<1> HIDE DEF d
<1>3. n.list \in ListType
  BY <1>1, ReadingIsTyped
<1>4. f.list \in ListType
  BY <1>1, ReadingIsTyped
<1> HIDE DEF n, f
<1>5. lists \in [Streams -> ListType]
  BY <1>3, <1>4
<1> HIDE DEF lists, done
<1>6. R \in [Streams -> ListType]
  <2>1. NoBuffer \in ListType
    BY DEF NoBuffer, ListType, Ids
  <2> QED
    BY <2>1, <1>5
<1>7. B \in SUBSET Subchannel
  BY <1>1, BoundAssumption DEF Flip, SymDiff, Subchannel
<1>8. out \in [Streams -> Seq(Nat)]
  <2>1. ASSUME NEW s \in Streams PROVE Content(lists[s]) \in Seq(Nat)
    <3>1. lists[s].ids \in Seq(Nat \ {0})
      BY <1>5 DEF ListType, Ids
    <3>2. lists[s].ids \in Seq(Nat) /\ <<Corrupt>> \in Seq(Nat)
      BY <3>1 DEF Corrupt
    <3> QED
      BY <3>2 DEF Content
  <2>2. <<>> \in Seq(Nat)
    OBVIOUS
  <2> QED
    BY <2>1, <2>2
<1> HIDE DEF R, B, out
<1>9. Received(c, d)
  BY <1>2, <1>6, <1>7 DEF ChannelType, Received
<1> QED
  BY <1>2, <1>8, <1>9 DEF d

LEMMA BookedReceived ==
  ASSUME NEW e, NEW c, Booked(e, c), NEW d, Received(c, d)
  PROVE  Booked(e, d)
<1>1. ASSUME NEW s \in Streams PROVE Ledger(d, s)
  <2>1. Carried(d, s) = Carried(c, s)
    BY DEF Received, Carried
  <2> QED
    BY <2>1 DEF Received, Booked, Ledger
<1> QED
  BY <1>1 DEF Received, Booked

-----------------------------------------------------------------------------
(* The steps keep the books.                                                *)
BookInv == TypeOK /\ \A e \in Ends : Booked(e, chan[e])

LEMMA BookInit == Init => BookInv
<1> SUFFICES ASSUME Init PROVE BookInv
  OBVIOUS
<1>1. NewChannel \in ChannelType
  <2>1. Free \in SubType /\ NoBuffer \in ListType
    BY DEF Free, SubType, NoBuffer, ListType, Ids
  <2>2. [k \in Subchannel |-> Free] \in [Subchannel -> SubType]
    BY <2>1
  <2>3. [s \in Streams |-> NoBuffer] \in [Streams -> ListType]
    BY <2>1
  <2>4. [s \in Streams |-> <<>>] \in [Streams -> Seq(ItemType)]
    OBVIOUS
  <2> DEFINE A == [k \in Subchannel |-> Free]
             B == [s \in Streams |-> NoBuffer]
             W == [s \in Streams |-> <<>>]
  <2>5. NewChannel = [outSeq |-> 1, inSeq |-> 0, outAck |-> 0, outRel |-> {}, inRel |-> {},
                      stream |-> <<>>, sub |-> A, waiting |-> W, receive |-> B]
    BY DEF NewChannel
  <2> HIDE DEF A, B, W
  <2> QED
    BY <2>2, <2>3, <2>4, <2>5 DEF ChannelType, Ids, A, B, W
<1>2. ASSUME NEW e PROVE Booked(e, NewChannel)
  <2>1. /\ NewChannel.stream = <<>>
        /\ \A k \in Subchannel : NewChannel.sub[k] = Free
        /\ \A s \in Streams : NewChannel.waiting[s] = <<>>
    BY DEF NewChannel
  <2>2. \A s \in Streams : Free.num[s] = 0
    BY DEF Free
  <2> QED
    BY <1>1, <2>1, <2>2 DEF Booked, Ledger
<1>3. TypeOK
  <2>1. /\ setting \in Settings /\ chan = [e \in Ends |-> NewChannel] /\ net = {}
        /\ accepted = [e \in Ends |-> [s \in Streams |-> 0]]
        /\ delivered = [e \in Ends |-> [s \in Streams |-> <<>>]]
    BY DEF Init
  <2>2. [s \in Streams |-> 0] \in [Streams -> Nat] /\ [s \in Streams |-> <<>>] \in [Streams -> Seq(Nat)]
    OBVIOUS
  <2> QED
    BY <1>1, <2>1, <2>2 DEF TypeOK
<1> QED
  BY <1>2, <1>3 DEF BookInv, Init

\* A step of one end keeps the books if its channel's are kept.
LEMMA OneBook ==
  ASSUME BookInv, NEW e \in Ends, NEW d, chan' = [chan EXCEPT ![e] = d], Booked(e, d),
         setting' = setting, \A p \in net' : p \in net \/ p \in PacketType,
         accepted' \in [Ends -> [Streams -> Nat]],
         delivered' \in [Ends -> [Streams -> Seq(Nat)]]
  PROVE  BookInv'
<1>1. d \in ChannelType /\ chan \in [Ends -> ChannelType]
  BY DEF BookInv, TypeOK, Booked
<1>2. TypeOK'
  <2>1. chan' \in [Ends -> ChannelType]
    BY <1>1
  <2>2. \A p \in net' : p \in PacketType
    BY DEF BookInv, TypeOK
  <2> QED
    BY <2>1, <2>2 DEF BookInv, TypeOK
<1>3. ASSUME NEW f \in Ends PROVE Booked(f, chan[f])'
  <2>1. Booked(f, chan'[f])
    <3>1. CASE f = e
      BY <1>1, <3>1
    <3>2. CASE f # e
      BY <1>1, <3>2 DEF BookInv
    <3> QED
      BY <3>1, <3>2
  <2> QED
    BY <2>1 DEF Booked, Ledger
<1> QED
  BY <1>2, <1>3 DEF BookInv

LEMMA BookMessage ==
  ASSUME BookInv, NEW e \in Ends, SendMessage(e)
  PROVE  BookInv'
<1> DEFINE i == accepted[e]["normal"] + 1
           c == chan[e]
           q == Append(c.stream, i)
           d == [c EXCEPT !.stream = q]
<1>1. /\ setting \in Setting /\ setting \in Settings /\ c \in ChannelType /\ Booked(e, c)
      /\ "normal" \in Streams /\ chan \in [Ends -> ChannelType]
      /\ accepted \in [Ends -> [Streams -> Nat]]
  BY SettingsAssumption DEF BookInv, TypeOK, Streams
<1>2. /\ i <= Len(setting.todo[e]["normal"]) /\ chan' = [chan EXCEPT ![e] = d]
      /\ accepted' = [accepted EXCEPT ![e]["normal"] = i]
      /\ UNCHANGED <<setting, net, delivered>>
  BY DEF SendMessage
<1>3. i \in Nat \ {0}
  BY <1>1
<1> HIDE DEF i, c
<1>4. /\ q \in Ids /\ \A j \in 1 .. Len(q) : q[j] \in 1 .. Len(setting.todo[e]["normal"])
  <2>1. /\ c.stream \in Ids
        /\ \A j \in 1 .. Len(c.stream) : c.stream[j] \in 1 .. Len(setting.todo[e]["normal"])
    BY <1>1, ChannelFields DEF Booked
  <2>2. i \in 1 .. Len(setting.todo[e]["normal"])
    <3>1. setting.todo[e]["normal"] \in Seq(Nat \ {0})
      BY <1>1 DEF Setting
    <3> QED
      BY <1>2, <1>3, <3>1
  <2> QED
    BY <1>3, <2>1, <2>2 DEF Ids
<1> HIDE DEF q
<1>5. d \in ChannelType /\ d.sub = c.sub /\ d.waiting = c.waiting /\ d.stream = q
  BY <1>1, <1>4 DEF ChannelType
<1> HIDE DEF d
<1>6. Booked(e, d)
  <2>1. ASSUME NEW s \in Streams PROVE Ledger(d, s)
    <3>1. Carried(d, s) = Carried(c, s)
      BY <1>5 DEF Carried
    <3> QED
      BY <1>1, <1>5, <3>1 DEF Booked, Ledger
  <2> QED
    BY <1>1, <1>4, <1>5, <2>1 DEF Booked
<1>7. accepted' \in [Ends -> [Streams -> Nat]]
  BY <1>1, <1>2, <1>3
<1> QED
  BY <1>2, <1>6, <1>7, OneBook DEF BookInv, TypeOK

LEMMA BookFile ==
  ASSUME BookInv, NEW e \in Ends, SendFile(e)
  PROVE  BookInv'
<1> DEFINE i == accepted[e]["file"] + 1
           c == chan[e]
           l == c.waiting["file"]
           x == Item(<<i>>, setting.todo[e]["file"][i])
           m == Append(l, x)
           W == [c.waiting EXCEPT !["file"] = m]
           d == [c EXCEPT !.waiting = W]
<1>1. /\ setting \in Setting /\ setting \in Settings /\ c \in ChannelType /\ Booked(e, c)
      /\ "file" \in Streams /\ chan \in [Ends -> ChannelType]
      /\ accepted \in [Ends -> [Streams -> Nat]]
  BY SettingsAssumption DEF BookInv, TypeOK, Streams
<1>2. /\ i <= Len(setting.todo[e]["file"]) /\ chan' = [chan EXCEPT ![e] = d]
      /\ accepted' = [accepted EXCEPT ![e]["file"] = i]
      /\ UNCHANGED <<setting, net, delivered>>
  BY <1>1 DEF SendFile, ChannelType
<1>3. i \in Nat \ {0}
  BY <1>1
<1>4. x \in ItemType /\ x.acked = 0 /\ x.pending = 0 /\ x.frags \in Nat
  <2>1. setting.todo[e]["file"] \in Seq(Nat \ {0})
    BY <1>1 DEF Setting
  <2>2. setting.todo[e]["file"][i] \in Nat \ {0}
    BY <1>2, <1>3, <2>1
  <2> HIDE DEF i
  <2>3. <<i>> \in Ids
    BY <1>3 DEF Ids
  <2> QED
    BY <2>2, <2>3 DEF Item, ItemType
<1> HIDE DEF i, c, x, l
<1>5. l = c.waiting["file"] /\ l \in Seq(ItemType)
  BY <1>1, ChannelFields DEF l
<1>6. /\ m \in Seq(ItemType) /\ m # <<>> /\ Len(m) = Len(l) + 1 /\ m[Len(l) + 1] = x
      /\ \A j \in 1 .. Len(l) : m[j] = l[j]
  BY <1>4, <1>5
<1> HIDE DEF m
<1>7. /\ W \in [Streams -> Seq(ItemType)] /\ W["file"] = m
      /\ \A s \in Streams : s # "file" => W[s] = c.waiting[s]
  BY <1>1, <1>6, ChannelFields
<1> HIDE DEF W
<1>8. d \in ChannelType /\ d.sub = c.sub /\ d.waiting = W /\ d.stream = c.stream
  BY <1>1, <1>7 DEF ChannelType
<1> HIDE DEF d
<1>9. ASSUME NEW s \in Streams PROVE Ledger(d, s)
  <2>1. Carried(d, s) = Carried(c, s) /\ Ledger(c, s)
    BY <1>1, <1>8 DEF Carried, Booked
  <2>2. CASE s # "file"
    BY <1>7, <1>8, <2>1, <2>2 DEF Ledger
  <2>3. CASE s = "file"
    <3>1. \A j \in 2 .. Len(l) : l[j].acked = 0 /\ l[j].pending = 0
      BY <1>5, <2>1, <2>3 DEF Ledger
    <3>2. \A j \in 2 .. Len(m) : m[j].acked = 0 /\ m[j].pending = 0
      <4> SUFFICES ASSUME NEW j \in 2 .. Len(m) PROVE m[j].acked = 0 /\ m[j].pending = 0
        OBVIOUS
      <4>1. j \in 2 .. Len(l) \/ j = Len(l) + 1
        BY <1>5, <1>6
      <4>2. CASE j \in 2 .. Len(l)
        BY <1>5, <1>6, <3>1, <4>2
      <4>3. CASE j = Len(l) + 1
        BY <1>4, <1>6, <4>3
      <4> QED
        BY <4>1, <4>2, <4>3
    <3>3. CASE l = <<>>
      <4>1. m[1] = x
        BY <1>6, <3>3
      <4>2. \A k \in Subchannel : Carried(c, s)[k] = 0
        BY <1>1, <1>5, <2>1, <2>3, <3>3, CarriedIsNat DEF Ledger
      <4>3. Total(Subchannel, Carried(c, s)) = 0
        <5>1. \A k \in Subchannel : Carried(c, s)[k] \in Nat
          BY <1>1, CarriedIsNat
        <5> QED
          BY <4>2, <5>1, SubchannelsFinite, TotalOfZeros
      <4> QED
        BY <1>4, <1>6, <1>7, <1>8, <2>1, <2>3, <3>2, <4>1, <4>3 DEF Ledger
    <3>4. CASE l # <<>>
      <4>1. m[1] = l[1]
        BY <1>5, <1>6, <3>4
      <4> QED
        BY <1>5, <1>6, <1>7, <1>8, <2>1, <2>3, <3>2, <3>4, <4>1 DEF Ledger
    <3> QED
      BY <3>3, <3>4
  <2> QED
    BY <2>2, <2>3
<1>10. Booked(e, d)
  BY <1>1, <1>8, <1>9 DEF Booked
<1>11. accepted' \in [Ends -> [Streams -> Nat]]
  BY <1>1, <1>2, <1>3
<1> QED
  BY <1>2, <1>10, <1>11, OneBook DEF BookInv, TypeOK

LEMMA BookTransmit ==
  ASSUME BookInv, NEW e \in Ends, Transmit(e)
  PROVE  BookInv'
<1> DEFINE d == SendDatagram(e, chan[e]).chan
           p == SendDatagram(e, chan[e]).packet
           u == UpdateSubChannels(CreateFragmentsFromBuffer(e, chan[e]))
<1>1. /\ chan' = [chan EXCEPT ![e] = d] /\ net' = net \union {p}
      /\ UNCHANGED <<setting, accepted, delivered>>
  BY DEF Transmit
<1>2. setting \in Setting /\ Booked(e, chan[e])
  BY SettingsAssumption DEF BookInv, TypeOK
<1>3. Booked(e, u) /\ Shipped(u, d, p)
  BY <1>2, Shipping
<1> HIDE DEF d, p, u
<1>4. Booked(e, d) /\ p \in PacketType
  BY <1>3, BookedShipped DEF Shipped
<1> QED
  BY <1>1, <1>4, OneBook DEF BookInv, TypeOK

LEMMA BookProcess ==
  ASSUME BookInv, NEW e \in Ends, NEW p \in net, NEW transmits \in BOOLEAN,
         ProcessPacket(e, p, transmits)
  PROVE  BookInv'
<1> DEFINE c == chan[e]
           refused == \E k \in Subchannel : Invalid(c, p, k)
           a == ReadAcks(c, p)
           h == ProcessPacketHeader(c, p)
           d == SendDatagram(e, h).chan
           q == SendDatagram(e, h).packet
           b == IF transmits THEN d ELSE h
           read == IF refused THEN Nothing(a) ELSE Receive(b, p)
<1>1. /\ chan' = [chan EXCEPT ![e] = read.chan]
      /\ delivered' = [delivered EXCEPT ![e] = [s \in Streams |-> @[s] \o read.out[s]]]
      /\ net' = IF transmits THEN net \union {q} ELSE net
      /\ UNCHANGED <<setting, accepted>>
  BY DEF ProcessPacket
<1>2. /\ setting \in Setting /\ Booked(e, c) /\ p \in PacketType
      /\ delivered \in [Ends -> [Streams -> Seq(Nat)]]
  BY SettingsAssumption DEF BookInv, TypeOK
<1> HIDE DEF c
<1>3. Booked(e, a)
  <2>1. Ticked(c, a, Acked(c, p), Missed(c, p))
    BY <1>2, Ticking
  <2>2. \A k \in Missed(c, p) : c.sub[k].state = "waiting"
    BY DEF Missed
  <2> HIDE DEF a
  <2> QED
    BY <1>2, <2>1, <2>2, BookedTicked
<1>4. Booked(e, h)
  <2>1. Headed(a, h, p)
    BY <1>2, <1>3, Heading DEF Booked
  <2> HIDE DEF a, h
  <2> QED
    BY <1>3, <2>1, BookedHeaded
<1> HIDE DEF a, h
<1>5. Booked(e, d) /\ q \in PacketType
  <2> DEFINE u == UpdateSubChannels(CreateFragmentsFromBuffer(e, h))
  <2>1. Booked(e, u) /\ Shipped(u, d, q)
    BY <1>2, <1>4, Shipping
  <2> HIDE DEF u, d, q
  <2> QED
    BY <2>1, BookedShipped DEF Shipped
<1> HIDE DEF d, q
<1>6. Booked(e, b)
  BY <1>4, <1>5
<1> HIDE DEF b
<1>7. Booked(e, read.chan) /\ read.out \in [Streams -> Seq(Nat)]
  <2>1. CASE refused
    BY <1>3, <2>1 DEF Nothing
  <2>2. CASE ~refused
    <3>1. Received(b, Receive(b, p).chan) /\ Receive(b, p).out \in [Streams -> Seq(Nat)]
      BY <1>2, <1>6, Receiving DEF Booked
    <3>2. Booked(e, Receive(b, p).chan)
      BY <1>6, <3>1, BookedReceived
    <3> QED
      BY <2>2, <3>1, <3>2
  <2> QED
    BY <2>1, <2>2
<1> HIDE DEF read
<1>8. delivered' \in [Ends -> [Streams -> Seq(Nat)]]
  <2>1. ASSUME NEW s \in Streams PROVE delivered[e][s] \o read.out[s] \in Seq(Nat)
    BY <1>2, <1>7
  <2>2. [s \in Streams |-> delivered[e][s] \o read.out[s]] \in [Streams -> Seq(Nat)]
    BY <2>1
  <2> QED
    BY <1>1, <1>2, <2>2
<1>9. \A x \in net' : x \in net \/ x \in PacketType
  BY <1>1, <1>5
<1> QED
  BY <1>1, <1>7, <1>8, <1>9, OneBook DEF BookInv, TypeOK

LEMMA BookStep == BookInv /\ [Next]_vars => BookInv'
<1> SUFFICES ASSUME BookInv, [Next]_vars PROVE BookInv'
  OBVIOUS
<1>1. CASE UNCHANGED vars
  BY <1>1 DEF vars, BookInv, TypeOK, Booked, Ledger
<1>2. ASSUME NEW e \in Ends, SendMessage(e) \/ SendFile(e) \/ Transmit(e) PROVE BookInv'
  BY <1>2, BookMessage, BookFile, BookTransmit
<1>3. ASSUME NEW e \in Ends, NEW p \in net, NEW transmits \in {FALSE} \union {e \in Transmitters},
             ProcessPacket(e, p, transmits)
      PROVE  BookInv'
  <2>1. transmits \in BOOLEAN
    OBVIOUS
  <2> QED
    BY <2>1, <1>3, BookProcess
<1> QED
  BY <1>1, <1>2, <1>3 DEF Next

LEMMA Bookkeeping == Spec => []BookInv
BY BookInit, BookStep, PTL DEF Spec

-----------------------------------------------------------------------------
(* Whatever the settings, the network and the callbacks do, every counter   *)
(* of a waiting list stays a number that the types of dataFragments_t allow.*)
THEOREM TypeCorrect == Spec => []TypeOK
<1>1. BookInv => TypeOK
  BY DEF BookInv
<1> QED
  BY <1>1, Bookkeeping, PTL
=============================================================================
