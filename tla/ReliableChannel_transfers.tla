---------------------- MODULE ReliableChannel_transfers ----------------------
(***************************************************************************)
(* What becomes of the messages of ReliableChannel, for any number of      *)
(* subchannels, any messages and files and whatever the network does, as   *)
(* long as no PacketStart callback transmits and no packet carries         *)
(* fragments of both streams: the ends implement FifoChannel, the sender   *)
(* forgets only what was delivered, and a retry can succeed.               *)
(*                                                                         *)
(* The argument.  The invariant (Transfer) is about one stream in one      *)
(* direction, sender c and receiver r:                                     *)
(*   - what is left of the first item is what its sender has not sent and  *)
(*     what is on its way, that is, in a subchannel that is in use and     *)
(*     whose bit says that the receiver has not read it (Left);            *)
(*   - subchannels carry fragments of their own (Placed);                  *)
(*   - the receiver has the item's buffer exactly while some of it is left *)
(*     but not all, has counted the rest, and has every fragment that was  *)
(*     sent but for those on their way (Reassembled); so when the last is  *)
(*     read the buffer is full, and holds the messages of that item;       *)
(*   - the messages delivered, those in the items and those not cut yet    *)
(*     are all that were accepted, in that order; the first item counts as *)
(*     delivered when nothing of it is left (Ordered).                     *)
(* A datagram that is not stale carries the fragments that its subchannel  *)
(* has now (Labelled): from the alternating bits.  That packets carry one  *)
(* stream is needed where one is read: with two, a stream that cannot be   *)
(* read drops the packet after the other was counted.                      *)
(***************************************************************************)
EXTENDS ReliableChannel_proofs, SequenceTheorems

-----------------------------------------------------------------------------
(* The order of a stream's messages.  The items of list l, and then the     *)
(* messages that are not cut yet (rest), are the acc messages accepted      *)
(* after those delivered, but for the first item if nothing of it is left.  *)
Run(m, n) == [j \in 1 .. n - m |-> m + j]

Bounded(l, b, rest, acc) ==
  /\ b \in [0 .. Len(l) -> Nat]
  /\ \A i \in 1 .. Len(l) : b[i - 1] < b[i] /\ l[i].ids = Run(b[i - 1], b[i])
  /\ b[Len(l)] <= acc /\ rest = Run(b[Len(l)], acc)

Ordered(l, rest, left, acc, del) ==
  \E b : Bounded(l, b, rest, acc) /\ del = Run(0, IF l # <<>> /\ left = 0 THEN b[1] ELSE b[0])

LEMMA Runs ==
  ASSUME NEW m \in Nat, NEW n \in Nat, m <= n
  PROVE  /\ Run(m, n) \in Seq(Nat) /\ Len(Run(m, n)) = n - m
         /\ \A j \in 1 .. n - m : Run(m, n)[j] = m + j
         /\ Append(Run(m, n), n + 1) = Run(m, n + 1)
         /\ \A k \in Nat : n <= k => Run(m, n) \o Run(n, k) = Run(m, k)
<1>1. /\ Run(m, n) \in Seq(Nat) /\ Len(Run(m, n)) = n - m
      /\ \A j \in 1 .. n - m : Run(m, n)[j] = m + j
  BY DEF Run
<1>2. Append(Run(m, n), n + 1) = Run(m, n + 1)
  <2>1. Append(Run(m, n), n + 1) \in Seq(Nat) /\ Run(m, n + 1) \in Seq(Nat)
    BY <1>1 DEF Run
  <2>2. Len(Append(Run(m, n), n + 1)) = n + 1 - m /\ Len(Run(m, n + 1)) = n + 1 - m
    BY <1>1 DEF Run
  <2>3. \A j \in 1 .. n + 1 - m : Append(Run(m, n), n + 1)[j] = Run(m, n + 1)[j]
    BY <1>1 DEF Run
  <2> QED
    BY <2>1, <2>2, <2>3, SeqEqual
<1>3. ASSUME NEW k \in Nat, n <= k PROVE Run(m, n) \o Run(n, k) = Run(m, k)
  <2> DEFINE A == Run(m, n)
             B == Run(n, k)
             C == Run(m, k)
  <2>1. /\ A \in Seq(Nat) /\ Len(A) = n - m /\ B \in Seq(Nat) /\ Len(B) = k - n
        /\ C \in Seq(Nat) /\ Len(C) = k - m
    BY <1>1, <1>3 DEF Run
  <2>2. /\ \A j \in 1 .. n - m : A[j] = m + j
        /\ \A j \in 1 .. k - n : B[j] = n + j
        /\ \A j \in 1 .. k - m : C[j] = m + j
    BY <1>3 DEF Run
  <2> HIDE DEF A, B, C
  <2>3. A \o B \in Seq(Nat) /\ Len(A \o B) = k - m
    <3>1. A \o B \in Seq(Nat) /\ Len(A \o B) = Len(A) + Len(B)
      BY <2>1, ConcatProperties
    <3> QED
      BY <3>1, <2>1
  <2>4. \A j \in 1 .. k - m : (A \o B)[j] = C[j]
    <3> SUFFICES ASSUME NEW j \in 1 .. k - m PROVE (A \o B)[j] = C[j]
      OBVIOUS
    <3>1. (A \o B)[j] = IF j <= Len(A) THEN A[j] ELSE B[j - Len(A)]
      BY <2>1, <1>3, ConcatProperties
    <3>2. CASE j <= n - m
      BY <2>1, <2>2, <3>1, <3>2
    <3>3. CASE j > n - m
      <4>1. j - (n - m) \in 1 .. k - n
        BY <3>3, <1>3
      <4> QED
        BY <2>1, <2>2, <3>1, <3>3, <4>1
    <3>4. j <= n - m \/ j > n - m
      OBVIOUS
    <3> QED
      BY <3>2, <3>3, <3>4, Zenon
  <2>5. A \o B = C
    BY <2>1, <2>3, <2>4, SeqEqual
  <2> QED
    BY <2>5 DEF A, B, C
<1> QED
  BY <1>1, <1>2, <1>3

LEMMA EmptyRun == ASSUME NEW n \in Nat PROVE Run(n, n) = <<>>
<1>1. 1 .. n - n = {}
  OBVIOUS
<1>2. Run(n, n) \in Seq(Nat) /\ DOMAIN Run(n, n) = {}
  BY <1>1 DEF Run
<1>3. Len(Run(n, n)) = 0
  BY <1>2
<1> QED
  BY <1>2, <1>3, EmptySeq

LEMMA OrderedAlike ==
  ASSUME NEW l, NEW m, NEW rest, NEW left, NEW other, NEW acc, NEW del,
         Ordered(l, rest, left, acc, del),
         Len(l) \in Nat, Len(m) = Len(l), \A i \in 1 .. Len(l) : m[i].ids = l[i].ids,
         l = <<>> <=> m = <<>>, left = 0 <=> other = 0
  PROVE  Ordered(m, rest, other, acc, del)
BY DEF Ordered, Bounded

\* A message is accepted,
LEMMA OrderedAccepted ==
  ASSUME NEW l, NEW rest, NEW left, NEW acc \in Nat, NEW del,
         Ordered(l, rest, left, acc, del), Len(l) \in Nat
  PROVE  Ordered(l, Append(rest, acc + 1), left, acc + 1, del)
<1>1. PICK b : Bounded(l, b, rest, acc) /\ del = Run(0, IF l # <<>> /\ left = 0 THEN b[1] ELSE b[0])
  BY DEF Ordered
<1>2. b[Len(l)] \in Nat /\ b[Len(l)] <= acc /\ rest = Run(b[Len(l)], acc)
  BY <1>1 DEF Bounded
<1>3. Append(rest, acc + 1) = Run(b[Len(l)], acc + 1)
  BY <1>2, Runs
<1>4. Bounded(l, b, Append(rest, acc + 1), acc + 1)
  BY <1>1, <1>2, <1>3 DEF Bounded
<1> QED
  BY <1>1, <1>4 DEF Ordered

\* the messages that are not cut yet become an item,
LEMMA OrderedCut ==
  ASSUME NEW l, NEW m, NEW rest, rest # <<>>, NEW left, NEW other, NEW acc \in Nat, NEW del,
         Ordered(l, rest, left, acc, del),
         Len(l) \in Nat, Len(m) = Len(l) + 1, \A i \in 1 .. Len(l) : m[i].ids = l[i].ids,
         m[Len(l) + 1].ids = rest, m # <<>>, l = <<>> <=> Len(l) = 0,
         l = <<>> => other # 0, l # <<>> => (left = 0 <=> other = 0)
  PROVE  Ordered(m, <<>>, other, acc, del)
<1>1. PICK b : Bounded(l, b, rest, acc) /\ del = Run(0, IF l # <<>> /\ left = 0 THEN b[1] ELSE b[0])
  BY DEF Ordered
<1> DEFINE n == Len(l)
           c == [i \in 0 .. n + 1 |-> IF i <= n THEN b[i] ELSE acc]
<1>2. /\ b \in [0 .. n -> Nat] /\ n \in Nat
      /\ \A i \in 1 .. n : b[i - 1] < b[i] /\ l[i].ids = Run(b[i - 1], b[i])
      /\ b[n] \in Nat /\ b[n] <= acc /\ rest = Run(b[n], acc)
  BY <1>1 DEF Bounded
<1>3. b[n] < acc
  <2>1. b[n] = acc => rest = <<>>
    BY <1>2, EmptyRun
  <2> QED
    BY <1>2, <2>1
<1>4. c \in [0 .. n + 1 -> Nat] /\ c[n + 1] = acc /\ \A i \in 0 .. n : c[i] = b[i]
  BY <1>2
<1> HIDE DEF c
<1>5. \A i \in 1 .. n + 1 : c[i - 1] < c[i] /\ m[i].ids = Run(c[i - 1], c[i])
  <2> SUFFICES ASSUME NEW i \in 1 .. n + 1 PROVE c[i - 1] < c[i] /\ m[i].ids = Run(c[i - 1], c[i])
    OBVIOUS
  <2>1. CASE i <= n
    <3>1. i \in 1 .. n /\ i \in 0 .. n /\ i - 1 \in 0 .. n
      BY <1>2, <2>1
    <3> QED
      BY <3>1, <1>2, <1>4
  <2>2. CASE i = n + 1
    <3>1. i - 1 = n /\ n \in 0 .. n
      BY <1>2, <2>2
    <3>2. c[i - 1] = b[n] /\ c[i] = acc /\ m[i].ids = rest
      BY <1>4, <2>2, <3>1
    <3> QED
      BY <1>2, <1>3, <3>2
  <2> QED
    BY <1>2, <2>1, <2>2
<1>6. <<>> = Run(acc, acc)
  BY EmptyRun
<1>7. Bounded(m, c, <<>>, acc)
  BY <1>2, <1>4, <1>5, <1>6 DEF Bounded
<1>8. del = Run(0, IF m # <<>> /\ other = 0 THEN c[1] ELSE c[0])
  <2>1. CASE l = <<>>
    BY <1>1, <1>2, <1>4, <2>1
  <2>2. CASE l # <<>>
    <3>1. n >= 1 /\ c[1] = b[1] /\ c[0] = b[0]
      BY <1>2, <1>4, <2>2
    <3> QED
      BY <1>1, <2>2, <3>1
  <2> QED
    BY <2>1, <2>2
<1> QED
  BY <1>7, <1>8 DEF Ordered

\* or part of the last one, which is not the first,
LEMMA OrderedMerged ==
  ASSUME NEW l, NEW m, NEW rest, NEW left, NEW acc \in Nat, NEW del,
         Ordered(l, rest, left, acc, del),
         Len(l) \in Nat, Len(l) > 1, Len(m) = Len(l),
         \A i \in 1 .. Len(l) - 1 : m[i].ids = l[i].ids,
         m[Len(l)].ids = l[Len(l)].ids \o rest, l # <<>>, m # <<>>
  PROVE  Ordered(m, <<>>, left, acc, del)
<1>1. PICK b : Bounded(l, b, rest, acc) /\ del = Run(0, IF l # <<>> /\ left = 0 THEN b[1] ELSE b[0])
  BY DEF Ordered
<1> DEFINE n == Len(l)
           c == [i \in 0 .. n |-> IF i < n THEN b[i] ELSE acc]
<1>2. /\ b \in [0 .. n -> Nat] /\ n \in Nat /\ n > 1
      /\ \A i \in 1 .. n : b[i - 1] < b[i] /\ l[i].ids = Run(b[i - 1], b[i])
      /\ b[n] \in Nat /\ b[n] <= acc /\ rest = Run(b[n], acc)
  BY <1>1 DEF Bounded
<1>3. c \in [0 .. n -> Nat] /\ c[n] = acc /\ \A i \in 0 .. n - 1 : c[i] = b[i]
  BY <1>2
<1> HIDE DEF c
<1>4. \A i \in 1 .. n : c[i - 1] < c[i] /\ m[i].ids = Run(c[i - 1], c[i])
  <2> SUFFICES ASSUME NEW i \in 1 .. n PROVE c[i - 1] < c[i] /\ m[i].ids = Run(c[i - 1], c[i])
    OBVIOUS
  <2>1. CASE i < n
    <3>1. i \in 0 .. n - 1 /\ i \in 1 .. n - 1 /\ i - 1 \in 0 .. n - 1
      BY <1>2, <2>1
    <3> QED
      BY <3>1, <1>2, <1>3
  <2>2. CASE i = n
    <3>1. n - 1 \in 0 .. n - 1 /\ n - 1 \in 0 .. n /\ n \in 1 .. n
      BY <1>2
    <3>2. c[n - 1] = b[n - 1] /\ c[n] = acc /\ b[n - 1] \in Nat /\ b[n - 1] < b[n]
      BY <1>2, <1>3, <3>1
    <3>3. m[n].ids = Run(b[n - 1], b[n]) \o Run(b[n], acc)
      BY <1>2, <3>1
    <3>4. Run(b[n - 1], b[n]) \o Run(b[n], acc) = Run(b[n - 1], acc)
      <4> DEFINE x == b[n - 1]
                 y == b[n]
      <4>1. x \in Nat /\ y \in Nat /\ x <= y /\ y <= acc
        BY <1>2, <3>2
      <4> HIDE DEF x, y
      <4>2. Run(x, y) \o Run(y, acc) = Run(x, acc)
        BY <4>1, Runs
      <4> QED
        BY <4>2 DEF x, y
    <3>5. c[i - 1] < c[i]
      BY <1>2, <2>2, <3>2
    <3> QED
      BY <2>2, <3>2, <3>3, <3>4, <3>5
  <2> QED
    BY <1>2, <2>1, <2>2
<1>5. <<>> = Run(acc, acc)
  BY EmptyRun
<1>6. Bounded(m, c, <<>>, acc)
  BY <1>2, <1>3, <1>4, <1>5 DEF Bounded
<1>7. c[1] = b[1] /\ c[0] = b[0]
  BY <1>2, <1>3
<1> QED
  BY <1>1, <1>6, <1>7 DEF Ordered

\* the first item leaves after it was delivered,
LEMMA OrderedTail ==
  ASSUME NEW T, NEW l \in Seq(T), l # <<>>, NEW rest, NEW other, NEW acc, NEW del,
         Ordered(l, rest, 0, acc, del), Tail(l) # <<>> => other # 0
  PROVE  Ordered(Tail(l), rest, other, acc, del)
<1>1. PICK b : Bounded(l, b, rest, acc) /\ del = Run(0, b[1])
  BY DEF Ordered
<1> DEFINE n == Len(l) - 1
           c == [i \in 0 .. n |-> b[i + 1]]
           m == Tail(l)
<1>2. /\ n \in Nat /\ m \in Seq(T) /\ Len(m) = n /\ \A i \in 1 .. n : m[i] = l[i + 1]
  OBVIOUS
<1>3. /\ b \in [0 .. n + 1 -> Nat]
      /\ \A i \in 1 .. n + 1 : b[i - 1] < b[i] /\ l[i].ids = Run(b[i - 1], b[i])
      /\ b[n + 1] <= acc /\ rest = Run(b[n + 1], acc)
  BY <1>1 DEF Bounded
<1>4. /\ c \in [0 .. n -> Nat] /\ \A i \in 0 .. n : c[i] = b[i + 1]
  BY <1>2, <1>3
<1> HIDE DEF c, n, m
<1>5. \A i \in 1 .. n : c[i - 1] < c[i] /\ m[i].ids = Run(c[i - 1], c[i])
  <2> SUFFICES ASSUME NEW i \in 1 .. n PROVE c[i - 1] < c[i] /\ m[i].ids = Run(c[i - 1], c[i])
    OBVIOUS
  <2>1. i + 1 \in 1 .. n + 1 /\ i \in 0 .. n /\ i - 1 \in 0 .. n /\ (i - 1) + 1 = i /\ (i + 1) - 1 = i
    BY <1>2
  <2>2. c[i - 1] = b[i] /\ c[i] = b[i + 1] /\ m[i] = l[i + 1]
    BY <1>2, <1>4, <2>1
  <2> QED
    BY <1>3, <2>1, <2>2
<1>6. c[n] = b[n + 1] /\ c[0] = b[1]
  BY <1>2, <1>4
<1>7. Bounded(m, c, rest, acc)
  BY <1>2, <1>3, <1>4, <1>5, <1>6 DEF Bounded
<1>8. Ordered(m, rest, other, acc, del)
  BY <1>1, <1>6, <1>7 DEF Ordered, m
<1> QED
  BY <1>8 DEF m

\* and is delivered when nothing of it is left.
LEMMA OrderedDelivered ==
  ASSUME NEW l, l # <<>>, Len(l) \in Nat, Len(l) >= 1, NEW rest, NEW left, left # 0,
         NEW acc, NEW del, Ordered(l, rest, left, acc, del)
  PROVE  Ordered(l, rest, 0, acc, del \o l[1].ids)
<1>1. PICK b : Bounded(l, b, rest, acc) /\ del = Run(0, b[0])
  BY DEF Ordered
<1>2. /\ b[0] \in Nat /\ b[1] \in Nat /\ b[0] < b[1] /\ l[1].ids = Run(b[0], b[1])
  BY <1>1 DEF Bounded
<1>3. Run(0, b[0]) \o Run(b[0], b[1]) = Run(0, b[1])
  <2> DEFINE x == b[0]
             y == b[1]
  <2>1. x \in Nat /\ y \in Nat /\ x <= y
    BY <1>2
  <2> HIDE DEF x, y
  <2>2. Run(0, x) \o Run(x, y) = Run(0, y)
    <3>1. \A k \in Nat : x <= k => Run(0, x) \o Run(x, k) = Run(0, k)
      <4>1. 0 \in Nat /\ 0 <= x
        BY <2>1
      <4> QED
        BY <2>1, <4>1, Runs
    <3> QED
      BY <2>1, <3>1
  <2> QED
    BY <2>2 DEF x, y
<1> QED
  BY <1>1, <1>2, <1>3 DEF Ordered

-----------------------------------------------------------------------------
(* A transfer: sender c and receiver r of a stream.                         *)
\* The subchannels on their way.
Outstanding(c, r) == {k \in Subchannel : c.sub[k].state # "free" /\ ~Read(c, r, k)}

\* The fragments of the first item that the receiver has not read.
Left(c, r, s) == Unsent(c, s) + Total(Outstanding(c, r), Carried(c, s))

\* The subchannels carry fragments of their own, of those that were sent.
Placed(c, s) ==
  \A k \in Subchannel : c.sub[k].num[s] # 0 =>
    /\ c.sub[k].start[s] >= 0
    /\ c.sub[k].start[s] + c.sub[k].num[s] <= c.waiting[s][1].acked + c.waiting[s][1].pending
    /\ \A j \in Subchannel \ {k} : c.sub[j].num[s] # 0 =>
         \/ c.sub[k].start[s] + c.sub[k].num[s] <= c.sub[j].start[s]
         \/ c.sub[j].start[s] + c.sub[j].num[s] <= c.sub[k].start[s]

Covers(c, k, s, i) == i \in c.sub[k].start[s] + 1 .. c.sub[k].start[s] + c.sub[k].num[s]

\* The receiver has a buffer exactly while the first item is read in part:
\* it has counted what is not left, and has all that was sent but for what
\* is on its way.
Reassembled(c, r, s) ==
  LET item == c.waiting[s][1]
      list == r.receive[s]
      left == Left(c, r, s)
  IN /\ list.open <=> c.waiting[s] # <<>> /\ left \notin {0, item.frags}
     /\ list.open =>
          /\ list.ids = item.ids /\ list.frags = item.frags /\ list.acked + left = item.frags
          /\ DOMAIN list.data = 1 .. item.frags
          /\ \A k \in Outstanding(c, r) : c.sub[k].num[s] # 0 => c.sub[k].start[s] # 0
     /\ c.waiting[s] # <<>> /\ left # 0 =>
          \A i \in 1 .. item.acked + item.pending :
            \/ \E k \in Outstanding(c, r) : Covers(c, k, s, i)
            \/ list.open /\ list.data[i] = item.ids

\* The messages that are not cut yet.
Uncut(c, s) == IF s = "normal" THEN c.stream ELSE <<>>

Transfer(c, r, s, acc, del) ==
  /\ Placed(c, s) /\ Reassembled(c, r, s)
  /\ Ordered(c.waiting[s], Uncut(c, s), Left(c, r, s), acc, del)

\* A datagram that is not stale carries what its subchannel carries now.
Labelled(c, r, P) ==
  \A p \in P : ~Stale(r, p) => \A s \in Streams : p.frag[s] = Fragments(c, p.sub, s)

LEMMA LeftFacts ==
  ASSUME NEW e, NEW c, Booked(e, c), NEW r, NEW s \in Streams
  PROVE  LET O == Outstanding(c, r)
             n == Total(O, Carried(c, s))
         IN /\ Left(c, r, s) \in Nat /\ n \in Nat
            /\ c.waiting[s] = <<>> => Left(c, r, s) = 0 /\ n = 0
            /\ c.waiting[s] # <<>> =>
                 /\ Left(c, r, s) = c.waiting[s][1].frags - c.waiting[s][1].acked
                                      - c.waiting[s][1].pending + n
                 /\ n <= c.waiting[s][1].pending
                 /\ Left(c, r, s) <= c.waiting[s][1].frags
            /\ \A k \in O : c.sub[k].num[s] \in Nat /\ c.sub[k].num[s] <= n
<1> DEFINE O == Outstanding(c, r)
           F == Carried(c, s)
           n == Total(O, F)
<1>1. /\ O \in SUBSET Subchannel /\ IsFiniteSet(O) /\ c \in ChannelType
      /\ \A k \in Subchannel : F[k] = c.sub[k].num[s] /\ F[k] \in Nat
  <2>1. O \in SUBSET Subchannel /\ c \in ChannelType
    BY DEF Outstanding, Booked
  <2> QED
    BY <2>1, CarriedIsNat, SubchannelsFinite, FS_Subset
<1>2. /\ n \in Nat
      /\ n # 0 => c.waiting[s] # <<>> /\ n <= c.waiting[s][1].pending
  BY <1>1, AckedIsCarried
<1>3. /\ Unsent(c, s) \in Nat
      /\ c.waiting[s] = <<>> => Unsent(c, s) = 0
      /\ c.waiting[s] # <<>> =>
           /\ c.waiting[s][1] \in ItemType
           /\ Unsent(c, s) = c.waiting[s][1].frags - c.waiting[s][1].acked - c.waiting[s][1].pending
  BY UnsentIsNat
<1> HIDE DEF O, F
<1>4. ASSUME NEW k \in O PROVE F[k] <= n
  <2>1. Total(O, F) = F[k] + Total(O \ {k}, F) /\ Total(O \ {k}, F) \in Nat
    BY <1>1, TotalWithout
  <2> QED
    BY <1>1, <1>2, <2>1
<1> HIDE DEF n
<1>5. Left(c, r, s) = Unsent(c, s) + n
  BY DEF Left, O, F, n
<1>6. c.waiting[s] # <<>> =>
        /\ c.waiting[s][1].frags \in Nat /\ c.waiting[s][1].acked \in Nat
        /\ c.waiting[s][1].pending \in Nat
  BY <1>3 DEF ItemType
<1>7. c.waiting[s] # <<>> => n <= c.waiting[s][1].pending
  BY <1>2, <1>6
<1>8. /\ Left(c, r, s) \in Nat
      /\ c.waiting[s] = <<>> => Left(c, r, s) = 0 /\ n = 0
      /\ c.waiting[s] # <<>> =>
                 /\ Left(c, r, s) = c.waiting[s][1].frags - c.waiting[s][1].acked
                                      - c.waiting[s][1].pending + n
                 /\ Left(c, r, s) <= c.waiting[s][1].frags
  <2>1. CASE c.waiting[s] = <<>>
    BY <1>2, <1>3, <1>5, <2>1
  <2>2. CASE c.waiting[s] # <<>>
    <3> DEFINE f == c.waiting[s][1].frags
               a == c.waiting[s][1].acked
               t == c.waiting[s][1].pending
               u == Unsent(c, s)
    <3>1. f \in Nat /\ a \in Nat /\ t \in Nat /\ n <= t /\ n \in Nat /\ u \in Nat
      BY <1>2, <1>3, <1>6, <1>7, <2>2
    <3>2. u = f - a - t /\ Left(c, r, s) = u + n
      BY <1>3, <1>5, <2>2
    <3> HIDE DEF f, a, t, u
    <3>3. Left(c, r, s) \in Nat /\ Left(c, r, s) = f - a - t + n /\ Left(c, r, s) <= f
      BY <3>1, <3>2
    <3> QED
      BY <2>2, <3>3 DEF f, a, t
  <2> QED
    BY <2>1, <2>2
<1> QED
  BY <1>1, <1>2, <1>4, <1>7, <1>8 DEF n, O, F

\* d and q are to the first item of the transfer what c and r are ...
Similar(c, r, d, q, s) ==
  /\ q.receive[s] = r.receive[s]
  /\ Outstanding(d, q) = Outstanding(c, r)
  /\ \A k \in Subchannel :
       d.sub[k].num[s] # 0 \/ k \in Outstanding(c, r) =>
         d.sub[k].num[s] = c.sub[k].num[s] /\ d.sub[k].start[s] = c.sub[k].start[s]
  /\ d.waiting[s] = <<>> <=> c.waiting[s] = <<>>
  /\ c.waiting[s] # <<>> =>
       /\ d.waiting[s][1].ids = c.waiting[s][1].ids
       /\ d.waiting[s][1].frags = c.waiting[s][1].frags
       /\ d.waiting[s][1].acked + d.waiting[s][1].pending
            = c.waiting[s][1].acked + c.waiting[s][1].pending

\* ... and to all of it.
Alike(c, r, d, q, s) ==
  /\ Similar(c, r, d, q, s)
  /\ Uncut(d, s) = Uncut(c, s) /\ Len(d.waiting[s]) = Len(c.waiting[s])
  /\ \A i \in 1 .. Len(c.waiting[s]) : d.waiting[s][i].ids = c.waiting[s][i].ids

LEMMA SimilarTransfer ==
  ASSUME NEW e, NEW c, Booked(e, c), NEW d, Booked(e, d), NEW r, NEW q, NEW s \in Streams,
         Similar(c, r, d, q, s), Placed(c, s), Reassembled(c, r, s)
  PROVE  Left(d, q, s) = Left(c, r, s) /\ Placed(d, s) /\ Reassembled(d, q, s)
<1> DEFINE O == Outstanding(c, r)
           l == c.waiting[s]
           m == d.waiting[s]
<1>1. /\ l \in Seq(ItemType) /\ m \in Seq(ItemType) /\ c \in ChannelType /\ d \in ChannelType
      /\ O \in SUBSET Subchannel
  BY ChannelFields DEF Booked, Outstanding
<1>2. Left(d, q, s) = Left(c, r, s)
  <2>1. Total(O, Carried(d, s)) = Total(O, Carried(c, s))
    <3>1. \A k \in O : Carried(d, s)[k] = Carried(c, s)[k]
      BY <1>1 DEF Similar, Carried
    <3> QED
      BY <3>1, TotalOfSame
  <2>2. Outstanding(d, q) = O /\ (m = <<>> <=> l = <<>>)
    BY DEF Similar
  <2>3. /\ Left(c, r, s) = Unsent(c, s) + Total(O, Carried(c, s))
        /\ Left(d, q, s) = Unsent(d, s) + Total(O, Carried(d, s))
    BY <2>2 DEF Left
  <2>4. Unsent(d, s) = Unsent(c, s)
    <3>1. CASE l = <<>>
      BY <2>2, <3>1, UnsentIsNat
    <3>2. CASE l # <<>>
      <4>1. /\ m[1] \in ItemType /\ l[1] \in ItemType
            /\ Unsent(c, s) = l[1].frags - l[1].acked - l[1].pending
            /\ Unsent(d, s) = m[1].frags - m[1].acked - m[1].pending
        BY <2>2, <3>2, UnsentIsNat
      <4>2. m[1].frags = l[1].frags /\ m[1].acked + m[1].pending = l[1].acked + l[1].pending
        BY <3>2 DEF Similar
      <4>3. /\ l[1].frags \in Nat /\ l[1].acked \in Nat /\ l[1].pending \in Nat
            /\ m[1].acked \in Nat /\ m[1].pending \in Nat
        BY <4>1 DEF ItemType
      <4> QED
        BY <4>1, <4>2, <4>3
    <3> QED
      BY <3>1, <3>2
  <2> QED
    BY <2>1, <2>3, <2>4
<1>3. Placed(d, s)
  <2>1. \A k \in Subchannel : c.sub[k].num[s] # 0 => l # <<>>
    BY DEF Booked, Ledger
  <2> QED
    BY <2>1 DEF Similar, Placed
<1>4. Reassembled(d, q, s)
  <2>1. \A k \in O : d.sub[k].num[s] = c.sub[k].num[s] /\ d.sub[k].start[s] = c.sub[k].start[s]
    BY <1>1 DEF Similar
  <2>2. \A k \in O, i \in Int : Covers(d, k, s, i) <=> Covers(c, k, s, i)
    BY <2>1 DEF Covers
  <2>3. /\ Outstanding(d, q) = O /\ q.receive[s] = r.receive[s] /\ (m = <<>> <=> l = <<>>)
        /\ l # <<>> => /\ m[1].ids = l[1].ids /\ m[1].frags = l[1].frags
                       /\ m[1].acked + m[1].pending = l[1].acked + l[1].pending
    BY DEF Similar
  <2>4. \A i \in 1 .. m[1].acked + m[1].pending : i \in Int
    OBVIOUS
  <2> QED
    BY <1>2, <2>1, <2>2, <2>3, <2>4 DEF Reassembled
<1> QED
  BY <1>2, <1>3, <1>4

LEMMA AlikeTransfer ==
  ASSUME NEW e, NEW c, Booked(e, c), NEW d, Booked(e, d), NEW r, NEW q, NEW s \in Streams,
         NEW acc, NEW del, Alike(c, r, d, q, s), Transfer(c, r, s, acc, del)
  PROVE  Transfer(d, q, s, acc, del)
<1> DEFINE l == c.waiting[s]
           m == d.waiting[s]
<1>1. Left(d, q, s) = Left(c, r, s) /\ Placed(d, s) /\ Reassembled(d, q, s)
  BY SimilarTransfer DEF Alike, Transfer
<1>2. l \in Seq(ItemType)
  BY ChannelFields DEF Booked
<1>3. /\ Len(m) = Len(l) /\ (m = <<>> <=> l = <<>>) /\ \A i \in 1 .. Len(l) : m[i].ids = l[i].ids
      /\ Uncut(d, s) = Uncut(c, s) /\ Ordered(l, Uncut(c, s), Left(c, r, s), acc, del)
  BY DEF Alike, Similar, Transfer
<1>4. Ordered(m, Uncut(d, s), Left(d, q, s), acc, del)
  <2> HIDE DEF l, m
  <2>1. Len(l) \in Nat
    BY <1>2
  <2> QED
    BY <1>1, <1>3, <2>1, OrderedAlike
<1> QED
  BY <1>1, <1>4 DEF Transfer

\* Filling a subchannel, as a transfer sees it.
LEMMA LoadedTransfer ==
  ASSUME NEW e, NEW c, Booked(e, c), NEW u, Booked(e, u), NEW k, NEW num, Loaded(c, u, k, num),
         NEW r, Read(c, r, k), NEW s \in Streams, NEW acc, NEW del, Transfer(c, r, s, acc, del)
  PROVE  Transfer(u, r, s, acc, del)
<1> DEFINE O == Outstanding(c, r)
           Q == Outstanding(u, r)
           l == c.waiting[s]
           m == u.waiting[s]
           n == num[s]
           start == IF n = 0 THEN -1 ELSE l[1].acked + l[1].pending
<1>1. /\ k \in Subchannel /\ c.sub[k].state = "free" /\ n \in Nat /\ n <= Unsent(c, s)
      /\ n # 0 => l # <<>>
      /\ u.sub[k].state = "tosend" /\ u.sub[k].num[s] = n /\ u.sub[k].start[s] = start
      /\ \A j \in Subchannel \ {k} : u.sub[j] = c.sub[j]
      /\ m = IF n = 0 THEN l ELSE [l EXCEPT ![1].pending = @ + n]
      /\ u.outRel = Flip(c.outRel, k) /\ u.stream = c.stream
  <2>1. u.sub[k] = [state |-> "tosend", seq |-> 0, num |-> num,
                    start |-> [x \in Streams |-> IF num[x] = 0 THEN -1
                                 ELSE c.waiting[x][1].acked + c.waiting[x][1].pending]]
    BY DEF Loaded
  <2>2. u.sub[k].state = "tosend" /\ u.sub[k].num[s] = n /\ u.sub[k].start[s] = start
    BY <2>1
  <2> QED
    BY <2>2 DEF Loaded
<1>2. /\ l \in Seq(ItemType) /\ m \in Seq(ItemType) /\ c \in ChannelType /\ u \in ChannelType
      /\ O \in SUBSET Subchannel /\ k \notin O /\ IsFiniteSet(O) /\ IsFiniteSet(Q)
      /\ Q \in SUBSET Subchannel
  <2>1. O \in SUBSET Subchannel /\ Q \in SUBSET Subchannel /\ k \notin O
    BY <1>1 DEF Outstanding
  <2> QED
    BY <2>1, ChannelFields, SubchannelsFinite, FS_Subset DEF Booked
<1>3. Q = O \union {k}
  <2>1. ~Read(u, r, k)
    BY <1>1 DEF Read, Flip, SymDiff
  <2>2. \A j \in Subchannel \ {k} : Read(u, r, j) <=> Read(c, r, j)
    BY <1>1 DEF Read, Flip, SymDiff
  <2> QED
    BY <1>1, <2>1, <2>2 DEF Outstanding
<1>4. c.sub[k].num[s] = 0
  BY <1>1 DEF Booked
<1>5. /\ (m = <<>> <=> l = <<>>) /\ Len(m) = Len(l) /\ \A i \in 1 .. Len(l) : m[i].ids = l[i].ids
      /\ l # <<>> => /\ m[1].ids = l[1].ids /\ m[1].frags = l[1].frags /\ m[1].acked = l[1].acked
                     /\ m[1].pending = l[1].pending + n
                     /\ l[1].frags \in Nat \ {0} /\ l[1].acked \in Nat /\ l[1].pending \in Nat
  <2>1. CASE l = <<>>
    BY <1>1, <2>1
  <2>2. CASE l # <<>>
    <3> DEFINE w == l[1]
    <3> HIDE DEF w, l, m, n
    <3>1. /\ l[1] = w /\ w \in ItemType /\ Len(l) >= 1 /\ Len(l) \in Nat
      BY <1>2, <2>2 DEF w
    <3>2. w.frags \in Nat \ {0} /\ w.acked \in Nat /\ w.pending \in Nat
      BY <3>1 DEF ItemType
    <3>3. CASE n = 0
      BY <1>1, <2>2, <3>1, <3>2, <3>3
    <3>4. CASE n # 0
      <4> DEFINE v == [w EXCEPT !.pending = w.pending + n]
      <4>1. m = [l EXCEPT ![1] = v]
        BY <1>1, <1>2, <3>1, <3>4
      <4>2. v.ids = w.ids /\ v.frags = w.frags /\ v.acked = w.acked /\ v.pending = w.pending + n
        BY <3>1 DEF ItemType
      <4> HIDE DEF v
      <4>3. m # <<>> /\ Len(m) = Len(l) /\ m[1] = v /\ \A i \in 2 .. Len(l) : m[i] = l[i]
        BY <1>2, <3>1, <4>1
      <4>4. \A i \in 1 .. Len(l) : m[i].ids = l[i].ids
        BY <3>1, <4>2, <4>3
      <4> QED
        BY <2>2, <3>1, <3>2, <4>2, <4>3, <4>4
    <3> QED
      BY <3>3, <3>4
  <2> QED
    BY <2>1, <2>2
<1>6. Left(u, r, s) = Left(c, r, s)
  <2> DEFINE F == Carried(c, s)
             G == Carried(u, s)
  <2>1. /\ \A j \in Subchannel : F[j] = c.sub[j].num[s] /\ F[j] \in Nat
        /\ \A j \in Subchannel : G[j] = u.sub[j].num[s] /\ G[j] \in Nat
    BY <1>2, CarriedIsNat
  <2> HIDE DEF F, G
  <2>2. Total(Q, G) = G[k] + Total(Q \ {k}, G)
    <3>1. k \in Q /\ \A j \in Q : G[j] \in Nat
      BY <1>2, <1>3, <2>1
    <3> QED
      BY <1>2, <3>1, TotalWithout
  <2>3. Total(Q \ {k}, G) = Total(O, F)
    <3>1. Q \ {k} = O
      BY <1>2, <1>3
    <3>2. \A j \in O : G[j] = F[j]
      BY <1>1, <1>2, <2>1
    <3> QED
      BY <3>1, <3>2, TotalOfSame
  <2>4. Total(Q, G) = n + Total(O, F) /\ Total(O, F) \in Nat
    BY <1>1, <2>1, <2>2, <2>3, LeftFacts DEF F
  <2>5. Left(c, r, s) = Unsent(c, s) + Total(O, F) /\ Left(u, r, s) = Unsent(u, s) + Total(Q, G)
    BY DEF Left, F, G
  <2>6. Unsent(u, s) = Unsent(c, s) - n
    <3>1. CASE l = <<>>
      <4>1. n = 0 /\ Unsent(u, s) = 0 /\ Unsent(c, s) = 0
        BY <1>1, <1>5, <3>1, UnsentIsNat
      <4> QED
        BY <4>1
    <3>2. CASE l # <<>>
      <4>1. /\ Unsent(c, s) = l[1].frags - l[1].acked - l[1].pending
            /\ Unsent(u, s) = m[1].frags - m[1].acked - m[1].pending
        BY <1>5, <3>2, UnsentIsNat
      <4> QED
        BY <1>1, <1>5, <3>2, <4>1
    <3> QED
      BY <3>1, <3>2
  <2>7. Unsent(c, s) \in Nat
    BY UnsentIsNat
  <2> QED
    BY <1>1, <2>4, <2>5, <2>6, <2>7
<1> DEFINE t == l[1].acked + l[1].pending
<1>7. l # <<>> => t \in Nat /\ m[1].acked + m[1].pending = t + n
  <2>1. n \in Nat
    BY <1>1
  <2> HIDE DEF l, m, n
  <2> QED
    BY <1>5, <2>1
<1>8. \A j \in Subchannel \ {k} : u.sub[j].num[s] # 0 =>
        /\ l # <<>> /\ c.sub[j].num[s] \in Nat /\ c.sub[j].start[s] \in Int
        /\ c.sub[j].start[s] >= 0 /\ c.sub[j].start[s] + c.sub[j].num[s] <= t
  <2> SUFFICES ASSUME NEW j \in Subchannel \ {k}, u.sub[j].num[s] # 0
               PROVE  /\ l # <<>> /\ c.sub[j].num[s] \in Nat /\ c.sub[j].start[s] \in Int
                      /\ c.sub[j].start[s] >= 0 /\ c.sub[j].start[s] + c.sub[j].num[s] <= t
    OBVIOUS
  <2>1. c.sub[j].num[s] # 0
    BY <1>1
  <2>2. c.sub[j].num[s] \in Nat /\ c.sub[j].start[s] \in Int
    BY <1>2, SubFields
  <2>3. l # <<>>
    BY <2>1 DEF Booked, Ledger
  <2> QED
    BY <2>1, <2>2, <2>3 DEF Transfer, Placed
<1>9. Placed(u, s)
  <2>1. ASSUME NEW j \in Subchannel, u.sub[j].num[s] # 0
        PROVE  /\ u.sub[j].start[s] >= 0
               /\ u.sub[j].start[s] + u.sub[j].num[s] <= m[1].acked + m[1].pending
    <3>1. CASE j = k
      BY <1>1, <1>7, <2>1, <3>1
    <3>2. CASE j # k
      <4>1. u.sub[j] = c.sub[j] /\ j \in Subchannel \ {k} /\ n \in Nat
        BY <1>1, <3>2
      <4>2. /\ l # <<>> /\ c.sub[j].num[s] \in Nat /\ c.sub[j].start[s] \in Int
            /\ c.sub[j].start[s] >= 0 /\ c.sub[j].start[s] + c.sub[j].num[s] <= t
        BY <1>8, <2>1, <4>1
      <4>3. t \in Nat /\ m[1].acked + m[1].pending = t + n
        BY <1>7, <4>2
      <4> HIDE DEF t, n, m
      <4> QED
        BY <4>1, <4>2, <4>3
    <3> QED
      BY <3>1, <3>2
  <2>2. ASSUME NEW j \in Subchannel, u.sub[j].num[s] # 0,
               NEW i \in Subchannel \ {j}, u.sub[i].num[s] # 0
        PROVE  \/ u.sub[j].start[s] + u.sub[j].num[s] <= u.sub[i].start[s]
               \/ u.sub[i].start[s] + u.sub[i].num[s] <= u.sub[j].start[s]
    <3>1. CASE j = k
      <4>1. i \in Subchannel \ {k} /\ u.sub[i] = c.sub[i] /\ l # <<>>
        BY <1>1, <2>2, <3>1
      <4>2. u.sub[i].start[s] + u.sub[i].num[s] <= t /\ u.sub[j].start[s] = t
        BY <1>1, <1>8, <2>2, <3>1, <4>1
      <4> QED
        BY <4>2
    <3>2. CASE i = k
      <4>1. j \in Subchannel \ {k} /\ u.sub[j] = c.sub[j] /\ l # <<>>
        BY <1>1, <2>2, <3>2
      <4>2. u.sub[j].start[s] + u.sub[j].num[s] <= t /\ u.sub[i].start[s] = t
        BY <1>1, <1>8, <2>2, <3>2, <4>1
      <4> QED
        BY <4>2
    <3>3. CASE i # k /\ j # k
      <4>1. u.sub[i] = c.sub[i] /\ u.sub[j] = c.sub[j]
        BY <1>1, <3>3
      <4> QED
        BY <2>2, <4>1 DEF Transfer, Placed
    <3> QED
      BY <3>1, <3>2, <3>3
  <2> QED
    BY <2>1, <2>2 DEF Placed
<1>10. Reassembled(u, r, s)
  <2> DEFINE list == r.receive[s]
  <2>1. Reassembled(c, r, s)
    BY DEF Transfer
  <2>2. list.open <=> m # <<>> /\ Left(u, r, s) \notin {0, m[1].frags}
    BY <1>5, <1>6, <2>1 DEF Reassembled
  <2>3. ASSUME list.open
        PROVE  /\ list.ids = m[1].ids /\ list.frags = m[1].frags
               /\ list.acked + Left(u, r, s) = m[1].frags /\ DOMAIN list.data = 1 .. m[1].frags
    BY <1>5, <1>6, <2>1, <2>3 DEF Reassembled
  <2>4. ASSUME list.open, NEW j \in Q, u.sub[j].num[s] # 0
        PROVE  u.sub[j].start[s] # 0
    <3>1. CASE j # k
      BY <1>1, <1>2, <1>3, <2>1, <2>4, <3>1 DEF Reassembled
    <3>2. CASE j = k
      <4>1. l # <<>> /\ Left(c, r, s) # l[1].frags
        BY <2>1, <2>4 DEF Reassembled
      <4>2. LET v == Total(O, Carried(c, s))
            IN v \in Nat /\ v <= l[1].pending /\ Left(c, r, s) = l[1].frags - l[1].acked - l[1].pending + v
        BY <4>1, LeftFacts
      <4>3. l[1].acked \in Nat /\ l[1].pending \in Nat /\ l[1].frags \in Nat
        BY <1>5, <4>1
      <4>4. t # 0
        <5> DEFINE f == l[1].frags
                   a == l[1].acked
                   p == l[1].pending
                   v == Total(O, Carried(c, s))
                   z == Left(c, r, s)
        <5>1. /\ f \in Nat /\ a \in Nat /\ p \in Nat /\ v \in Nat /\ v <= p
              /\ z = f - a - p + v /\ z # f
          BY <4>1, <4>2, <4>3
        <5> HIDE DEF f, a, p, v, z
        <5>2. a + p # 0
          BY <5>1
        <5> QED
          BY <5>2 DEF a, p
      <4>5. u.sub[j].start[s] = t
        BY <1>1, <2>4, <3>2
      <4> QED
        BY <4>4, <4>5
    <3> QED
      BY <3>1, <3>2
  <2>5. ASSUME m # <<>>, Left(u, r, s) # 0, NEW i \in 1 .. m[1].acked + m[1].pending,
               \A j \in Q : ~Covers(u, j, s, i)
        PROVE  list.open /\ list.data[i] = m[1].ids
    <3>1. l # <<>> /\ Left(c, r, s) # 0
      BY <1>5, <1>6, <2>5
    <3>2. i \in 1 .. t + n /\ t \in Nat
      BY <1>7, <3>1
    <3>3. i \in 1 .. t
      <4>1. CASE n = 0
        BY <1>1, <3>2, <4>1
      <4>2. CASE n # 0
        <5>1. ~(i \in t + 1 .. t + n)
          BY <1>1, <1>3, <2>5, <4>2 DEF Covers
        <5> QED
          BY <1>1, <3>2, <5>1
      <4> QED
        BY <4>1, <4>2
    <3>4. \A j \in O : ~Covers(c, j, s, i)
      BY <1>1, <1>2, <1>3, <2>5 DEF Covers
    <3>5. list.open /\ list.data[i] = l[1].ids
      BY <2>1, <3>1, <3>3, <3>4 DEF Reassembled
    <3> QED
      BY <1>5, <3>1, <3>5
  <2> HIDE DEF list, m, Q
  <2>6. m # <<>> /\ Left(u, r, s) # 0 =>
          \A i \in 1 .. m[1].acked + m[1].pending :
            (\E j \in Q : Covers(u, j, s, i)) \/ (list.open /\ list.data[i] = m[1].ids)
    BY <2>5
  <2> QED
    BY <2>2, <2>3, <2>4, <2>6 DEF Reassembled, list, m, Q
<1>11. Ordered(m, Uncut(u, s), Left(u, r, s), acc, del)
  <2>1. Uncut(u, s) = Uncut(c, s) /\ Ordered(l, Uncut(c, s), Left(c, r, s), acc, del)
    BY <1>1 DEF Uncut, Transfer
  <2> HIDE DEF l, m
  <2>2. Len(l) \in Nat
    BY <1>2
  <2> QED
    BY <1>5, <1>6, <2>1, <2>2, OrderedAlike
<1> QED
  BY <1>9, <1>10, <1>11 DEF Transfer

\* A first item that is acknowledged as a whole leaves.
LEMMA TailTransfer ==
  ASSUME NEW e, NEW a, Booked(e, a), NEW h, Booked(e, h), NEW r, NEW s \in Streams,
         NEW acc, NEW del, Transfer(a, r, s, acc, del),
         h.sub = a.sub, h.outRel = a.outRel, h.stream = a.stream,
         a.waiting[s] # <<>>, a.waiting[s][1].acked = a.waiting[s][1].frags,
         h.waiting[s] = Tail(a.waiting[s])
  PROVE  /\ Transfer(h, r, s, acc, del)
         /\ \A k \in Subchannel : a.sub[k].num[s] = 0
<1> DEFINE l == a.waiting[s]
           m == h.waiting[s]
           n == Total(Outstanding(a, r), Carried(a, s))
           v == Total(Outstanding(h, r), Carried(h, s))
<1>1. /\ l \in Seq(ItemType) /\ m \in Seq(ItemType) /\ a \in ChannelType /\ h \in ChannelType
  BY ChannelFields DEF Booked
<1>2. l[1] \in ItemType /\ Ledger(a, s) /\ Ledger(h, s)
  BY <1>1 DEF Booked
<1>3. l[1].pending = 0 /\ Total(Subchannel, Carried(a, s)) = 0
  BY <1>2 DEF Ledger, ItemType
<1>4. \A k \in Subchannel : a.sub[k].num[s] = 0
  <2>1. \A k \in Subchannel : Carried(a, s)[k] = a.sub[k].num[s] /\ Carried(a, s)[k] \in Nat
    BY <1>1, CarriedIsNat
  <2> DEFINE F == Carried(a, s)
  <2>2. (\A k \in Subchannel : F[k] \in Nat) /\ Total(Subchannel, F) = 0
    BY <1>3, <2>1
  <2> HIDE DEF F
  <2>3. \A k \in Subchannel : F[k] = 0
    BY <2>2, SubchannelsFinite, TotalOfZeros
  <2> QED
    BY <2>1, <2>3 DEF F
<1>5. Left(a, r, s) = 0
  <2>1. n \in Nat /\ n <= l[1].pending /\ Left(a, r, s) = l[1].frags - l[1].acked - l[1].pending + n
    BY LeftFacts
  <2>2. l[1].frags \in Nat
    BY <1>2 DEF ItemType
  <2> HIDE DEF n
  <2> QED
    BY <1>3, <2>1, <2>2
<1>6. ~r.receive[s].open
  BY <1>5 DEF Transfer, Reassembled
<1>7. m # <<>> => /\ Left(h, r, s) = m[1].frags /\ Left(h, r, s) # 0
                  /\ m[1].acked + m[1].pending = 0
  <2> SUFFICES ASSUME m # <<>>
               PROVE  /\ Left(h, r, s) = m[1].frags /\ Left(h, r, s) # 0
                      /\ m[1].acked + m[1].pending = 0
    OBVIOUS
  <2>1. v \in Nat /\ v <= m[1].pending /\ Left(h, r, s) = m[1].frags - m[1].acked - m[1].pending + v
    BY LeftFacts
  <2>2. m[1].frags \in Nat \ {0}
    <3> HIDE DEF m
    <3>1. m[1] \in ItemType
      BY <1>1
    <3> QED
      BY <3>1 DEF ItemType
  <2>3. m[1].acked = 0 /\ m[1].pending = 0
    <3>1. 2 \in 2 .. Len(l) /\ m[1] = l[2]
      BY <1>1
    <3> QED
      BY <1>2, <3>1 DEF Ledger
  <2> HIDE DEF v
  <2> QED
    BY <2>1, <2>2, <2>3
<1>8. Placed(h, s)
  BY <1>4 DEF Placed
<1>9. Reassembled(h, r, s)
  BY <1>6, <1>7 DEF Reassembled
<1>10. Ordered(m, Uncut(h, s), Left(h, r, s), acc, del)
  <2>1. Uncut(h, s) = Uncut(a, s)
    BY DEF Uncut
  <2>2. Ordered(l, Uncut(a, s), 0, acc, del)
    BY <1>5 DEF Transfer
  <2>3. Ordered(Tail(l), Uncut(a, s), Left(h, r, s), acc, del)
    BY <1>1, <1>7, <2>2, OrderedTail
  <2> QED
    BY <2>1, <2>3
<1> QED
  BY <1>4, <1>8, <1>9, <1>10 DEF Transfer

\* An item is appended that takes the uncut messages.
LEMMA AppendTransfer ==
  ASSUME NEW e, NEW c, Booked(e, c), NEW d, Booked(e, d), NEW r, NEW s \in Streams,
         NEW acc \in Nat, NEW del, NEW rest, rest # <<>>,
         Placed(c, s), Reassembled(c, r, s),
         Ordered(c.waiting[s], rest, Left(c, r, s), acc, del),
         d.sub = c.sub, d.outRel = c.outRel, Uncut(d, s) = <<>>,
         NEW x \in ItemType, d.waiting[s] = Append(c.waiting[s], x),
         x.ids = rest, x.acked = 0, x.pending = 0
  PROVE  Transfer(d, r, s, acc, del)
<1> DEFINE l == c.waiting[s]
           m == d.waiting[s]
<1>1. /\ l \in Seq(ItemType) /\ m \in Seq(ItemType) /\ c \in ChannelType /\ d \in ChannelType
      /\ m = Append(l, x)
  BY ChannelFields DEF Booked
<1>2. Outstanding(d, r) = Outstanding(c, r)
  BY DEF Outstanding, Read
<1> HIDE DEF l, m
<1>3. /\ Len(l) \in Nat /\ Len(m) = Len(l) + 1 /\ m # <<>> /\ (l = <<>> <=> Len(l) = 0)
      /\ \A i \in 1 .. Len(l) : m[i] = l[i]
      /\ m[Len(l) + 1] = x
  BY <1>1
<1>4. CASE l # <<>>
  <2>1. m[1] = l[1]
    BY <1>3, <1>4
  <2>2. Similar(c, r, d, r, s)
    BY <1>2, <1>3, <1>4, <2>1 DEF Similar, l, m
  <2>3. Left(d, r, s) = Left(c, r, s) /\ Placed(d, s) /\ Reassembled(d, r, s)
    BY <2>2, SimilarTransfer
  <2>4. Ordered(m, <<>>, Left(d, r, s), acc, del)
    <3>1. Ordered(l, rest, Left(c, r, s), acc, del)
      BY DEF l
    <3>2. (\A i \in 1 .. Len(l) : m[i].ids = l[i].ids) /\ m[Len(l) + 1].ids = rest
      BY <1>3
    <3> QED
      BY <1>3, <1>4, <2>3, <3>1, <3>2, OrderedCut
  <2> QED
    BY <2>3, <2>4 DEF Transfer, m
<1>5. CASE l = <<>>
  <2>1. m[1] = x /\ \A k \in Subchannel : d.sub[k].num[s] = 0
    BY <1>3, <1>5 DEF Booked, Ledger, l
  <2>2. x.frags \in Nat \ {0}
    BY DEF ItemType
  <2>3. Left(d, r, s) = x.frags
    <3> DEFINE v == Total(Outstanding(d, r), Carried(d, s))
    <3>1. v \in Nat /\ v <= x.pending /\ Left(d, r, s) = x.frags - x.acked - x.pending + v
      BY <1>3, <2>1, LeftFacts DEF m
    <3> HIDE DEF v
    <3> QED
      BY <2>2, <3>1
  <2>4. Placed(d, s)
    BY <2>1 DEF Placed
  <2>5. Reassembled(d, r, s)
    <3>1. ~r.receive[s].open
      BY <1>5 DEF Reassembled, l
    <3> QED
      BY <2>1, <2>3, <3>1 DEF Reassembled, m
  <2>6. Ordered(m, <<>>, Left(d, r, s), acc, del)
    <3>1. Ordered(l, rest, Left(c, r, s), acc, del)
      BY DEF l
    <3>2. (\A i \in 1 .. Len(l) : m[i].ids = l[i].ids) /\ m[Len(l) + 1].ids = rest
      BY <1>3
    <3>3. Left(d, r, s) # 0
      BY <2>2, <2>3
    <3> QED
      BY <1>3, <1>5, <3>1, <3>2, <3>3, OrderedCut
  <2> QED
    BY <2>4, <2>5, <2>6 DEF Transfer, m
<1> QED
  BY <1>4, <1>5

-----------------------------------------------------------------------------
(* What the operators on a channel do to a transfer.                        *)

\* The first item and what is on its way stay.
LEMMA FirstStays ==
  ASSUME NEW e, NEW c, Booked(e, c), NEW d, Booked(e, d), NEW r, NEW q, NEW s \in Streams,
         d.sub = c.sub, d.outRel = c.outRel, d.waiting[s] = c.waiting[s],
         q.inRel = r.inRel, q.receive[s] = r.receive[s]
  PROVE  Similar(c, r, d, q, s)
BY DEF Similar, Outstanding, Read

\* ... and all of the stream.
LEMMA StreamStays ==
  ASSUME NEW e, NEW c, Booked(e, c), NEW d, Booked(e, d), NEW r, NEW q, NEW s \in Streams,
         NEW acc, NEW del, Transfer(c, r, s, acc, del), Uncut(d, s) = Uncut(c, s),
         d.sub = c.sub, d.outRel = c.outRel, d.waiting[s] = c.waiting[s],
         q.inRel = r.inRel, q.receive[s] = r.receive[s]
  PROVE  Transfer(d, q, s, acc, del)
<1>1. Similar(c, r, d, q, s)
  BY FirstStays
<1>2. Alike(c, r, d, q, s)
  BY <1>1 DEF Alike
<1> QED
  BY <1>2, AlikeTransfer

\* A message is accepted: it is not cut yet.
LEMMA MessageTransfer ==
  ASSUME NEW e, NEW c, Booked(e, c), NEW d, Booked(e, d), NEW r, NEW acc \in Nat, NEW del,
         Transfer(c, r, "normal", acc, del), d.stream = Append(c.stream, acc + 1),
         d.sub = c.sub, d.outRel = c.outRel, d.waiting = c.waiting
  PROVE  Transfer(d, r, "normal", acc + 1, del)
<1> DEFINE s == "normal"
           l == c.waiting[s]
<1>1. s \in Streams
  BY DEF Streams
<1>2. Similar(c, r, d, r, s)
  BY <1>1, FirstStays
<1>3. Left(d, r, s) = Left(c, r, s) /\ Placed(d, s) /\ Reassembled(d, r, s)
  BY <1>1, <1>2, SimilarTransfer DEF Transfer
<1>4. Len(l) \in Nat
  BY <1>1, ChannelFields DEF Booked
<1>5. Ordered(l, c.stream, Left(c, r, s), acc, del)
  BY DEF Transfer, Uncut
<1> HIDE DEF l
<1>6. Ordered(l, Append(c.stream, acc + 1), Left(c, r, s), acc + 1, del)
  BY <1>4, <1>5, OrderedAccepted
<1> QED
  BY <1>3, <1>6 DEF Transfer, Uncut, l

\* A file is accepted: it is an item at once.
LEMMA FileTransfer ==
  ASSUME NEW e, NEW c, Booked(e, c), NEW d, Booked(e, d), NEW r, NEW acc \in Nat, NEW del,
         Transfer(c, r, "file", acc, del), d.sub = c.sub, d.outRel = c.outRel,
         NEW x \in ItemType, d.waiting["file"] = Append(c.waiting["file"], x),
         x.ids = <<acc + 1>>, x.acked = 0, x.pending = 0
  PROVE  Transfer(d, r, "file", acc + 1, del)
<1> DEFINE s == "file"
           l == c.waiting[s]
<1>1. s \in Streams /\ Uncut(c, s) = <<>> /\ Uncut(d, s) = <<>>
  BY DEF Streams, Uncut
<1>2. Len(l) \in Nat
  BY <1>1, ChannelFields DEF Booked
<1>3. Ordered(l, <<>>, Left(c, r, s), acc, del) /\ Placed(c, s) /\ Reassembled(c, r, s)
  BY <1>1 DEF Transfer
<1> HIDE DEF l
<1>4. Ordered(l, Append(<<>>, acc + 1), Left(c, r, s), acc + 1, del)
  BY <1>2, <1>3, OrderedAccepted
<1>5. Append(<<>>, acc + 1) = <<acc + 1>> /\ <<acc + 1>> # <<>>
  OBVIOUS
<1>6. Ordered(l, <<acc + 1>>, Left(c, r, s), acc + 1, del)
  BY <1>4, <1>5
<1>7. d.waiting[s] = Append(c.waiting[s], x) /\ acc + 1 \in Nat
  OBVIOUS
<1>8. /\ Placed(c, s) /\ Reassembled(c, r, s)
      /\ Ordered(c.waiting[s], <<acc + 1>>, Left(c, r, s), acc + 1, del)
  BY <1>3, <1>6 DEF l
<1> HIDE DEF s
<1>9. Transfer(d, r, s, acc + 1, del)
  BY <1>1, <1>5, <1>7, <1>8, AppendTransfer
<1> QED
  BY <1>9 DEF s

\* What CreateFragmentsFromBuffer changes: the messages become an item, or
\* part of the last one.
Packed(c, d) ==
  /\ c.stream # <<>> /\ d.stream = <<>>
  /\ d.outSeq = c.outSeq /\ d.inSeq = c.inSeq /\ d.outRel = c.outRel /\ d.inRel = c.inRel
  /\ d.sub = c.sub /\ d.receive = c.receive
  /\ d.waiting["file"] = c.waiting["file"]
  /\ LET l == c.waiting["normal"]
         m == d.waiting["normal"]
     IN \/ \E x \in ItemType :
             m = Append(l, x) /\ x.ids = c.stream /\ x.acked = 0 /\ x.pending = 0
        \/ /\ Len(l) > 1 /\ Len(m) = Len(l) /\ \A i \in 1 .. Len(l) - 1 : m[i] = l[i]
           /\ m[Len(l)].ids = l[Len(l)].ids \o c.stream

LEMMA Packing ==
  ASSUME setting \in Setting, NEW e \in Ends, NEW c, Booked(e, c),
         CreateFragmentsFromBuffer(e, c) # c
  PROVE  Packed(c, CreateFragmentsFromBuffer(e, c))
<1> DEFINE l == c.waiting["normal"]
           n == Size(e, c.stream)
           last == Last(l)
           merges == Len(l) > 1 /\ last.frags + n < MaxPayload
           m == IF merges THEN Append(Front(l), Item(last.ids \o c.stream, last.frags + n))
                ELSE Append(l, Item(c.stream, n))
           d == CreateFragmentsFromBuffer(e, c)
<1>1. c.stream # <<>> /\ d = [c EXCEPT !.waiting["normal"] = m, !.stream = <<>>]
  BY DEF CreateFragmentsFromBuffer
<1>2. /\ c \in ChannelType /\ c.stream \in Ids /\ l \in Seq(ItemType)
      /\ "normal" \in Streams /\ "file" \in Streams
  BY ChannelFields DEF Booked, Streams
<1>3. n \in Nat \ {0}
  BY <1>1, <1>2, SizeIsPositive DEF Booked
<1>4. \/ \E x \in ItemType : m = Append(l, x) /\ x.ids = c.stream /\ x.acked = 0 /\ x.pending = 0
      \/ /\ Len(l) > 1 /\ Len(m) = Len(l) /\ \A i \in 1 .. Len(l) - 1 : m[i] = l[i]
         /\ m[Len(l)].ids = l[Len(l)].ids \o c.stream
  <2>1. CASE ~merges
    <3> DEFINE x == Item(c.stream, n)
    <3>1. x \in ItemType /\ x.ids = c.stream /\ x.acked = 0 /\ x.pending = 0
      BY <1>2, <1>3 DEF Item, ItemType
    <3>2. m = Append(l, x)
      BY <2>1
    <3> QED
      BY <3>1, <3>2
  <2>2. CASE merges
    <3> DEFINE x == Item(last.ids \o c.stream, last.frags + n)
               front == Front(l)
    <3>1. Len(l) > 1 /\ m = Append(front, x)
      BY <2>2
    <3>2. x.ids = last.ids \o c.stream
      BY DEF Item
    <3>3. last = l[Len(l)]
      BY DEF Last
    <3>4. /\ front \in Seq(ItemType) /\ Len(front) = Len(l) - 1
          /\ \A i \in 1 .. Len(l) - 1 : front[i] = l[i]
      BY <3>1, <1>2 DEF Front
    <3> HIDE DEF front, x, m, last, l
    <3>5. Len(l) \in Nat
      BY <1>2
    <3>6. /\ Len(m) = Len(l) /\ m[Len(l)] = x /\ \A i \in 1 .. Len(l) - 1 : m[i] = l[i]
      BY <3>1, <3>4, <3>5
    <3> QED
      BY <3>1, <3>2, <3>3, <3>6
  <2> QED
    BY <2>1, <2>2
<1> HIDE DEF m, d
<1>5. /\ d.stream = <<>> /\ d.outSeq = c.outSeq /\ d.inSeq = c.inSeq
      /\ d.outRel = c.outRel /\ d.inRel = c.inRel /\ d.sub = c.sub /\ d.receive = c.receive
      /\ d.waiting = [c.waiting EXCEPT !["normal"] = m]
  BY <1>1, <1>2 DEF ChannelType
<1>6. d.waiting["normal"] = m /\ d.waiting["file"] = c.waiting["file"]
  BY <1>2, <1>5, ChannelFields
<1>7. Packed(c, d)
  BY <1>1, <1>4, <1>5, <1>6 DEF Packed
<1> QED
  BY <1>7 DEF d

LEMMA PackedTransfer ==
  ASSUME NEW e, NEW c, Booked(e, c), NEW d, Booked(e, d), Packed(c, d), NEW r,
         NEW s \in Streams, NEW acc \in Nat, NEW del, Transfer(c, r, s, acc, del)
  PROVE  Transfer(d, r, s, acc, del)
<1>1. CASE s = "file"
  <2>1. Uncut(d, s) = Uncut(c, s) /\ d.waiting[s] = c.waiting[s]
    BY <1>1 DEF Uncut, Packed
  <2> QED
    BY <2>1, StreamStays DEF Packed
<1>2. CASE s = "normal"
  <2> DEFINE l == c.waiting[s]
             m == d.waiting[s]
  <2>1. /\ Uncut(c, s) = c.stream /\ Uncut(d, s) = <<>> /\ c.stream # <<>>
        /\ Placed(c, s) /\ Reassembled(c, r, s)
        /\ Ordered(l, c.stream, Left(c, r, s), acc, del)
    BY <1>2 DEF Uncut, Packed, Transfer
  <2>2. ASSUME NEW x \in ItemType,
               m = Append(l, x), x.ids = c.stream, x.acked = 0, x.pending = 0
        PROVE  Transfer(d, r, s, acc, del)
    BY <2>1, <2>2, AppendTransfer DEF Packed
  <2>3. ASSUME Len(l) > 1, Len(m) = Len(l), \A i \in 1 .. Len(l) - 1 : m[i] = l[i],
               m[Len(l)].ids = l[Len(l)].ids \o c.stream
        PROVE  Transfer(d, r, s, acc, del)
    <3>1. l \in Seq(ItemType) /\ m \in Seq(ItemType)
      BY ChannelFields DEF Booked
    <3>2. /\ Len(l) \in Nat /\ l # <<>> /\ m # <<>> /\ m[1] = l[1]
          /\ \A i \in 1 .. Len(l) - 1 : m[i].ids = l[i].ids
      <4> HIDE DEF l, m
      <4> QED
        BY <2>3, <3>1
    <3>3. Similar(c, r, d, r, s)
      BY <3>2 DEF Similar, Outstanding, Read, Packed
    <3>4. Left(d, r, s) = Left(c, r, s) /\ Placed(d, s) /\ Reassembled(d, r, s)
      BY <2>1, <3>3, SimilarTransfer
    <3>5. Ordered(m, <<>>, Left(c, r, s), acc, del)
      <4> HIDE DEF l, m
      <4> QED
        BY <2>1, <2>3, <3>2, OrderedMerged
    <3> QED
      BY <2>1, <3>4, <3>5 DEF Transfer
  <2> QED
    BY <1>2, <2>2, <2>3 DEF Packed
<1> QED
  BY <1>1, <1>2 DEF Streams

\* A datagram is sent.
LEMMA ShippedTransfer ==
  ASSUME NEW e, NEW u, Booked(e, u), NEW d, Booked(e, d), NEW p, Shipped(u, d, p),
         d.outRel = u.outRel, NEW r, NEW s \in Streams, NEW acc, NEW del,
         Transfer(u, r, s, acc, del)
  PROVE  Transfer(d, r, s, acc, del)
<1>1. Outstanding(d, r) = Outstanding(u, r)
  BY DEF Outstanding, Read, Shipped
<1>2. Alike(u, r, d, r, s)
  BY <1>1 DEF Alike, Similar, Shipped, Uncut
<1> QED
  BY <1>2, AlikeTransfer

\* What was read is acknowledged.
LEMMA TickedTransfer ==
  ASSUME NEW e, NEW c, Booked(e, c), NEW d, Booked(e, d), NEW A, NEW M, Ticked(c, d, A, M),
         \A k \in M : c.sub[k].state = "waiting",
         NEW r, \A k \in A : Read(c, r, k),
         NEW s \in Streams, NEW acc, NEW del, Transfer(c, r, s, acc, del)
  PROVE  Transfer(d, r, s, acc, del)
<1>1. c \in ChannelType /\ d \in ChannelType /\ A \in SUBSET Subchannel
  BY DEF Booked, Ticked
<1>2. ASSUME NEW k \in Subchannel
      PROVE  IF k \in A THEN d.sub[k].state = "free" /\ d.sub[k].num[s] = 0
             ELSE /\ d.sub[k].state = "free" <=> c.sub[k].state = "free"
                  /\ d.sub[k].num = c.sub[k].num /\ d.sub[k].start = c.sub[k].start
  <2>1. CASE k \in A
    <3>1. d.sub[k] = Free /\ Free.state = "free" /\ Free.num[s] = 0
      BY <2>1 DEF Ticked, Free
    <3> QED
      BY <2>1, <3>1
  <2>2. CASE k \notin A /\ k \in M
    <3>1. d.sub[k] = [c.sub[k] EXCEPT !.state = "tosend"] /\ c.sub[k] \in SubType
      BY <2>2, <1>1, SubFields DEF Ticked
    <3> QED
      BY <2>2, <3>1 DEF SubType
  <2>3. CASE k \notin A /\ k \notin M
    BY <2>3 DEF Ticked
  <2> QED
    BY <2>1, <2>2, <2>3
<1>3. Outstanding(d, r) = Outstanding(c, r) /\ \A k \in Outstanding(c, r) : k \notin A
  <2>1. \A k \in Subchannel : Read(d, r, k) <=> Read(c, r, k)
    BY DEF Ticked, Read
  <2> QED
    BY <1>2, <2>1 DEF Outstanding
<1> DEFINE l == c.waiting[s]
           m == d.waiting[s]
           n == Total(A, Carried(c, s))
<1>4. /\ (m = <<>> <=> l = <<>>) /\ Len(m) = Len(l) /\ \A i \in 1 .. Len(l) : m[i].ids = l[i].ids
      /\ l # <<>> => /\ m[1].ids = l[1].ids /\ m[1].frags = l[1].frags
                     /\ m[1].acked + m[1].pending = l[1].acked + l[1].pending
  <2>1. /\ n \in Nat
        /\ n = 0 => m = l
        /\ n # 0 => /\ l # <<>> /\ n <= l[1].pending
                    /\ m = [l EXCEPT ![1].acked = @ + n, ![1].pending = @ - n]
    BY DEF Ticked
  <2>2. l \in Seq(ItemType)
    BY <1>1, ChannelFields
  <2> HIDE DEF n, l, m
  <2>3. CASE n = 0
    BY <2>1, <2>3
  <2>4. CASE n # 0
    <3>1. l[1] \in ItemType /\ Len(l) >= 1 /\ Len(l) \in Nat
      BY <2>1, <2>2, <2>4
    <3> DEFINE w == [l[1] EXCEPT !.acked = l[1].acked + n, !.pending = l[1].pending - n]
    <3>2. m = [l EXCEPT ![1] = w]
      BY <2>1, <2>2, <2>4, <3>1 DEF ItemType
    <3>3. /\ w.ids = l[1].ids /\ w.frags = l[1].frags
          /\ w.acked + w.pending = l[1].acked + l[1].pending
      BY <3>1, <2>1 DEF ItemType
    <3> HIDE DEF w
    <3>4. m # <<>> /\ Len(m) = Len(l) /\ m[1] = w /\ \A i \in 2 .. Len(l) : m[i] = l[i]
      BY <2>2, <3>1, <3>2
    <3> QED
      BY <2>1, <2>4, <3>1, <3>3, <3>4
  <2> QED
    BY <2>3, <2>4
<1>5. Similar(c, r, d, r, s)
  BY <1>2, <1>3, <1>4 DEF Similar
<1>6. Alike(c, r, d, r, s)
  BY <1>4, <1>5 DEF Alike, Ticked, Uncut
<1> QED
  BY <1>6, AlikeTransfer

\* What is acknowledged as a whole leaves.
LEMMA HeadedTransfer ==
  ASSUME NEW e, NEW a, Booked(e, a), NEW h, Booked(e, h), NEW p, Headed(a, h, p), NEW r,
         NEW s \in Streams, NEW acc, NEW del, Transfer(a, r, s, acc, del)
  PROVE  Transfer(h, r, s, acc, del)
<1>1. CASE h.waiting[s] = a.waiting[s]
  <2>1. Uncut(h, s) = Uncut(a, s)
    BY DEF Uncut, Headed
  <2> QED
    BY <1>1, <2>1, StreamStays DEF Headed
<1>2. CASE /\ a.waiting[s] # <<>> /\ a.waiting[s][1].acked = a.waiting[s][1].frags
           /\ h.waiting[s] = Tail(a.waiting[s])
  BY <1>2, TailTransfer DEF Headed
<1> QED
  BY <1>1, <1>2 DEF Headed

-----------------------------------------------------------------------------
(* A packet's fragments are read.                                           *)

\* List has the buffer of the first item, of which left fragments are not
\* read, and the subchannels in O are on their way.
Buffered(c, s, O, list, left) ==
  LET item == c.waiting[s][1]
  IN /\ list.open = TRUE /\ list.ids = item.ids /\ list.frags = item.frags
     /\ list.acked + left = item.frags /\ DOMAIN list.data = 1 .. item.frags
     /\ \A j \in O : c.sub[j].num[s] # 0 => c.sub[j].start[s] # 0
     /\ \A i \in 1 .. item.acked + item.pending :
          (\E j \in O : Covers(c, j, s, i)) \/ list.data[i] = item.ids

\* The fragments of a subchannel that is on its way are read.
LEMMA FragmentsRead ==
  ASSUME NEW e, NEW c, Booked(e, c), NEW r \in ChannelType, NEW s \in Streams, NEW acc, NEW del,
         Transfer(c, r, s, acc, del), NEW k \in Outstanding(c, r)
  PROVE  LET n == c.sub[k].num[s]
             list == r.receive[s]
             read == ReadSubChannelData(list, Fragments(c, k, s))
         IN /\ Fragments(c, k, s).num = n /\ n \in Nat
            /\ n = 0 => read.ok /\ read.list = list
            /\ ~read.ok => read.list = list
            /\ n # 0 /\ read.ok =>
                 Buffered(c, s, Outstanding(c, r) \ {k}, read.list, Left(c, r, s) - n)
<1> DEFINE n == c.sub[k].num[s]
           start == c.sub[k].start[s]
           list == r.receive[s]
           f == Fragments(c, k, s)
           read == ReadSubChannelData(list, f)
           O == Outstanding(c, r)
           item == c.waiting[s][1]
           left == Left(c, r, s)
<1>1. /\ k \in Subchannel /\ k # 0 /\ c \in ChannelType /\ O \in SUBSET Subchannel
      /\ n \in Nat /\ start \in Int /\ list \in ListType
  <2>1. k \in Subchannel /\ O \in SUBSET Subchannel /\ c \in ChannelType
    BY DEF Outstanding, Booked
  <2>2. k # 0 /\ n \in Nat /\ start \in Int
    BY <2>1, SubchannelsFinite, SubFields
  <2> QED
    BY <2>1, <2>2, ChannelFields
<1>2. CASE n = 0
  <2>1. f = NoFragments
    BY <1>2 DEF Fragments
  <2>2. f.num = 0
    BY <2>1 DEF NoFragments
  <2> HIDE DEF f
  <2>3. read.ok = TRUE /\ read.list = list
    BY <2>2 DEF ReadSubChannelData
  <2> HIDE DEF read
  <2> QED
    BY <1>1, <1>2, <2>2, <2>3 DEF f, read
<1>3. CASE n # 0
  <2>1. /\ c.waiting[s] # <<>> /\ item \in ItemType /\ Head(c.waiting[s]) = item
        /\ item.acked + item.pending <= item.frags
    <3>1. c.waiting[s] # <<>> /\ item.acked + item.pending <= item.frags
      BY <1>1, <1>3 DEF Booked, Ledger
    <3> QED
      BY <3>1, UnsentIsNat
  <2>2. /\ item.frags \in Nat /\ item.acked \in Nat /\ item.pending \in Nat
        /\ item.ids \in Ids
    BY <2>1 DEF ItemType
  <2>3. f.ids = item.ids /\ f.frags = item.frags /\ f.start = start /\ f.num = n
    BY <1>1, <1>3, <2>1 DEF Fragments
  <2>4. /\ Placed(c, s) /\ Reassembled(c, r, s)
        /\ start >= 0 /\ start + n <= item.acked + item.pending
    BY <1>1, <1>3 DEF Transfer, Placed
  <2>5. /\ left \in Nat /\ left >= n /\ left <= item.frags
    <3> DEFINE v == Total(O, Carried(c, s))
    <3>1. /\ v \in Nat /\ n <= v /\ left = item.frags - item.acked - item.pending + v
          /\ left <= item.frags /\ left \in Nat
      BY <2>1, LeftFacts
    <3> HIDE DEF v, left, n, item
    <3> QED
      BY <1>1, <2>1, <2>2, <3>1
  <2>6. /\ list.open => /\ list.ids = item.ids /\ list.frags = item.frags
                        /\ list.acked + left = item.frags /\ DOMAIN list.data = 1 .. item.frags
                        /\ \A j \in O : c.sub[j].num[s] # 0 => c.sub[j].start[s] # 0
        /\ ~list.open => left = item.frags
        /\ \A i \in 1 .. item.acked + item.pending :
             (\E j \in O : Covers(c, j, s, i)) \/ (list.open /\ list.data[i] = item.ids)
    <3>1. left # 0
      BY <1>1, <1>3, <2>5
    <3> HIDE DEF left
    <3> QED
      BY <2>1, <2>4, <3>1 DEF Reassembled, left
  <2>7. \A i \in Int : Covers(c, k, s, i) <=> i \in start + 1 .. start + n
    BY DEF Covers
  <2> DEFINE opened == [open |-> TRUE, ids |-> f.ids, frags |-> f.frags, acked |-> 0,
                        data |-> [i \in 1 .. f.frags |-> <<>>]]
             l == IF start = 0 THEN opened ELSE list
             place == start + 1 .. start + n
             D == [i \in DOMAIN l.data |-> IF i \in place THEN f.ids ELSE l.data[i]]
             L == [l EXCEPT !.acked = @ + n, !.data = D]
  <2>8. /\ ~(l.open /\ start + n <= l.frags) => read.ok = FALSE /\ read.list = l
        /\ l.open /\ start + n <= l.frags => read.ok = TRUE /\ read.list = L
    <3> HIDE DEF f, n, start
    <3> QED
      BY <1>3, <2>3 DEF ReadSubChannelData
  <2>9. CASE start = 0
    <3>1. ~list.open /\ left = item.frags
      BY <1>3, <2>6, <2>9
    <3>2. /\ l.open = TRUE /\ l.frags = item.frags /\ l.ids = item.ids /\ l.acked = 0
          /\ DOMAIN l.data = 1 .. item.frags
      BY <2>3, <2>9
    <3>3. read.ok = TRUE /\ read.list = L
      <4>1. l.open = TRUE /\ l.frags = item.frags
        BY <3>2
      <4> HIDE DEF l, L, item, n, start, read
      <4>2. start + n <= l.frags
        BY <1>1, <2>1, <2>2, <2>4, <4>1
      <4> QED
        BY <2>8, <4>1, <4>2
    <3>4. /\ L.open = TRUE /\ L.ids = item.ids /\ L.frags = item.frags /\ L.acked = n
          /\ DOMAIN L.data = 1 .. item.frags
          /\ \A i \in 1 .. item.frags : i \in place => L.data[i] = item.ids
      <4> HIDE DEF f, n, start, item
      <4>1. l = opened
        BY <2>9
      <4>2. D = [i \in DOMAIN l.data |-> IF i \in place THEN f.ids ELSE l.data[i]]
            /\ DOMAIN l.data = 1 .. f.frags
        <5>1. l.data = [i \in 1 .. f.frags |-> <<>>]
          <6>1. opened.data = [i \in 1 .. f.frags |-> <<>>]
            OBVIOUS
          <6> HIDE DEF l, opened
          <6> QED
            BY <4>1, <6>1
        <5> HIDE DEF l
        <5> QED
          BY <5>1
      <4> HIDE DEF D
      <4>3. /\ L.open = TRUE /\ L.ids = f.ids /\ L.frags = f.frags /\ L.acked = 0 + n
            /\ L.data = D
        BY <4>1
      <4> HIDE DEF L
      <4>4. DOMAIN D = 1 .. f.frags /\ \A i \in 1 .. f.frags : i \in place => D[i] = f.ids
        BY <4>2
      <4> QED
        BY <1>1, <2>3, <4>3, <4>4
    <3>5. ASSUME NEW j \in O \ {k}, c.sub[j].num[s] # 0 PROVE c.sub[j].start[s] # 0
      <4>1. c.sub[j].num[s] \in Nat /\ j \in Subchannel \ {k}
        BY <1>1, SubFields
      <4>2. \/ start + n <= c.sub[j].start[s]
            \/ c.sub[j].start[s] + c.sub[j].num[s] <= start
        BY <1>1, <1>3, <2>4, <3>5, <4>1 DEF Placed
      <4> DEFINE x == c.sub[j].start[s]
                 y == c.sub[j].num[s]
      <4> HIDE DEF n, start, x, y
      <4>3. y # 0
        BY <3>5 DEF y
      <4> QED
        BY <1>1, <1>3, <2>9, <3>5, <4>1, <4>2, <4>3 DEF x, y
    <3>6. ASSUME NEW i \in 1 .. item.acked + item.pending
          PROVE  (\E j \in O \ {k} : Covers(c, j, s, i)) \/ L.data[i] = item.ids
      <4>1. PICK j \in O : Covers(c, j, s, i)
        BY <2>6, <3>1, <3>6
      <4>2. CASE j = k
        <5>1. i \in place /\ i \in 1 .. item.frags
          BY <2>1, <2>2, <2>7, <4>1, <4>2
        <5> QED
          BY <3>4, <5>1
      <4> QED
        BY <4>1, <4>2
    <3> HIDE DEF L, item, left, n, O
    <3>7. L.acked + (left - n) = item.frags
      BY <1>1, <2>2, <2>5, <3>1, <3>4
    <3>8. Buffered(c, s, O \ {k}, L, left - n)
      BY <3>4, <3>5, <3>6, <3>7 DEF Buffered, item
    <3> HIDE DEF f, read
    <3> QED
      BY <1>1, <1>3, <2>3, <3>3, <3>8 DEF f, read, n, left, O
  <2>10. CASE start # 0 /\ ~list.open
    <3>1. read.ok = FALSE /\ read.list = list
      BY <2>8, <2>10
    <3> HIDE DEF f, read, n
    <3> QED
      BY <1>1, <1>3, <2>3, <3>1 DEF f, read, n
  <2>11. CASE start # 0 /\ list.open
    <3>1. l = list /\ list.frags = item.frags /\ list.ids = item.ids
      BY <2>6, <2>11
    <3>2. read.ok = TRUE /\ read.list = L
      <4>1. l.open /\ l.frags = item.frags
        BY <2>11, <3>1
      <4> HIDE DEF l, L, item, n, start, read
      <4>2. start + n <= l.frags
        BY <1>1, <2>1, <2>2, <2>4, <4>1
      <4> QED
        BY <2>8, <4>1, <4>2
    <3>3. /\ L.open = TRUE /\ L.ids = item.ids /\ L.frags = item.frags
          /\ L.acked = list.acked + n /\ list.acked \in Nat
          /\ DOMAIN L.data = 1 .. item.frags
          /\ \A i \in 1 .. item.frags :
               L.data[i] = IF i \in place THEN item.ids ELSE list.data[i]
      <4> HIDE DEF f, n, start, item, list, l
      <4>1. /\ L.open = list.open /\ L.ids = list.ids /\ L.frags = list.frags
            /\ L.acked = list.acked + n /\ L.data = D
        BY <1>1, <3>1 DEF ListType
      <4>2. list.acked \in Nat /\ DOMAIN list.data = 1 .. item.frags /\ list.open = TRUE
        BY <1>1, <2>6, <2>11 DEF ListType
      <4>3. D = [i \in DOMAIN list.data |-> IF i \in place THEN f.ids ELSE list.data[i]]
        BY <3>1
      <4> HIDE DEF L, D
      <4> QED
        BY <1>1, <2>3, <3>1, <4>1, <4>2, <4>3
    <3>4. ASSUME NEW i \in 1 .. item.acked + item.pending
          PROVE  (\E j \in O \ {k} : Covers(c, j, s, i)) \/ L.data[i] = item.ids
      <4>1. i \in 1 .. item.frags
        BY <2>1, <2>2
      <4>2. CASE i \in place
        BY <3>3, <4>1, <4>2
      <4>3. CASE i \notin place
        <5>1. ~Covers(c, k, s, i)
          BY <2>7, <4>1, <4>3
        <5>2. L.data[i] = list.data[i]
          BY <3>3, <4>1, <4>3
        <5> HIDE DEF L
        <5> QED
          BY <2>6, <3>4, <5>1, <5>2
      <4> QED
        BY <4>2, <4>3
    <3>5. \A j \in O \ {k} : c.sub[j].num[s] # 0 => c.sub[j].start[s] # 0
      BY <2>6, <2>11
    <3>6. list.acked + left = item.frags
      BY <2>6, <2>11
    <3> HIDE DEF L, item, left, n, O, list
    <3>7. L.acked + (left - n) = item.frags
      BY <1>1, <2>2, <2>5, <3>3, <3>6
    <3>8. Buffered(c, s, O \ {k}, L, left - n)
      BY <3>3, <3>4, <3>5, <3>7 DEF Buffered, item
    <3> HIDE DEF f, read
    <3> QED
      BY <1>1, <1>3, <2>3, <3>2, <3>8 DEF f, read, n, left, O, list
  <2> QED
    BY <2>9, <2>10, <2>11
<1> QED
  BY <1>2, <1>3

\* A receive list is never complete between two datagrams.
LEMMA NeverComplete ==
  ASSUME NEW e, NEW c, Booked(e, c), NEW r \in ChannelType, NEW s \in Streams, NEW acc, NEW del,
         Transfer(c, r, s, acc, del)
  PROVE  ~Complete(r.receive[s]) /\ ~TooMany(r.receive[s])
<1> DEFINE list == r.receive[s]
           left == Left(c, r, s)
           item == c.waiting[s][1]
<1> SUFFICES ASSUME list.open PROVE list.acked < list.frags
  <2>1. list.acked \in Nat /\ list.frags \in Nat
    BY ChannelFields DEF ListType
  <2> HIDE DEF list
  <2>2. ~Complete(list) /\ ~TooMany(list)
    BY <2>1 DEF Complete, TooMany
  <2> QED
    BY <2>2 DEF list
<1>1. list.acked \in Nat /\ list.frags \in Nat
  BY ChannelFields DEF ListType
<1>2. left \in Nat /\ left # 0 /\ list.frags = item.frags /\ list.acked + left = item.frags
  BY LeftFacts DEF Transfer, Reassembled
<1> HIDE DEF list, left, item
<1> QED
  BY <1>1, <1>2

\* A subchannel was read, with nothing of this stream ...
LEMMA SkipTransfer ==
  ASSUME NEW e, NEW c, Booked(e, c), NEW r \in ChannelType, NEW s \in Streams, NEW acc, NEW del,
         Transfer(c, r, s, acc, del), NEW k \in Outstanding(c, r), c.sub[k].num[s] = 0,
         NEW d, Outstanding(c, d) = Outstanding(c, r) \ {k}, d.receive[s] = r.receive[s]
  PROVE  Transfer(c, d, s, acc, del)
<1> DEFINE O == Outstanding(c, r)
           F == Carried(c, s)
<1>1. c \in ChannelType /\ O \in SUBSET Subchannel /\ k \in O /\ IsFiniteSet(O)
      /\ c.sub[k].start[s] \in Int
  <2>1. c \in ChannelType /\ O \in SUBSET Subchannel /\ k \in Subchannel
    BY DEF Booked, Outstanding
  <2> QED
    BY <2>1, SubchannelsFinite, FS_Subset, SubFields
<1>2. Left(c, d, s) = Left(c, r, s)
  <2>1. (\A j \in O : F[j] \in Nat) /\ F[k] = 0
    BY <1>1, CarriedIsNat
  <2> HIDE DEF F
  <2>2. Total(O, F) = F[k] + Total(O \ {k}, F) /\ Total(O \ {k}, F) \in Nat
    BY <1>1, <2>1, TotalWithout
  <2>3. Total(O \ {k}, F) = Total(O, F)
    BY <2>1, <2>2
  <2> QED
    BY <2>3 DEF Left, F
<1>3. \A i \in Int : ~Covers(c, k, s, i)
  BY <1>1 DEF Covers
<1>4. Reassembled(c, d, s)
  <2>1. Reassembled(c, r, s)
    BY DEF Transfer
  <2>2. \A x : \A i \in 1 .. x : i \in Int
    OBVIOUS
  <2> QED
    BY <1>2, <1>3, <2>1, <2>2 DEF Reassembled
<1> QED
  BY <1>2, <1>4 DEF Transfer

\* ... or with fragments of it: the first item may be delivered.
LEMMA DeliverTransfer ==
  ASSUME NEW e, NEW c, Booked(e, c), NEW r \in ChannelType, NEW s \in Streams, NEW acc,
         NEW del \in Seq(Nat), Transfer(c, r, s, acc, del),
         NEW k \in Outstanding(c, r), c.sub[k].num[s] # 0, NEW list,
         Buffered(c, s, Outstanding(c, r) \ {k}, list, Left(c, r, s) - c.sub[k].num[s]),
         list.acked \in Nat,
         NEW d, Outstanding(c, d) = Outstanding(c, r) \ {k}, NEW out,
         IF Complete(list) THEN d.receive[s] = NoBuffer /\ out = Content(list)
         ELSE d.receive[s] = list /\ out = <<>>
  PROVE  Transfer(c, d, s, acc, del \o out) /\ ~TooMany(list)
<1> DEFINE O == Outstanding(c, r)
           F == Carried(c, s)
           n == c.sub[k].num[s]
           l == c.waiting[s]
           item == l[1]
           left == Left(c, r, s)
           rest == left - n
           v == Total(O \ {k}, F)
           u == Unsent(c, s)
<1>1. c \in ChannelType /\ O \in SUBSET Subchannel /\ k \in O /\ IsFiniteSet(O)
      /\ n \in Nat /\ n # 0 /\ l # <<>> /\ IsFiniteSet(O \ {k}) /\ k \in Subchannel
  <2>1. c \in ChannelType /\ O \in SUBSET Subchannel /\ k \in Subchannel
    BY DEF Booked, Outstanding
  <2>2. l # <<>>
    BY <2>1 DEF Booked, Ledger
  <2> QED
    BY <2>1, <2>2, SubchannelsFinite, FS_Subset, SubFields
<1>2. /\ l \in Seq(ItemType) /\ Len(l) \in Nat /\ Len(l) >= 1 /\ item \in ItemType
      /\ item.frags \in Nat /\ item.acked \in Nat /\ item.pending \in Nat
  <2>1. l \in Seq(ItemType)
    BY <1>1, ChannelFields
  <2>2. Len(l) \in Nat /\ Len(l) >= 1 /\ item \in ItemType
    <3> HIDE DEF l
    <3> QED
      BY <1>1, <2>1
  <2> QED
    BY <2>1, <2>2 DEF ItemType
<1>3. \A j \in O : F[j] \in Nat /\ F[j] = c.sub[j].num[s]
  BY <1>1, CarriedIsNat
<1>4. left = u + n + v /\ v \in Nat /\ Left(c, d, s) = u + v
  <2>1. F[k] = n
    BY <1>1, <1>3
  <2> HIDE DEF F
  <2>2. Total(O, F) = F[k] + Total(O \ {k}, F) /\ Total(O \ {k}, F) \in Nat
    BY <1>1, <1>3, TotalWithout
  <2>3. left = u + Total(O, F) /\ Left(c, d, s) = u + Total(O \ {k}, F)
    BY DEF Left, F
  <2>4. u \in Nat
    BY UnsentIsNat
  <2> HIDE DEF u, n, left
  <2> QED
    BY <1>1, <2>1, <2>2, <2>3, <2>4
<1>5. u \in Nat /\ u = item.frags - item.acked - item.pending /\ left <= item.frags
  BY <1>1, UnsentIsNat, LeftFacts
<1>6. /\ list.open = TRUE /\ list.ids = item.ids /\ list.frags = item.frags
      /\ list.acked + rest = item.frags /\ DOMAIN list.data = 1 .. item.frags
      /\ \A j \in O \ {k} : c.sub[j].num[s] # 0 => c.sub[j].start[s] # 0
      /\ \A i \in 1 .. item.acked + item.pending :
           (\E j \in O \ {k} : Covers(c, j, s, i)) \/ list.data[i] = item.ids
  BY DEF Buffered
<1>7. Ordered(l, Uncut(c, s), left, acc, del) /\ Placed(c, s)
  BY DEF Transfer
<1>8. rest \in Nat /\ Left(c, d, s) = rest /\ left # 0 /\ rest < item.frags
  <2> DEFINE f == item.frags
             w == Left(c, d, s)
  <2>1. /\ n \in Nat /\ n # 0 /\ u \in Nat /\ v \in Nat /\ f \in Nat
        /\ left = u + n + v /\ w = u + v /\ left <= f
    BY <1>1, <1>2, <1>4, <1>5
  <2> HIDE DEF n, u, v, left, f, w
  <2>2. rest \in Nat /\ w = rest /\ left # 0 /\ rest < f
    BY <2>1
  <2> QED
    BY <2>2 DEF f, w
<1>9. (rest = 0 <=> Complete(list)) /\ ~TooMany(list)
  <2> HIDE DEF rest, item
  <2> QED
    BY <1>2, <1>6, <1>8 DEF Complete, TooMany
<1>10. CASE rest = 0
  <2>1. Content(list) = item.ids
    <3>1. u = 0 /\ v = 0
      <4> HIDE DEF u, v, n, left
      <4> QED
        BY <1>1, <1>4, <1>5, <1>8, <1>10
    <3>2. \A j \in O \ {k} : F[j] = 0
      <4> HIDE DEF F
      <4>1. \A j \in O \ {k} : F[j] \in Nat
        BY <1>3
      <4> QED
        BY <1>1, <3>1, <4>1, TotalOfZeros
    <3>3. ASSUME NEW j \in O \ {k}, NEW i \in Int PROVE ~Covers(c, j, s, i)
      <4>1. c.sub[j].num[s] = 0 /\ c.sub[j].start[s] \in Int
        BY <1>1, <1>3, <3>2, SubFields
      <4> QED
        BY <4>1 DEF Covers
    <3>4. item.acked + item.pending = item.frags
      <4> HIDE DEF u, item
      <4> QED
        BY <1>2, <1>5, <3>1
    <3>5. \A i \in 1 .. item.frags : list.data[i] = list.ids
      BY <1>6, <3>3, <3>4
    <3> QED
      BY <1>6, <3>5 DEF Content
  <2>2. ~d.receive[s].open /\ out = item.ids
    BY <1>9, <1>10, <2>1 DEF NoBuffer
  <2>3. Left(c, d, s) = 0
    BY <1>8, <1>10
  <2>4. Reassembled(c, d, s)
    BY <2>2, <2>3 DEF Reassembled
  <2>5. Ordered(l, Uncut(c, s), 0, acc, del \o l[1].ids)
    <3> HIDE DEF l, left
    <3> QED
      BY <1>1, <1>2, <1>7, <1>8, OrderedDelivered
  <2> QED
    BY <1>7, <1>9, <2>2, <2>3, <2>4, <2>5 DEF Transfer
<1>11. CASE rest # 0
  <2>1. d.receive[s] = list /\ out = <<>>
    BY <1>9, <1>11
  <2>2. del \o out = del
    BY <2>1
  <2>3. Reassembled(c, d, s)
    <3> HIDE DEF l, O, rest
    <3> QED
      BY <1>1, <1>6, <1>8, <1>11, <2>1 DEF Reassembled, l, O
  <2>4. Ordered(l, Uncut(c, s), rest, acc, del)
    <3> HIDE DEF l, left, rest
    <3> QED
      BY <1>2, <1>7, <1>8, <1>11, OrderedAlike
  <2> QED
    BY <1>7, <1>8, <1>9, <2>2, <2>3, <2>4 DEF Transfer
<1> QED
  BY <1>10, <1>11

\* What Receive does to the lists of a receiver that has r, when the
\* packet's fragments are those of subchannel k.
ReceivedOf(r, p, s) == ReadSubChannelData(r.receive[s], p.frag[s])

LEMMA ReceiveChanges ==
  ASSUME NEW r \in ChannelType, NEW p \in PacketType,
         \A s \in Streams : p.frag[s].num = 0 =>
           ReceivedOf(r, p, s).ok /\ ReceivedOf(r, p, s).list = r.receive[s],
         \A s \in Streams : ~ReceivedOf(r, p, s).ok => ReceivedOf(r, p, s).list = r.receive[s],
         \A s \in Streams : ~TooMany(ReceivedOf(r, p, s).list),
         \E s \in Streams : p.frag[s].num = 0
  PROVE  LET d == Receive(r, p).chan
             out == Receive(r, p).out
             good == \A s \in Streams : ReceivedOf(r, p, s).ok
         IN \A s \in Streams :
              LET list == ReceivedOf(r, p, s).list
              IN /\ p.sub # 0 /\ good => d.inRel = Flip(r.inRel, p.sub)
                 /\ ~(p.sub # 0 /\ good) =>
                      d.inRel = r.inRel /\ d.receive[s] = list /\ out[s] = <<>>
                 /\ ~good => list = r.receive[s]
                 /\ p.sub # 0 /\ good =>
                      IF Complete(list) THEN d.receive[s] = NoBuffer /\ out[s] = Content(list)
                      ELSE d.receive[s] = list /\ out[s] = <<>>
<1> DEFINE n == ReadSubChannelData(r.receive["normal"], p.frag["normal"])
           g == ReadSubChannelData(r.receive["file"], p.frag["file"])
           f == IF n.ok THEN g ELSE [ok |-> FALSE, list |-> r.receive["file"]]
           lists == [s \in Streams |-> IF s = "normal" THEN n.list ELSE f.list]
           done == IF p.sub # 0 /\ f.ok THEN Finished(lists) ELSE {}
           R == [s \in Streams |-> IF s \in done THEN NoBuffer ELSE lists[s]]
           B == IF p.sub # 0 /\ f.ok THEN Flip(r.inRel, p.sub) ELSE r.inRel
           W == [s \in Streams |-> IF s \in done THEN Content(lists[s]) ELSE <<>>]
           d == Receive(r, p).chan
           out == Receive(r, p).out
           good == \A s \in Streams : ReceivedOf(r, p, s).ok
<1>1. d = [r EXCEPT !.receive = R, !.inRel = B] /\ out = W
  BY DEF Receive
<1>2. "normal" \in Streams /\ "file" \in Streams /\ \A s \in Streams : s = "normal" \/ s = "file"
  BY DEF Streams
<1>3. ReceivedOf(r, p, "normal") = n /\ ReceivedOf(r, p, "file") = g
  BY DEF ReceivedOf
<1> HIDE DEF n, g
<1>4. n.ok \/ g.ok
  BY <1>2, <1>3
<1>5. /\ ~n.ok => n.list = r.receive["normal"] /\ g.ok /\ g.list = r.receive["file"]
      /\ ~g.ok => g.list = r.receive["file"] /\ n.ok /\ n.list = r.receive["normal"]
      /\ ~TooMany(n.list) /\ ~TooMany(g.list)
  BY <1>2, <1>3
<1>6. (f.ok <=> good) /\ f.list = g.list
  <2>1. CASE n.ok
    BY <1>2, <1>3, <2>1
  <2>2. CASE ~n.ok
    BY <1>2, <1>3, <1>5, <2>2
  <2> QED
    BY <2>1, <2>2
<1> HIDE DEF f, good
<1>7. \A s \in Streams : lists[s] = ReceivedOf(r, p, s).list
  BY <1>2, <1>3, <1>6
<1> HIDE DEF lists
<1>8. p.sub # 0 /\ good => \A s \in Streams : s \in done <=> Complete(ReceivedOf(r, p, s).list)
  BY <1>2, <1>3, <1>5, <1>6, <1>7 DEF Finished
<1>9. ~(p.sub # 0 /\ good) => done = {}
  BY <1>6
<1>10. (p.sub # 0 /\ good => B = Flip(r.inRel, p.sub)) /\ (~(p.sub # 0 /\ good) => B = r.inRel)
  BY <1>6
<1> HIDE DEF done
<1>11. \A s \in Streams :
         /\ R[s] = IF s \in done THEN NoBuffer ELSE ReceivedOf(r, p, s).list
         /\ W[s] = IF s \in done THEN Content(ReceivedOf(r, p, s).list) ELSE <<>>
  BY <1>7
<1> HIDE DEF R, W, B, d, out
<1>12. d.receive = R /\ d.inRel = B /\ out = W
  BY <1>1 DEF ChannelType
<1>13. ~good => \A s \in Streams : ReceivedOf(r, p, s).list = r.receive[s]
  BY <1>2, <1>3, <1>5 DEF good
<1> QED
  BY <1>8, <1>9, <1>10, <1>11, <1>12, <1>13 DEF d, out, good

\* The fragments of a datagram that is accepted are read.
LEMMA ReceiveTransfer ==
  ASSUME NEW e, NEW c, Booked(e, c), NEW r \in ChannelType, NEW p \in PacketType,
         p.sub # 0 => p.sub \in Outstanding(c, r),
         \A s \in Streams : p.frag[s] = Fragments(c, p.sub, s),
         \E s \in Streams : p.frag[s].num = 0,
         NEW acc, NEW del,
         \A s \in Streams : del[s] \in Seq(Nat) /\ Transfer(c, r, s, acc[s], del[s]),
         NEW s \in Streams
  PROVE  Transfer(c, Receive(r, p).chan, s, acc[s], del[s] \o Receive(r, p).out[s])
<1> DEFINE d == Receive(r, p).chan
           out == Receive(r, p).out
           k == p.sub
           good == \A t \in Streams : ReceivedOf(r, p, t).ok
<1>1. ASSUME NEW t \in Streams
      PROVE  /\ p.frag[t].num = 0 =>
                  ReceivedOf(r, p, t).ok /\ ReceivedOf(r, p, t).list = r.receive[t]
             /\ ~ReceivedOf(r, p, t).ok => ReceivedOf(r, p, t).list = r.receive[t]
             /\ ~TooMany(ReceivedOf(r, p, t).list)
             /\ k # 0 => p.frag[t].num = c.sub[k].num[t]
             /\ k # 0 /\ p.frag[t].num # 0 /\ ReceivedOf(r, p, t).ok =>
                  Buffered(c, t, Outstanding(c, r) \ {k}, ReceivedOf(r, p, t).list,
                           Left(c, r, t) - c.sub[k].num[t])
  <2>1. ~TooMany(r.receive[t])
    BY NeverComplete
  <2>2. CASE k = 0
    <3>1. p.frag[t] = NoFragments
      BY <2>2 DEF Fragments
    <3>2. p.frag[t].num = 0
      BY <3>1 DEF NoFragments
    <3>3. ReceivedOf(r, p, t).ok = TRUE /\ ReceivedOf(r, p, t).list = r.receive[t]
      BY <3>2 DEF ReceivedOf, ReadSubChannelData
    <3> QED
      BY <2>1, <2>2, <3>2, <3>3
  <2>3. CASE k # 0
    <3> DEFINE n == c.sub[k].num[t]
               x == ReceivedOf(r, p, t)
    <3>1. /\ p.frag[t].num = n /\ n \in Nat
          /\ n = 0 => x.ok /\ x.list = r.receive[t]
          /\ ~x.ok => x.list = r.receive[t]
          /\ n # 0 /\ x.ok =>
               Buffered(c, t, Outstanding(c, r) \ {k}, x.list, Left(c, r, t) - n)
      <4>1. p.frag[t] = Fragments(c, k, t) /\ k \in Outstanding(c, r)
        BY <2>3
      <4>2. Transfer(c, r, t, acc[t], del[t])
        OBVIOUS
      <4> HIDE DEF k
      <4> DEFINE y == ReadSubChannelData(r.receive[t], Fragments(c, k, t))
      <4>3. /\ Fragments(c, k, t).num = n /\ n \in Nat
            /\ n = 0 => y.ok /\ y.list = r.receive[t]
            /\ ~y.ok => y.list = r.receive[t]
            /\ n # 0 /\ y.ok =>
                 Buffered(c, t, Outstanding(c, r) \ {k}, y.list, Left(c, r, t) - n)
        BY <4>1, <4>2, FragmentsRead
      <4>4. x = y
        BY <4>1 DEF ReceivedOf
      <4> HIDE DEF x, y, n
      <4> QED
        BY <4>1, <4>3, <4>4
    <3>2. ~TooMany(x.list)
      <4> HIDE DEF x
      <4>1. CASE n = 0 \/ ~x.ok
        BY <2>1, <3>1, <4>1
      <4>2. CASE n # 0 /\ x.ok
        <5> DEFINE left == Left(c, r, t)
                   fr == c.waiting[t][1].frags
        <5>1. /\ x.list.frags = fr /\ x.list.acked + (left - n) = fr
          BY <3>1, <4>2 DEF Buffered
        <5>2. left \in Nat /\ n <= left
          <6>1. k \in Outstanding(c, r)
            BY <2>3
          <6> DEFINE v == Total(Outstanding(c, r), Carried(c, t))
          <6>2. /\ v \in Nat /\ n <= v /\ left = Unsent(c, t) + v
            BY <6>1, LeftFacts DEF Left
          <6>3. Unsent(c, t) \in Nat
            BY UnsentIsNat
          <6> HIDE DEF v, left, n
          <6> QED
            BY <3>1, <6>2, <6>3
        <5>3. x.list.acked \in Nat /\ x.list.frags \in Nat
          <6>1. r.receive[t] \in ListType /\ p.frag[t] \in FragmentsType
            BY ChannelFields DEF PacketType
          <6>2. x.list \in ListType
            BY <6>1, ReadingIsTyped DEF x, ReceivedOf
          <6> QED
            BY <6>2 DEF ListType
        <5> HIDE DEF left, fr, n
        <5>4. ~(x.list.acked > x.list.frags)
          BY <3>1, <5>1, <5>2, <5>3
        <5> QED
          BY <5>4 DEF TooMany
      <4> QED
        BY <4>1, <4>2
    <3> HIDE DEF x
    <3> QED
      BY <2>3, <3>1, <3>2 DEF x
  <2> QED
    BY <2>2, <2>3
<1>2. LET list == ReceivedOf(r, p, s).list
      IN /\ k # 0 /\ good => d.inRel = Flip(r.inRel, k)
         /\ ~(k # 0 /\ good) => d.inRel = r.inRel /\ d.receive[s] = list /\ out[s] = <<>>
         /\ ~good => list = r.receive[s]
         /\ k # 0 /\ good =>
              IF Complete(list) THEN d.receive[s] = NoBuffer /\ out[s] = Content(list)
              ELSE d.receive[s] = list /\ out[s] = <<>>
  BY <1>1, ReceiveChanges
<1>3. Transfer(c, r, s, acc[s], del[s]) /\ del[s] \in Seq(Nat)
  OBVIOUS
<1> HIDE DEF d, out, good
<1>4. CASE ~(k # 0 /\ good)
  <2>1. ReceivedOf(r, p, s).list = r.receive[s]
    <3>1. CASE k = 0
      <4>1. p.frag[s] = NoFragments
        BY <3>1 DEF Fragments
      <4>2. p.frag[s].num = 0
        BY <4>1 DEF NoFragments
      <4> QED
        BY <1>1, <4>2
    <3> QED
      BY <1>2, <1>4, <3>1
  <2>2. d.inRel = r.inRel /\ d.receive[s] = r.receive[s] /\ out[s] = <<>>
    BY <1>2, <1>4, <2>1
  <2>3. Transfer(c, d, s, acc[s], del[s])
    BY <1>3, <2>2, StreamStays
  <2>4. del[s] \o out[s] = del[s]
    BY <1>3, <2>2
  <2> QED
    BY <2>3, <2>4 DEF d, out
<1>5. CASE k # 0 /\ good
  <2> DEFINE list == ReceivedOf(r, p, s).list
             O == Outstanding(c, r)
  <2>1. k \in O /\ k \in Subchannel
    BY <1>5 DEF Outstanding
  <2> HIDE DEF k
  <2>2. Outstanding(c, d) = O \ {k}
    <3>1. d.inRel = Flip(r.inRel, k)
      BY <1>2, <1>5
    <3>2. \A j \in Subchannel : j \in d.inRel <=> IF j = k THEN j \notin r.inRel ELSE j \in r.inRel
      BY <3>1, <2>1 DEF Flip, SymDiff
    <3>3. \A j \in Subchannel : Read(c, d, j) <=> IF j = k THEN ~Read(c, r, j) ELSE Read(c, r, j)
      BY <3>2 DEF Read
    <3>4. ~Read(c, r, k)
      BY <2>1 DEF Outstanding
    <3> QED
      BY <3>3, <3>4 DEF Outstanding
  <2>3. IF Complete(list) THEN d.receive[s] = NoBuffer /\ out[s] = Content(list)
        ELSE d.receive[s] = list /\ out[s] = <<>>
    BY <1>2, <1>5
  <2>4. CASE c.sub[k].num[s] = 0
    <3>1. list = r.receive[s]
      BY <1>1, <1>5, <2>4
    <3>2. ~Complete(list)
      BY <1>3, <3>1, NeverComplete
    <3>3. d.receive[s] = r.receive[s] /\ out[s] = <<>>
      BY <2>3, <3>1, <3>2
    <3>4. Transfer(c, d, s, acc[s], del[s])
      BY <1>3, <2>1, <2>2, <2>4, <3>3, SkipTransfer
    <3>5. del[s] \o out[s] = del[s]
      BY <1>3, <3>3
    <3> QED
      BY <3>4, <3>5 DEF d, out
  <2>5. CASE c.sub[k].num[s] # 0
    <3>1. Buffered(c, s, O \ {k}, list, Left(c, r, s) - c.sub[k].num[s])
      BY <1>1, <1>5, <2>5 DEF good
    <3>2. list.acked \in Nat
      <4>1. r.receive[s] \in ListType /\ p.frag[s] \in FragmentsType
        BY ChannelFields DEF PacketType
      <4>2. list \in ListType
        BY <4>1, ReadingIsTyped DEF ReceivedOf
      <4> QED
        BY <4>2 DEF ListType
    <3> HIDE DEF list
    <3>3. Transfer(c, d, s, acc[s], del[s] \o out[s])
      BY <1>3, <2>1, <2>2, <2>3, <2>5, <3>1, <3>2, DeliverTransfer
    <3> QED
      BY <3>3 DEF d, out
  <2> QED
    BY <2>4, <2>5
<1> QED
  BY <1>4, <1>5

-----------------------------------------------------------------------------
(* The fragments of the subchannels that are on their way stay the same.    *)
FirstKept(c, d, k, s) ==
  /\ d.sub[k].num[s] = c.sub[k].num[s] /\ d.sub[k].start[s] = c.sub[k].start[s]
  /\ c.sub[k].num[s] # 0 =>
       /\ d.waiting[s] # <<>>
       /\ d.waiting[s][1].ids = c.waiting[s][1].ids
       /\ d.waiting[s][1].frags = c.waiting[s][1].frags

LEMMA FragmentsStay ==
  ASSUME NEW e, NEW c, Booked(e, c), NEW d, Booked(e, d), NEW k \in Subchannel, NEW s \in Streams,
         FirstKept(c, d, k, s)
  PROVE  Fragments(d, k, s) = Fragments(c, k, s)
<1>1. c \in ChannelType /\ d \in ChannelType /\ k # 0
  BY SubchannelsFinite DEF Booked
<1>2. CASE c.sub[k].num[s] = 0
  BY <1>2 DEF Fragments, FirstKept
<1>3. CASE c.sub[k].num[s] # 0
  <2>1. c.waiting[s] # <<>> /\ d.waiting[s] # <<>>
    BY <1>1, <1>3 DEF Booked, Ledger, FirstKept
  <2>2. Head(c.waiting[s]) = c.waiting[s][1] /\ Head(d.waiting[s]) = d.waiting[s][1]
    BY <2>1, UnsentIsNat
  <2> QED
    BY <1>1, <1>3, <2>2 DEF Fragments, FirstKept
<1> QED
  BY <1>2, <1>3

LEMMA AppendedFragments ==
  ASSUME NEW e, NEW c, Booked(e, c), NEW d, Booked(e, d), NEW k \in Subchannel, NEW s \in Streams,
         d.sub = c.sub,
         \/ d.waiting[s] = c.waiting[s]
         \/ \E x \in ItemType : d.waiting[s] = Append(c.waiting[s], x)
         \/ Len(c.waiting[s]) > 1 /\ Len(d.waiting[s]) = Len(c.waiting[s])
              /\ \A i \in 1 .. Len(c.waiting[s]) - 1 : d.waiting[s][i] = c.waiting[s][i]
  PROVE  Fragments(d, k, s) = Fragments(c, k, s)
<1> DEFINE l == c.waiting[s]
           m == d.waiting[s]
<1>1. l \in Seq(ItemType) /\ m \in Seq(ItemType)
  BY ChannelFields DEF Booked
<1>2. c.sub[k].num[s] # 0 => l # <<>>
  BY DEF Booked, Ledger
<1>3. l # <<>> => m # <<>> /\ m[1] = l[1]
  <2>1. CASE m = l
    BY <2>1
  <2>2. ASSUME NEW x \in ItemType, m = Append(l, x) PROVE l # <<>> => m # <<>> /\ m[1] = l[1]
    <3> HIDE DEF l, m
    <3> QED
      BY <1>1, <2>2
  <2>3. CASE Len(l) > 1 /\ Len(m) = Len(l) /\ \A i \in 1 .. Len(l) - 1 : m[i] = l[i]
    <3> HIDE DEF l, m
    <3> QED
      BY <1>1, <2>3
  <2> QED
    BY <2>1, <2>2, <2>3
<1>4. FirstKept(c, d, k, s)
  BY <1>2, <1>3 DEF FirstKept
<1> QED
  BY <1>4, FragmentsStay

LEMMA PackedFragments ==
  ASSUME NEW e, NEW c, Booked(e, c), NEW d, Booked(e, d), Packed(c, d),
         NEW k \in Subchannel, NEW s \in Streams
  PROVE  Fragments(d, k, s) = Fragments(c, k, s)
<1>1. CASE s = "file"
  <2>1. d.waiting[s] = c.waiting[s] /\ d.sub = c.sub
    BY <1>1 DEF Packed
  <2> QED
    BY <2>1, AppendedFragments
<1>2. CASE s = "normal"
  <2>1. \/ \E x \in ItemType : d.waiting[s] = Append(c.waiting[s], x)
        \/ Len(c.waiting[s]) > 1 /\ Len(d.waiting[s]) = Len(c.waiting[s])
              /\ \A i \in 1 .. Len(c.waiting[s]) - 1 : d.waiting[s][i] = c.waiting[s][i]
    BY <1>2 DEF Packed
  <2>2. d.sub = c.sub
    BY DEF Packed
  <2> QED
    BY <2>1, <2>2, AppendedFragments
<1> QED
  BY <1>1, <1>2 DEF Streams

LEMMA LoadedFragments ==
  ASSUME NEW e, NEW c, Booked(e, c), NEW u, Booked(e, u), NEW k, NEW num, Loaded(c, u, k, num),
         NEW j \in Subchannel, c.sub[j].state # "free", NEW s \in Streams
  PROVE  Fragments(u, j, s) = Fragments(c, j, s)
<1> DEFINE l == c.waiting[s]
           m == u.waiting[s]
           n == num[s]
<1>1. l \in Seq(ItemType) /\ u.sub[j] = c.sub[j] /\ n \in Nat
  <2>1. j # k
    BY DEF Loaded
  <2> QED
    BY <2>1, ChannelFields DEF Booked, Loaded
<1>2. c.sub[j].num[s] # 0 => l # <<>>
  BY DEF Booked, Ledger
<1>3. l # <<>> => m # <<>> /\ m[1].ids = l[1].ids /\ m[1].frags = l[1].frags
  <2>1. m = IF n = 0 THEN l ELSE [l EXCEPT ![1].pending = @ + n]
    BY DEF Loaded
  <2> HIDE DEF l, m, n
  <2>2. SUFFICES ASSUME l # <<>>, n # 0
                 PROVE  m # <<>> /\ m[1].ids = l[1].ids /\ m[1].frags = l[1].frags
    BY <2>1
  <2>3. l[1] \in ItemType /\ Len(l) >= 1
    BY <1>1, <2>2
  <2> DEFINE w == [l[1] EXCEPT !.pending = l[1].pending + n]
  <2>4. m = [l EXCEPT ![1] = w] /\ w.ids = l[1].ids /\ w.frags = l[1].frags
    BY <1>1, <2>1, <2>2, <2>3 DEF ItemType
  <2> HIDE DEF w
  <2>5. m # <<>> /\ m[1] = w
    BY <1>1, <2>3, <2>4
  <2> QED
    BY <2>4, <2>5
<1>4. FirstKept(c, u, j, s)
  BY <1>1, <1>2, <1>3 DEF FirstKept
<1> QED
  BY <1>4, FragmentsStay

LEMMA ShippedFragments ==
  ASSUME NEW u, NEW d, NEW p, Shipped(u, d, p), NEW k \in {0} \union Subchannel, NEW s \in Streams
  PROVE  Fragments(d, k, s) = Fragments(u, k, s)
<1>1. k # 0 => k \in Subchannel
  OBVIOUS
<1> QED
  BY <1>1 DEF Shipped, Fragments

LEMMA TickedFragments ==
  ASSUME NEW e, NEW c, Booked(e, c), NEW d, Booked(e, d), NEW A, NEW M, Ticked(c, d, A, M),
         \A k \in M : c.sub[k].state = "waiting",
         NEW k \in Subchannel, k \notin A, NEW s \in Streams
  PROVE  Fragments(d, k, s) = Fragments(c, k, s)
<1> DEFINE l == c.waiting[s]
           m == d.waiting[s]
           n == Total(A, Carried(c, s))
<1>0. c \in ChannelType /\ l \in Seq(ItemType)
  BY ChannelFields DEF Booked
<1>1. d.sub[k].num = c.sub[k].num /\ d.sub[k].start = c.sub[k].start
  <2>1. c \in ChannelType
    BY <1>0
  <2>2. CASE k \in M
    <3>1. d.sub[k] = [c.sub[k] EXCEPT !.state = "tosend"] /\ c.sub[k] \in SubType
      BY <2>1, <2>2, SubFields DEF Ticked
    <3> QED
      BY <3>1 DEF SubType
  <2>3. CASE k \notin M
    BY <2>3 DEF Ticked
  <2> QED
    BY <2>2, <2>3
<1>2. c.sub[k].num[s] # 0 => l # <<>>
  BY DEF Booked, Ledger
<1>3. l # <<>> => m # <<>> /\ m[1].ids = l[1].ids /\ m[1].frags = l[1].frags
  <2>1. /\ n \in Nat
        /\ n = 0 => m = l
        /\ n # 0 => m = [l EXCEPT ![1].acked = @ + n, ![1].pending = @ - n]
    BY DEF Ticked
  <2> HIDE DEF l, m, n
  <2>2. SUFFICES ASSUME l # <<>>, n # 0
                 PROVE  m # <<>> /\ m[1].ids = l[1].ids /\ m[1].frags = l[1].frags
    BY <2>1
  <2>3. l[1] \in ItemType /\ Len(l) >= 1
    BY <1>0, <2>2
  <2> DEFINE w == [l[1] EXCEPT !.acked = l[1].acked + n, !.pending = l[1].pending - n]
  <2>4. m = [l EXCEPT ![1] = w] /\ w.ids = l[1].ids /\ w.frags = l[1].frags
    BY <1>0, <2>1, <2>2, <2>3 DEF ItemType
  <2> HIDE DEF w
  <2>5. m # <<>> /\ m[1] = w
    BY <1>0, <2>3, <2>4
  <2> QED
    BY <2>4, <2>5
<1>4. FirstKept(c, d, k, s)
  BY <1>1, <1>2, <1>3 DEF FirstKept
<1> QED
  BY <1>4, FragmentsStay

LEMMA HeadedFragments ==
  ASSUME NEW e, NEW a, Booked(e, a), NEW h, Booked(e, h), NEW p, Headed(a, h, p), NEW r,
         NEW k \in Subchannel, NEW s \in Streams, NEW acc, NEW del, Transfer(a, r, s, acc, del)
  PROVE  Fragments(h, k, s) = Fragments(a, k, s)
<1>1. CASE h.waiting[s] = a.waiting[s]
  BY <1>1, AppendedFragments DEF Headed
<1>2. CASE /\ a.waiting[s] # <<>> /\ a.waiting[s][1].acked = a.waiting[s][1].frags
           /\ h.waiting[s] = Tail(a.waiting[s])
  <2>1. a.sub[k].num[s] = 0
    BY <1>2, TailTransfer DEF Headed
  <2>2. h.sub = a.sub
    BY DEF Headed
  <2> QED
    BY <2>1, <2>2 DEF Fragments
<1> QED
  BY <1>1, <1>2 DEF Headed

-----------------------------------------------------------------------------
(* What a datagram that is not stale is labelled with.                      *)

\* The sender changes.
LEMMA SenderLabels ==
  ASSUME NEW c, NEW d, NEW r, NEW P, NEW Q, Link(c, r, P, Q), Labelled(c, r, P),
         \A p \in P : p.sub \in 0 .. NSubchannels,
         \A k \in Outstanding(c, r), s \in Streams : Fragments(d, k, s) = Fragments(c, k, s)
  PROVE  Labelled(d, r, P)
<1> SUFFICES ASSUME NEW p \in P, ~Stale(r, p), NEW s \in Streams
             PROVE  p.frag[s] = Fragments(d, p.sub, s)
  BY DEF Labelled
<1>1. p.frag[s] = Fragments(c, p.sub, s)
  BY DEF Labelled
<1>2. CASE p.sub = 0
  BY <1>1, <1>2 DEF Fragments
<1>3. CASE p.sub # 0
  <2>1. p.sub \in Subchannel
    BY <1>3, BoundAssumption DEF Subchannel
  <2>2. p.sub \in Outstanding(c, r)
    BY <2>1 DEF Link, Linked, Outstanding
  <2> QED
    BY <1>1, <2>2
<1> QED
  BY <1>2, <1>3

\* The receiver moves on.
LEMMA ReceiverLabels ==
  ASSUME NEW c, NEW r, NEW q, NEW P, Labelled(c, r, P), r.inSeq \in Nat, q.inSeq \in Nat,
         q.inSeq >= r.inSeq, \A p \in P : p.seq \in Nat
  PROVE  Labelled(c, q, P)
<1>1. \A p \in P : ~Stale(q, p) => ~Stale(r, p)
  BY DEF Stale
<1> QED
  BY <1>1 DEF Labelled

-----------------------------------------------------------------------------
(* A datagram is sent.                                                      *)

\* SendDatagram, as the transfers of both directions see it.
LEMMA SendTransfer ==
  ASSUME setting \in Setting, NEW e \in Ends, NEW c, Booked(e, c), Channel(c), NEW r, Channel(r),
         NEW P, NEW Q, Link(c, r, P, Q), NEW s \in Streams, NEW acc \in Nat, NEW del,
         Transfer(c, r, s, acc, del)
  PROVE  LET d == SendDatagram(e, c).chan
         IN /\ Transfer(d, r, s, acc, del)
            /\ \A k \in Outstanding(c, r) : Fragments(d, k, s) = Fragments(c, k, s)
            /\ d.inRel = c.inRel /\ d.inSeq = c.inSeq /\ d.receive = c.receive
<1> DEFINE f == CreateFragmentsFromBuffer(e, c)
           u == UpdateSubChannels(f)
           d == SendDatagram(e, c).chan
           p == SendDatagram(e, c).packet
<1>1. Booked(e, f) /\ Channel(f) /\ Same(c, f)
  BY BookedCut, Cutting
<1>2. /\ Transfer(f, r, s, acc, del) /\ f.receive = c.receive
      /\ \A k \in Subchannel : Fragments(f, k, s) = Fragments(c, k, s)
  <2>1. CASE f = c
    <3> HIDE DEF f
    <3> QED
      BY <2>1
  <2>2. CASE f # c
    <3>1. Packed(c, f)
      BY <2>2, Packing
    <3> HIDE DEF f
    <3> QED
      BY <1>1, <3>1, PackedTransfer, PackedFragments DEF Packed
  <2> QED
    BY <2>1, <2>2
<1>3. /\ Booked(e, u) /\ Shipped(u, d, p) /\ Sent(u, d, p) /\ Filled(c, u)
  BY Shipping, Sending
<1> HIDE DEF f
<1>4. /\ Transfer(u, r, s, acc, del) /\ u.receive = f.receive
      /\ \A k \in Subchannel : f.sub[k].state # "free" => Fragments(u, k, s) = Fragments(f, k, s)
  <2>1. CASE u = f
    <3> HIDE DEF u
    <3> QED
      BY <1>2, <2>1
  <2>2. CASE u # f
    <3>1. PICK k : Loaded(f, u, k, Portion(f))
      BY <1>1, <2>2, FillChanges
    <3>2. Read(f, r, k)
      <4>1. k \in Subchannel /\ c.sub[k].state = "free" /\ f.outRel = c.outRel
        BY <1>1, <3>1 DEF Loaded, Same
      <4> QED
        BY <4>1 DEF Link, Linked, Read
    <3> HIDE DEF u
    <3>3. Transfer(u, r, s, acc, del)
      BY <1>1, <1>2, <1>3, <3>1, <3>2, LoadedTransfer
    <3>4. \A j \in Subchannel : f.sub[j].state # "free" => Fragments(u, j, s) = Fragments(f, j, s)
      BY <1>1, <1>3, <3>1, LoadedFragments
    <3> QED
      BY <3>1, <3>3, <3>4 DEF Loaded
  <2> QED
    BY <2>1, <2>2
<1> HIDE DEF u, d, p
<1>5. Booked(e, d) /\ d.outRel = u.outRel /\ d.inRel = u.inRel /\ d.inSeq = u.inSeq
  BY <1>3, BookedShipped DEF Sent
<1>6. Transfer(d, r, s, acc, del)
  BY <1>3, <1>4, <1>5, ShippedTransfer
<1>7. \A k \in Outstanding(c, r) : Fragments(d, k, s) = Fragments(c, k, s)
  <2> SUFFICES ASSUME NEW k \in Outstanding(c, r) PROVE Fragments(d, k, s) = Fragments(c, k, s)
    OBVIOUS
  <2>1. k \in Subchannel /\ f.sub[k].state # "free"
    BY <1>1 DEF Outstanding, Same
  <2>2. Fragments(d, k, s) = Fragments(u, k, s)
    BY <1>3, <2>1, ShippedFragments
  <2> QED
    BY <1>2, <1>4, <2>1, <2>2
<1>8. d.receive = c.receive /\ u.inRel = c.inRel /\ u.inSeq = c.inSeq
  BY <1>2, <1>3, <1>4 DEF Shipped, Filled
<1> QED
  BY <1>5, <1>6, <1>7, <1>8 DEF d

LEMMA SendLabels ==
  ASSUME setting \in Setting, NEW e \in Ends, NEW c, Booked(e, c), Channel(c), NEW r, Channel(r),
         NEW P, NEW Q, Link(c, r, P, Q), \A x \in P : x.sub \in 0 .. NSubchannels,
         Labelled(c, r, P),
         \A s \in Streams, k \in Outstanding(c, r) :
           Fragments(SendDatagram(e, c).chan, k, s) = Fragments(c, k, s)
  PROVE  Labelled(SendDatagram(e, c).chan, r, P \union {SendDatagram(e, c).packet})
<1> DEFINE u == UpdateSubChannels(CreateFragmentsFromBuffer(e, c))
           d == SendDatagram(e, c).chan
           p == SendDatagram(e, c).packet
<1>1. Shipped(u, d, p)
  BY Shipping
<1>2. Labelled(d, r, P)
  <2> HIDE DEF d
  <2>1. \A k \in Outstanding(c, r), s \in Streams : Fragments(d, k, s) = Fragments(c, k, s)
    BY DEF d
  <2> QED
    BY <2>1, SenderLabels
<1> HIDE DEF u, d, p
<1>3. \A s \in Streams : p.frag[s] = Fragments(d, p.sub, s)
  <2>1. p.sub \in {0} \union Subchannel
    BY <1>1, BoundAssumption DEF Shipped, PacketType, Subchannel
  <2>2. \A s \in Streams : Fragments(d, p.sub, s) = Fragments(u, p.sub, s)
    BY <1>1, <2>1, ShippedFragments
  <2>3. \A s \in Streams : p.frag[s] = Fragments(u, p.sub, s)
    BY <1>1 DEF Shipped
  <2> QED
    BY <2>2, <2>3
<1>4. Labelled(d, r, P \union {p})
  BY <1>2, <1>3 DEF Labelled
<1> QED
  BY <1>4 DEF d, p

-----------------------------------------------------------------------------
(* The invariant of the transfers.                                          *)
TransferInv ==
  \A e \in Ends :
    /\ Labelled(chan[e], chan[Peer(e)], To(Peer(e)))
    /\ \A s \in Streams :
         Transfer(chan[e], chan[Peer(e)], s, accepted[e][s], delivered[Peer(e)][s])

\* No datagram carries fragments of both streams.
Apart == \A p \in net : \E s \in Streams : p.frag[s].num = 0

LEMMA TransferInit == Init => TransferInv
<1> SUFFICES ASSUME Init PROVE TransferInv
  OBVIOUS
<1> DEFINE c == NewChannel
<1>1. ASSUME NEW e \in Ends
      PROVE  /\ chan[e] = c /\ chan[Peer(e)] = c /\ To(Peer(e)) = {}
             /\ accepted[e] = [s \in Streams |-> 0] /\ delivered[Peer(e)] = [s \in Streams |-> <<>>]
  BY Peers DEF Init, To
<1>2. Labelled(c, c, {})
  BY DEF Labelled
<1>3. ASSUME NEW s \in Streams PROVE Transfer(c, c, s, 0, <<>>)
  <2>1. /\ c.waiting[s] = <<>> /\ c.receive[s] = NoBuffer /\ c.stream = <<>>
        /\ \A k \in Subchannel : c.sub[k].num[s] = 0
    BY DEF NewChannel, Free
  <2>2. ~c.receive[s].open
    BY <2>1 DEF NoBuffer
  <2> HIDE DEF c
  <2>3. Placed(c, s) /\ Reassembled(c, c, s) /\ Uncut(c, s) = <<>>
    BY <2>1, <2>2 DEF Placed, Reassembled, Uncut
  <2>4. Ordered(<<>>, <<>>, Left(c, c, s), 0, <<>>)
    <3> DEFINE b == [i \in 0 .. 0 |-> 0]
    <3>1. Run(0, 0) = <<>>
      BY EmptyRun
    <3>2. /\ Len(<<>>) = 0 /\ b[0] = 0 /\ b \in [0 .. 0 -> Nat] /\ 1 .. 0 = {}
      OBVIOUS
    <3> HIDE DEF b
    <3>3. Bounded(<<>>, b, <<>>, 0)
      BY <3>1, <3>2 DEF Bounded
    <3> QED
      BY <3>1, <3>2, <3>3 DEF Ordered
  <2> QED
    BY <2>1, <2>3, <2>4 DEF Transfer
<1> HIDE DEF c
<1> QED
  BY <1>1, <1>2, <1>3 DEF TransferInv

\* A step of one end keeps it if it keeps both directions.
LEMMA OneTransfer ==
  ASSUME LinkInv, NEW e \in Ends, NEW d, chan' = [chan EXCEPT ![e] = d],
         Labelled(d, chan[Peer(e)], To(Peer(e))'),
         Labelled(chan[Peer(e)], d, To(e)'),
         \A s \in Streams :
           /\ Transfer(d, chan[Peer(e)], s, accepted'[e][s], delivered'[Peer(e)][s])
           /\ Transfer(chan[Peer(e)], d, s, accepted'[Peer(e)][s], delivered'[e][s])
  PROVE  TransferInv'
<1>1. chan'[e] = d /\ chan'[Peer(e)] = chan[Peer(e)] /\ Peer(Peer(e)) = e /\ Peer(e) \in Ends
  BY Peers DEF LinkInv
<1>2. ASSUME NEW f \in Ends
      PROVE  /\ Labelled(chan'[f], chan'[Peer(f)], To(Peer(f))')
             /\ \A s \in Streams :
                  Transfer(chan'[f], chan'[Peer(f)], s, accepted'[f][s], delivered'[Peer(f)][s])
  <2>1. f = e \/ f = Peer(e)
    BY Peers
  <2> QED
    BY <2>1, <1>1
<1> QED
  BY <1>2 DEF TransferInv

\* What is known of an end and its peer.
LEMMA BothTransfers ==
  ASSUME BookInv, LinkInv, TransferInv, NEW e \in Ends
  PROVE  LET c == chan[e]
             r == chan[Peer(e)]
         IN /\ Booked(e, c) /\ Booked(Peer(e), r) /\ Channel(c) /\ Channel(r)
            /\ Link(c, r, To(Peer(e)), To(e)) /\ Link(r, c, To(e), To(Peer(e)))
            /\ Labelled(c, r, To(Peer(e))) /\ Labelled(r, c, To(e))
            /\ \A x \in To(e) \union To(Peer(e)) :
                 x \in net /\ x \in PacketType /\ x.sub \in 0 .. NSubchannels /\ x.seq \in Nat
            /\ \A s \in Streams :
                 /\ Transfer(c, r, s, accepted[e][s], delivered[Peer(e)][s])
                 /\ Transfer(r, c, s, accepted[Peer(e)][s], delivered[e][s])
                 /\ accepted[e][s] \in Nat /\ accepted[Peer(e)][s] \in Nat
                 /\ delivered[e][s] \in Seq(Nat) /\ delivered[Peer(e)][s] \in Seq(Nat)
            /\ setting \in Setting /\ Peer(e) \in Ends /\ Peer(Peer(e)) = e
<1>1. Peer(e) \in Ends /\ Peer(Peer(e)) = e
  BY Peers
<1>2. \A x \in To(e) \union To(Peer(e)) :
        x \in net /\ x \in PacketType /\ x.sub \in 0 .. NSubchannels /\ x.seq \in Nat
  BY DEF BookInv, TypeOK, To, PacketType
<1>3. /\ Booked(e, chan[e]) /\ Booked(Peer(e), chan[Peer(e)]) /\ setting \in Setting
      /\ accepted[e] \in [Streams -> Nat] /\ accepted[Peer(e)] \in [Streams -> Nat]
      /\ delivered[e] \in [Streams -> Seq(Nat)] /\ delivered[Peer(e)] \in [Streams -> Seq(Nat)]
  BY <1>1, SettingsAssumption DEF BookInv, TypeOK
<1>4. ASSUME NEW f \in Ends
      PROVE  /\ Labelled(chan[f], chan[Peer(f)], To(Peer(f)))
             /\ \A s \in Streams :
                  Transfer(chan[f], chan[Peer(f)], s, accepted[f][s], delivered[Peer(f)][s])
  BY DEF TransferInv
<1>5. /\ Labelled(chan[Peer(e)], chan[e], To(e))
      /\ \A s \in Streams :
           Transfer(chan[Peer(e)], chan[e], s, accepted[Peer(e)][s], delivered[e][s])
  BY <1>1, <1>4
<1> QED
  BY <1>1, <1>2, <1>3, <1>4, <1>5, BothEnds

-----------------------------------------------------------------------------
(* The steps of the ends.                                                   *)

LEMMA StillBooked ==
  ASSUME BookInv', setting' = setting, NEW e \in Ends
  PROVE  Booked(e, chan'[e])
BY DEF BookInv, Booked

LEMMA TransferMessage ==
  ASSUME BookInv, LinkInv, TransferInv, NEW e \in Ends, SendMessage(e)
  PROVE  TransferInv'
<1> DEFINE c == chan[e]
           r == chan[Peer(e)]
           i == accepted[e]["normal"] + 1
           d == [c EXCEPT !.stream = Append(@, i)]
<1>1. /\ chan' = [chan EXCEPT ![e] = d] /\ net' = net /\ setting' = setting
      /\ accepted' = [accepted EXCEPT ![e]["normal"] = i] /\ delivered' = delivered
  BY DEF SendMessage
<1>2. /\ Booked(e, c) /\ Booked(Peer(e), r) /\ Labelled(c, r, To(Peer(e))) /\ Labelled(r, c, To(e))
      /\ Link(c, r, To(Peer(e)), To(e))
      /\ \A x \in To(Peer(e)) : x.sub \in 0 .. NSubchannels
      /\ \A s \in Streams :
           /\ Transfer(c, r, s, accepted[e][s], delivered[Peer(e)][s])
           /\ Transfer(r, c, s, accepted[Peer(e)][s], delivered[e][s])
           /\ accepted[e][s] \in Nat
      /\ Peer(e) \in Ends /\ Peer(e) # e
  BY BothTransfers, Peers
<1>3. /\ d.sub = c.sub /\ d.outRel = c.outRel /\ d.inRel = c.inRel /\ d.inSeq = c.inSeq
      /\ d.waiting = c.waiting /\ d.receive = c.receive
      /\ d.stream = Append(c.stream, i)
  BY <1>2 DEF Booked, ChannelType
<1>4. Booked(e, d)
  <2>1. BookInv'
    BY BookMessage
  <2>2. chan'[e] = d
    BY <1>1 DEF LinkInv
  <2> HIDE DEF d
  <2> QED
    BY <1>1, <2>1, <2>2, StillBooked
<1>5. /\ accepted'[e]["normal"] = i /\ accepted'[e]["file"] = accepted[e]["file"]
      /\ accepted'[Peer(e)] = accepted[Peer(e)]
  <2>1. accepted \in [Ends -> [Streams -> Nat]] /\ "normal" \in Streams
    BY DEF BookInv, TypeOK, Streams
  <2> HIDE DEF i
  <2> QED
    BY <1>1, <1>2, <2>1
<1> HIDE DEF d
<1>6. ASSUME NEW s \in Streams
      PROVE  /\ Transfer(d, r, s, accepted'[e][s], delivered'[Peer(e)][s])
             /\ Transfer(r, d, s, accepted'[Peer(e)][s], delivered'[e][s])
             /\ \A k \in Subchannel : Fragments(d, k, s) = Fragments(c, k, s)
  <2>1. Transfer(r, d, s, accepted'[Peer(e)][s], delivered'[e][s])
    BY <1>1, <1>2, <1>3, <1>5, StreamStays
  <2>2. \A k \in Subchannel : Fragments(d, k, s) = Fragments(c, k, s)
    BY <1>3 DEF Fragments
  <2>3. CASE s = "normal"
    <3>1. Transfer(c, r, "normal", accepted[e]["normal"], delivered[Peer(e)]["normal"])
          /\ accepted[e]["normal"] \in Nat
      BY <1>2, <2>3
    <3>2. Transfer(d, r, "normal", i, delivered[Peer(e)]["normal"])
      BY <1>2, <1>3, <1>4, <3>1, MessageTransfer
    <3>3. delivered'[Peer(e)] = delivered[Peer(e)]
      BY <1>1
    <3> QED
      BY <1>5, <2>1, <2>3, <2>2, <3>2, <3>3
  <2>4. CASE s = "file"
    <3>1. Uncut(d, s) = Uncut(c, s)
      BY <2>4 DEF Uncut
    <3>2. accepted'[e][s] = accepted[e][s] /\ delivered'[Peer(e)] = delivered[Peer(e)]
      BY <1>1, <1>5, <2>4
    <3>3. Transfer(d, r, s, accepted[e][s], delivered[Peer(e)][s])
      BY <1>2, <1>3, <1>4, <3>1, StreamStays
    <3> QED
      BY <2>1, <2>2, <3>2, <3>3
  <2> QED
    BY <2>1, <2>3, <2>4, <2>2 DEF Streams
<1>7. Labelled(d, r, To(Peer(e)))
  <2>1. \A k \in Outstanding(c, r) : k \in Subchannel
    BY DEF Outstanding
  <2> QED
    BY <1>2, <1>6, <2>1, SenderLabels
<1>8. Labelled(r, d, To(e))
  BY <1>2, <1>3 DEF Labelled, Stale
<1>9. To(e)' = To(e) /\ To(Peer(e))' = To(Peer(e))
  BY <1>1 DEF To
<1> QED
  BY <1>1, <1>6, <1>7, <1>8, <1>9, OneTransfer

LEMMA TransferFile ==
  ASSUME BookInv, LinkInv, TransferInv, NEW e \in Ends, SendFile(e)
  PROVE  TransferInv'
<1> DEFINE c == chan[e]
           r == chan[Peer(e)]
           i == accepted[e]["file"] + 1
           x == Item(<<i>>, setting.todo[e]["file"][i])
           d == [c EXCEPT !.waiting["file"] = Append(@, x)]
<1>1. /\ chan' = [chan EXCEPT ![e] = d] /\ net' = net /\ setting' = setting
      /\ accepted' = [accepted EXCEPT ![e]["file"] = i] /\ delivered' = delivered
      /\ i <= Len(setting.todo[e]["file"])
  BY DEF SendFile
<1>2. /\ Booked(e, c) /\ Booked(Peer(e), r) /\ Labelled(c, r, To(Peer(e))) /\ Labelled(r, c, To(e))
      /\ Link(c, r, To(Peer(e)), To(e)) /\ setting \in Setting
      /\ \A y \in To(Peer(e)) : y.sub \in 0 .. NSubchannels
      /\ \A s \in Streams :
           /\ Transfer(c, r, s, accepted[e][s], delivered[Peer(e)][s])
           /\ Transfer(r, c, s, accepted[Peer(e)][s], delivered[e][s])
           /\ accepted[e][s] \in Nat
      /\ Peer(e) \in Ends /\ Peer(e) # e
  BY BothTransfers, Peers
<1>3. /\ d.sub = c.sub /\ d.outRel = c.outRel /\ d.inRel = c.inRel /\ d.inSeq = c.inSeq
      /\ d.receive = c.receive /\ d.stream = c.stream
      /\ d.waiting["normal"] = c.waiting["normal"]
      /\ d.waiting["file"] = Append(c.waiting["file"], x)
  <2>1. c \in ChannelType /\ c.waiting \in [Streams -> Seq(ItemType)] /\ "file" \in Streams
        /\ "normal" \in Streams
    BY <1>2, ChannelFields DEF Booked, Streams
  <2> HIDE DEF x
  <2> QED
    BY <2>1 DEF ChannelType
<1>4. Booked(e, d)
  <2>1. BookInv'
    BY BookFile
  <2>2. chan'[e] = d
    BY <1>1 DEF LinkInv
  <2> HIDE DEF d
  <2> QED
    BY <1>1, <2>1, <2>2, StillBooked
<1>5. /\ accepted'[e]["file"] = i /\ accepted'[e]["normal"] = accepted[e]["normal"]
      /\ accepted'[Peer(e)] = accepted[Peer(e)]
  <2>1. accepted \in [Ends -> [Streams -> Nat]] /\ "file" \in Streams
    BY DEF BookInv, TypeOK, Streams
  <2> HIDE DEF i
  <2> QED
    BY <1>1, <1>2, <2>1
<1>6. x \in ItemType /\ x.ids = <<i>> /\ x.acked = 0 /\ x.pending = 0
  <2>1. i \in Nat \ {0} /\ "file" \in Streams
    BY <1>2 DEF Streams
  <2>2. setting.todo[e]["file"] \in Seq(Nat \ {0})
    BY <1>2, <2>1 DEF Setting
  <2>3. setting.todo[e]["file"][i] \in Nat \ {0}
    <3> DEFINE q == setting.todo[e]["file"]
    <3> HIDE DEF q, i
    <3>1. q \in Seq(Nat \ {0}) /\ i \in 1 .. Len(q)
      BY <1>1, <2>1, <2>2 DEF q
    <3> QED
      BY <3>1 DEF q
  <2>4. <<i>> \in Ids
    BY <2>1 DEF Ids
  <2> HIDE DEF i
  <2> QED
    BY <2>3, <2>4 DEF Item, ItemType
<1> HIDE DEF d, x
<1>7. ASSUME NEW s \in Streams
      PROVE  /\ Transfer(d, r, s, accepted'[e][s], delivered'[Peer(e)][s])
             /\ Transfer(r, d, s, accepted'[Peer(e)][s], delivered'[e][s])
             /\ \A k \in Subchannel : Fragments(d, k, s) = Fragments(c, k, s)
  <2>1. Transfer(r, d, s, accepted'[Peer(e)][s], delivered'[e][s])
    BY <1>1, <1>2, <1>3, <1>5, StreamStays
  <2>2. CASE s = "file"
    <3>1. Transfer(d, r, s, accepted'[e][s], delivered'[Peer(e)][s])
      BY <1>1, <1>2, <1>3, <1>4, <1>5, <1>6, <2>2, FileTransfer
    <3>2. \A k \in Subchannel : Fragments(d, k, s) = Fragments(c, k, s)
      BY <1>2, <1>3, <1>4, <1>6, <2>2, AppendedFragments
    <3> QED
      BY <2>1, <3>1, <3>2
  <2>3. CASE s = "normal"
    <3>1. Uncut(d, s) = Uncut(c, s)
      BY <1>3 DEF Uncut
    <3>2. Transfer(d, r, s, accepted'[e][s], delivered'[Peer(e)][s])
      BY <1>1, <1>2, <1>3, <1>4, <1>5, <2>3, <3>1, StreamStays
    <3>3. \A k \in Subchannel : Fragments(d, k, s) = Fragments(c, k, s)
      BY <1>3, <2>3 DEF Fragments
    <3> QED
      BY <2>1, <3>2, <3>3
  <2> QED
    BY <2>2, <2>3 DEF Streams
<1>8. Labelled(d, r, To(Peer(e)))
  <2>1. \A k \in Outstanding(c, r) : k \in Subchannel
    BY DEF Outstanding
  <2> QED
    BY <1>2, <1>7, <2>1, SenderLabels
<1>9. Labelled(r, d, To(e))
  BY <1>2, <1>3 DEF Labelled, Stale
<1>10. To(e)' = To(e) /\ To(Peer(e))' = To(Peer(e))
  BY <1>1 DEF To
<1> QED
  BY <1>1, <1>7, <1>8, <1>9, <1>10, OneTransfer

LEMMA TransferTransmit ==
  ASSUME BookInv, LinkInv, TransferInv, NEW e \in Ends, Transmit(e)
  PROVE  TransferInv'
<1> DEFINE c == chan[e]
           r == chan[Peer(e)]
           d == SendDatagram(e, c).chan
           p == SendDatagram(e, c).packet
<1>1. /\ chan' = [chan EXCEPT ![e] = d] /\ net' = net \union {p}
      /\ accepted' = accepted /\ delivered' = delivered
  BY DEF Transmit
<1>2. /\ Booked(e, c) /\ Booked(Peer(e), r) /\ Labelled(c, r, To(Peer(e))) /\ Labelled(r, c, To(e))
      /\ Channel(c) /\ Channel(r) /\ setting \in Setting
      /\ Link(c, r, To(Peer(e)), To(e))
      /\ \A y \in To(Peer(e)) : y.sub \in 0 .. NSubchannels
      /\ \A s \in Streams :
           /\ Transfer(c, r, s, accepted[e][s], delivered[Peer(e)][s])
           /\ Transfer(r, c, s, accepted[Peer(e)][s], delivered[e][s])
           /\ accepted[e][s] \in Nat
      /\ Peer(e) \in Ends /\ Peer(e) # e
  BY BothTransfers, Peers
<1>3. p.to = Peer(e)
  BY <1>2, Sending
<1> HIDE DEF c, r
<1>4. ASSUME NEW s \in Streams
      PROVE  /\ Transfer(d, r, s, accepted[e][s], delivered[Peer(e)][s])
             /\ \A k \in Outstanding(c, r) : Fragments(d, k, s) = Fragments(c, k, s)
             /\ d.inRel = c.inRel /\ d.inSeq = c.inSeq /\ d.receive = c.receive
  BY <1>2, SendTransfer
<1>5. Labelled(d, r, To(Peer(e)) \union {p})
  BY <1>2, <1>4, SendLabels
<1> HIDE DEF d, p
<1>6. d.inRel = c.inRel /\ d.inSeq = c.inSeq /\ d.receive = c.receive
  BY <1>4 DEF Streams
<1>7. Labelled(r, d, To(e))
  BY <1>2, <1>6 DEF Labelled, Stale
<1>8. \A s \in Streams : Transfer(r, d, s, accepted[Peer(e)][s], delivered[e][s])
  BY <1>2, <1>6, StreamStays
<1>9. To(e)' = To(e) /\ To(Peer(e))' = To(Peer(e)) \union {p}
  BY <1>1, <1>2, <1>3 DEF To
<1> QED
  BY <1>1, <1>4, <1>5, <1>7, <1>8, <1>9, OneTransfer DEF r

\* Receiving leaves what is sent alone; the header leaves what is received.
LEMMA HeaderTransfer ==
  ASSUME NEW e, NEW c, Booked(e, c), NEW p \in PacketType, \A k \in Subchannel : ~Invalid(c, p, k),
         NEW r, NEW P, NEW Q, Link(c, r, P, Q), p \in Q, ~Stale(c, p),
         NEW s \in Streams, NEW acc, NEW del, Transfer(c, r, s, acc, del)
  PROVE  LET h == ProcessPacketHeader(c, p)
         IN /\ Booked(e, h) /\ Transfer(h, r, s, acc, del)
            /\ \A k \in Outstanding(c, r) : Fragments(h, k, s) = Fragments(c, k, s)
            /\ h.inRel = c.inRel /\ h.receive = c.receive /\ h.inSeq = p.seq
<1> DEFINE a == ReadAcks(c, p)
           h == ProcessPacketHeader(c, p)
           A == Acked(c, p)
           M == Missed(c, p)
<1>1. Ticked(c, a, A, M)
  BY Ticking
<1>2. \A k \in M : c.sub[k].state = "waiting"
  BY DEF Missed
<1>3. \A k \in A : Read(c, r, k)
  <2> SUFFICES ASSUME NEW k \in A PROVE Read(c, r, k)
    OBVIOUS
  <2>1. k \in Subchannel /\ c.sub[k].state = "waiting" /\ Matches(c, p, k)
    BY DEF Acked, Checked
  <2> QED
    BY <2>1 DEF Link, Linked
<1>4. Booked(e, a)
  <2> HIDE DEF a, A, M
  <2> QED
    BY <1>1, <1>2, BookedTicked
<1>5. Headed(a, h, p)
  BY <1>4, Heading DEF Booked
<1> HIDE DEF a, h, A, M
<1>6. Booked(e, h)
  BY <1>4, <1>5, BookedHeaded
<1>7. Transfer(a, r, s, acc, del)
  BY <1>1, <1>2, <1>3, <1>4, TickedTransfer
<1>8. Transfer(h, r, s, acc, del)
  BY <1>4, <1>5, <1>6, <1>7, HeadedTransfer
<1>9. ASSUME NEW k \in Outstanding(c, r) PROVE Fragments(h, k, s) = Fragments(c, k, s)
  <2>1. k \in Subchannel /\ k \notin A
    BY <1>3 DEF Outstanding
  <2>2. Fragments(a, k, s) = Fragments(c, k, s)
    BY <1>1, <1>2, <1>4, <2>1, TickedFragments
  <2>3. Fragments(h, k, s) = Fragments(a, k, s)
    BY <1>4, <1>5, <1>6, <1>7, <2>1, HeadedFragments
  <2> QED
    BY <2>2, <2>3
<1>10. h.inRel = c.inRel /\ h.receive = c.receive /\ h.inSeq = p.seq
  BY <1>1, <1>5 DEF Ticked, Headed
<1> QED
  BY <1>6, <1>8, <1>9, <1>10 DEF h

LEMMA TransferProcess ==
  ASSUME BookInv, LinkInv, TransferInv, Apart, NEW e \in Ends, NEW p \in net,
         ProcessPacket(e, p, FALSE)
  PROVE  TransferInv'
<1> DEFINE c == chan[e]
           r == chan[Peer(e)]
           h == ProcessPacketHeader(c, p)
           d == Receive(h, p).chan
           out == Receive(h, p).out
<1>1. p.to = e /\ ~Stale(c, p) /\ p \in To(e)
  BY DEF ProcessPacket, To
<1>2. \A k \in Subchannel : ~Invalid(c, p, k)
  BY <1>1, HeadersAreValid DEF HeaderValid
<1>3. /\ chan' = [chan EXCEPT ![e] = d] /\ net' = net /\ accepted' = accepted
      /\ delivered' = [delivered EXCEPT ![e] = [s \in Streams |-> @[s] \o out[s]]]
  BY <1>2 DEF ProcessPacket
<1>4. /\ Booked(e, c) /\ Booked(Peer(e), r) /\ Labelled(c, r, To(Peer(e))) /\ Labelled(r, c, To(e))
      /\ Channel(c) /\ Channel(r)
      /\ Link(c, r, To(Peer(e)), To(e)) /\ Link(r, c, To(e), To(Peer(e)))
      /\ \A y \in To(Peer(e)) : y.sub \in 0 .. NSubchannels
      /\ \A y \in To(e) : y.seq \in Nat
      /\ p \in PacketType /\ p.sub \in 0 .. NSubchannels
      /\ \A s \in Streams :
           /\ Transfer(c, r, s, accepted[e][s], delivered[Peer(e)][s])
           /\ Transfer(r, c, s, accepted[Peer(e)][s], delivered[e][s])
           /\ delivered[e][s] \in Seq(Nat)
      /\ Peer(e) \in Ends /\ Peer(e) # e
  BY <1>1, BothTransfers, Peers
<1> HIDE DEF c, r
<1>5. ASSUME NEW s \in Streams
      PROVE  /\ Booked(e, h) /\ Transfer(h, r, s, accepted[e][s], delivered[Peer(e)][s])
             /\ \A k \in Outstanding(c, r) : Fragments(h, k, s) = Fragments(c, k, s)
             /\ h.inRel = c.inRel /\ h.receive = c.receive /\ h.inSeq = p.seq
  BY <1>1, <1>2, <1>4, HeaderTransfer
<1> HIDE DEF h
<1>6. Booked(e, h) /\ h.inRel = c.inRel /\ h.receive = c.receive /\ h.inSeq = p.seq
      /\ h \in ChannelType
  BY <1>5 DEF Streams, Booked
<1>7. Received(h, d)
  BY <1>4, <1>6, Receiving
<1>8. Booked(e, d)
  <2> HIDE DEF d
  <2> QED
    BY <1>6, <1>7, BookedReceived
<1>9. p.sub # 0 => p.sub \in Outstanding(r, h)
  <2>1. p.sub # 0 => p.sub \in Subchannel
    BY <1>4, BoundAssumption DEF Subchannel
  <2>2. p.sub # 0 => r.sub[p.sub].state = "waiting" /\ ~Read(r, c, p.sub)
    BY <1>1, <1>4, <2>1 DEF Link, Linked
  <2> QED
    BY <1>6, <2>1, <2>2 DEF Outstanding, Read
<1>10. \A s \in Streams : p.frag[s] = Fragments(r, p.sub, s)
  BY <1>1, <1>4 DEF Labelled
<1>11. \E s \in Streams : p.frag[s].num = 0
  BY DEF Apart
<1>12. \A s \in Streams : Transfer(r, h, s, accepted[Peer(e)][s], delivered[e][s])
  BY <1>4, <1>6, StreamStays
<1>13. \A s \in Streams : Transfer(r, d, s, accepted[Peer(e)][s], delivered[e][s] \o out[s])
  <2> DEFINE acc == accepted[Peer(e)]
             del == delivered[e]
  <2> SUFFICES ASSUME NEW s \in Streams
               PROVE  Transfer(r, d, s, acc[s], del[s] \o out[s])
    OBVIOUS
  <2>1. \A t \in Streams : del[t] \in Seq(Nat) /\ Transfer(r, h, t, acc[t], del[t])
    BY <1>4, <1>12
  <2> HIDE DEF acc, del
  <2> QED
    BY <1>4, <1>6, <1>9, <1>10, <1>11, <2>1, ReceiveTransfer
<1> HIDE DEF d, out
<1>14. /\ delivered'[Peer(e)] = delivered[Peer(e)]
       /\ \A s \in Streams : delivered'[e][s] = delivered[e][s] \o out[s]
  <2>1. delivered \in [Ends -> [Streams -> Seq(Nat)]]
    BY DEF BookInv, TypeOK
  <2> QED
    BY <1>3, <1>4, <2>1
<1>15. \A s \in Streams :
         /\ Transfer(d, r, s, accepted[e][s], delivered[Peer(e)][s])
         /\ \A k \in Outstanding(c, r) : Fragments(d, k, s) = Fragments(c, k, s)
  <2> SUFFICES ASSUME NEW s \in Streams
               PROVE  /\ Transfer(d, r, s, accepted[e][s], delivered[Peer(e)][s])
                      /\ \A k \in Outstanding(c, r) : Fragments(d, k, s) = Fragments(c, k, s)
    OBVIOUS
  <2>1. /\ d.sub = h.sub /\ d.outRel = h.outRel /\ d.waiting = h.waiting
        /\ Uncut(d, s) = Uncut(h, s)
    BY <1>7 DEF Received, Uncut
  <2>2. Transfer(d, r, s, accepted[e][s], delivered[Peer(e)][s])
    BY <1>5, <1>6, <1>8, <2>1, StreamStays
  <2>3. \A k \in Outstanding(c, r) : Fragments(d, k, s) = Fragments(h, k, s)
    BY <2>1 DEF Fragments
  <2> QED
    BY <1>5, <2>2, <2>3
<1>16. Labelled(d, r, To(Peer(e)))
  BY <1>4, <1>15, SenderLabels
<1>17. Labelled(r, d, To(e))
  <2>1. d.inSeq = p.seq /\ p.seq \in Nat /\ c.inSeq \in Nat /\ p.seq > c.inSeq
    BY <1>1, <1>4, <1>6, <1>7 DEF Received, Stale, Channel
  <2> QED
    BY <1>4, <2>1, ReceiverLabels
<1>18. To(e)' = To(e) /\ To(Peer(e))' = To(Peer(e))
  BY <1>3 DEF To
<1> QED
  BY <1>3, <1>13, <1>14, <1>15, <1>16, <1>17, <1>18, OneTransfer DEF r

LEMMA TransferStep ==
  ASSUME Transmitters = {}
  PROVE  BookInv /\ LinkInv /\ TransferInv /\ Apart /\ [Next]_vars => TransferInv'
<1> SUFFICES ASSUME BookInv, LinkInv, TransferInv, Apart, [Next]_vars PROVE TransferInv'
  OBVIOUS
<1>1. CASE UNCHANGED vars
  <2>1. /\ chan' = chan /\ accepted' = accepted /\ delivered' = delivered
        /\ \A e \in Ends : To(e)' = To(e) /\ To(Peer(e))' = To(Peer(e))
    BY <1>1 DEF vars, To
  <2> QED
    BY <2>1 DEF TransferInv
<1>2. ASSUME NEW e \in Ends, SendMessage(e) \/ SendFile(e) \/ Transmit(e) PROVE TransferInv'
  BY <1>2, TransferMessage, TransferFile, TransferTransmit
<1>3. ASSUME NEW e \in Ends, NEW p \in net, NEW transmits \in {FALSE} \union {e \in Transmitters},
             ProcessPacket(e, p, transmits)
      PROVE  TransferInv'
  <2>1. transmits = FALSE
    BY <1>3
  <2> QED
    BY <2>1, <1>3, TransferProcess
<1> QED
  BY <1>1, <1>2, <1>3 DEF Next

LEMMA Transferring == ASSUME Transmitters = {} PROVE Spec /\ []Apart => []TransferInv
BY TransferInit, TransferStep, Bookkeeping, Linking, PTL DEF Spec

-----------------------------------------------------------------------------
(* A setting whose packets never carry fragments of both streams: a packet  *)
(* takes one fragment, or an end uses one stream only.                      *)
SetApart(w) == w.max = 1 \/ \A e \in Ends : \E s \in Streams : w.todo[e][s] = <<>>

\* What an end has of the stream that it does not use, and what it sends.
Lone(e, c) ==
  /\ \A s \in Streams :
       setting.todo[e][s] = <<>> => c.waiting[s] = <<>> /\ Uncut(c, s) = <<>>
  /\ \A k \in Subchannel : \E s \in Streams : c.sub[k].num[s] = 0

LonePortion(c) == \E s \in Streams : Portion(c)[s] = 0

LEMMA LonePortions ==
  ASSUME setting \in Setting, SetApart(setting), NEW e \in Ends, NEW c, Booked(e, c), Lone(e, c)
  PROVE  LonePortion(c)
<1> DEFINE u == Unsent(c, "normal")
           v == Unsent(c, "file")
           n == Min({setting.max, u})
           f == Min({setting.max - n, setting.fileMax, v})
<1>1. /\ "normal" \in Streams /\ "file" \in Streams /\ "normal" # "file"
      /\ \A s \in Streams : s = "normal" \/ s = "file"
  BY DEF Streams
<1>2. /\ setting.max \in Nat \ {0} /\ setting.fileMax \in Nat \ {0} /\ u \in Nat /\ v \in Nat
  BY <1>1, UnsentIsNat DEF Setting
<1>3. Portion(c)["normal"] = n /\ Portion(c)["file"] = f
  BY <1>1 DEF Portion
<1>4. CASE setting.max = 1
  <2> SUFFICES ASSUME n # 0 PROVE f = 0
    BY <1>1, <1>3 DEF LonePortion
  <2>1. n = 1
    <3> DEFINE S == {setting.max, u}
    <3>1. S \subseteq Nat /\ S # {} /\ 1 \in S
      BY <1>2, <1>4
    <3> HIDE DEF S
    <3>2. Min(S) \in S /\ Min(S) <= 1
      BY <3>1, LeastNumber
    <3>3. Min(S) \in Nat /\ Min(S) # 0
      BY <3>1, <3>2 DEF S
    <3> QED
      BY <3>2, <3>3 DEF S
  <2> HIDE DEF n, u, v
  <2> DEFINE S == {setting.max - n, setting.fileMax, v}
  <2>2. S \subseteq Nat /\ S # {} /\ 0 \in S
    BY <1>2, <1>4, <2>1
  <2> HIDE DEF S
  <2>3. Min(S) \in S /\ Min(S) <= 0
    BY <2>2, LeastNumber
  <2>4. Min(S) = 0
    <3> DEFINE z == Min(S)
    <3> HIDE DEF z
    <3>1. z \in Nat /\ z <= 0
      BY <2>2, <2>3 DEF z
    <3>2. z = 0
      BY <3>1
    <3> QED
      BY <3>2 DEF z
  <2> QED
    BY <2>4 DEF S
<1>5. CASE \E s \in Streams : setting.todo[e][s] = <<>>
  <2>1. PICK s \in Streams : setting.todo[e][s] = <<>>
    BY <1>5
  <2>2. Unsent(c, s) = 0
    BY <2>1, UnsentIsNat DEF Lone
  <2>3. Portion(c)[s] \in Nat /\ Portion(c)[s] <= 0
    BY <2>2, PortionFits
  <2>4. Portion(c)[s] = 0
    <3> DEFINE z == Portion(c)[s]
    <3> HIDE DEF z
    <3> QED
      BY <2>3 DEF z
  <2> QED
    BY <2>4 DEF LonePortion
<1> QED
  BY <1>4, <1>5 DEF SetApart

LEMMA LoneSend ==
  ASSUME setting \in Setting, SetApart(setting), NEW e \in Ends, NEW c, Booked(e, c), Lone(e, c)
  PROVE  /\ Lone(e, SendDatagram(e, c).chan)
         /\ \E s \in Streams : SendDatagram(e, c).packet.frag[s].num = 0
<1> DEFINE f == CreateFragmentsFromBuffer(e, c)
           u == UpdateSubChannels(f)
           d == SendDatagram(e, c).chan
           p == SendDatagram(e, c).packet
<1>1. Booked(e, f)
  BY BookedCut
<1>2. Lone(e, f)
  <2>1. CASE f = c
    <3> HIDE DEF f
    <3> QED
      BY <2>1
  <2>2. CASE f # c
    <3>1. Packed(c, f)
      BY <2>2, Packing
    <3> HIDE DEF f
    <3>2. setting.todo[e]["normal"] # <<>>
      BY <3>1 DEF Packed, Lone, Uncut, Streams
    <3>3. f.sub = c.sub /\ f.waiting["file"] = c.waiting["file"]
      BY <3>1 DEF Packed
    <3> QED
      BY <3>2, <3>3 DEF Lone, Uncut, Streams
  <2> QED
    BY <2>1, <2>2
<1>3. Booked(e, u) /\ Shipped(u, d, p)
  BY Shipping
<1> HIDE DEF f
<1>4. Lone(e, u)
  <2>1. CASE u = f
    <3> HIDE DEF u
    <3> QED
      BY <1>2, <2>1
  <2>2. CASE u # f
    <3>1. PICK k : Loaded(f, u, k, Portion(f))
      BY <1>1, <2>2, FillChanges
    <3>2. PICK s \in Streams : Portion(f)[s] = 0
      BY <1>1, <1>2, LonePortions DEF LonePortion
    <3> HIDE DEF u
    <3>3. u.sub[k].num[s] = 0
      BY <3>1, <3>2 DEF Loaded
    <3>4. \A j \in Subchannel : \E t \in Streams : u.sub[j].num[t] = 0
      BY <1>2, <3>1, <3>3 DEF Loaded, Lone
    <3>5. \A t \in Streams : f.waiting[t] = <<>> => u.waiting[t] = <<>>
      BY <3>1 DEF Loaded
    <3>6. u.stream = f.stream
      BY <3>1 DEF Loaded
    <3> QED
      BY <1>2, <3>4, <3>5, <3>6 DEF Lone, Uncut
  <2> QED
    BY <2>1, <2>2
<1> HIDE DEF u, d, p
<1>5. Lone(e, d)
  <2>1. /\ d.waiting = u.waiting /\ d.stream = u.stream
        /\ \A k \in Subchannel : d.sub[k].num = u.sub[k].num
    BY <1>3 DEF Shipped
  <2> QED
    BY <1>4, <2>1 DEF Lone, Uncut
<1>6. \E s \in Streams : p.frag[s].num = 0
  <2>1. p.sub \in {0} \union Subchannel /\ \A s \in Streams : p.frag[s] = Fragments(u, p.sub, s)
    BY <1>3, BoundAssumption DEF Shipped, PacketType, Subchannel
  <2>2. PICK s \in Streams : p.sub = 0 \/ u.sub[p.sub].num[s] = 0
    BY <1>4, <2>1 DEF Lone, Streams
  <2>3. Fragments(u, p.sub, s) = NoFragments
    BY <2>2, Zenon DEF Fragments
  <2> QED
    BY <2>1, <2>3 DEF NoFragments
<1> QED
  BY <1>5, <1>6 DEF d, p

LEMMA BookedRead ==
  ASSUME NEW e, NEW c, Booked(e, c), NEW p \in PacketType
  PROVE  Booked(e, ReadAcks(c, p)) /\ Booked(e, ProcessPacketHeader(c, p))
<1> DEFINE a == ReadAcks(c, p)
           h == ProcessPacketHeader(c, p)
           A == Acked(c, p)
           M == Missed(c, p)
<1>1. Ticked(c, a, A, M)
  BY Ticking
<1>2. \A k \in M : c.sub[k].state = "waiting"
  BY DEF Missed
<1>3. Booked(e, a)
  <2> HIDE DEF a, A, M
  <2> QED
    BY <1>1, <1>2, BookedTicked
<1>4. Headed(a, h, p)
  BY <1>3, Heading DEF Booked
<1> HIDE DEF a, h
<1>5. Booked(e, h)
  BY <1>3, <1>4, BookedHeaded
<1> QED
  BY <1>3, <1>5 DEF a, h

LEMMA LoneRead ==
  ASSUME NEW e \in Ends, NEW c, Booked(e, c), Lone(e, c), NEW p \in PacketType
  PROVE  Lone(e, ReadAcks(c, p)) /\ Lone(e, ProcessPacketHeader(c, p))
<1> DEFINE a == ReadAcks(c, p)
           h == ProcessPacketHeader(c, p)
           A == Acked(c, p)
           M == Missed(c, p)
<1>1. Ticked(c, a, A, M)
  BY Ticking
<1>2. Booked(e, a)
  BY BookedRead
<1>3. Headed(a, h, p)
  BY <1>2, Heading DEF Booked
<1> HIDE DEF a, h, A, M
<1>4. Lone(e, a)
  <2>1. \A s \in Streams : c.waiting[s] = <<>> => a.waiting[s] = <<>>
    BY <1>1 DEF Ticked
  <2>2. ASSUME NEW k \in Subchannel PROVE \E s \in Streams : a.sub[k].num[s] = 0
    <3>1. PICK s \in Streams : c.sub[k].num[s] = 0
      BY DEF Lone
    <3>2. [c.sub[k] EXCEPT !.state = "tosend"].num = c.sub[k].num
      BY SubFields DEF Booked, SubType
    <3>3. Free.num[s] = 0
      BY DEF Free
    <3> QED
      BY <1>1, <3>1, <3>2, <3>3 DEF Ticked
  <2>3. a.stream = c.stream
    BY <1>1 DEF Ticked
  <2> QED
    BY <2>1, <2>2, <2>3 DEF Lone, Uncut
<1>5. Lone(e, h)
  <2>1. \A s \in Streams : a.waiting[s] = <<>> => h.waiting[s] = <<>>
    BY <1>3 DEF Headed
  <2>2. h.sub = a.sub /\ h.stream = a.stream
    BY <1>3 DEF Headed
  <2> QED
    BY <1>4, <2>1, <2>2 DEF Lone, Uncut
<1> QED
  BY <1>4, <1>5 DEF a, h

ApartInv == Apart /\ \A e \in Ends : Lone(e, chan[e])

LEMMA ApartInit == Init => ApartInv
<1>1. /\ \A s \in Streams : NewChannel.waiting[s] = <<>> /\ Uncut(NewChannel, s) = <<>>
      /\ \A k \in Subchannel : \E s \in Streams : NewChannel.sub[k].num[s] = 0
  BY DEF NewChannel, Free, Uncut, Streams
<1> QED
  BY <1>1 DEF Init, ApartInv, Apart, Lone

LEMMA OneLone ==
  ASSUME BookInv, ApartInv, NEW e \in Ends, NEW d, chan' = [chan EXCEPT ![e] = d], Lone(e, d),
         setting' = setting,
         \A p \in net' : p \in net \/ \E s \in Streams : p.frag[s].num = 0
  PROVE  ApartInv'
<1>1. \A f \in Ends : chan'[f] = IF f = e THEN d ELSE chan[f]
  BY DEF BookInv, TypeOK
<1>2. \A f \in Ends : Lone(f, chan'[f])
  BY <1>1 DEF ApartInv
<1>3. \A f \in Ends : Lone(f, chan[f])'
  BY <1>2 DEF Lone, Uncut
<1> QED
  BY <1>3 DEF ApartInv, Apart

LEMMA ApartStep ==
  ASSUME \A w \in Settings : SetApart(w)
  PROVE  BookInv /\ ApartInv /\ [Next]_vars => ApartInv'
<1> SUFFICES ASSUME BookInv, ApartInv, [Next]_vars PROVE ApartInv'
  OBVIOUS
<1>1. /\ setting \in Setting /\ SetApart(setting) /\ \A p \in net : p \in PacketType
      /\ \A e \in Ends : Booked(e, chan[e]) /\ Lone(e, chan[e])
  BY SettingsAssumption DEF BookInv, TypeOK, ApartInv
<1>2. CASE UNCHANGED vars
  BY <1>2 DEF vars, ApartInv, Apart, Lone, Uncut
<1>3. ASSUME NEW e \in Ends, SendMessage(e) PROVE ApartInv'
  <2> DEFINE c == chan[e]
             i == accepted[e]["normal"] + 1
             d == [c EXCEPT !.stream = Append(@, i)]
  <2>1. /\ chan' = [chan EXCEPT ![e] = d] /\ net' = net /\ setting' = setting
        /\ i <= Len(setting.todo[e]["normal"])
    BY <1>3 DEF SendMessage
  <2>2. setting.todo[e]["normal"] # <<>>
    <3>1. accepted[e]["normal"] \in Nat /\ Len(<<>>) = 0
      BY DEF BookInv, TypeOK, Streams
    <3> QED
      BY <2>1, <3>1
  <2>3. d.sub = c.sub /\ d.waiting = c.waiting
    BY <1>1 DEF Booked, ChannelType
  <2> HIDE DEF d
  <2>4. Lone(e, d)
    BY <1>1, <2>2, <2>3 DEF Lone, Uncut
  <2> QED
    BY <2>1, <2>4, OneLone
<1>4. ASSUME NEW e \in Ends, SendFile(e) PROVE ApartInv'
  <2> DEFINE c == chan[e]
             i == accepted[e]["file"] + 1
             x == Item(<<i>>, setting.todo[e]["file"][i])
             d == [c EXCEPT !.waiting["file"] = Append(@, x)]
  <2>1. /\ chan' = [chan EXCEPT ![e] = d] /\ net' = net /\ setting' = setting
        /\ i <= Len(setting.todo[e]["file"])
    BY <1>4 DEF SendFile
  <2>2. setting.todo[e]["file"] # <<>>
    <3>1. accepted[e]["file"] \in Nat /\ Len(<<>>) = 0
      BY DEF BookInv, TypeOK, Streams
    <3> QED
      BY <2>1, <3>1
  <2>3. d.sub = c.sub /\ d.stream = c.stream /\ d.waiting["normal"] = c.waiting["normal"]
    <3>1. c \in ChannelType /\ c.waiting \in [Streams -> Seq(ItemType)] /\ "normal" \in Streams
      BY <1>1, ChannelFields DEF Booked, Streams
    <3> HIDE DEF x
    <3> QED
      BY <3>1 DEF ChannelType
  <2> HIDE DEF d
  <2>4. Lone(e, d)
    BY <1>1, <2>2, <2>3 DEF Lone, Uncut, Streams
  <2> QED
    BY <2>1, <2>4, OneLone
<1>5. ASSUME NEW e \in Ends, Transmit(e) PROVE ApartInv'
  <2> DEFINE d == SendDatagram(e, chan[e]).chan
             p == SendDatagram(e, chan[e]).packet
  <2>1. chan' = [chan EXCEPT ![e] = d] /\ net' = net \union {p} /\ setting' = setting
    BY <1>5 DEF Transmit
  <2>2. Lone(e, d) /\ \E s \in Streams : p.frag[s].num = 0
    BY <1>1, LoneSend
  <2> HIDE DEF d, p
  <2> QED
    BY <2>1, <2>2, OneLone
<1>6. ASSUME NEW e \in Ends, NEW p \in net, NEW transmits \in BOOLEAN,
             ProcessPacket(e, p, transmits)
      PROVE  ApartInv'
  <2> DEFINE c == chan[e]
             refused == \E k \in Subchannel : Invalid(c, p, k)
             a == ReadAcks(c, p)
             h == ProcessPacketHeader(c, p)
             d == SendDatagram(e, h).chan
             q == SendDatagram(e, h).packet
             b == IF transmits THEN d ELSE h
             read == IF refused THEN Nothing(a) ELSE Receive(b, p)
  <2>1. /\ chan' = [chan EXCEPT ![e] = read.chan] /\ setting' = setting
        /\ net' = IF transmits THEN net \union {q} ELSE net
    BY <1>6 DEF ProcessPacket
  <2>2. Lone(e, a) /\ Lone(e, h) /\ Booked(e, a) /\ Booked(e, h) /\ p \in PacketType
    BY <1>1, BookedRead, LoneRead
  <2> HIDE DEF a, h
  <2>3. Lone(e, d) /\ d \in ChannelType /\ \E s \in Streams : q.frag[s].num = 0
    <3>1. Lone(e, d) /\ \E s \in Streams : q.frag[s].num = 0
      BY <1>1, <2>2, LoneSend
    <3>2. d \in ChannelType
      BY <1>1, <2>2, Shipping DEF Shipped
    <3> QED
      BY <3>1, <3>2
  <2> HIDE DEF d, q
  <2>4. Lone(e, b) /\ b \in ChannelType
    BY <2>2, <2>3 DEF Booked
  <2> HIDE DEF b
  <2>5. Lone(e, read.chan)
    <3>1. CASE refused
      BY <2>2, <3>1 DEF Nothing
    <3>2. CASE ~refused
      <4>1. Received(b, Receive(b, p).chan)
        BY <2>2, <2>4, Receiving
      <4> DEFINE g == Receive(b, p).chan
      <4>2. g.sub = b.sub /\ g.stream = b.stream /\ g.waiting = b.waiting
        BY <4>1 DEF Received
      <4> HIDE DEF g
      <4>3. Lone(e, g)
        BY <2>4, <4>2 DEF Lone, Uncut
      <4> QED
        BY <3>2, <4>3 DEF g
    <3> QED
      BY <3>1, <3>2
  <2> HIDE DEF read
  <2>6. \A x \in net' : x \in net \/ \E s \in Streams : x.frag[s].num = 0
    BY <2>1, <2>3
  <2> QED
    BY <2>1, <2>5, <2>6, OneLone
<1>7. ASSUME NEW e \in Ends, NEW p \in net, NEW transmits \in {FALSE} \union {e \in Transmitters},
             ProcessPacket(e, p, transmits)
      PROVE  ApartInv'
  <2>1. transmits \in BOOLEAN
    OBVIOUS
  <2> QED
    BY <2>1, <1>7, <1>6
<1> QED
  BY <1>2, <1>3, <1>4, <1>5, <1>7 DEF Next

LEMMA Separating == ASSUME \A w \in Settings : SetApart(w) PROVE Spec => []Apart
<1>1. ApartInv => Apart
  BY DEF ApartInv
<1> QED
  BY <1>1, ApartInit, ApartStep, Bookkeeping, PTL DEF Spec

-----------------------------------------------------------------------------
(* What the order of the messages says.                                     *)
LEMMA InRun ==
  ASSUME NEW m \in Nat, NEW n \in Nat, NEW i \in m + 1 .. n
  PROVE  i \in ToSet(Run(m, n))
<1>1. i - m \in 1 .. n - m /\ m + (i - m) = i
  OBVIOUS
<1>2. DOMAIN Run(m, n) = 1 .. n - m /\ Run(m, n)[i - m] = i
  BY <1>1 DEF Run
<1> QED
  BY <1>1, <1>2 DEF ToSet

\* A message is delivered, in an item, or not cut yet.
LEMMA OrderedHolds ==
  ASSUME NEW l, Len(l) \in Nat, l # <<>> => Len(l) >= 1, NEW rest, NEW left, NEW acc \in Nat, NEW del,
         Ordered(l, rest, left, acc, del), NEW i \in 1 .. acc
  PROVE  \/ i \in ToSet(del) \/ i \in ToSet(rest)
         \/ \E j \in 1 .. Len(l) : i \in ToSet(l[j].ids)
<1>1. PICK b : Bounded(l, b, rest, acc) /\ del = Run(0, IF l # <<>> /\ left = 0 THEN b[1] ELSE b[0])
  BY DEF Ordered
<1> DEFINE n == Len(l)
           S == {j \in 0 .. n : i <= b[j]}
<1>2. /\ b \in [0 .. n -> Nat] /\ n \in Nat
      /\ \A j \in 1 .. n : b[j - 1] < b[j] /\ l[j].ids = Run(b[j - 1], b[j])
      /\ b[n] \in Nat /\ b[n] <= acc /\ rest = Run(b[n], acc)
  BY <1>1 DEF Bounded
<1>3. CASE S = {}
  <2>1. ~(i <= b[n])
    <3>1. n \in 0 .. n
      BY <1>2
    <3> QED
      BY <1>3, <3>1
  <2>2. i \in b[n] + 1 .. acc
    BY <1>2, <2>1
  <2> QED
    BY <1>2, <2>2, InRun
<1>4. CASE S # {}
  <2> DEFINE j == Min(S)
  <2>1. j \in 0 .. n /\ i <= b[j] /\ \A k \in S : j <= k
    <3>1. S \subseteq Nat
      BY <1>2
    <3>2. Min(S) \in S /\ \A k \in S : Min(S) <= k
      BY <1>4, <3>1, LeastNumber
    <3> QED
      BY <3>2
  <2> HIDE DEF j
  <2>2. CASE j = 0
    <3> DEFINE t == IF l # <<>> /\ left = 0 THEN b[1] ELSE b[0]
    <3>1. t \in Nat /\ i <= t
      <4>1. b[0] \in Nat /\ i <= b[0]
        BY <1>2, <2>1, <2>2
      <4>2. CASE l # <<>> /\ left = 0
        <5>1. b[1] \in Nat /\ b[0] < b[1]
          BY <1>2, <4>2
        <5> QED
          BY <4>1, <4>2, <5>1
      <4>3. CASE ~(l # <<>> /\ left = 0)
        BY <4>1, <4>3
      <4> QED
        BY <4>2, <4>3
    <3>2. del = Run(0, t)
      BY <1>1
    <3> HIDE DEF t
    <3>3. i \in 0 + 1 .. t
      BY <3>1
    <3> QED
      BY <3>1, <3>2, <3>3, InRun
  <2>3. CASE j # 0
    <3>1. j \in 1 .. n /\ j - 1 \in 0 .. n /\ b[j - 1] \in Nat /\ b[j] \in Nat
      <4> HIDE DEF n, S
      <4>1. j \in 1 .. n /\ j - 1 \in 0 .. n
        BY <1>2, <2>1, <2>3
      <4> QED
        BY <1>2, <2>1, <4>1
    <3>2. ~(i <= b[j - 1])
      <4>1. j - 1 \notin S
        BY <2>1, <3>1
      <4> QED
        BY <3>1, <4>1
    <3>3. i \in b[j - 1] + 1 .. b[j]
      BY <2>1, <3>1, <3>2
    <3>4. i \in ToSet(l[j].ids)
      <4>1. i \in ToSet(Run(b[j - 1], b[j]))
        BY <3>1, <3>3, InRun
      <4> QED
        BY <1>2, <3>1, <4>1
    <3> QED
      BY <3>1, <3>4
  <2> QED
    BY <2>2, <2>3
<1> QED
  BY <1>3, <1>4

\* What is delivered is a prefix of what was accepted.
LEMMA OrderedPrefix ==
  ASSUME NEW l, Len(l) \in Nat, l # <<>> => Len(l) >= 1, NEW rest, NEW left, NEW acc \in Nat, NEW del,
         Ordered(l, rest, left, acc, del)
  PROVE  \E n \in 0 .. acc : del = Run(0, n)
<1>1. PICK b : Bounded(l, b, rest, acc) /\ del = Run(0, IF l # <<>> /\ left = 0 THEN b[1] ELSE b[0])
  BY DEF Ordered
<1> DEFINE n == Len(l)
<1>2. /\ b \in [0 .. n -> Nat] /\ n \in Nat /\ \A j \in 1 .. n : b[j - 1] < b[j]
      /\ b[n] \in Nat /\ b[n] <= acc
  BY <1>1 DEF Bounded
<1> DEFINE T == {k \in Nat : k <= n /\ b[n] < b[n - k]}
<1>3. T = {}
  <2> SUFFICES ASSUME T # {} PROVE FALSE
    OBVIOUS
  <2> DEFINE k == Min(T)
  <2>1. k \in T /\ \A j \in T : k <= j
    <3>1. T \subseteq Nat
      OBVIOUS
    <3> HIDE DEF T
    <3> QED
      BY <3>1, LeastNumber
  <2> HIDE DEF k
  <2>2. k \in Nat /\ k <= n /\ b[n] < b[n - k] /\ k # 0
    <3>1. k \in Nat /\ k <= n /\ b[n] < b[n - k]
      BY <2>1
    <3>2. k = 0 => n - k = n
      BY <1>2
    <3> QED
      BY <1>2, <3>1, <3>2
  <2>3. /\ n - k \in 0 .. n /\ n - (k - 1) \in 1 .. n /\ n - (k - 1) - 1 = n - k /\ k - 1 \in Nat
        /\ n - (k - 1) \in 0 .. n
    BY <1>2, <2>2
  <2>4. b[n - k] < b[n - (k - 1)] /\ b[n - k] \in Nat /\ b[n - (k - 1)] \in Nat
    BY <1>2, <2>3
  <2>5. k - 1 \in T
    BY <1>2, <2>2, <2>3, <2>4
  <2> QED
    BY <2>1, <2>2, <2>5
<1>4. \A j \in 0 .. n : b[j] <= b[n]
  <2> SUFFICES ASSUME NEW j \in 0 .. n PROVE b[j] <= b[n]
    OBVIOUS
  <2>1. n - j \in Nat /\ n - j <= n /\ n - (n - j) = j /\ b[j] \in Nat
    BY <1>2
  <2>2. n - j \notin T
    BY <1>3
  <2>3. ~(b[n] < b[j])
    BY <2>1, <2>2
  <2> QED
    BY <1>2, <2>1, <2>3
<1> HIDE DEF T
<1>5. b[0] \in 0 .. acc /\ (l # <<>> => b[1] \in 0 .. acc)
  BY <1>2, <1>4
<1> QED
  BY <1>1, <1>5

-----------------------------------------------------------------------------
(* The properties, from the invariant.                                      *)

LEMMA KeptOrDelivered == BookInv /\ LinkInv /\ TransferInv => AckedIsDelivered
<1> SUFFICES ASSUME BookInv, LinkInv, TransferInv,
                    NEW e \in Ends, NEW s \in Streams, NEW i \in 1 .. accepted[e][s]
             PROVE  i \in Kept(e, s) \/ i \in ToSet(delivered[Peer(e)][s])
  BY DEF AckedIsDelivered
<1> DEFINE c == chan[e]
           l == c.waiting[s]
           del == delivered[Peer(e)][s]
<1>1. /\ l \in Seq(ItemType) /\ accepted[e][s] \in Nat
      /\ Ordered(l, Uncut(c, s), Left(c, chan[Peer(e)], s), accepted[e][s], del)
  <2>1. /\ Booked(e, c) /\ accepted[e][s] \in Nat
        /\ Transfer(c, chan[Peer(e)], s, accepted[e][s], del)
    BY BothTransfers
  <2> HIDE DEF c
  <2> QED
    BY <2>1, ChannelFields DEF Booked, Transfer
<1> HIDE DEF del
<1>2. \/ i \in ToSet(del) \/ i \in ToSet(Uncut(c, s))
      \/ \E j \in 1 .. Len(l) : i \in ToSet(l[j].ids)
  <2> HIDE DEF l, c
  <2>1. Len(l) \in Nat /\ (l # <<>> => Len(l) >= 1)
    BY <1>1
  <2> QED
    BY <1>1, <2>1, OrderedHolds
<1>3. ASSUME i \in ToSet(Uncut(c, s)) PROVE i \in Kept(e, s)
  <2>1. s = "normal"
    BY <1>3 DEF Uncut, ToSet
  <2>2. i \in ToSet(chan[e].stream)
    BY <1>3, <2>1 DEF Uncut
  <2> DEFINE U == UNION {ToSet(item.ids) : item \in ToSet(l)}
  <2>3. Kept(e, "normal") = U \union ToSet(chan[e].stream)
    BY <2>1 DEF Kept
  <2> HIDE DEF U
  <2> QED
    BY <2>1, <2>2, <2>3
<1>4. ASSUME NEW j \in 1 .. Len(l), i \in ToSet(l[j].ids) PROVE i \in Kept(e, s)
  <2>1. l[j] \in ToSet(l)
    <3> HIDE DEF l
    <3> QED
      BY <1>1 DEF ToSet
  <2>2. i \in UNION {ToSet(item.ids) : item \in ToSet(l)}
    BY <1>4, <2>1
  <2> QED
    BY <2>2 DEF Kept
<1> QED
  BY <1>2, <1>3, <1>4 DEF del

LEMMA RetryFinds == BookInv /\ LinkInv /\ TransferInv => RetryCanSucceed
<1> SUFFICES ASSUME BookInv, LinkInv, TransferInv,
                    NEW e \in Ends, NEW s \in Streams, chan[e].waiting[s] # <<>>
             PROVE  LET item == Head(chan[e].waiting[s])
                        list == chan[Peer(e)].receive[s]
                        left == Unsent(chan[e], s) + Total(Unread(e), Carried(chan[e], s))
                    IN \/ left \in {0, item.frags} /\ ~list.open
                       \/ \E k \in Unread(e) : chan[e].sub[k].start[s] = 0
                       \/ list.open /\ list.ids = item.ids /\ list.acked + left = item.frags
  BY Zenon DEF RetryCanSucceed
<1> DEFINE c == chan[e]
           r == chan[Peer(e)]
           list == r.receive[s]
           item == c.waiting[s][1]
           left == Unsent(c, s) + Total(Unread(e), Carried(c, s))
<1>1. Booked(e, c) /\ Reassembled(c, r, s)
  BY BothTransfers DEF Transfer
<1>2. Unread(e) = Outstanding(c, r)
  BY DEF Unread, Outstanding, Read
<1>3. left = Left(c, r, s)
  BY <1>2 DEF Left
<1>4. Head(c.waiting[s]) = item
  BY <1>1, UnsentIsNat
<1> HIDE DEF left
<1>5. /\ list.open <=> left \notin {0, item.frags}
      /\ list.open => list.ids = item.ids /\ list.acked + left = item.frags
  BY <1>1, <1>3 DEF Reassembled
<1>6. \/ left \in {0, item.frags} /\ ~list.open
      \/ list.open /\ list.ids = item.ids /\ list.acked + left = item.frags
  BY <1>5
<1> QED
  BY <1>4, <1>6 DEF left

\* What an end delivers on a stream comes next and was accepted.
PrefixInv ==
  \A e \in Ends, s \in Streams :
    \E n \in 0 .. accepted[Peer(e)][s] : delivered[e][s] = [i \in 1 .. n |-> i]

LEMMA DeliveredIsPrefix == BookInv /\ LinkInv /\ TransferInv => PrefixInv
<1> SUFFICES ASSUME BookInv, LinkInv, TransferInv, NEW e \in Ends, NEW s \in Streams
             PROVE  \E n \in 0 .. accepted[Peer(e)][s] : delivered[e][s] = [i \in 1 .. n |-> i]
  BY DEF PrefixInv
<1> DEFINE c == chan[Peer(e)]
           l == c.waiting[s]
           acc == accepted[Peer(e)][s]
           del == delivered[e][s]
<1>1. /\ Peer(e) \in Ends /\ Booked(Peer(e), c) /\ acc \in Nat
      /\ Transfer(c, chan[e], s, acc, del)
  BY BothTransfers
<1> HIDE DEF c, acc, del
<1>2. l \in Seq(ItemType) /\ Ordered(l, Uncut(c, s), Left(c, chan[e], s), acc, del)
  BY <1>1, ChannelFields DEF Booked, Transfer
<1> HIDE DEF l
<1>3. \E n \in 0 .. acc : del = Run(0, n)
  <2>1. Len(l) \in Nat /\ (l # <<>> => Len(l) >= 1)
    BY <1>2
  <2> QED
    BY <1>1, <1>2, <2>1, OrderedPrefix
<1>4. \A n \in Nat : Run(0, n) = [i \in 1 .. n |-> i]
  BY DEF Run
<1> QED
  BY <1>1, <1>3, <1>4 DEF acc, del

LEMMA FifoStep ==
  ASSUME Transmitters = {}
  PROVE  BookInv /\ LinkInv /\ PrefixInv /\ PrefixInv' /\ [Next]_vars => [Fifo!Next]_Fifo!vars
<1> SUFFICES ASSUME BookInv, LinkInv, PrefixInv, PrefixInv', [Next]_vars
             PROVE  [Fifo!Next]_Fifo!vars
  OBVIOUS
<1>1. /\ accepted \in [Ends -> [Streams -> Nat]] /\ delivered \in [Ends -> [Streams -> Seq(Nat)]]
      /\ "normal" \in Streams /\ "file" \in Streams
  BY DEF BookInv, TypeOK, Streams
<1>2. CASE UNCHANGED vars
  BY <1>2 DEF vars, Fifo!vars
<1>3. ASSUME NEW e \in Ends, SendMessage(e) PROVE Fifo!Next
  <2>1. Fifo!Send(e, "normal")
    BY <1>1, <1>3 DEF SendMessage, Fifo!Send
  <2> QED
    BY <1>1, <2>1 DEF Fifo!Next
<1>4. ASSUME NEW e \in Ends, SendFile(e) PROVE Fifo!Next
  <2>1. Fifo!Send(e, "file")
    BY <1>1, <1>4 DEF SendFile, Fifo!Send
  <2> QED
    BY <1>1, <2>1 DEF Fifo!Next
<1>5. ASSUME NEW e \in Ends, Transmit(e) PROVE UNCHANGED Fifo!vars
  BY <1>5 DEF Transmit, Fifo!vars
<1>6. ASSUME NEW e \in Ends, NEW p \in net, ProcessPacket(e, p, FALSE)
      PROVE  Fifo!Next
  <2> DEFINE h == ProcessPacketHeader(chan[e], p)
             out == Receive(h, p).out
  <2>1. /\ delivered' = [delivered EXCEPT ![e] = [s \in Streams |-> @[s] \o out[s]]]
        /\ accepted' = accepted
    <3>1. p.to = e /\ ~Stale(chan[e], p)
      BY <1>6 DEF ProcessPacket
    <3>2. \A k \in Subchannel : ~Invalid(chan[e], p, k)
      BY <3>1, HeadersAreValid DEF HeaderValid
    <3> QED
      BY <1>6, <3>2 DEF ProcessPacket
  <2>2. \A s \in Streams : out[s] \in Seq(Nat)
    <3>1. Booked(e, chan[e]) /\ p \in PacketType
      BY DEF BookInv, TypeOK
    <3>2. h \in ChannelType
      BY <3>1, BookedRead DEF Booked
    <3> HIDE DEF h
    <3>3. out \in [Streams -> Seq(Nat)]
      BY <3>1, <3>2, Receiving
    <3> QED
      BY <3>3
  <2> HIDE DEF h, out
  <2>3. delivered' = [delivered EXCEPT ![e] = delivered'[e]]
    BY <1>1, <2>1
  <2>4. Fifo!Other(e) = Peer(e)
    BY DEF Fifo!Other, Peer
  <2>5. ASSUME NEW s \in Streams
        PROVE  \E n \in Len(delivered[e][s]) .. accepted[Peer(e)][s] :
                 delivered'[e][s] = [i \in 1 .. n |-> i]
    <3> DEFINE x == delivered[e][s]
               y == delivered'[e][s]
               acc == accepted[Peer(e)][s]
    <3>1. PICK n \in 0 .. acc : y = [i \in 1 .. n |-> i]
      <4>1. Peer(e)' = Peer(e)
        BY DEF Peer
      <4> QED
        BY <2>1, <4>1 DEF PrefixInv
    <3>2. y = x \o out[s] /\ x \in Seq(Nat) /\ acc \in Nat
      BY <1>1, <2>1, Peers
    <3>3. Len(y) = n
      BY <3>1, <3>2
    <3>4. Len(y) = Len(x) + Len(out[s]) /\ Len(x) \in Nat /\ Len(out[s]) \in Nat
      <4> DEFINE z == out[s]
      <4>1. z \in Seq(Nat)
        BY <2>2
      <4> HIDE DEF x, z, y
      <4> QED
        BY <3>2, <4>1 DEF z
    <3> HIDE DEF x, y, acc
    <3>5. n \in Len(x) .. acc
      BY <3>1, <3>2, <3>3, <3>4
    <3>6. \E m \in Len(x) .. acc : y = [i \in 1 .. m |-> i]
      BY <3>1, <3>5
    <3> QED
      BY <3>6 DEF x, y, acc
  <2>6. Fifo!Deliver(e)
    BY <2>1, <2>3, <2>4, <2>5 DEF Fifo!Deliver
  <2> QED
    BY <2>6 DEF Fifo!Next
<1>7. ASSUME NEW e \in Ends, NEW p \in net, NEW transmits \in {FALSE} \union {e \in Transmitters},
             ProcessPacket(e, p, transmits)
      PROVE  Fifo!Next
  <2>1. transmits = FALSE
    BY <1>7
  <2> QED
    BY <2>1, <1>7, <1>6
<1> QED
  BY <1>2, <1>3, <1>4, <1>5, <1>7 DEF Next

-----------------------------------------------------------------------------
(* As long as no callback transmits and no packet carries fragments of both *)
(* streams, the sender forgets nothing that was not delivered.              *)
THEOREM AckedWasDelivered ==
  ASSUME Transmitters = {}, \A w \in Settings : SetApart(w)
  PROVE  Spec => []AckedIsDelivered
BY Bookkeeping, Linking, Separating, Transferring, KeptOrDelivered, PTL

(* Under the same conditions a retry finds the receiver able to go on.      *)
THEOREM RetriesCanSucceed ==
  ASSUME Transmitters = {}, \A w \in Settings : SetApart(w)
  PROVE  Spec => []RetryCanSucceed
BY Bookkeeping, Linking, Separating, Transferring, RetryFinds, PTL

(* Under the same conditions the two ends implement FifoChannel.            *)
THEOREM MessagesAreFifo ==
  ASSUME Transmitters = {}, \A w \in Settings : SetApart(w)
  PROVE  Spec => FifoSpec
<1>1. Init => Fifo!Init
  BY DEF Init, Fifo!Init
<1>2. Spec => []PrefixInv
  BY Bookkeeping, Linking, Separating, Transferring, DeliveredIsPrefix, PTL
<1> QED
  BY <1>1, <1>2, Bookkeeping, Linking, FifoStep, PTL DEF Spec, FifoSpec, Fifo!Spec
==============================================================================
