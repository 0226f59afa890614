-------------------------- MODULE ReliableChannel --------------------------
(***************************************************************************)
(* The two ends of a custom net channel (CNetChan, source/sourcesdk/       *)
(* cnetchan.cpp): reliable messages and files are cut into fragments, a    *)
(* packet carries the fragments of one subchannel, and a subchannel is an  *)
(* alternating bit: the sender flips its bit when it fills the subchannel, *)
(* the receiver flips its own when it has read the fragments, and every    *)
(* packet tells the other end the receiver's bits.  Datagrams get lost,    *)
(* duplicated and reordered.  A process handles its packets and its Lua on *)
(* one thread, so a step is a whole call.  The operators on c map a        *)
(* channel to the channel after the call they are named for.               *)
(*                                                                         *)
(* Out of the model: TCP (m_StreamActive is never set), compression,       *)
(* unreliable data, overflow of m_StreamReliable, checksum and challenge,  *)
(* holylib_net_maxpacketdrop, and Clear, which only Shutdown calls.        *)
(***************************************************************************)
EXTENDS Integers, Sequences, FiniteSets, FiniteSetsExt, SequencesExt

CONSTANTS
  Ends,          \* the two ends
  NSubchannels,  \* MAX_SUBCHANNELS
  Settings,      \* the ways the ends may be set up and used, see Setting
  MaxPayload,    \* NET_MAX_PAYLOAD, in fragments
  Transmitters   \* the ends whose PacketStart callback may call Transmit

Streams == {"normal", "file"}
Subchannel == 1 .. NSubchannels

(* todo[e][s]: how many fragments each message end e will be given for     *)
(* stream s has; max: fragments per packet (holylib_net_maxfragments);     *)
(* fileMax: the same for a file, 1 in background transmission mode;        *)
(* sends[e], a bound: how many datagrams end e sends.                      *)
Setting == [todo : [Ends -> [Streams -> Seq(Nat \ {0})]], max : Nat \ {0}, fileMax : Nat \ {0},
            sends : [Ends -> Nat]]

ASSUME EndsAssumption == \E x, y \in Ends : x # y /\ Ends = {x, y}
ASSUME SettingsAssumption == Settings \subseteq Setting /\ Settings # {}
ASSUME TransmittersAssumption == Transmitters \subseteq Ends
ASSUME BoundAssumption == {NSubchannels, MaxPayload} \subseteq Nat \ {0}

VARIABLES
  setting,    \* the setting of this run
  chan,       \* the CNetChan of every end
  net,        \* every datagram ever sent: a delivery leaves it there
  accepted,   \* history: messages given to an end, per stream
  delivered   \* history: messages its Lua was handed, per stream

vars == <<setting, chan, net, accepted, delivered>>

Peer(e) == CHOOSE f \in Ends : f # e

(* dataFragments_t of a waiting list: the messages in it, and how many of  *)
(* its fragments there are, are acknowledged, are on their way.            *)
Item(ids, n) == [ids |-> ids, frags |-> n, acked |-> 0, pending |-> 0]

Free == [state |-> "free", seq |-> -1,
         start |-> [s \in Streams |-> -1], num |-> [s \in Streams |-> 0]]

(* An entry of m_ReceiveList without a buffer.  data says of which item    *)
(* the bytes at each fragment's place are, <<>> where nothing was read.    *)
NoBuffer == [open |-> FALSE, ids |-> <<>>, frags |-> 0, acked |-> 0, data |-> <<>>]

NewChannel ==
  [outSeq |-> 1, inSeq |-> 0, outAck |-> 0,
   outRel |-> {}, inRel |-> {},                  \* the subchannels whose bit is 1
   stream |-> <<>>,                              \* m_StreamReliable
   sub |-> [k \in Subchannel |-> Free],
   waiting |-> [s \in Streams |-> <<>>],
   receive |-> [s \in Streams |-> NoBuffer]]

Init ==
  /\ setting \in Settings
  /\ chan = [e \in Ends |-> NewChannel]
  /\ net = {}
  /\ accepted = [e \in Ends |-> [s \in Streams |-> 0]]
  /\ delivered = [e \in Ends |-> [s \in Streams |-> <<>>]]

Flip(bits, k) == SymDiff(bits, {k})

-----------------------------------------------------------------------------
(* Sending.                                                                 *)

(* The sum of f over S, counted in pairs, for the proofs: the sums of the   *)
(* library are recursive.                                                   *)
Total(S, f) == Cardinality(UNION {{x} \X (1 .. f[x]) : x \in S})

(* The fragments that messages of end e take when they are put together.   *)
Size(e, ids) == Total(ToSet(ids), setting.todo[e]["normal"])

(* Mistake: the first item takes more messages too.                        *)
CreateFragmentsFromBuffer_First(e, c) ==
  LET list == c.waiting["normal"]
      n == Size(e, c.stream)
      last == Last(list)
      items == IF list # <<>> /\ last.frags + n < MaxPayload
               THEN Append(Front(list), Item(last.ids \o c.stream, last.frags + n))
               ELSE Append(list, Item(c.stream, n))
  IN IF c.stream = <<>> THEN c
     ELSE [c EXCEPT !.waiting["normal"] = items, !.stream = <<>>]

(* The messages of m_StreamReliable become an item of the waiting list, or *)
(* part of its last one, unless that is also the first: it may be on its   *)
(* way already.                                                            *)
CreateFragmentsFromBuffer(e, c) ==
  LET list == c.waiting["normal"]
      n == Size(e, c.stream)
      last == Last(list)
      merges == Len(list) > 1 /\ last.frags + n < MaxPayload
      items == IF merges THEN Append(Front(list), Item(last.ids \o c.stream, last.frags + n))
               ELSE Append(list, Item(c.stream, n))
  IN IF c.stream = <<>> THEN c
     ELSE [c EXCEPT !.waiting["normal"] = items, !.stream = <<>>]

(* Fragments of the stream's first item that are neither sent nor acked.   *)
Unsent(c, s) ==
  IF c.waiting[s] = <<>> THEN 0
  ELSE LET item == Head(c.waiting[s]) IN item.frags - item.acked - item.pending

(* Mistake: the fragments are not noted as on their way.                   *)
UpdateSubChannels_NotPending(c) ==
  LET free == {k \in Subchannel : c.sub[k].state = "free"}
      num == [s \in Streams |-> Min({1, Unsent(c, s)})]
  IN IF free = {} \/ \A s \in Streams : num[s] = 0 THEN c
     ELSE [c EXCEPT
            !.sub[Min(free)] = [state |-> "tosend", seq |-> 0, num |-> num,
                                start |-> [s \in Streams |-> 0]],
            !.outRel = Flip(@, Min(free))]

(* The fragments the next subchannel takes: of the message first, and of    *)
(* the file what still fits.                                                *)
Portion(c) ==
  LET n == Min({setting.max, Unsent(c, "normal")})
  IN [s \in Streams |-> IF s = "normal" THEN n
                        ELSE Min({setting.max - n, setting.fileMax, Unsent(c, s)})]

(* Subchannel k takes num fragments of each stream.                         *)
Fill(c, k, num) ==
  LET start == [s \in Streams |->
        IF num[s] = 0 THEN -1 ELSE Head(c.waiting[s]).acked + Head(c.waiting[s]).pending]
  IN [c EXCEPT
       !.sub[k] = [state |-> "tosend", seq |-> 0, num |-> num, start |-> start],
       !.outRel = Flip(@, k),
       !.waiting = [s \in Streams |->
         IF num[s] = 0 THEN c.waiting[s]
         ELSE [c.waiting[s] EXCEPT ![1].pending = @ + num[s]]]]

(* The first free subchannel is filled if there is anything to send.        *)
UpdateSubChannels(c) ==
  LET free == {k \in Subchannel : c.sub[k].state = "free"}
      num == Portion(c)
  IN IF free = {} \/ \A s \in Streams : num[s] = 0 THEN c ELSE Fill(c, Min(free), num)

(* What the packet says of a stream: which fragments, of which item.       *)
NoFragments == [ids |-> <<>>, frags |-> 0, start |-> -1, num |-> 0]

Fragments(c, k, s) ==
  IF k = 0 \/ c.sub[k].num[s] = 0 THEN NoFragments
  ELSE [ids |-> Head(c.waiting[s]).ids, frags |-> Head(c.waiting[s]).frags,
        start |-> c.sub[k].start[s], num |-> c.sub[k].num[s]]

(* The datagram and the channel after it: the first subchannel that has to *)
(* be sent, or sent again, goes with it.  sub is 0 if there is none.       *)
SendDatagram(e, c) ==
  LET u == UpdateSubChannels(CreateFragmentsFromBuffer(e, c))
      ready == {k \in Subchannel : u.sub[k].state = "tosend"}
      k == IF ready = {} THEN 0 ELSE Min(ready)
  IN [packet |-> [to |-> Peer(e), seq |-> u.outSeq, ack |-> u.inSeq, rel |-> u.inRel, sub |-> k,
                  frag |-> [s \in Streams |-> Fragments(u, k, s)]],
      chan |-> [u EXCEPT !.outSeq = @ + 1,
                         !.sub = IF k = 0 THEN @
                                 ELSE [@ EXCEPT ![k].seq = u.outSeq, ![k].state = "waiting"]]]

-----------------------------------------------------------------------------
(* Receiving.                                                               *)

(* Mistake: the datagram last accepted is accepted again.                  *)
Stale_Older(c, p) == p.seq < c.inSeq

Stale(c, p) == p.seq <= c.inSeq

(* The other end's bit of a subchannel says that it has been read.         *)
Matches(c, p, k) == k \in c.outRel <=> k \in p.rel

(* "reliable state invalid": read, though the last datagram it was sent    *)
(* with is later than all that the other end has seen.                     *)
Invalid(c, p, k) == Matches(c, p, k) /\ c.sub[k].seq > p.ack

(* The subchannels the loop over them gets to.                             *)
Checked(c, p) == {k \in Subchannel : \A j \in 1 .. k : ~Invalid(c, p, j)}

Acked(c, p) == {k \in Checked(c, p) : c.sub[k].state = "waiting" /\ Matches(c, p, k)}

(* Mistake: what the other end may still read is sent again.               *)
Missed_Early(c, p) ==
  {k \in Checked(c, p) : c.sub[k].state = "waiting" /\ ~Matches(c, p, k)}

(* Seen by the other end without reading it: to be sent again.             *)
Missed(c, p) ==
  {k \in Checked(c, p) : /\ c.sub[k].state = "waiting"
                         /\ ~Matches(c, p, k) /\ c.sub[k].seq <= p.ack}

(* How many fragments of a stream the subchannels carry.                    *)
Carried(c, s) == [k \in Subchannel |-> c.sub[k].num[s]]

Count(c, p, s) == Total(Acked(c, p), Carried(c, s))

ReadAcks(c, p) ==
  [c EXCEPT
    !.sub = [k \in Subchannel |->
      IF k \in Acked(c, p) THEN Free
      ELSE IF k \in Missed(c, p) THEN [c.sub[k] EXCEPT !.state = "tosend"] ELSE c.sub[k]],
    !.waiting = [s \in Streams |->
      IF Count(c, p, s) = 0 THEN c.waiting[s]
      ELSE [c.waiting[s] EXCEPT ![1].acked = @ + Count(c, p, s),
                                ![1].pending = @ - Count(c, p, s)]]]

(* A first item that is acknowledged as a whole leaves the waiting list.   *)
CheckWaitingList(c, s) ==
  IF c.waiting[s] # <<>> /\ c.outAck > 0 /\ Head(c.waiting[s]).acked = Head(c.waiting[s]).frags
  THEN Tail(c.waiting[s]) ELSE c.waiting[s]

ProcessPacketHeader(c, p) ==
  LET d == [ReadAcks(c, p) EXCEPT !.inSeq = p.seq, !.outAck = p.ack]
  IN [d EXCEPT !.waiting = [s \in Streams |-> CheckWaitingList(d, s)]]

(* The receive list after the fragments f were read into it, and whether   *)
(* they could be: the first fragment brings the buffer, the others need it.*)
ReadSubChannelData(list, f) ==
  LET opened == [open |-> TRUE, ids |-> f.ids, frags |-> f.frags, acked |-> 0,
                 data |-> [i \in 1 .. f.frags |-> <<>>]]
      l == IF f.start = 0 THEN opened ELSE list
      fits == l.open /\ f.start + f.num <= l.frags
      place == f.start + 1 .. f.start + f.num
  IN IF f.num = 0 THEN [ok |-> TRUE, list |-> list]
     ELSE IF ~fits THEN [ok |-> FALSE, list |-> l]
     ELSE [ok |-> TRUE,
           list |-> [l EXCEPT !.acked = @ + f.num,
                              !.data = [i \in DOMAIN @ |-> IF i \in place THEN f.ids ELSE @[i]]]]

(* All fragments were counted: the messages go to Lua as the buffer has    *)
(* them, Corrupt if some of it was never written.                          *)
Corrupt == 0

Complete(list) == list.open /\ list.acked = list.frags
TooMany(list) == list.open /\ list.acked > list.frags

Content(list) ==
  IF \A i \in DOMAIN list.data : list.data[i] = list.ids THEN list.ids ELSE <<Corrupt>>

(* The streams CheckReceivingList is called for: the file's only if the    *)
(* message's did not fail.                                                 *)
Finished(receive) ==
  {s \in Streams : Complete(receive[s]) /\ (s = "file" => ~TooMany(receive["normal"]))}

Nothing(c) == [chan |-> c, out |-> [s \in Streams |-> <<>>]]

(* Mistake: the bit is flipped before the fragments are read.              *)
Receive_FlipFirst(c, p) ==
  LET n == ReadSubChannelData(c.receive["normal"], p.frag["normal"])
      f == ReadSubChannelData(c.receive["file"], p.frag["file"])
      lists == [s \in Streams |-> IF s = "normal" THEN n.list ELSE f.list]
      done == IF p.sub # 0 /\ n.ok /\ f.ok THEN Finished(lists) ELSE {}
  IN [chan |-> [c EXCEPT !.receive = [s \in Streams |-> IF s \in done THEN NoBuffer ELSE lists[s]],
                         !.inRel = IF p.sub # 0 THEN Flip(@, p.sub) ELSE @],
      out |-> [s \in Streams |-> IF s \in done THEN Content(lists[s]) ELSE <<>>]]

(* ProcessPacket after the header: fragments that cannot be read drop the  *)
(* packet where they are met, only a packet read whole flips the bit.      *)
Receive(c, p) ==
  LET n == ReadSubChannelData(c.receive["normal"], p.frag["normal"])
      f == IF n.ok THEN ReadSubChannelData(c.receive["file"], p.frag["file"])
           ELSE [ok |-> FALSE, list |-> c.receive["file"]]
      lists == [s \in Streams |-> IF s = "normal" THEN n.list ELSE f.list]
      done == IF p.sub # 0 /\ f.ok THEN Finished(lists) ELSE {}
  IN [chan |-> [c EXCEPT !.receive = [s \in Streams |-> IF s \in done THEN NoBuffer ELSE lists[s]],
                         !.inRel = IF p.sub # 0 /\ f.ok THEN Flip(@, p.sub) ELSE @],
      out |-> [s \in Streams |-> IF s \in done THEN Content(lists[s]) ELSE <<>>]]

-----------------------------------------------------------------------------
(* The steps of an end.                                                     *)

(* channel:SendMessage, reliable.                                          *)
SendMessage(e) ==
  LET i == accepted[e]["normal"] + 1 IN
  /\ i <= Len(setting.todo[e]["normal"])
  /\ accepted' = [accepted EXCEPT ![e]["normal"] = i]
  /\ chan' = [chan EXCEPT ![e].stream = Append(@, i)]
  /\ UNCHANGED <<setting, net, delivered>>

(* channel:SendFile of a file that is not in the waiting list yet.         *)
SendFile(e) ==
  LET i == accepted[e]["file"] + 1 IN
  /\ i <= Len(setting.todo[e]["file"])
  /\ accepted' = [accepted EXCEPT ![e]["file"] = i]
  /\ chan' = [chan EXCEPT ![e].waiting["file"] = Append(@, Item(<<i>>, setting.todo[e]["file"][i]))]
  /\ UNCHANGED <<setting, net, delivered>>

(* channel:Transmit: a datagram goes out whether or not there is data.     *)
Transmit(e) ==
  LET sent == SendDatagram(e, chan[e]) IN
  /\ chan[e].outSeq <= setting.sends[e]
  /\ chan' = [chan EXCEPT ![e] = sent.chan]
  /\ net' = net \union {sent.packet}
  /\ UNCHANGED <<setting, accepted, delivered>>

(* A datagram is read: the header, the PacketStart callback, which may     *)
(* transmit, and the fragments.  A header refused halfway ends it there.   *)
ProcessPacket(e, p, transmits) ==
  LET refused == \E k \in Subchannel : Invalid(chan[e], p, k)
      header == ProcessPacketHeader(chan[e], p)
      sent == SendDatagram(e, header)
      read == IF refused THEN Nothing(ReadAcks(chan[e], p))
              ELSE Receive(IF transmits THEN sent.chan ELSE header, p)
  IN /\ p.to = e /\ ~Stale(chan[e], p)
     /\ transmits => ~refused /\ header.outSeq <= setting.sends[e]
     /\ net' = IF transmits THEN net \union {sent.packet} ELSE net
     /\ chan' = [chan EXCEPT ![e] = read.chan]
     /\ delivered' = [delivered EXCEPT ![e] = [s \in Streams |-> @[s] \o read.out[s]]]
     /\ UNCHANGED <<setting, accepted>>

Next ==
  \E e \in Ends :
    \/ SendMessage(e) \/ SendFile(e) \/ Transmit(e)
    \/ \E p \in net, transmits \in {FALSE} \union {e \in Transmitters} :
         ProcessPacket(e, p, transmits)

Spec == Init /\ [][Next]_vars

-----------------------------------------------------------------------------
(* Properties.                                                              *)

(* Every field of a channel, a packet and the histories has its type.      *)
Ids == Seq(Nat \ {0})
ItemType == [ids : Ids, frags : Nat \ {0}, acked : Nat, pending : Nat]
SubType == [state : {"free", "tosend", "waiting"}, seq : Int,
            start : [Streams -> Int], num : [Streams -> Nat]]
ListType == [open : BOOLEAN, ids : Ids, frags : Nat, acked : Nat, data : Seq(Ids)]
ChannelType ==
  [outSeq : Nat, inSeq : Nat, outAck : Nat, outRel : SUBSET Subchannel, inRel : SUBSET Subchannel,
   stream : Ids, sub : [Subchannel -> SubType], waiting : [Streams -> Seq(ItemType)],
   receive : [Streams -> ListType]]
FragmentsType == [ids : Ids, frags : Nat, start : Int, num : Nat]
PacketType ==
  [to : Ends, seq : Nat, ack : Nat, rel : SUBSET Subchannel, sub : 0 .. NSubchannels,
   frag : [Streams -> FragmentsType]]

TypeOK ==
  /\ setting \in Settings
  /\ chan \in [Ends -> ChannelType]
  /\ \A p \in net : p \in PacketType
  /\ accepted \in [Ends -> [Streams -> Nat]]
  /\ delivered \in [Ends -> [Streams -> Seq(Nat)]]

(* On every stream the messages come out whole, in the order they were     *)
(* sent and once each, whatever the datagrams went through.                *)
Fifo == INSTANCE FifoChannel
FifoSpec == Fifo!Spec

(* The assertion of ProcessPacketHeader that no datagram claims to have    *)
(* read what the other end had not seen when it was sent.                  *)
HeaderValid ==
  \A p \in net : ~Stale(chan[p.to], p) => \A k \in Subchannel : ~Invalid(chan[p.to], p, k)

(* What an end still has of a stream's messages. *)
Kept(e, s) ==
  (UNION {ToSet(item.ids) : item \in ToSet(chan[e].waiting[s])})
    \union (IF s = "normal" THEN ToSet(chan[e].stream) ELSE {})

(* The sender forgets a message, and frees its buffer or closes its file,  *)
(* only when the other end has delivered it.                               *)
AckedIsDelivered ==
  \A e \in Ends, s \in Streams :
    \A i \in 1 .. accepted[e][s] : i \in Kept(e, s) \/ i \in ToSet(delivered[Peer(e)][s])

(* The subchannels in use that the other end has not read. *)
Unread(e) ==
  {k \in Subchannel : /\ chan[e].sub[k].state # "free"
                      /\ ~(k \in chan[e].outRel <=> k \in chan[Peer(e)].inRel)}

(* Only a subchannel that was not read is sent again: read twice, its bit  *)
(* would be wrong and its fragments would count twice.                     *)
ResendOnlyLost ==
  \A e \in Ends, k \in Subchannel :
    chan[e].sub[k].state = "tosend" => k \in Unread(e)

(* What is left of a transfer can still be received: the first fragment is *)
(* yet to be read, or the other end has the transfer's buffer and misses   *)
(* exactly the fragments that it has not read.  Otherwise a retry finds no *)
(* buffer, or counts a fragment twice, and the stream never ends.          *)
RetryCanSucceed ==
  \A e \in Ends, s \in Streams :
    chan[e].waiting[s] # <<>> =>
      LET item == Head(chan[e].waiting[s])
          list == chan[Peer(e)].receive[s]
          left == Unsent(chan[e], s)
                    + Total(Unread(e), Carried(chan[e], s))
      IN \/ left \in {0, item.frags} /\ ~list.open
         \/ \E k \in Unread(e) : chan[e].sub[k].start[s] = 0
         \/ list.open /\ list.ids = item.ids /\ list.acked + left = item.frags
=============================================================================
