------------------------ MODULE NetworkThread_proofs ------------------------
(***************************************************************************)
(* Proofs about NetworkThread, for any number of packets, addresses and    *)
(* rotations of the nonce, and whether or not the engine functions that    *)
(* the thread needs were found.                                            *)
(***************************************************************************)
EXTENDS NetworkThread, TLAPS

-----------------------------------------------------------------------------
(* One receiver.                                                           *)

(* While the thread is alive its handle is kept and its state is not that  *)
(* of a stopped thread, so neither the engine's own receive loop nor the   *)
(* release of the handle can meet it.                                      *)
AliveIsHeld ==
  threadAt \notin Idle =>
    handle /\ threadState # "NOTRUNNING" /\ mainAt \notin {"direct", "release"}

ReceiverInv == AliveIsHeld /\ resume \in {"frame", "activate"}

LEMMA ReceiverInit == Init => ReceiverInv
  BY DEF Init, ReceiverInv, AliveIsHeld, Idle

(* The thread's own steps: it was alive, and stays so or says that it ended. *)
LEMMA ReceiverThread == ReceiverInv /\ ThreadStep => ReceiverInv'
<1> SUFFICES ASSUME ReceiverInv, ThreadStep PROVE ReceiverInv'
  OBVIOUS
<1>1. threadAt \notin Idle
  BY DEF ThreadStep, ThreadStart, ThreadLoop, SocketEmpty, Receive, CheckCurrent, CheckLast,
         HandleNow, Discard, Copy, Enqueue, ThreadExit, Idle
<1>2. handle' = handle /\ mainAt' = mainAt /\ resume' = resume
  BY DEF ThreadStep, ThreadStart, ThreadLoop, SocketEmpty, Receive, CheckCurrent, CheckLast,
         HandleNow, Discard, Copy, Enqueue, ThreadExit, ThreadMoves, Accept
<1>3. threadState' = threadState \/ threadAt' = "dead"
  BY DEF ThreadStep, ThreadStart, ThreadLoop, SocketEmpty, Receive, CheckCurrent, CheckLast,
         HandleNow, Discard, Copy, Enqueue, ThreadExit, ThreadMoves, Accept
<1> QED
  BY <1>1, <1>2, <1>3 DEF ReceiverInv, AliveIsHeld, Idle

LEMMA ReceiverMain == ReceiverInv /\ MainStep => ReceiverInv'
<1> SUFFICES ASSUME ReceiverInv, MainStep PROVE ReceiverInv'
  OBVIOUS
<1> USE DEF ReceiverInv, AliveIsHeld, Idle, threadVars
<1>1. CASE ReceiveDirectly
  BY <1>1 DEF ReceiveDirectly
<1>2. CASE ProcessQueued
  BY <1>2 DEF ProcessQueued
<1>3. CASE StoreCurrent
  BY <1>3 DEF StoreCurrent
<1>4. CASE StoreLast
  BY <1>4 DEF StoreLast
<1>5. CASE StartThread
  BY <1>5 DEF StartThread
<1>6. CASE CheckThread
  BY <1>6 DEF CheckThread
<1>7. CASE StopThread
  BY <1>7 DEF StopThread
<1>8. CASE SpinUntilStopped
  BY <1>8 DEF SpinUntilStopped
<1>9. CASE ReleaseThread
  BY <1>9 DEF ReleaseThread
<1> QED
  BY <1>1, <1>2, <1>3, <1>4, <1>5, <1>6, <1>7, <1>8, <1>9 DEF MainStep

LEMMA ReceiverRest ==
  ReceiverInv /\ (Environment \/ ProcessSocket \/ UNCHANGED vars) => ReceiverInv'
<1> USE DEF ReceiverInv, AliveIsHeld, Idle, threadVars
<1>1. ReceiverInv /\ Environment => ReceiverInv'
  BY DEF Environment, Arrive, ToggleChannel, RotateNonce, Think, ServerActivate, LevelShutdown
<1>2. ReceiverInv /\ ProcessSocket => ReceiverInv'
  BY DEF ProcessSocket
<1>3. ReceiverInv /\ UNCHANGED vars => ReceiverInv'
  BY DEF vars
<1> QED
  BY <1>1, <1>2, <1>3

(* The engine's own loop never receives from the socket while the network  *)
(* thread may (hook_NET_ProcessSocket trusts a state that the thread       *)
(* itself and both ends of a level write).                                 *)
THEOREM OneReceiverAtATime == Spec => []OneReceiver
<1>1. ReceiverInv /\ [Next]_vars => ReceiverInv'
  BY ReceiverThread, ReceiverMain, ReceiverRest DEF Next
<1>2. ReceiverInv => OneReceiver
  BY DEF ReceiverInv, AliveIsHeld, OneReceiver
<1> QED
  BY ReceiverInit, <1>1, <1>2, PTL DEF Spec

-----------------------------------------------------------------------------
(* Types.                                                                  *)

(* Past the receipt the thread has a packet.                               *)
HasPacket == threadAt \in {"current", "last", "route", "queue"} => packet \in Packet

TypeInv == TypeOK /\ HasPacket

LEMMA SequenceSteps ==
  ASSUME NEW S, NEW q \in Seq(S)
  PROVE  /\ q # <<>> => Head(q) \in S /\ Tail(q) \in Seq(S)
         /\ \A x \in S : Append(q, x) \in Seq(S)
  OBVIOUS

LEMMA EmptySequence == \A S : <<>> \in Seq(S)
  OBVIOUS

LEMMA TypeInit == Init => TypeInv
<1> SUFFICES ASSUME Init PROVE TypeInv
  OBVIOUS
<1>1. <<>> \in Seq(Packet) /\ <<>> \in Seq(1 .. MaxPackets)
  BY EmptySequence
<1>2. 0 \in 0 .. MaxPackets /\ 0 \in 0 .. MaxNonce
  BY BoundAssumption
<1> QED
  BY <1>1, <1>2 DEF Init, TypeInv, TypeOK, HasPacket

LEMMA TypeEnvironment == TypeInv /\ Environment => TypeInv'
<1> SUFFICES ASSUME TypeInv, Environment PROVE TypeInv'
  OBVIOUS
<1> USE BoundAssumption DEF TypeInv, TypeOK, HasPacket, threadVars, network, challenge
<1>1. ASSUME NEW a \in Addr, NEW k \in {"query", "channel"}, NEW n \in 0 .. MaxNonce,
             Arrive(a, k, n)
      PROVE  TypeInv'
  <2> DEFINE p == [serial |-> arrived + 1, from |-> a, kind |-> k, nonce |-> n]
  <2>1. p \in Packet
    BY <1>1 DEF Arrive, Packet
  <2> HIDE DEF p
  <2>2. socket' \in Seq(Packet) /\ arrived' \in 0 .. MaxPackets
    BY <1>1, <2>1 DEF Arrive, p
  <2> QED
    BY <1>1, <2>2 DEF Arrive
<1>2. ASSUME NEW a \in Addr, ToggleChannel(a) PROVE TypeInv'
  BY <1>2 DEF ToggleChannel
<1>3. CASE RotateNonce
  BY <1>3 DEF RotateNonce
<1>4. CASE Think
  BY <1>4 DEF Think
<1>5. CASE ServerActivate
  BY <1>5 DEF ServerActivate
<1>6. CASE LevelShutdown
  BY <1>6 DEF LevelShutdown
<1> QED
  BY <1>1, <1>2, <1>3, <1>4, <1>5, <1>6 DEF Environment

(* A packet handled is one of those that arrived.                          *)
LEMMA HandledType ==
  ASSUME TypeInv, NEW p \in Packet PROVE Append(handled, p.serial) \in Seq(1 .. MaxPackets)
<1>1. p.serial \in 1 .. MaxPackets
  BY DEF Packet
<1> QED
  BY <1>1 DEF TypeInv, TypeOK

LEMMA TypeMain == TypeInv /\ (MainStep \/ ProcessSocket) => TypeInv'
<1> SUFFICES ASSUME TypeInv, MainStep \/ ProcessSocket PROVE TypeInv'
  OBVIOUS
<1> USE BoundAssumption DEF TypeInv, TypeOK, HasPacket, threadVars, network, challenge
<1>1. CASE ReceiveDirectly
  <2>1. CASE socket = <<>>
    BY <1>1, <2>1 DEF ReceiveDirectly
  <2>2. CASE socket # <<>>
    <3>1. Head(socket) \in Packet /\ Tail(socket) \in Seq(Packet)
      BY <2>2, SequenceSteps
    <3>2. handled' \in Seq(1 .. MaxPackets)
      BY <1>1, <2>2, <3>1, HandledType DEF ReceiveDirectly
    <3> QED
      BY <1>1, <2>2, <3>1, <3>2 DEF ReceiveDirectly
  <2> QED
    BY <2>1, <2>2
<1>2. CASE ProcessQueued
  <2>1. CASE batch = <<>>
    BY <1>2, <2>1 DEF ProcessQueued
  <2>2. CASE batch # <<>>
    <3>1. Head(batch) \in Packet /\ Tail(batch) \in Seq(Packet)
      BY <2>2, SequenceSteps
    <3>2. handled' \in Seq(1 .. MaxPackets)
      BY <1>2, <2>2, <3>1, HandledType DEF ProcessQueued
    <3> QED
      BY <1>2, <2>2, <3>1, <3>2 DEF ProcessQueued
  <2> QED
    BY <2>1, <2>2
<1>3. CASE StoreCurrent
  BY <1>3 DEF StoreCurrent
<1>4. CASE StoreLast
  <2>1. last' \in 0 .. MaxNonce
    BY <1>4 DEF StoreLast
  <2> QED
    BY <1>4, <2>1 DEF StoreLast
<1>5. CASE StartThread
  BY <1>5 DEF StartThread
<1>6. CASE CheckThread
  BY <1>6 DEF CheckThread
<1>7. CASE StopThread
  BY <1>7 DEF StopThread
<1>8. CASE SpinUntilStopped
  BY <1>8 DEF SpinUntilStopped
<1>9. CASE ReleaseThread
  BY <1>9 DEF ReleaseThread
<1>10. CASE ProcessSocket
  BY <1>10, EmptySequence DEF ProcessSocket
<1> QED
  BY <1>1, <1>2, <1>3, <1>4, <1>5, <1>6, <1>7, <1>8, <1>9, <1>10 DEF MainStep

LEMMA TypeThread == TypeInv /\ ThreadStep => TypeInv'
<1> SUFFICES ASSUME TypeInv, ThreadStep PROVE TypeInv'
  OBVIOUS
<1> USE BoundAssumption DEF TypeInv, TypeOK, HasPacket, network, challenge, ThreadMoves
<1>1. CASE ThreadStart
  BY <1>1 DEF ThreadStart
<1>2. CASE ThreadLoop
  BY <1>2 DEF ThreadLoop
<1>3. CASE SocketEmpty
  BY <1>3 DEF SocketEmpty
<1>4. CASE Receive
  <2>1. Head(socket) \in Packet /\ Tail(socket) \in Seq(Packet)
    BY <1>4, SequenceSteps DEF Receive
  <2> QED
    BY <1>4, <2>1 DEF Receive
<1>5. ASSUME packet \in Packet, Accept PROVE TypeInv'
  <2>1. packet.nonce \in 0 .. MaxNonce
    BY <1>5 DEF Packet
  <2>2. accepted' \in 0 .. MaxNonce
    BY <1>5, <2>1 DEF Accept
  <2> QED
    BY <1>5, <2>2 DEF Accept
<1>6. CASE CheckCurrent
  BY <1>5, <1>6 DEF CheckCurrent
<1>7. CASE CheckLast
  BY <1>5, <1>7 DEF CheckLast
<1>8. CASE HandleNow
  <2>1. handled' \in Seq(1 .. MaxPackets)
    BY <1>8, HandledType DEF HandleNow
  <2> QED
    BY <1>8, <2>1 DEF HandleNow
<1>9. CASE Discard
  BY <1>9 DEF Discard
<1>10. CASE Copy
  BY <1>10 DEF Copy
<1>11. CASE Enqueue
  <2>1. queue' \in Seq(Packet)
    BY <1>11, SequenceSteps DEF Enqueue
  <2> QED
    BY <1>11, <2>1 DEF Enqueue
<1>12. CASE ThreadExit
  BY <1>12 DEF ThreadExit
<1> QED
  BY <1>1, <1>2, <1>3, <1>4, <1>6, <1>7, <1>8, <1>9, <1>10, <1>11, <1>12 DEF ThreadStep

LEMMA TypeStep == TypeInv /\ [Next]_vars => TypeInv'
<1>1. TypeInv /\ UNCHANGED vars => TypeInv'
  BY DEF TypeInv, TypeOK, HasPacket, vars, network, threadVars, challenge
<1> QED
  BY <1>1, TypeEnvironment, TypeMain, TypeThread DEF Next

(* The variables of the socket, the two threads and the nonces keep their  *)
(* types.                                                                  *)
THEOREM TypeCorrect == Spec => []TypeOK
<1>1. TypeInv => TypeOK
  BY DEF TypeInv
<1> QED
  BY TypeInit, TypeStep, <1>1, PTL DEF Spec

-----------------------------------------------------------------------------
(* The age of an accepted challenge.                                       *)

(* How far the published nonces lag behind the engine's: the current one   *)
(* by at most one rotation, the one before it by one more, and less when   *)
(* the main thread has published since.                                    *)
Lag ==
  /\ nonce <= current + 1 /\ nonce <= last + 2
  /\ ~rotated => nonce = current /\ nonce <= last + 1
  /\ mainAt = "last" => nonce = current

AgeInv == Lag /\ accepted <= 2

LEMMA AgeInit == Init => AgeInv
  BY DEF Init, AgeInv, Lag

LEMMA AgeThread == TypeInv /\ AgeInv /\ ThreadStep => AgeInv'
<1> SUFFICES ASSUME TypeInv, AgeInv, ThreadStep PROVE AgeInv'
  OBVIOUS
<1>1. mainAt' = mainAt /\ challenge' = challenge
  BY DEF ThreadStep, ThreadStart, ThreadLoop, SocketEmpty, Receive, CheckCurrent, CheckLast,
         HandleNow, Discard, Copy, Enqueue, ThreadExit, ThreadMoves, Accept
<1>2. Lag'
  BY <1>1 DEF AgeInv, Lag, challenge
<1>3. \/ accepted' = accepted
      \/ packet \in Packet /\ packet.nonce \in {current, last} /\ Accept
  BY DEF ThreadStep, ThreadStart, ThreadLoop, SocketEmpty, Receive, CheckCurrent, CheckLast,
         HandleNow, Discard, Copy, Enqueue, ThreadExit, ThreadMoves, TypeInv, HasPacket
<1>4. ASSUME packet.nonce \in {current, last}, Accept PROVE accepted' <= 2
  BY <1>4 DEF Accept, AgeInv, Lag, TypeInv, TypeOK
<1> QED
  BY <1>2, <1>3, <1>4 DEF AgeInv

LEMMA AgeStep == TypeInv /\ AgeInv /\ [Next]_vars => AgeInv'
<1> SUFFICES ASSUME TypeInv, AgeInv, [Next]_vars PROVE AgeInv'
  OBVIOUS
<1>0. {nonce, current, last} \subseteq Nat /\ resume # "last"
  BY BoundAssumption DEF TypeInv, TypeOK
<1> DEFINE Elsewhere == /\ UNCHANGED <<challenge, accepted>>
                        /\ mainAt' = mainAt \/ mainAt' # "last"
<1>1. CASE RotateNonce
  BY <1>0, <1>1 DEF RotateNonce, AgeInv, Lag
<1>2. CASE StoreCurrent
  BY <1>0, <1>2 DEF StoreCurrent, AgeInv, Lag
<1>3. CASE StoreLast
  BY <1>0, <1>3 DEF StoreLast, AgeInv, Lag
<1>4. CASE Elsewhere
  BY <1>4 DEF challenge, AgeInv, Lag
<1>5. Environment => RotateNonce \/ Elsewhere
  BY DEF Environment, Arrive, ToggleChannel, Think, ServerActivate, LevelShutdown
<1>6. MainStep \/ ProcessSocket => StoreCurrent \/ StoreLast \/ Elsewhere
  BY DEF MainStep, ReceiveDirectly, ProcessQueued, StartThread, CheckThread, StopThread,
         SpinUntilStopped, ReleaseThread, ProcessSocket
<1>7. UNCHANGED vars => Elsewhere
  BY DEF vars
<1> HIDE DEF Elsewhere
<1> QED
  BY <1>1, <1>2, <1>3, <1>4, <1>5, <1>6, <1>7, AgeThread DEF Next

(* A challenge is good for two rotations of the nonce and no longer,       *)
(* although IsValidChallenge reads the two published nonces one by one     *)
(* while Think writes them one by one.                                     *)
THEOREM OnlyRecentChallenges == Spec => []AcceptedIsRecent
<1>1. AgeInv => AcceptedIsRecent
  BY DEF AgeInv, AcceptedIsRecent
<1> QED
  BY TypeInit, TypeStep, AgeInit, AgeStep, <1>1, PTL DEF Spec

-----------------------------------------------------------------------------
(* Every packet is in one place.                                           *)

SerialsOf(q) == {q[i].serial : i \in 1 .. Len(q)}
Distinct(q) == \A i, j \in 1 .. Len(q) : i # j => q[i].serial # q[j].serial
Handled == {handled[i] : i \in 1 .. Len(handled)}
Held == IF threadAt \in {"current", "last", "route", "queue"} THEN {packet.serial} ELSE {}

Disjoint(A, B) == A \cap B = {}

(* The socket, the queue, the batch, the thread's hands and the history    *)
(* share no packet, none holds one twice, and none that is yet to come.    *)
Once ==
  /\ Distinct(socket) /\ Distinct(queue) /\ Distinct(batch) /\ HandledOnce
  /\ \A n \in SerialsOf(socket) \cup SerialsOf(queue) \cup SerialsOf(batch) \cup Held \cup Handled :
       n \in 1 .. arrived
  /\ Disjoint(SerialsOf(socket), SerialsOf(queue) \cup SerialsOf(batch) \cup Held \cup Handled)
  /\ Disjoint(SerialsOf(queue), SerialsOf(batch) \cup Held \cup Handled)
  /\ Disjoint(SerialsOf(batch), Held \cup Handled)
  /\ Disjoint(Held, Handled)

LEMMA SerialsTail ==
  ASSUME NEW S, NEW q \in Seq(S), q # <<>>, Distinct(q)
  PROVE  /\ SerialsOf(q) = SerialsOf(Tail(q)) \cup {Head(q).serial}
         /\ Head(q).serial \notin SerialsOf(Tail(q))
         /\ Distinct(Tail(q))
<1>1. /\ Len(q) \in Nat /\ Len(q) >= 1 /\ Len(Tail(q)) = Len(q) - 1 /\ Head(q) = q[1]
      /\ \A i \in 1 .. Len(Tail(q)) : Tail(q)[i] = q[i + 1]
  OBVIOUS
<1>2. SerialsOf(q) \subseteq SerialsOf(Tail(q)) \cup {Head(q).serial}
  <2> SUFFICES ASSUME NEW i \in 1 .. Len(q)
               PROVE  q[i].serial \in SerialsOf(Tail(q)) \cup {Head(q).serial}
    BY DEF SerialsOf
  <2>1. CASE i = 1
    BY <1>1, <2>1
  <2>2. CASE i # 1
    <3>1. i - 1 \in 1 .. Len(Tail(q)) /\ Tail(q)[i - 1] = q[i]
      BY <1>1, <2>2
    <3> QED
      BY <3>1 DEF SerialsOf
  <2> QED
    BY <2>1, <2>2
<1>3. SerialsOf(Tail(q)) \cup {Head(q).serial} \subseteq SerialsOf(q)
  BY <1>1 DEF SerialsOf
<1>4. Head(q).serial \notin SerialsOf(Tail(q))
  BY <1>1 DEF SerialsOf, Distinct
<1>5. Distinct(Tail(q))
  BY <1>1 DEF Distinct
<1> QED
  BY <1>2, <1>3, <1>4, <1>5

LEMMA SerialsAppend ==
  ASSUME NEW S, NEW q \in Seq(S), NEW p \in S, Distinct(q), p.serial \notin SerialsOf(q)
  PROVE  /\ SerialsOf(Append(q, p)) = SerialsOf(q) \cup {p.serial}
         /\ Distinct(Append(q, p))
<1>1. /\ Len(q) \in Nat /\ Len(Append(q, p)) = Len(q) + 1
      /\ Append(q, p)[Len(q) + 1] = p
      /\ \A i \in 1 .. Len(q) : Append(q, p)[i] = q[i]
  OBVIOUS
<1>2. SerialsOf(Append(q, p)) = SerialsOf(q) \cup {p.serial}
  BY <1>1 DEF SerialsOf
<1>3. Distinct(Append(q, p))
  BY <1>1 DEF SerialsOf, Distinct
<1> QED
  BY <1>2, <1>3

LEMMA HandledAppend ==
  ASSUME TypeOK, HandledOnce, NEW n \in 1 .. MaxPackets, n \notin Handled,
         handled' = Append(handled, n)
  PROVE  Handled' = Handled \cup {n} /\ HandledOnce'
<1>1. /\ Len(handled) \in Nat /\ Len(handled') = Len(handled) + 1
      /\ handled'[Len(handled) + 1] = n
      /\ \A i \in 1 .. Len(handled) : handled'[i] = handled[i]
  BY DEF TypeOK
<1>2. Handled' = Handled \cup {n}
  BY <1>1 DEF Handled
<1>3. HandledOnce'
  BY <1>1 DEF Handled, HandledOnce
<1> QED
  BY <1>2, <1>3

LEMMA OnceInit == Init => Once
  BY DEF Init, Once, Distinct, SerialsOf, Handled, Held, HandledOnce, Disjoint

(* A step that moves nothing, or only lets go of what the thread holds.    *)
LEMMA OnceKept ==
  ASSUME Once, UNCHANGED <<socket, arrived, queue, batch, handled>>, Held' \subseteq Held
  PROVE  Once'
<1>1. /\ SerialsOf(socket)' = SerialsOf(socket) /\ SerialsOf(queue)' = SerialsOf(queue)
      /\ SerialsOf(batch)' = SerialsOf(batch) /\ Handled' = Handled
  BY DEF SerialsOf, Handled
<1>2. /\ Distinct(socket)' = Distinct(socket) /\ Distinct(queue)' = Distinct(queue)
      /\ Distinct(batch)' = Distinct(batch) /\ HandledOnce' = HandledOnce
  BY DEF Distinct, HandledOnce
<1> QED
  BY <1>1, <1>2 DEF Once, Disjoint

LEMMA OnceArrive ==
  ASSUME TypeInv, Once, NEW a \in Addr, NEW k \in {"query", "channel"},
         NEW n \in 0 .. MaxNonce, Arrive(a, k, n)
  PROVE  Once'
<1> DEFINE p == [serial |-> arrived + 1, from |-> a, kind |-> k, nonce |-> n]
<1>1. arrived \in Nat /\ arrived' = arrived + 1 /\ p.serial = arrived'
  BY BoundAssumption DEF Arrive, TypeInv, TypeOK
<1>2. p \in Packet /\ socket \in Seq(Packet) /\ socket' = Append(socket, p)
  BY BoundAssumption DEF Arrive, Packet, TypeInv, TypeOK
<1>3. p.serial \notin SerialsOf(socket) \cup SerialsOf(queue) \cup SerialsOf(batch) \cup Held
                      \cup Handled
  BY <1>1 DEF Once
<1> HIDE DEF p
<1>4. SerialsOf(socket)' = SerialsOf(socket) \cup {p.serial} /\ Distinct(socket)'
  BY <1>2, <1>3, SerialsAppend DEF Once
<1>5. UNCHANGED <<SerialsOf(queue), SerialsOf(batch), Held, Handled, Distinct(queue),
                  Distinct(batch), HandledOnce>>
  BY DEF Arrive, SerialsOf, Held, Handled, Distinct, HandledOnce, threadVars
<1>6. p.serial \in 1 .. arrived' /\ \A m \in 1 .. arrived : m \in 1 .. arrived'
  BY <1>1
<1> QED
  BY <1>3, <1>4, <1>5, <1>6 DEF Once, Disjoint

(* The engine's loop: the first packet is handled or dropped.              *)
LEMMA OnceReceiveDirectly ==
  ASSUME TypeInv, Once, ReceiveDirectly PROVE Once'
<1>1. CASE socket = <<>>
  BY <1>1, OnceKept DEF ReceiveDirectly, Held, threadVars
<1>2. CASE socket # <<>>
  <2> DEFINE n == Head(socket).serial
  <2>1. socket' = Tail(socket) /\ Head(socket) \in Packet /\ socket \in Seq(Packet)
    BY <1>2, SequenceSteps DEF ReceiveDirectly, TypeInv, TypeOK
  <2>2. /\ SerialsOf(socket) = SerialsOf(socket)' \cup {n} /\ n \notin SerialsOf(socket)'
        /\ Distinct(socket)'
    BY <1>2, <2>1, SerialsTail DEF Once
  <2>3. UNCHANGED <<arrived, SerialsOf(queue), SerialsOf(batch), Held, Distinct(queue),
                    Distinct(batch)>>
    BY DEF ReceiveDirectly, SerialsOf, Held, Distinct, threadVars
  <2>4. Handled' \subseteq Handled \cup {n} /\ HandledOnce'
    <3>1. CASE handled' = handled
      BY <3>1 DEF Handled, HandledOnce, Once
    <3>2. CASE handled' = Append(handled, n)
      <4>1. n \in 1 .. MaxPackets
        BY <2>1 DEF Packet
      <4>2. n \notin Handled
        BY <2>2 DEF Once, Disjoint
      <4> HIDE DEF n
      <4> QED
        BY <3>2, <4>1, <4>2, HandledAppend DEF Once, TypeInv
    <3> QED
      BY <1>2, <3>1, <3>2 DEF ReceiveDirectly
  <2> HIDE DEF n
  <2> QED
    BY <2>2, <2>3, <2>4 DEF Once, Disjoint
<1> QED
  BY <1>1, <1>2

LEMMA OnceProcessQueued ==
  ASSUME TypeInv, Once, ProcessQueued PROVE Once'
<1>1. CASE batch = <<>>
  BY <1>1, OnceKept DEF ProcessQueued, Held, threadVars, network
<1>2. CASE batch # <<>>
  <2> DEFINE n == Head(batch).serial
  <2>1. batch' = Tail(batch) /\ Head(batch) \in Packet /\ batch \in Seq(Packet)
    BY <1>2, SequenceSteps DEF ProcessQueued, TypeInv, TypeOK
  <2>2. /\ SerialsOf(batch) = SerialsOf(batch)' \cup {n} /\ n \notin SerialsOf(batch)'
        /\ Distinct(batch)'
    BY <1>2, <2>1, SerialsTail DEF Once
  <2>3. UNCHANGED <<arrived, SerialsOf(queue), SerialsOf(socket), Held, Distinct(queue),
                    Distinct(socket)>>
    BY DEF ProcessQueued, SerialsOf, Held, Distinct, threadVars, network
  <2>4. Handled' \subseteq Handled \cup {n} /\ HandledOnce'
    <3>1. CASE handled' = handled
      BY <3>1 DEF Handled, HandledOnce, Once
    <3>2. CASE handled' = Append(handled, n)
      <4>1. n \in 1 .. MaxPackets
        BY <2>1 DEF Packet
      <4>2. n \notin Handled
        BY <2>2 DEF Once, Disjoint
      <4> HIDE DEF n
      <4> QED
        BY <3>2, <4>1, <4>2, HandledAppend DEF Once, TypeInv
    <3> QED
      BY <1>2, <3>1, <3>2 DEF ProcessQueued
  <2> HIDE DEF n
  <2> QED
    BY <2>2, <2>3, <2>4 DEF Once, Disjoint
<1> QED
  BY <1>1, <1>2

(* The queue becomes the batch.                                            *)
LEMMA OnceProcessSocket == ASSUME TypeInv, Once, ProcessSocket PROVE Once'
<1>1. CASE UNCHANGED <<queue, batch>>
  BY <1>1, OnceKept DEF ProcessSocket, Held, threadVars, network
<1>2. CASE batch' = queue /\ queue' = <<>>
  <2>1. SerialsOf(queue)' = {} /\ Distinct(queue)'
    BY <1>2 DEF SerialsOf, Distinct
  <2>2. SerialsOf(batch)' = SerialsOf(queue) /\ Distinct(batch)'
    BY <1>2 DEF SerialsOf, Distinct, Once
  <2>3. UNCHANGED <<arrived, SerialsOf(socket), Held, Handled, Distinct(socket), HandledOnce>>
    BY DEF ProcessSocket, SerialsOf, Held, Handled, Distinct, HandledOnce, threadVars, network
  <2> QED
    BY <2>1, <2>2, <2>3 DEF Once, Disjoint
<1> QED
  BY <1>1, <1>2 DEF ProcessSocket

LEMMA OnceReceive == ASSUME TypeInv, Once, Receive PROVE Once'
<1> DEFINE n == Head(socket).serial
<1>1. socket # <<>> /\ socket' = Tail(socket) /\ socket \in Seq(Packet)
  BY DEF Receive, TypeInv, TypeOK
<1>2. /\ SerialsOf(socket) = SerialsOf(socket)' \cup {n} /\ n \notin SerialsOf(socket)'
      /\ Distinct(socket)'
  BY <1>1, SerialsTail DEF Once
<1>3. Held' \subseteq {n}
  BY DEF Receive, Held
<1>4. UNCHANGED <<arrived, SerialsOf(queue), SerialsOf(batch), Handled, Distinct(queue),
                  Distinct(batch), HandledOnce>>
  BY DEF Receive, SerialsOf, Handled, Distinct, HandledOnce
<1> HIDE DEF n
<1> QED
  BY <1>2, <1>3, <1>4 DEF Once, Disjoint

LEMMA OnceHandleNow == ASSUME TypeInv, Once, HandleNow PROVE Once'
<1> DEFINE n == packet.serial
<1>1. Held = {n} /\ Held' = {} /\ packet \in Packet
  BY DEF HandleNow, Held, TypeInv, HasPacket
<1>2. Handled' = Handled \cup {n} /\ HandledOnce'
  <2>1. n \in 1 .. MaxPackets /\ n \notin Handled
    BY <1>1 DEF Packet, Once, Disjoint
  <2>2. handled' = Append(handled, n)
    BY DEF HandleNow
  <2> HIDE DEF n
  <2> QED
    BY <2>1, <2>2, HandledAppend DEF Once, TypeInv
<1>3. UNCHANGED <<arrived, SerialsOf(socket), SerialsOf(queue), SerialsOf(batch),
                  Distinct(socket), Distinct(queue), Distinct(batch)>>
  BY DEF HandleNow, SerialsOf, Distinct, network
<1> HIDE DEF n
<1> QED
  BY <1>1, <1>2, <1>3 DEF Once, Disjoint

LEMMA OnceEnqueue == ASSUME TypeInv, Once, Enqueue PROVE Once'
<1> DEFINE n == packet.serial
<1>1. Held = {n} /\ Held' = {} /\ packet \in Packet
  BY DEF Enqueue, Held, TypeInv, HasPacket
<1>2. SerialsOf(queue)' = SerialsOf(queue) \cup {n} /\ Distinct(queue)'
  <2>1. n \notin SerialsOf(queue)
    BY <1>1 DEF Once, Disjoint
  <2>2. queue \in Seq(Packet) /\ queue' = Append(queue, packet)
    BY DEF Enqueue, TypeInv, TypeOK
  <2> QED
    BY <1>1, <2>1, <2>2, SerialsAppend DEF Once
<1>3. UNCHANGED <<arrived, SerialsOf(socket), Handled, SerialsOf(batch),
                  Distinct(socket), HandledOnce, Distinct(batch)>>
  BY DEF Enqueue, SerialsOf, Distinct, Handled, HandledOnce, network
<1> HIDE DEF n
<1> QED
  BY <1>1, <1>2, <1>3 DEF Once, Disjoint

LEMMA OnceStep == TypeInv /\ Once /\ [Next]_vars => Once'
<1> SUFFICES ASSUME TypeInv, Once, [Next]_vars PROVE Once'
  OBVIOUS
<1> DEFINE Still == UNCHANGED <<socket, arrived, queue, batch, handled>> /\ Held' \subseteq Held
<1>1. Environment => Still \/ \E a \in Addr, k \in {"query", "channel"}, n \in 0 .. MaxNonce :
                                 Arrive(a, k, n)
  BY DEF Environment, ToggleChannel, RotateNonce, Think, ServerActivate, LevelShutdown, Held,
         network, threadVars
<1>2. MainStep => Still \/ ReceiveDirectly \/ ProcessQueued
  BY DEF MainStep, StoreCurrent, StoreLast, StartThread, CheckThread, StopThread,
         SpinUntilStopped, ReleaseThread, Held, network, threadVars
<1>3. ThreadStep => Still \/ Receive \/ HandleNow \/ Enqueue
  BY DEF ThreadStep, ThreadStart, ThreadLoop, SocketEmpty, CheckCurrent, CheckLast, Discard,
         Copy, ThreadExit, ThreadMoves, Accept, Held, network
<1>4. UNCHANGED vars => Still
  BY DEF vars, Held, network, threadVars
<1>5. Still => Once'
  BY OnceKept
<1> HIDE DEF Still
<1> QED
  BY <1>1, <1>2, <1>3, <1>4, <1>5, OnceArrive, OnceReceiveDirectly, OnceProcessQueued,
     OnceProcessSocket, OnceReceive, OnceHandleNow, OnceEnqueue DEF Next

(* No packet is handled twice, whichever way it took: through the engine's *)
(* own loop, answered by the thread, or over the queue that is handed from *)
(* AddPacketToQueueForMainThread to hook_NET_ProcessSocket.                 *)
THEOREM PacketsHandledOnce == Spec => []HandledOnce
<1>1. Once => HandledOnce
  BY DEF Once
<1> QED
  BY TypeInit, TypeStep, OnceInit, OnceStep, <1>1, PTL DEF Spec
=============================================================================
