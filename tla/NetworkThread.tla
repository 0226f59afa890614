--------------------------- MODULE NetworkThread ---------------------------
(***************************************************************************)
(* The networkthreading module: a thread that receives and filters the     *)
(* server socket's packets and leaves them in a queue, which the main      *)
(* thread takes over in hook_NET_ProcessSocket.  Without the thread the    *)
(* main thread receives from the socket itself, through the engine's own   *)
(* NET_ProcessSocket.  ServerActivate starts the thread and LevelShutdown  *)
(* stops it; both run on the main thread.                                  *)
(*                                                                         *)
(* A packet has a serial number, given in the order of arrival, an address *)
(* and a kind: a "query" is connectionless and carries the nonce its       *)
(* sender's challenge was made from, a "channel" packet belongs to a net   *)
(* channel.  IP filter, junk and size checks are a free choice to discard, *)
(* and so are the console variables forcechallenge and parallelprocessing, *)
(* which the thread reads anew for every packet.                           *)
(***************************************************************************)
EXTENDS Naturals, Sequences, SequencesExt

CONSTANTS
  Addr,           \* addresses of clients
  MaxPackets,     \* bound: packets that ever arrive
  MaxNonce,       \* bound: rotations of the server's nonce
  HasFunctions    \* the engine functions the thread needs were found

ASSUME BoundAssumption == MaxPackets \in Nat /\ MaxNonce \in Nat
ASSUME FunctionsAssumption == HasFunctions \in BOOLEAN

VARIABLES
  socket, arrived,           \* the UDP socket; packets that came so far
  threadState, handle,       \* g_nThreadState, g_pNetworkThread
  queue,                     \* g_pQueuedPackets
  threadAt, packet,          \* the network thread
  mainAt, batch, resume,     \* the main thread
  channels,                  \* addresses with a net channel
  nonce, rotated,            \* m_CurrentRandomNonce; it changed this frame
  current, last,             \* g_nChallengeNr, g_nLastChallengeNr
  handled, accepted          \* serials handled, in order; oldest age accepted

network == <<socket, arrived>>
threadVars == <<threadAt, packet>>
challenge == <<nonce, rotated, current, last>>
vars == <<network, threadState, handle, queue, threadVars, mainAt, batch, resume,
          channels, challenge, handled, accepted>>

Packet == [serial : 1 .. MaxPackets, from : Addr, kind : {"query", "channel"},
           nonce : 0 .. MaxNonce]
None == [serial |-> 0]
Idle == {"none", "dead"}

TypeOK ==
  /\ socket \in Seq(Packet) /\ queue \in Seq(Packet) /\ batch \in Seq(Packet)
  /\ arrived \in 0 .. MaxPackets
  /\ threadState \in {"NOTRUNNING", "RUNNING", "SHOULD_SHUTDOWN"}
  /\ handle \in BOOLEAN
  /\ threadAt \in {"none", "start", "loop", "receive", "current", "last", "route",
                   "queue", "exit", "dead"}
  /\ packet \in Packet \cup {None}
  /\ mainAt \in {"frame", "direct", "process", "current", "last", "activate",
                 "stop", "store", "spin", "release"}
  /\ resume \in {"frame", "activate"}
  /\ channels \subseteq Addr
  /\ nonce \in 0 .. MaxNonce /\ current \in 0 .. MaxNonce /\ last \in 0 .. MaxNonce
  /\ rotated \in BOOLEAN
  /\ handled \in Seq(1 .. MaxPackets)
  /\ accepted \in 0 .. MaxNonce

Init ==
  /\ socket = <<>> /\ arrived = 0
  /\ threadState = "NOTRUNNING" /\ handle = FALSE
  /\ queue = <<>>
  /\ threadAt = "none" /\ packet = None
  /\ mainAt = "frame" /\ batch = <<>> /\ resume = "frame"
  /\ channels = {}
  /\ nonce = 0 /\ rotated = FALSE /\ current = 0 /\ last = 0
  /\ handled = <<>> /\ accepted = 0

-----------------------------------------------------------------------------
(* The environment.                                                        *)

\* A client's packet; a query answers a challenge of any nonce so far.
Arrive(a, k, n) ==
  /\ arrived < MaxPackets /\ n <= nonce
  /\ k = "channel" => n = nonce
  /\ arrived' = arrived + 1
  /\ socket' = Append(socket, [serial |-> arrived + 1, from |-> a, kind |-> k, nonce |-> n])
  /\ UNCHANGED <<threadState, handle, queue, threadVars, mainAt, batch, resume, channels,
                 challenge, handled, accepted>>

\* A net channel is constructed or removed, on the main thread.
ToggleChannel(a) ==
  /\ mainAt \in {"frame", "process", "direct"}
  /\ channels' = IF a \in channels THEN channels \ {a} ELSE channels \cup {a}
  /\ UNCHANGED <<network, threadState, handle, queue, threadVars, mainAt, batch, resume,
                 challenge, handled, accepted>>

\* The engine renews its nonce, much less often than once per frame.
RotateNonce ==
  /\ mainAt = "frame" /\ ~rotated /\ nonce < MaxNonce
  /\ nonce' = nonce + 1 /\ rotated' = TRUE
  /\ UNCHANGED <<network, threadState, handle, queue, threadVars, mainAt, batch, resume,
                 channels, current, last, handled, accepted>>

-----------------------------------------------------------------------------
(* The main thread.                                                        *)

\* Mistake: the queue is copied instead of moved.
ProcessSocket_Copy ==
  /\ mainAt = "frame"
  /\ IF threadState = "NOTRUNNING"
     THEN mainAt' = "direct" /\ UNCHANGED <<queue, batch>>
     ELSE mainAt' = "process" /\ batch' = queue /\ UNCHANGED queue
  /\ UNCHANGED <<network, threadState, handle, threadVars, resume, channels, challenge,
                 handled, accepted>>

\* hook_NET_ProcessSocket: the engine's own loop, or the queue is taken over.
ProcessSocket ==
  /\ mainAt = "frame"
  /\ IF threadState = "NOTRUNNING"
     THEN mainAt' = "direct" /\ UNCHANGED <<queue, batch>>
     ELSE mainAt' = "process" /\ batch' = queue /\ queue' = <<>>
  /\ UNCHANGED <<network, threadState, handle, threadVars, resume, channels, challenge,
                 handled, accepted>>

\* The engine receives and handles one packet, or finds the socket empty.
ReceiveDirectly ==
  /\ mainAt = "direct"
  /\ IF socket = <<>>
     THEN mainAt' = "frame" /\ UNCHANGED <<socket, handled>>
     ELSE /\ socket' = Tail(socket)
          /\ handled' = IF Head(socket).kind = "query" \/ Head(socket).from \in channels
                        THEN Append(handled, Head(socket).serial) ELSE handled
          /\ UNCHANGED mainAt
  /\ UNCHANGED <<arrived, threadState, handle, queue, threadVars, batch, resume, channels,
                 challenge, accepted>>

\* One queued packet: its channel is looked up again and may be gone.
ProcessQueued ==
  /\ mainAt = "process"
  /\ IF batch = <<>>
     THEN mainAt' = "frame" /\ UNCHANGED <<batch, handled>>
     ELSE /\ batch' = Tail(batch)
          /\ handled' = IF Head(batch).kind = "query" \/ Head(batch).from \in channels
                        THEN Append(handled, Head(batch).serial) ELSE handled
          /\ UNCHANGED mainAt
  /\ UNCHANGED <<network, threadState, handle, queue, threadVars, resume, channels,
                 challenge, accepted>>

\* Think publishes the engine's nonces for the thread, one after the other.
Think ==
  /\ mainAt = "frame"
  /\ mainAt' = "current" /\ resume' = "frame"
  /\ UNCHANGED <<network, threadState, handle, queue, threadVars, batch, channels,
                 challenge, handled, accepted>>

\* ServerActivate does the same first, then starts the thread.
ServerActivate ==
  /\ mainAt = "frame"
  /\ mainAt' = "current" /\ resume' = "activate"
  /\ UNCHANGED <<network, threadState, handle, queue, threadVars, batch, channels,
                 challenge, handled, accepted>>

StoreCurrent ==
  /\ mainAt = "current"
  /\ current' = nonce /\ mainAt' = "last"
  /\ UNCHANGED <<network, threadState, handle, queue, threadVars, batch, resume, channels,
                 nonce, rotated, last, handled, accepted>>

\* Mistake: the last nonce is published only once.
StoreLast_Stale ==
  /\ mainAt = "last"
  /\ rotated' = FALSE /\ mainAt' = resume
  /\ UNCHANGED <<network, threadState, handle, queue, threadVars, batch, resume, channels,
                 nonce, current, last, handled, accepted>>

\* Mistake: the last nonce is guessed from the current one.
StoreLast_Guessed ==
  /\ mainAt = "last"
  /\ last' = nonce - 1
  /\ rotated' = FALSE /\ mainAt' = resume
  /\ UNCHANGED <<network, threadState, handle, queue, threadVars, batch, resume, channels,
                 nonce, current, handled, accepted>>

StoreLast ==
  /\ mainAt = "last"
  /\ last' = IF nonce = 0 THEN 0 ELSE nonce - 1
  /\ rotated' = FALSE
  /\ mainAt' = resume
  /\ UNCHANGED <<network, threadState, handle, queue, threadVars, batch, resume, channels,
                 nonce, current, handled, accepted>>

StartThread ==
  /\ mainAt = "activate"
  /\ threadState' = "RUNNING"
  /\ handle' = TRUE
  /\ threadAt' = IF handle THEN threadAt ELSE "start"
  /\ mainAt' = "frame"
  /\ UNCHANGED <<network, queue, packet, batch, resume, channels, challenge, handled, accepted>>

LevelShutdown ==
  /\ mainAt = "frame" /\ handle
  /\ mainAt' = "stop"
  /\ UNCHANGED <<network, threadState, handle, queue, threadVars, batch, resume, channels,
                 challenge, handled, accepted>>

\* The state is loaded; storing SHOULD_SHUTDOWN is another access.
CheckThread ==
  /\ mainAt = "stop"
  /\ mainAt' = IF threadState = "NOTRUNNING" THEN "release" ELSE "store"
  /\ UNCHANGED <<network, threadState, handle, queue, threadVars, batch, resume, channels,
                 challenge, handled, accepted>>

\* Mistake: the thread is declared stopped by the one who wants it to stop.
StopThread_Declared ==
  /\ mainAt = "store"
  /\ threadState' = "NOTRUNNING" /\ mainAt' = "release"
  /\ UNCHANGED <<network, handle, queue, threadVars, batch, resume, channels, challenge,
                 handled, accepted>>

StopThread ==
  /\ mainAt = "store"
  /\ threadState' = "SHOULD_SHUTDOWN" /\ mainAt' = "spin"
  /\ UNCHANGED <<network, handle, queue, threadVars, batch, resume, channels, challenge,
                 handled, accepted>>

SpinUntilStopped ==
  /\ mainAt = "spin" /\ threadState = "NOTRUNNING"
  /\ mainAt' = "release"
  /\ UNCHANGED <<network, threadState, handle, queue, threadVars, batch, resume, channels,
                 challenge, handled, accepted>>

ReleaseThread ==
  /\ mainAt = "release"
  /\ handle' = FALSE /\ mainAt' = "frame"
  /\ UNCHANGED <<network, threadState, queue, threadVars, batch, resume, channels,
                 challenge, handled, accepted>>

-----------------------------------------------------------------------------
(* The network thread.                                                     *)

\* The step touches nothing but the thread's own place.
ThreadMoves(to) ==
  /\ threadAt' = to
  /\ UNCHANGED <<network, threadState, handle, queue, packet, mainAt, batch, resume,
                 channels, challenge, handled, accepted>>

\* A thread that misses an engine function ends at once.
ThreadStart ==
  /\ threadAt = "start"
  /\ threadAt' = IF HasFunctions THEN "loop" ELSE "dead"
  /\ threadState' = IF HasFunctions THEN threadState ELSE "NOTRUNNING"
  /\ UNCHANGED <<network, handle, queue, packet, mainAt, batch, resume, channels,
                 challenge, handled, accepted>>

ThreadLoop ==
  /\ threadAt = "loop"
  /\ ThreadMoves(IF threadState = "RUNNING" THEN "receive" ELSE "exit")

\* Mistake: the thread waits for the next packet without a look at its state.
SocketEmpty_Wait ==
  /\ threadAt = "receive" /\ socket = <<>>
  /\ ThreadMoves("receive")

SocketEmpty ==
  /\ threadAt = "receive" /\ socket = <<>>
  /\ ThreadMoves("loop")

\* NET_GetPacket, then the IP filter and the checks of the header.
Receive ==
  /\ threadAt = "receive" /\ socket # <<>>
  /\ packet' = Head(socket)
  /\ socket' = Tail(socket)
  /\ threadAt' \in {"receive", "route"}
                   \cup (IF Head(socket).kind = "query" THEN {"current"} ELSE {})
  /\ UNCHANGED <<arrived, threadState, handle, queue, mainAt, batch, resume, channels,
                 challenge, handled, accepted>>

\* The challenge was good: how old the nonce is that made it.
Accept ==
  /\ threadAt' = "route"
  /\ accepted' = IF nonce - packet.nonce > accepted THEN nonce - packet.nonce ELSE accepted
  /\ UNCHANGED <<network, threadState, handle, queue, packet, mainAt, batch, resume,
                 channels, challenge, handled>>

\* IsValidChallenge: the current nonce, then the one before it.
CheckCurrent ==
  /\ threadAt = "current"
  /\ IF packet.nonce = current THEN Accept ELSE ThreadMoves("last")

\* Otherwise a new challenge is sent and the query dropped.
CheckLast ==
  /\ threadAt = "last"
  /\ IF packet.nonce = last THEN Accept ELSE ThreadMoves("receive")

\* With parallel processing the thread answers a query itself.
HandleNow ==
  /\ threadAt = "route" /\ packet.kind = "query"
  /\ handled' = Append(handled, packet.serial)
  /\ threadAt' = "receive"
  /\ UNCHANGED <<network, threadState, handle, queue, packet, mainAt, batch, resume,
                 channels, challenge, accepted>>

\* No channel for the address: the packet is dropped.
Discard ==
  /\ threadAt = "route" /\ packet.kind = "channel" /\ packet.from \notin channels
  /\ ThreadMoves("receive")

\* AddPacketToQueueForMainThread copies the packet, then takes the queue's lock.
Copy ==
  /\ threadAt = "route"
  /\ packet.kind = "query" \/ packet.from \in channels
  /\ ThreadMoves("queue")

Enqueue ==
  /\ threadAt = "queue"
  /\ queue' = Append(queue, packet) /\ threadAt' = "receive"
  /\ UNCHANGED <<network, threadState, handle, packet, mainAt, batch, resume, channels,
                 challenge, handled, accepted>>

ThreadExit ==
  /\ threadAt = "exit"
  /\ threadState' = "NOTRUNNING" /\ threadAt' = "dead"
  /\ UNCHANGED <<network, handle, queue, packet, mainAt, batch, resume, channels,
                 challenge, handled, accepted>>

-----------------------------------------------------------------------------
Environment ==
  \/ \E a \in Addr, k \in {"query", "channel"}, n \in 0 .. MaxNonce : Arrive(a, k, n)
  \/ \E a \in Addr : ToggleChannel(a)
  \/ RotateNonce \/ Think \/ ServerActivate \/ LevelShutdown

MainStep ==
  \/ ReceiveDirectly \/ ProcessQueued \/ StoreCurrent \/ StoreLast \/ StartThread
  \/ CheckThread \/ StopThread \/ SpinUntilStopped \/ ReleaseThread

ThreadStep ==
  \/ ThreadStart \/ ThreadLoop \/ SocketEmpty \/ Receive \/ CheckCurrent \/ CheckLast
  \/ HandleNow \/ Discard \/ Copy \/ Enqueue \/ ThreadExit

Next == Environment \/ ProcessSocket \/ MainStep \/ ThreadStep

Spec == Init /\ [][Next]_vars

(* Both threads run, and every server frame processes the socket.          *)
FairSpec == Spec /\ WF_vars(MainStep) /\ WF_vars(ThreadStep) /\ SF_vars(ProcessSocket)

-----------------------------------------------------------------------------
(* Safety.                                                                 *)

(* NET_GetPacket is not made for two threads: the engine's own loop never  *)
(* receives from the socket while the network thread may.                  *)
OneReceiver == mainAt = "direct" => threadAt \in Idle

(* No packet is handled twice, whichever way it took.                      *)
HandledOnce ==
  \A i, j \in 1 .. Len(handled) : i # j => handled[i] # handled[j]

(* A challenge is good for two rotations of the nonce and no longer,       *)
(* although the thread reads the two cached nonces one by one while the    *)
(* main thread writes them one by one.                                     *)
AcceptedIsRecent == accepted <= 2

-----------------------------------------------------------------------------
(* Liveness.                                                               *)

(* LevelShutdown waits for the thread, and the wait ends.                  *)
ShutdownCompletes == mainAt = "spin" ~> mainAt = "frame"

=============================================================================
