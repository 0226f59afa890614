------------------------ MODULE ClientDelivery_proofs ------------------------
(***************************************************************************)
(* For any number of slots and files: pins and requests belong to the      *)
(* baseline of the connection in the slot, and a pinned file is still what *)
(* that baseline announced.  Then, from that, the queues: each names the   *)
(* slots that wait, each slot once, and no requested placeholder is lost.  *)
(***************************************************************************)
EXTENDS ClientDelivery, Subsequences_proofs

(* What the client, the pins and the requests of one slot say of each       *)
(* other.  That a signon belongs to a connection is the strengthening:      *)
(* without it a baseline could be served to an empty slot.                  *)
Fits(c, p, q) ==
  /\ c.signon # "none" => c.conn # 0
  /\ p # {} \/ q # <<>> =>
       /\ c.conn # 0
       /\ c.signon \in Served => c.lane = "required"
       /\ c.signon = "connected" /\ c.want => c.lane = "native"
  /\ p \cap c.changed = {}

SlotFits(s) == Fits(client[s], pins[s], stubs[s])

SlotTypes ==
  /\ client \in [Slot -> Client] /\ pins \in [Slot -> SUBSET File]
  /\ stubs = [s \in Slot |-> stubs[s]]

DeliveryInv == SlotTypes /\ \A s \in Slot : SlotFits(s)

-----------------------------------------------------------------------------
LEMMA VacantFits ==
  Vacant \in Client /\ \A q : Fits(Vacant, {}, <<>>)
BY DEF Vacant, Client, Fits, Served

LEMMA OtherConnection ==
  ASSUME NEW n
  PROVE  Min({1, 2} \ {n}) \in {1, 2}
<1> DEFINE S == {1, 2} \ {n}
<1>1. \E x \in S : \A y \in S : x =< y
  <2>1. CASE n = 1
    <3>1. S = {2}
      BY <2>1
    <3> QED
      BY <3>1
  <2>2. CASE n # 1
    <3>1. 1 \in S /\ \A y \in S : 1 =< y
      BY <2>2
    <3> QED
      BY <3>1
  <2> QED
    BY <2>1, <2>2
<1>2. Min(S) \in S
  BY <1>1 DEF Min
<1> QED
  BY <1>2

(* Nothing is queued when nothing is new.                                   *)
LEMMA NothingNew == InOrder({}) = <<>>
<1>1. InOrder({}) \in Seq({}) /\ Len(InOrder({})) = 0
  BY InOrderLists, FS_EmptySet
<1> QED
  BY <1>1

(* One slot gets a client, pins and requests that fit; the others keep      *)
(* theirs.  A slot that a queue named wrongly would change nothing.         *)
LEMMA SlotChanges ==
  ASSUME DeliveryInv, NEW s, NEW c, NEW p, NEW q,
         client' = [client EXCEPT ![s] = c], pins' = [pins EXCEPT ![s] = p],
         stubs' = [stubs EXCEPT ![s] = q],
         s \in Slot => c \in Client /\ p \in SUBSET File /\ Fits(c, p, q)
  PROVE  DeliveryInv'
<1>1. SlotTypes'
  BY DEF DeliveryInv, SlotTypes
<1>2. ASSUME NEW t \in Slot PROVE SlotFits(t)'
  <2>1. CASE t = s
    <3>1. client'[t] = c /\ pins'[t] = p /\ stubs'[t] = q
      BY <1>2, <2>1 DEF DeliveryInv, SlotTypes
    <3> QED
      BY <1>2, <2>1, <3>1 DEF SlotFits
  <2>2. CASE t # s
    <3>1. client'[t] = client[t] /\ pins'[t] = pins[t] /\ stubs'[t] = stubs[t]
      BY <1>2, <2>2 DEF DeliveryInv, SlotTypes
    <3> QED
      BY <1>2, <3>1 DEF SlotFits, DeliveryInv
  <2> QED
    BY <2>1, <2>2
<1> QED
  BY <1>1, <1>2 DEF DeliveryInv

LEMMA Unqueued ==
  ASSUME DeliveryInv, UNCHANGED <<client, pins, stubs>>
  PROVE  DeliveryInv'
BY DEF DeliveryInv, SlotTypes, SlotFits

LEMMA DisconnectKeeps ==
  ASSUME DeliveryInv, NEW s, Disconnect(s)
  PROVE  DeliveryInv'
BY VacantFits, SlotChanges DEF Disconnect, ClearDelivery, ClearPinned

(* Only the client's record changes, to one that fits as well.              *)
LEMMA ClientChanges ==
  ASSUME DeliveryInv, NEW s \in Slot, NEW c \in Client, Fits(c, pins[s], stubs[s]),
         client' = [client EXCEPT ![s] = c], UNCHANGED <<pins, stubs>>
  PROVE  DeliveryInv'
<1>1. PICK p \in SUBSET File, q \in {stubs[s]} : p = pins[s] /\ Fits(c, p, q)
  BY DEF DeliveryInv, SlotTypes
<1>2. pins' = [pins EXCEPT ![s] = p] /\ stubs' = [stubs EXCEPT ![s] = q]
  BY <1>1 DEF DeliveryInv, SlotTypes
<1> QED
  BY <1>1, <1>2, SlotChanges

(* The baseline: disconnected, or served to the connection that waits.      *)
LEMMA SendKeeps ==
  ASSUME DeliveryInv, NEW s, SendNow(s), s \in Slot => Waiting(s)
  PROVE  DeliveryInv'
<1>1. CASE Disconnect(s)
  BY <1>1, DisconnectKeeps
<1>2. CASE ~Disconnect(s)
  <2> DEFINE required == enabled /\ client[s].lane = "required"
             c == [client[s] EXCEPT !.signon = "new", !.want = FALSE,
                                    !.base = required, !.changed = {}]
  <2>1. /\ client' = [client EXCEPT ![s].signon = "new", ![s].want = FALSE,
                                   ![s].base = required, ![s].changed = {}]
        /\ stubs' = [stubs EXCEPT ![s] = <<>>]
        /\ \E announced \in IF required THEN Baselines ELSE {{}} :
             pins' = [pins EXCEPT ![s] = announced]
    BY <1>2 DEF SendNow
  <2>2. PICK p \in IF required THEN Baselines ELSE {{}} : pins' = [pins EXCEPT ![s] = p]
    BY <2>1
  <2>3. client' = [client EXCEPT ![s] = c]
    BY <2>1 DEF DeliveryInv, SlotTypes
  <2>4. ASSUME s \in Slot
        PROVE  c \in Client /\ p \in SUBSET File /\ Fits(c, p, <<>>)
    <3>1. client[s] \in Client /\ client[s].conn # 0
      BY <2>4 DEF DeliveryInv, SlotTypes, SlotFits, Fits, Waiting
    <3>2. required \in BOOLEAN
      OBVIOUS
    <3> HIDE DEF required
    <3>3. /\ c \in Client /\ c.conn = client[s].conn /\ c.signon = "new"
          /\ c.lane = client[s].lane /\ c.changed = {}
      BY <3>1, <3>2 DEF Client
    <3>4. p \in SUBSET File /\ (p # {} => required)
      BY <2>2, FileAssumption
    <3>5. required => client[s].lane = "required"
      BY DEF required
    <3> QED
      BY <3>1, <3>3, <3>4, <3>5 DEF Fits
  <2> HIDE DEF c
  <2> QED
    BY <2>1, <2>2, <2>3, <2>4, SlotChanges
<1> QED
  BY <1>1, <1>2

-----------------------------------------------------------------------------
(* The engine.                                                              *)

LEMMA EngineKeeps ==
  ASSUME DeliveryInv, NEW s \in Slot,
         Connect(s) \/ DispatchRecovery(s) \/ Restart(s) \/ Prespawn(s)
  PROVE  DeliveryInv'
<1>1. /\ client[s] \in Client /\ Fits(client[s], pins[s], stubs[s])
      /\ pins[s] \in SUBSET File /\ UNCHANGED <<pins, stubs>>
  BY DEF DeliveryInv, SlotTypes, SlotFits, Connect, DispatchRecovery, Restart, Prespawn, queues
<1>2. CASE Connect(s)
  <2>1. PICK lane \in {"native", "required"}, n \in {1, 2} :
          client' = [client EXCEPT ![s] =
            [Vacant EXCEPT !.conn = n, !.signon = "connected", !.lane = lane]]
    BY <1>2, OtherConnection DEF Connect
  <2> DEFINE c == [Vacant EXCEPT !.conn = n, !.signon = "connected", !.lane = lane]
  <2>2. c \in Client /\ c.signon = "connected" /\ c.conn = n /\ ~c.want /\ c.changed = {}
    <3>1. Vacant \in Client /\ ~Vacant.want /\ Vacant.changed = {}
      BY VacantFits DEF Vacant
    <3>2. n \in 0 .. 2
      OBVIOUS
    <3> QED
      BY <3>1, <3>2 DEF Client
  <2>3. pins[s] = {} /\ stubs[s] = <<>>
    BY <1>1, <1>2 DEF Connect, Present, Fits
  <2> HIDE DEF c
  <2>4. Fits(c, pins[s], stubs[s])
    BY <2>2, <2>3 DEF Fits
  <2> QED
    BY <1>1, <2>1, <2>2, <2>4, ClientChanges DEF c
<1>3. CASE DispatchRecovery(s)
  <2> DEFINE c == [client[s] EXCEPT !.want = TRUE, !.lane = "native"]
  <2>1. client' = [client EXCEPT ![s] = c] /\ client[s].signon = "connected"
    BY <1>3 DEF DispatchRecovery, DeliveryInv, SlotTypes
  <2>2. /\ c \in Client /\ c.signon = client[s].signon /\ c.conn = client[s].conn
        /\ c.lane = "native" /\ c.changed = client[s].changed
    BY <1>1 DEF Client
  <2> HIDE DEF c
  <2>3. Fits(c, pins[s], stubs[s])
    BY <1>1, <2>1, <2>2 DEF Fits, Served
  <2> QED
    BY <1>1, <2>1, <2>2, <2>3, ClientChanges
<1>4. CASE Restart(s)
  <2> DEFINE c == Restarted(client[s])
  <2>1. client' = [client EXCEPT ![s] = c] /\ Present(s)
    BY <1>4 DEF Restart, DeliveryInv, SlotTypes
  <2>2. /\ c \in Client /\ c.signon = "connected" /\ c.conn = client[s].conn
        /\ ~c.want /\ c.changed = {}
    BY <1>1 DEF Client, Restarted
  <2> HIDE DEF c
  <2>3. Fits(c, pins[s], stubs[s])
    BY <1>1, <2>1, <2>2 DEF Fits, Served, Present
  <2> QED
    BY <1>1, <2>1, <2>2, <2>3, ClientChanges
<1>5. CASE Prespawn(s)
  <2> DEFINE c == [client[s] EXCEPT !.signon = "prespawn"]
  <2>1. client' = [client EXCEPT ![s] = c] /\ client[s].signon = "new"
    BY <1>5 DEF Prespawn, DeliveryInv, SlotTypes
  <2>2. /\ c \in Client /\ c.signon = "prespawn" /\ c.conn = client[s].conn
        /\ c.lane = client[s].lane /\ c.changed = client[s].changed
    BY <1>1 DEF Client
  <2> HIDE DEF c
  <2>3. Fits(c, pins[s], stubs[s])
    BY <1>1, <2>1, <2>2 DEF Fits, Served
  <2> QED
    BY <1>1, <2>1, <2>2, <2>3, ClientChanges
<1> QED
  BY <1>2, <1>3, <1>4, <1>5

LEMMA BeginKeeps ==
  ASSUME DeliveryInv, NEW s \in Slot, BeginSignon(s)
  PROVE  DeliveryInv'
<1> DEFINE c == [client[s] EXCEPT !.want = TRUE, !.base = FALSE]
<1>1. /\ client' = [client EXCEPT ![s] = c]
      /\ pins' = [pins EXCEPT ![s] = {}] /\ stubs' = [stubs EXCEPT ![s] = <<>>]
  BY DEF BeginSignon, ClearDelivery, ClearPinned, DeliveryInv, SlotTypes
<1>2. client[s] \in Client /\ Fits(client[s], pins[s], stubs[s])
  BY DEF DeliveryInv, SlotTypes, SlotFits
<1>3. c \in Client /\ c.signon = client[s].signon /\ c.conn = client[s].conn
  BY <1>2 DEF Client
<1> HIDE DEF c
<1>4. Fits(c, {}, <<>>)
  BY <1>2, <1>3 DEF Fits
<1> QED
  BY <1>1, <1>3, <1>4, SlotChanges

LEMMA ActiveKeeps ==
  ASSUME DeliveryInv, NEW s \in Slot, ClientActive(s)
  PROVE  DeliveryInv'
<1>1. CASE Disconnect(s)
  BY <1>1, DisconnectKeeps
<1>2. CASE ~Disconnect(s)
  <2> DEFINE c == [client[s] EXCEPT !.signon = "active"]
  <2>1. /\ client' = [client EXCEPT ![s] = c] /\ client[s].signon = "prespawn"
        /\ UNCHANGED <<pins, stubs>>
    BY <1>2 DEF ClientActive, queues, DeliveryInv, SlotTypes
  <2>2. client[s] \in Client /\ Fits(client[s], pins[s], stubs[s])
    BY DEF DeliveryInv, SlotTypes, SlotFits
  <2>3. /\ c \in Client /\ c.signon = "active" /\ c.conn = client[s].conn
        /\ c.lane = client[s].lane /\ c.changed = client[s].changed
    BY <2>2 DEF Client
  <2> HIDE DEF c
  <2>4. Fits(c, pins[s], stubs[s])
    BY <2>1, <2>2, <2>3 DEF Fits, Served
  <2> QED
    BY <2>1, <2>3, <2>4, ClientChanges
<1> QED
  BY <1>1, <1>2

LEMMA LevelKeeps ==
  ASSUME DeliveryInv, LevelShutdown
  PROVE  DeliveryInv'
<1>1. /\ pins' = [s \in Slot |-> {}] /\ stubs' = [s \in Slot |-> <<>>]
      /\ client' = [s \in Slot |-> IF Present(s)
                                  THEN [Restarted(client[s]) EXCEPT !.base = FALSE]
                                  ELSE Vacant]
  BY DEF LevelShutdown
<1>2. ASSUME NEW s \in Slot
      PROVE  client'[s] \in Client /\ Fits(client'[s], {}, <<>>)
  <2>1. CASE ~Present(s)
    BY <1>1, <2>1, VacantFits
  <2>2. CASE Present(s)
    <3> DEFINE c == [Restarted(client[s]) EXCEPT !.base = FALSE]
    <3>1. client'[s] = c /\ client[s] \in Client /\ client[s].conn # 0
      BY <1>1, <2>2 DEF Present, DeliveryInv, SlotTypes
    <3>2. c \in Client /\ c.conn = client[s].conn
      BY <3>1 DEF Restarted, Client
    <3> HIDE DEF c
    <3> QED
      BY <3>1, <3>2 DEF Fits
  <2> QED
    BY <2>1, <2>2
<1>3. SlotTypes'
  BY <1>1, <1>2 DEF SlotTypes
<1> QED
  BY <1>1, <1>2, <1>3 DEF DeliveryInv, SlotFits

-----------------------------------------------------------------------------
(* Registrations, requests and frames.                                      *)

LEMMA UpdateKeeps ==
  ASSUME DeliveryInv, NEW f \in Edited, UpdateFile(f)
  PROVE  DeliveryInv'
<1>1. /\ pins' = [s \in Slot |-> pins[s] \ {f}] /\ stubs' = stubs /\ f \in File
      /\ client' = [s \in Slot |-> IF client[s].signon \in Served
                                  THEN [client[s] EXCEPT !.changed = @ \cup {f}]
                                  ELSE client[s]]
  BY FileAssumption DEF UpdateFile, InvalidatePinned
<1>2. ASSUME NEW s \in Slot
      PROVE  /\ client'[s] \in Client /\ pins'[s] \in SUBSET File
             /\ Fits(client'[s], pins'[s], stubs[s])
  <2>1. /\ client[s] \in Client /\ pins[s] \in SUBSET File
        /\ Fits(client[s], pins[s], stubs[s]) /\ pins'[s] = pins[s] \ {f}
    BY <1>1 DEF DeliveryInv, SlotTypes, SlotFits
  <2>2. CASE client[s].signon \notin Served
    <3>1. client'[s] = client[s]
      BY <1>1, <2>2
    <3> QED
      BY <2>1, <3>1 DEF Fits
  <2>3. CASE client[s].signon \in Served
    <3> DEFINE c == [client[s] EXCEPT !.changed = @ \cup {f}]
    <3>1. client'[s] = c
      BY <1>1, <2>3
    <3>2. /\ c \in Client /\ c.conn = client[s].conn /\ c.signon = client[s].signon
          /\ c.lane = client[s].lane /\ c.want = client[s].want
          /\ c.changed = client[s].changed \cup {f}
      BY <1>1, <2>1 DEF Client
    <3> HIDE DEF c
    <3> QED
      BY <2>1, <3>1, <3>2 DEF Fits
  <2> QED
    BY <2>2, <2>3
<1>3. SlotTypes'
  BY <1>1, <1>2 DEF SlotTypes, DeliveryInv
<1> QED
  BY <1>1, <1>2, <1>3 DEF DeliveryInv, SlotFits

(* Only a pinned file is queued.                                            *)
LEMMA RequestKeeps ==
  ASSUME DeliveryInv, NEW s \in Slot, NEW files \in SUBSET File, OnFilesRequested(s, files)
  PROVE  DeliveryInv'
<1>1. CASE Disconnect(s)
  BY <1>1, DisconnectKeeps
<1>2. CASE ~Disconnect(s)
  <2> DEFINE asked == IF enabled THEN files \cap pins[s] ELSE {}
             new == InOrder(asked \ Range(stubs[s]))
             q == stubs[s] \o new
  <2>1. /\ stubs' = [stubs EXCEPT ![s] = q] /\ UNCHANGED <<client, pins>>
    BY <1>2 DEF OnFilesRequested, DeliveryInv, SlotTypes
  <2>2. /\ client[s] \in Client /\ pins[s] \in SUBSET File
        /\ Fits(client[s], pins[s], stubs[s])
    BY DEF DeliveryInv, SlotTypes, SlotFits
  <2>3. asked = {} => new = <<>>
    BY NothingNew
  <2>4. asked # {} => pins[s] # {}
    OBVIOUS
  <2>5. stubs[s] = <<>> /\ new = <<>> => q = <<>>
    OBVIOUS
  <2> HIDE DEF asked, new, q
  <2>6. Fits(client[s], pins[s], q)
    BY <2>2, <2>3, <2>4, <2>5 DEF Fits
  <2>7. client' = [client EXCEPT ![s] = client[s]] /\ pins' = [pins EXCEPT ![s] = pins[s]]
    BY <2>1 DEF DeliveryInv, SlotTypes
  <2> QED
    BY <2>1, <2>2, <2>6, <2>7, SlotChanges
<1> QED
  BY <1>1, <1>2

LEMMA PollKeeps ==
  ASSUME DeliveryInv, NEW s \in Slot, SendServerInfo(s)
  PROVE  DeliveryInv'
BY SendKeeps, Unqueued DEF SendServerInfo

(* A placeholder that is written was pinned.                                *)
LEMMA FrameKeeps ==
  ASSUME DeliveryInv, ThinkStep
  PROVE  DeliveryInv'
<1>1. CASE ThinkBegin
  <2>1. UNCHANGED <<pins, stubs>>
    BY <1>1 DEF ThinkBegin, queues
  <2>2. CASE client' = client
    BY <2>1, <2>2, Unqueued
  <2>3. CASE client' = [s \in Slot |-> [client[s] EXCEPT !.base = FALSE]]
    <3>1. ASSUME NEW s \in Slot
          PROVE  client'[s] \in Client /\ Fits(client'[s], pins[s], stubs[s])
      <4> DEFINE c == [client[s] EXCEPT !.base = FALSE]
      <4>1. /\ client'[s] = c /\ client[s] \in Client /\ Fits(client[s], pins[s], stubs[s])
        BY <2>3 DEF DeliveryInv, SlotTypes, SlotFits
      <4>2. /\ c \in Client /\ c.conn = client[s].conn /\ c.signon = client[s].signon
            /\ c.lane = client[s].lane /\ c.want = client[s].want
            /\ c.changed = client[s].changed
        BY <4>1 DEF Client
      <4> HIDE DEF c
      <4> QED
        BY <4>1, <4>2 DEF Fits
    <3>2. SlotTypes'
      BY <2>1, <2>3, <3>1 DEF SlotTypes, DeliveryInv
    <3> QED
      BY <2>1, <3>1, <3>2 DEF DeliveryInv, SlotFits
  <2> QED
    BY <1>1, <2>2, <2>3 DEF ThinkBegin
<1>2. CASE DrainInfo
  <2> DEFINE s == Head(infoQueue)
  <2>1. (SendNow(s) /\ Waiting(s)) \/ UNCHANGED <<client, pins, stubs>>
    BY <1>2 DEF DrainInfo, StillWanted
  <2> HIDE DEF s
  <2> QED
    BY <2>1, SendKeeps, Unqueued
<1>3. CASE DrainStub
  <2> DEFINE s == Head(stubQueue)
  <2>1. \/ UNCHANGED <<client, pins, stubs>>
        \/ Disconnect(s)
        \/ /\ ~Rejected(s) /\ stubs' = [stubs EXCEPT ![s] = Tail(@)]
           /\ UNCHANGED <<client, pins>>
    BY <1>3 DEF DrainStub
  <2> HIDE DEF s
  <2>2. CASE ~Rejected(s) /\ stubs' = [stubs EXCEPT ![s] = Tail(@)] /\ UNCHANGED <<client, pins>>
    <3> DEFINE q == Tail(stubs[s])
    <3>1. /\ stubs' = [stubs EXCEPT ![s] = q]
          /\ client' = [client EXCEPT ![s] = client[s]] /\ pins' = [pins EXCEPT ![s] = pins[s]]
      BY <2>2 DEF DeliveryInv, SlotTypes
    <3>2. pins[s] # {}
      BY <2>2 DEF Rejected
    <3> HIDE DEF q
    <3>3. s \in Slot => /\ client[s] \in Client /\ pins[s] \in SUBSET File
                        /\ Fits(client[s], pins[s], q)
      BY <3>2 DEF DeliveryInv, SlotTypes, SlotFits, Fits
    <3> QED
      BY <3>1, <3>3, SlotChanges
  <2> QED
    BY <2>1, <2>2, DisconnectKeeps, Unqueued
<1> QED
  BY <1>1, <1>2, <1>3 DEF ThinkStep

-----------------------------------------------------------------------------
LEMMA Inductive == DeliveryInv /\ [Next]_vars => DeliveryInv'
<1> SUFFICES ASSUME DeliveryInv, [Next]_vars PROVE DeliveryInv'
  OBVIOUS
<1>1. ASSUME NEW s \in Slot,
             Connect(s) \/ DispatchRecovery(s) \/ Restart(s) \/ Prespawn(s)
      PROVE  DeliveryInv'
  BY <1>1, EngineKeeps
<1>2. ASSUME NEW s \in Slot, BeginSignon(s) \/ ClientActive(s) \/ SendServerInfo(s)
      PROVE  DeliveryInv'
  BY <1>2, BeginKeeps, ActiveKeeps, PollKeeps
<1>3. ASSUME NEW s \in Slot, Leave(s) PROVE DeliveryInv'
  BY <1>3, DisconnectKeeps DEF Leave
<1>4. ASSUME NEW s \in Slot, Requests(s) PROVE DeliveryInv'
  BY <1>4, RequestKeeps DEF Requests
<1>5. ASSUME NEW s \in Slot, Transmit(s) PROVE DeliveryInv'
  BY <1>5, Unqueued DEF Transmit, queues
<1>6. CASE Switch \/ Prepare \/ UNCHANGED vars
  BY <1>6, Unqueued DEF Switch, Prepare, vars, queues
<1>7. CASE LevelShutdown \/ \E f \in Edited : UpdateFile(f)
  BY <1>7, LevelKeeps, UpdateKeeps
<1>8. CASE ThinkStep
  BY <1>8, FrameKeeps
<1> QED
  BY <1>1, <1>2, <1>3, <1>4, <1>5, <1>6, <1>7, <1>8 DEF Next

LEMMA Invariant == Spec => []DeliveryInv
<1>1. Init => DeliveryInv
  BY VacantFits DEF Init, DeliveryInv, SlotTypes, SlotFits
<1> QED
  BY <1>1, Inductive, PTL DEF Spec

(* Pins and requests never outlive the baseline of the connection in their  *)
(* slot, whatever the order of callbacks, requests and frames.              *)
THEOREM PinsAreOfBaseline == Spec => []PinsFollowBaseline
<1>1. DeliveryInv => PinsFollowBaseline
  BY DEF DeliveryInv, SlotFits, Fits, PinsFollowBaseline, Present, Waiting
<1> QED
  BY <1>1, Invariant, PTL

(* A pinned file is never one that was registered again since the baseline. *)
THEOREM PinsAreUnchanged == Spec => []PinnedIsUnchanged
<1>1. DeliveryInv => PinnedIsUnchanged
  BY DEF DeliveryInv, SlotFits, Fits, PinnedIsUnchanged
<1> QED
  BY <1>1, Invariant, PTL

-----------------------------------------------------------------------------
(* Queues of slots.  A queue lists the slots of X: each of them once.       *)
Lists(q, X) == q \in Seq(X) /\ IsInjective(q) /\ Range(q) = X

LEMMA ListsNothing ==
  /\ Lists(<<>>, {})
  /\ \A q, X : Lists(q, X) => (q = <<>> <=> X = {})
<1>1. Lists(<<>>, {})
  BY DEF Lists, IsInjective, Range
<1>2. ASSUME NEW q, NEW X, Lists(q, X) PROVE q = <<>> <=> X = {}
  BY <1>2 DEF Lists, Range
<1> QED
  BY <1>1, <1>2

LEMMA ListsWithout ==
  ASSUME NEW q, NEW X, NEW s, Lists(q, X)
  PROVE  Lists(Without(q, s), X \ {s})
<1> DEFINE r == Without(q, s)
<1>1. r \in Seq(X) /\ IsInjective(r) /\ Range(r) = X \ {s}
  BY ThoseOf DEF Without, Lists
<1> HIDE DEF r
<1>2. r \in Seq(X \ {s})
  <2>1. DOMAIN r = 1 .. Len(r) /\ Len(r) \in Nat /\ \A i \in 1 .. Len(r) : r[i] \in X \ {s}
    BY <1>1 DEF Range
  <2>2. r \in [1 .. Len(r) -> X \ {s}]
    BY <1>1, <2>1
  <2> QED
    BY <2>1, <2>2
<1> QED
  BY <1>1, <1>2 DEF Lists, r

LEMMA ListsAppend ==
  ASSUME NEW q, NEW X, NEW s, Lists(q, X), s \notin X
  PROVE  Lists(Append(q, s), X \cup {s})
<1> DEFINE r == Append(q, s)
<1>1. q \in Seq(X) /\ q \in Seq(X \cup {s}) /\ IsInjective(q) /\ Range(q) = X
  BY DEF Lists
<1>2. /\ r \in Seq(X \cup {s}) /\ DOMAIN r = 1 .. Len(q) + 1 /\ DOMAIN q = 1 .. Len(q)
      /\ r[Len(q) + 1] = s /\ Len(q) \in Nat
      /\ \A i \in 1 .. Len(q) : r[i] = q[i] /\ q[i] \in X
  BY <1>1
<1> HIDE DEF r
<1>3. IsInjective(r)
  BY <1>1, <1>2 DEF IsInjective
<1>4. Range(r) = X \cup {s}
  <2>1. \A x \in X : \E i \in 1 .. Len(q) : q[i] = x
    BY <1>1, <1>2 DEF Range
  <2> QED
    BY <1>2, <2>1 DEF Range
<1> QED
  BY <1>2, <1>3, <1>4 DEF Lists, r

LEMMA ListsTail ==
  ASSUME NEW q, NEW X, Lists(q, X), q # <<>>
  PROVE  Head(q) \in X /\ Lists(Tail(q), X \ {Head(q)})
<1> DEFINE r == Tail(q)
           h == Head(q)
<1>1. q \in Seq(X) /\ IsInjective(q) /\ Range(q) = X
  BY DEF Lists
<1>2. /\ Len(q) \in Nat /\ Len(q) # 0 /\ DOMAIN q = 1 .. Len(q)
      /\ h = q[1] /\ r \in Seq(X) /\ Len(r) = Len(q) - 1 /\ DOMAIN r = 1 .. Len(q) - 1
      /\ \A i \in 1 .. Len(q) - 1 : r[i] = q[i + 1]
  BY <1>1
<1> HIDE DEF r, h
<1>3. h \in X
  BY <1>1, <1>2 DEF Range
<1>4. \A i \in 1 .. Len(q) - 1 : i + 1 \in 1 .. Len(q) /\ i + 1 # 1 /\ q[i + 1] \in X \ {h}
  <2> SUFFICES ASSUME NEW i \in 1 .. Len(q) - 1
               PROVE  i + 1 \in 1 .. Len(q) /\ i + 1 # 1 /\ q[i + 1] \in X \ {h}
    OBVIOUS
  <2>1. i + 1 \in 1 .. Len(q) /\ 1 \in 1 .. Len(q) /\ i + 1 # 1
    BY <1>2
  <2> QED
    BY <1>1, <1>2, <2>1 DEF IsInjective, Range
<1>5. r \in Seq(X \ {h})
  <2>1. r \in [1 .. Len(q) - 1 -> X \ {h}] /\ Len(q) - 1 \in Nat
    BY <1>2, <1>4
  <2> QED
    BY <2>1
<1>6. IsInjective(r)
  <2> SUFFICES ASSUME NEW i \in 1 .. Len(q) - 1, NEW j \in 1 .. Len(q) - 1, q[i + 1] = q[j + 1]
               PROVE  i = j
    BY <1>2 DEF IsInjective
  <2>1. i + 1 = j + 1
    BY <1>1, <1>2, <1>4 DEF IsInjective
  <2> QED
    BY <1>2, <2>1
<1>7. Range(r) = X \ {h}
  <2>1. ASSUME NEW x \in X \ {h} PROVE x \in Range(r)
    <3>1. PICK j \in 1 .. Len(q) : q[j] = x
      BY <1>1, <1>2 DEF Range
    <3>2. j - 1 \in 1 .. Len(q) - 1 /\ (j - 1) + 1 = j
      BY <1>2, <2>1, <3>1
    <3> QED
      BY <1>2, <3>1, <3>2 DEF Range
  <2>2. ASSUME NEW x \in Range(r) PROVE x \in X \ {h}
    BY <1>2, <1>4 DEF Range
  <2> QED
    BY <2>1, <2>2
<1> QED
  BY <1>3, <1>5, <1>6, <1>7 DEF Lists, r, h

(* The head goes to the tail: the same slots are listed.                    *)
LEMMA ListsRotated ==
  ASSUME NEW q, NEW X, Lists(q, X), q # <<>>
  PROVE  Lists(Append(Tail(q), Head(q)), X)
<1>1. Head(q) \in X /\ Lists(Append(Tail(q), Head(q)), (X \ {Head(q)}) \cup {Head(q)})
  BY ListsTail, ListsAppend
<1>2. (X \ {Head(q)}) \cup {Head(q)} = X
  BY <1>1
<1> QED
  BY <1>1, <1>2


-----------------------------------------------------------------------------
(* The invariant of the queues.  Both loops of a frame have looked at their *)
(* queue before they take its head.                                         *)
Behind == {s \in Slot : stubs[s] # <<>>}
Owed == {s \in Slot : pending[s] # 0}

StubsListed ==
  /\ stubs \in [Slot -> Seq(File)] /\ \A s \in Slot : IsInjective(stubs[s])
  /\ Lists(stubQueue, Behind)

InfoListed == pending \in [Slot -> 0 .. 2] /\ Lists(infoQueue, Owed)

FrameTypes ==
  frame \in [at : {"idle", "info", "stubs"}, left : Nat, served : 0 .. InfoBudget,
             sent : 0 .. StubBudget, stuck : Nat]

FrameLooked ==
  /\ FrameTypes
  /\ frame.at = "info" => infoQueue # <<>> /\ frame.left > 0 /\ frame.served < InfoBudget
  /\ frame.at = "stubs" => stubQueue # <<>> /\ frame.sent < StubBudget

OtherTypes ==
  /\ {enabled, refresh, baseWork} \subseteq BOOLEAN
  /\ space \in [Slot -> 0 .. Space]
  /\ events \in 0 .. MaxEvents

QueueInv == StubsListed /\ InfoListed /\ FrameLooked /\ OtherTypes

(* What a step does to the placeholders of one slot.                        *)
LEMMA StubsSame ==
  ASSUME StubsListed, UNCHANGED <<stubs, stubQueue>>
  PROVE  StubsListed'
BY DEF StubsListed, Behind

LEMMA StubsCleared ==
  ASSUME StubsListed, NEW s \in Slot,
         stubs' = [stubs EXCEPT ![s] = <<>>], stubQueue' = Without(stubQueue, s)
  PROVE  StubsListed'
<1>1. /\ stubs' \in [Slot -> Seq(File)] /\ stubs'[s] = <<>>
      /\ \A t \in Slot : t # s => stubs'[t] = stubs[t]
  BY DEF StubsListed
<1>2. IsInjective(<<>>)
  BY DEF IsInjective
<1>3. Behind' = Behind \ {s}
  BY <1>1 DEF Behind
<1>4. Lists(stubQueue', Behind \ {s})
  BY ListsWithout DEF StubsListed
<1> QED
  BY <1>1, <1>2, <1>3, <1>4 DEF StubsListed

LEMMA StubsChanged ==
  ASSUME StubsListed, NEW s \in Slot, NEW q \in Seq(File), IsInjective(q),
         stubs' = [stubs EXCEPT ![s] = q],
         Lists(stubQueue', IF q = <<>> THEN Behind \ {s} ELSE Behind \cup {s})
  PROVE  StubsListed'
<1>1. /\ stubs' \in [Slot -> Seq(File)] /\ stubs'[s] = q
      /\ \A t \in Slot : t # s => stubs'[t] = stubs[t]
  BY DEF StubsListed
<1>2. Behind' = IF q = <<>> THEN Behind \ {s} ELSE Behind \cup {s}
  BY <1>1 DEF Behind
<1> QED
  BY <1>1, <1>2 DEF StubsListed

(* What a step does to the ServerInfo request of one slot.                  *)
LEMMA InfoSame ==
  ASSUME InfoListed, UNCHANGED <<pending, infoQueue>>
  PROVE  InfoListed'
BY DEF InfoListed, Owed

LEMMA InfoCleared ==
  ASSUME InfoListed, NEW s \in Slot, pending' = [pending EXCEPT ![s] = 0],
         Lists(infoQueue', Owed \ {s})
  PROVE  InfoListed'
<1>1. pending' \in [Slot -> 0 .. 2] /\ pending'[s] = 0 /\ \A t \in Slot : t # s => pending'[t] = pending[t]
  BY DEF InfoListed
<1>2. Owed' = Owed \ {s}
  BY <1>1 DEF Owed
<1> QED
  BY <1>1, <1>2 DEF InfoListed

LEMMA InfoQueued ==
  ASSUME InfoListed, NEW s \in Slot, NEW n \in {1, 2}, pending' = [pending EXCEPT ![s] = n],
         infoQueue' = Append(Without(infoQueue, s), s)
  PROVE  InfoListed'
<1>1. pending' \in [Slot -> 0 .. 2] /\ pending'[s] = n /\ \A t \in Slot : t # s => pending'[t] = pending[t]
  BY DEF InfoListed
<1>2. Owed' = (Owed \ {s}) \cup {s}
  BY <1>1 DEF Owed
<1>3. Lists(infoQueue', (Owed \ {s}) \cup {s})
  BY ListsWithout, ListsAppend DEF InfoListed
<1> QED
  BY <1>1, <1>2, <1>3 DEF InfoListed

(* Between two frames nothing is asked of the frame.                        *)
LEMMA FrameIdle ==
  ASSUME FrameLooked, MainThreadFree, UNCHANGED frame
  PROVE  FrameLooked'
BY DEF FrameLooked, FrameTypes, MainThreadFree

LEMMA StubLoopLooks ==
  ASSUME NEW sent \in 0 .. StubBudget, NEW stuck \in Nat, frame' = StubLoop(sent, stuck)
  PROVE  FrameLooked'
<1>1. CASE sent < StubBudget /\ stubQueue' # <<>>
  <2>1. frame' = [Idle EXCEPT !.at = "stubs", !.sent = sent, !.stuck = stuck]
    BY <1>1 DEF StubLoop
  <2>2. frame' = [at |-> "stubs", left |-> 0, served |-> 0, sent |-> sent, stuck |-> stuck]
    BY <2>1 DEF Idle
  <2>3. 0 \in 0 .. StubBudget /\ 0 \in 0 .. InfoBudget /\ 0 \in Nat
    BY BudgetAssumption
  <2>4. FrameTypes'
    BY <2>2, <2>3 DEF FrameTypes
  <2> QED
    BY <1>1, <2>2, <2>4 DEF FrameLooked
<1>2. CASE ~(sent < StubBudget /\ stubQueue' # <<>>)
  <2>1. frame' = Idle
    BY <1>2 DEF StubLoop
  <2> QED
    BY <2>1, BudgetAssumption DEF FrameLooked, FrameTypes, Idle
<1> QED
  BY <1>1, <1>2

LEMMA InfoLoopLooks ==
  ASSUME NEW left \in Nat, NEW served \in 0 .. InfoBudget, frame' = InfoLoop(left, served)
  PROVE  FrameLooked'
<1>1. CASE served < InfoBudget /\ left > 0 /\ infoQueue' # <<>>
  <2>1. frame' = [Idle EXCEPT !.at = "info", !.left = left, !.served = served]
    BY <1>1 DEF InfoLoop
  <2>2. frame' = [at |-> "info", left |-> left, served |-> served, sent |-> 0, stuck |-> 0]
    BY <2>1 DEF Idle
  <2>3. 0 \in 0 .. StubBudget /\ 0 \in 0 .. InfoBudget /\ 0 \in Nat
    BY BudgetAssumption
  <2>4. FrameTypes'
    BY <2>2, <2>3 DEF FrameTypes
  <2> QED
    BY <1>1, <2>2, <2>4 DEF FrameLooked
<1>2. CASE ~(served < InfoBudget /\ left > 0 /\ infoQueue' # <<>>)
  <2>1. frame' = StubLoop(0, 0) /\ 0 \in 0 .. StubBudget /\ 0 \in Nat
    BY <1>2, BudgetAssumption DEF InfoLoop
  <2> QED
    BY <2>1, StubLoopLooks
<1> QED
  BY <1>1, <1>2

-----------------------------------------------------------------------------
(* Every step keeps the queues.                                             *)

LEMMA ClearListed ==
  ASSUME QueueInv, NEW s \in Slot, ClearDelivery(s)
  PROVE  StubsListed' /\ InfoListed'
<1>1. StubsListed'
  BY StubsCleared DEF QueueInv, ClearDelivery, ClearPinned
<1>2. Lists(infoQueue', Owed \ {s})
  BY ListsWithout DEF QueueInv, InfoListed, ClearDelivery
<1>3. InfoListed'
  BY <1>2, InfoCleared DEF QueueInv, ClearDelivery
<1> QED
  BY <1>1, <1>3

LEMMA DisconnectListed ==
  ASSUME QueueInv, NEW s \in Slot, Disconnect(s)
  PROVE  StubsListed' /\ InfoListed' /\ space' \in [Slot -> 0 .. Space]
<1>1. Space \in 0 .. Space
  BY SpaceAssumption
<1> QED
  BY <1>1, ClearListed DEF Disconnect, QueueInv, OtherTypes

(* The baseline is sent: from the poll or from the frame.                   *)
LEMMA SendListed ==
  ASSUME QueueInv, NEW s \in Slot, SendNow(s)
  PROVE  StubsListed' /\ space' \in [Slot -> 0 .. Space]
<1>1. CASE Disconnect(s)
  BY <1>1, DisconnectListed
<1>2. CASE ~Disconnect(s)
  <2>1. /\ stubs' = [stubs EXCEPT ![s] = <<>>] /\ stubQueue' = Without(stubQueue, s)
        /\ UNCHANGED space
    BY <1>2 DEF SendNow
  <2> QED
    BY <2>1, StubsCleared DEF QueueInv, OtherTypes
<1> QED
  BY <1>1, <1>2

(* The connection a poll queues is not 0.                                   *)
LEMMA PollListed ==
  ASSUME DeliveryInv, QueueInv, NEW s \in Slot, SendServerInfo(s)
  PROVE  QueueInv'
<1>1. FrameLooked'
  BY FrameIdle DEF SendServerInfo, QueueInv
<1>2. CASE UNCHANGED <<client, pins, stubs, stubQueue, space>> /\ QueueServerInfo(s)
  <2>1. client[s].conn \in {1, 2}
    <3>1. client[s].conn \in 0 .. 2 /\ client[s].conn # 0
      BY DEF SendServerInfo, Waiting, DeliveryInv, SlotTypes, SlotFits, Fits, Client
    <3> QED
      BY <3>1
  <2>2. InfoListed'
    BY <1>2, <2>1, InfoQueued DEF QueueServerInfo, QueueInv
  <2>3. StubsListed'
    BY <1>2, StubsSame DEF QueueInv
  <2>4. OtherTypes'
    BY <1>2 DEF SendServerInfo, QueueInv, OtherTypes, gate
  <2> QED
    BY <1>1, <2>2, <2>3, <2>4 DEF QueueInv
<1>3. CASE SendNow(s) /\ (Present(s)' => UNCHANGED <<pending, infoQueue>>)
  <2>1. StubsListed' /\ space' \in [Slot -> 0 .. Space]
    BY <1>3, SendListed
  <2>2. InfoListed'
    <3>1. CASE Disconnect(s)
      BY <3>1, DisconnectListed
    <3>2. CASE ~Disconnect(s)
      <4>1. client' = [client EXCEPT ![s].signon = "new", ![s].want = FALSE,
                 ![s].base = enabled /\ client[s].lane = "required", ![s].changed = {}]
        BY <1>3, <3>2 DEF SendNow
      <4>2. client[s] \in Client /\ client[s].conn # 0 /\ client \in [Slot -> Client]
        BY DEF SendServerInfo, Waiting, DeliveryInv, SlotTypes, SlotFits, Fits
      <4>3. Present(s)'
        BY <4>1, <4>2 DEF Present, Client
      <4> QED
        BY <1>3, <4>3, InfoSame DEF QueueInv
    <3> QED
      BY <3>1, <3>2
  <2>3. OtherTypes'
    BY <2>1 DEF SendServerInfo, QueueInv, OtherTypes, gate
  <2> QED
    BY <1>1, <2>1, <2>2, <2>3 DEF QueueInv
<1> QED
  BY <1>2, <1>3 DEF SendServerInfo

LEMMA LevelListed ==
  ASSUME QueueInv, LevelShutdown
  PROVE  QueueInv'
<1>1. /\ pending' = [s \in Slot |-> 0] /\ infoQueue' = <<>>
      /\ stubs' = [s \in Slot |-> <<>>] /\ stubQueue' = <<>>
  BY DEF LevelShutdown
<1>2. Behind' = {} /\ Owed' = {}
  BY <1>1 DEF Behind, Owed
<1>3. StubsListed'
  BY <1>1, <1>2, ListsNothing DEF StubsListed, IsInjective
<1>4. InfoListed'
  BY <1>1, <1>2, ListsNothing DEF InfoListed
<1>5. FrameLooked'
  BY FrameIdle DEF LevelShutdown, QueueInv
<1>6. OtherTypes'
  BY BoundAssumption DEF LevelShutdown, QueueInv, OtherTypes
<1> QED
  BY <1>3, <1>4, <1>5, <1>6 DEF QueueInv

(* New requests go behind those that wait, and none of them twice.          *)
LEMMA NewBehind ==
  ASSUME NEW q \in Seq(File), NEW X \in SUBSET File, IsInjective(q)
  PROVE  LET new == InOrder(X \ Range(q))
         IN  q \o new \in Seq(File) /\ IsInjective(q \o new)
             /\ Range(q \o new) = Range(q) \cup X
             /\ (q \o new = <<>> <=> q = <<>> /\ new = <<>>)
<1> DEFINE S == X \ Range(q)
           new == InOrder(S)
           r == q \o new
<1>1. S \in SUBSET Nat /\ IsFiniteSet(S) /\ S \subseteq File
  <2>1. File \subseteq Nat /\ IsFiniteSet(File)
    <3>1. 1 \in Int /\ NFiles \in Int
      BY BoundAssumption
    <3> QED
      BY <3>1, FS_Interval DEF File
  <2> QED
    BY <2>1, FS_Subset
<1>2. new \in Seq(S) /\ IsInjective(new) /\ Range(new) = S
  BY <1>1, InOrderLists
<1> HIDE DEF S, new, r
<1>3. new \in Seq(File) /\ \A i \in DOMAIN new : new[i] \in S
  <2>1. \A i \in DOMAIN new : new[i] \in S
    BY <1>2
  <2>2. new \in Seq(File)
    BY <1>1, <1>2, SeqMonotonic
  <2> QED
    BY <2>1, <2>2
<1>4. /\ r \in Seq(File) /\ Len(q) \in Nat /\ Len(new) \in Nat
      /\ DOMAIN q = 1 .. Len(q) /\ DOMAIN new = 1 .. Len(new)
      /\ DOMAIN r = 1 .. Len(q) + Len(new)
      /\ \A i \in 1 .. Len(q) : r[i] = q[i]
      /\ \A i \in DOMAIN r : i > Len(q) => i - Len(q) \in DOMAIN new /\ r[i] = new[i - Len(q)]
  BY <1>3 DEF r
<1>5. \A i \in 1 .. Len(q) : q[i] \in Range(q)
  BY <1>4 DEF Range
<1>6. IsInjective(r)
  <2> SUFFICES ASSUME NEW i \in DOMAIN r, NEW j \in DOMAIN r, r[i] = r[j] PROVE i = j
    BY DEF IsInjective
  <2>1. i \in Nat /\ j \in Nat
    BY <1>4
  <2>2. CASE i =< Len(q) /\ j =< Len(q)
    <3>1. i \in DOMAIN q /\ j \in DOMAIN q /\ q[i] = q[j]
      BY <1>4, <2>1, <2>2
    <3> QED
      BY <3>1 DEF IsInjective
  <2>3. CASE i > Len(q) /\ j > Len(q)
    <3>1. i - Len(q) = j - Len(q)
      BY <1>2, <1>4, <2>3 DEF IsInjective
    <3> QED
      BY <1>4, <2>1, <3>1
  <2>4. ASSUME NEW k \in DOMAIN r, NEW l \in DOMAIN r, k =< Len(q), l > Len(q)
        PROVE  r[k] # r[l]
    <3>1. k \in 1 .. Len(q) /\ r[k] \in Range(q)
      BY <1>4, <1>5, <2>4
    <3>2. r[l] \in S
      BY <1>3, <1>4, <2>4
    <3> QED
      BY <3>1, <3>2 DEF S
  <2> QED
    BY <1>4, <2>1, <2>2, <2>3, <2>4
<1>7. Range(r) = Range(q) \cup X
  <2>1. Range(r) = Range(q) \cup Range(new)
    BY <1>3, RangeConcatenation DEF r
  <2> QED
    BY <1>2, <2>1 DEF S
<1>8. r = <<>> <=> q = <<>> /\ new = <<>>
  BY <1>3 DEF r
<1> QED
  BY <1>4, <1>6, <1>7, <1>8 DEF r, new, S

LEMMA RequestListed ==
  ASSUME DeliveryInv, QueueInv, NEW s \in Slot, NEW files \in SUBSET File,
         OnFilesRequested(s, files)
  PROVE  QueueInv'
<1>1. FrameLooked'
  BY FrameIdle DEF OnFilesRequested, QueueInv
<1>2. CASE Disconnect(s)
  BY <1>1, <1>2, DisconnectListed DEF OnFilesRequested, QueueInv, OtherTypes, gate
<1>3. CASE ~Disconnect(s)
  <2> DEFINE asked == IF enabled THEN files \cap pins[s] ELSE {}
             new == InOrder(asked \ Range(stubs[s]))
             q == stubs[s] \o new
             others == files \ asked
  <2>1. /\ stubs' = [stubs EXCEPT ![s] = q]
        /\ stubQueue' = IF s \in Range(stubQueue) \/ new = <<>> THEN stubQueue
                        ELSE Append(stubQueue, s)
        /\ \E left \in IF others = {} THEN {space[s]} ELSE 0 .. space[s] :
             space' = [space EXCEPT ![s] = left]
        /\ UNCHANGED <<pending, infoQueue, gate, events>>
    BY <1>3 DEF OnFilesRequested, StubsListed, QueueInv
  <2>2. /\ stubs[s] \in Seq(File) /\ IsInjective(stubs[s]) /\ Lists(stubQueue, Behind)
        /\ asked \in SUBSET File
    BY DEF QueueInv, StubsListed
  <2>3. /\ q \in Seq(File) /\ IsInjective(q)
        /\ q = <<>> <=> stubs[s] = <<>> /\ new = <<>>
    <3> HIDE DEF asked
    <3> QED
      BY <2>2, NewBehind
  <2> HIDE DEF new, q
  <2>4. Range(stubQueue) = Behind
    BY <2>2 DEF Lists
  <2>5. Lists(stubQueue', IF q = <<>> THEN Behind \ {s} ELSE Behind \cup {s})
    <3>1. CASE s \in Behind
      <4>1. q # <<>> /\ Behind \cup {s} = Behind /\ stubQueue' = stubQueue
        BY <2>1, <2>3, <2>4, <3>1 DEF Behind
      <4> QED
        BY <2>2, <4>1
    <3>2. CASE s \notin Behind /\ new = <<>>
      <4>1. q = <<>> /\ Behind \ {s} = Behind /\ stubQueue' = stubQueue
        BY <2>1, <2>3, <3>2 DEF Behind
      <4> QED
        BY <2>2, <4>1
    <3>3. CASE s \notin Behind /\ new # <<>>
      <4>1. q # <<>> /\ stubQueue' = Append(stubQueue, s)
        BY <2>1, <2>3, <2>4, <3>3
      <4> QED
        BY <2>2, <3>3, <4>1, ListsAppend
    <3> QED
      BY <3>1, <3>2, <3>3
  <2>6. StubsListed'
    BY <2>1, <2>3, <2>5, StubsChanged DEF QueueInv
  <2>7. space' \in [Slot -> 0 .. Space]
    <3>1. space \in [Slot -> 0 .. Space] /\ space[s] \in 0 .. Space
      BY DEF QueueInv, OtherTypes
    <3>2. 0 .. space[s] \subseteq 0 .. Space
      BY <3>1, SpaceAssumption
    <3> QED
      BY <2>1, <3>1, <3>2
  <2>8. InfoListed'
    BY <2>1, InfoSame DEF QueueInv
  <2>9. OtherTypes'
    BY <2>1, <2>7 DEF QueueInv, OtherTypes, gate
  <2> QED
    BY <1>1, <2>6, <2>8, <2>9 DEF QueueInv
<1> QED
  BY <1>2, <1>3

LEMMA ThinkListed ==
  ASSUME QueueInv, ThinkStep
  PROVE  QueueInv'
<1>1. UNCHANGED <<gate, events>>
  BY DEF ThinkStep, ThinkBegin, DrainInfo, DrainStub
<1>2. CASE ThinkBegin
  <2>1. UNCHANGED <<queues, space>>
    BY <1>2 DEF ThinkBegin
  <2>2. FrameLooked'
    <3>1. Len(infoQueue) \in Nat /\ 0 \in 0 .. InfoBudget /\ 0 \in 0 .. StubBudget /\ 0 \in Nat
      BY BudgetAssumption DEF QueueInv, InfoListed, Lists
    <3> QED
      BY <1>2, <3>1, InfoLoopLooks, StubLoopLooks DEF ThinkBegin
  <2> QED
    BY <1>1, <2>1, <2>2, StubsSame, InfoSame DEF QueueInv, OtherTypes, queues, gate
<1>3. CASE DrainInfo
  <2> DEFINE s == Head(infoQueue)
  <2>1. infoQueue # <<>> /\ frame.left \in Nat /\ frame.left > 0
        /\ frame.served \in 0 .. InfoBudget /\ frame.served < InfoBudget
    BY <1>3 DEF DrainInfo, QueueInv, FrameLooked, FrameTypes
  <2>2. s \in Owed /\ Lists(Tail(infoQueue), Owed \ {s})
    BY <2>1, ListsTail DEF QueueInv, InfoListed
  <2>3. s \in Slot
    BY <2>2 DEF Owed
  <2>4. pending' = [pending EXCEPT ![s] = 0] /\ infoQueue' = Tail(infoQueue)
    BY <1>3 DEF DrainInfo
  <2>5. InfoListed'
    BY <2>2, <2>3, <2>4, InfoCleared DEF QueueInv
  <2>6. \/ SendNow(s) /\ frame' = InfoLoop(frame.left - 1, frame.served + 1)
        \/ /\ UNCHANGED <<stubs, stubQueue, space>>
           /\ frame' = InfoLoop(frame.left - 1, frame.served)
    BY <1>3 DEF DrainInfo
  <2> HIDE DEF s
  <2>7. StubsListed' /\ space' \in [Slot -> 0 .. Space]
    BY <2>3, <2>6, SendListed, StubsSame DEF QueueInv, OtherTypes
  <2>8. FrameLooked'
    <3>1. frame.left - 1 \in Nat /\ frame.served + 1 \in 0 .. InfoBudget
      BY <2>1, BudgetAssumption
    <3> QED
      BY <2>1, <2>6, <3>1, InfoLoopLooks
  <2> QED
    BY <1>1, <2>5, <2>7, <2>8 DEF QueueInv, OtherTypes, gate
<1>4. CASE DrainStub
  <2> DEFINE s == Head(stubQueue)
             q == Tail(stubs[s])
  <2>1. /\ stubQueue # <<>> /\ frame.sent \in 0 .. StubBudget /\ frame.sent < StubBudget
        /\ frame.stuck \in Nat
    BY <1>4 DEF DrainStub, QueueInv, FrameLooked, FrameTypes
  <2>2. Lists(stubQueue, Behind)
    BY DEF QueueInv, StubsListed
  <2>3. s \in Behind /\ s \in Slot
    BY <2>1, <2>2, ListsTail DEF Behind
  <2>4. CASE /\ stubQueue' = Rotated(s)
             /\ frame' = IF frame.stuck + 1 >= Len(stubQueue') THEN Idle
                         ELSE StubLoop(frame.sent, frame.stuck + 1)
             /\ UNCHANGED <<client, pending, infoQueue, pins, stubs, space>>
    <3>1. Lists(stubQueue', Behind)
      BY <2>1, <2>2, <2>4, ListsRotated DEF Rotated
    <3>2. StubsListed'
      BY <2>4, <3>1 DEF QueueInv, StubsListed, Behind
    <3>3. FrameLooked'
      <4>1. CASE frame' = Idle
        BY <4>1, BudgetAssumption DEF Idle, FrameLooked, FrameTypes
      <4>2. CASE frame' = StubLoop(frame.sent, frame.stuck + 1)
        BY <2>1, <4>2, StubLoopLooks
      <4> QED
        BY <2>4, <4>1, <4>2
    <3> QED
      BY <1>1, <2>4, <3>2, <3>3, InfoSame DEF QueueInv, OtherTypes, gate
  <2>5. CASE Disconnect(s) /\ frame' = StubLoop(frame.sent, 0)
    <3>1. StubsListed' /\ InfoListed' /\ space' \in [Slot -> 0 .. Space]
      BY <2>3, <2>5, DisconnectListed
    <3>2. FrameLooked'
      BY <2>1, <2>5, StubLoopLooks
    <3> QED
      BY <1>1, <3>1, <3>2 DEF QueueInv, OtherTypes, gate
  <2>6. CASE /\ ~NoSpace(s)
             /\ stubs' = [stubs EXCEPT ![s] = Tail(@)]
             /\ space' = [space EXCEPT ![s] = @ - 1]
             /\ stubQueue' = IF Len(stubs[s]) = 1 THEN Tail(stubQueue) ELSE Rotated(s)
             /\ frame' = StubLoop(frame.sent + 1, 0)
             /\ UNCHANGED <<client, pending, infoQueue, pins>>
    <3>1. /\ stubs[s] \in Seq(File) /\ stubs[s] # <<>> /\ Lists(stubs[s], Range(stubs[s]))
      BY <2>3, SeqOfRange DEF QueueInv, StubsListed, Behind, Lists
    <3>2. q \in Seq(File) /\ IsInjective(q) /\ (q = <<>> <=> Len(stubs[s]) = 1)
      <4>1. IsInjective(q)
        BY <3>1, ListsTail DEF Lists
      <4>2. q \in Seq(File) /\ Len(q) = Len(stubs[s]) - 1 /\ Len(stubs[s]) \in Nat
        BY <3>1
      <4> HIDE DEF q
      <4>3. q = <<>> <=> Len(q) = 0
        BY <4>2, EmptySeq
      <4> QED
        BY <4>1, <4>2, <4>3
    <3>3. stubs' = [stubs EXCEPT ![s] = q]
      BY <2>3, <2>6 DEF QueueInv, StubsListed
    <3> HIDE DEF q
    <3>4. Lists(stubQueue', IF q = <<>> THEN Behind \ {s} ELSE Behind \cup {s})
      <4>1. CASE q = <<>>
        BY <2>1, <2>2, <2>6, <3>2, <4>1, ListsTail
      <4>2. CASE q # <<>>
        <5>1. Behind \cup {s} = Behind
          BY <2>3
        <5> QED
          BY <2>1, <2>2, <2>6, <3>2, <4>2, <5>1, ListsRotated DEF Rotated
      <4> QED
        BY <4>1, <4>2
    <3>5. StubsListed'
      BY <2>3, <3>2, <3>3, <3>4, StubsChanged DEF QueueInv
    <3>6. space' \in [Slot -> 0 .. Space]
      <4>1. space \in [Slot -> 0 .. Space] /\ space[s] # 0
        BY <2>6 DEF NoSpace, QueueInv, OtherTypes
      <4>2. space[s] - 1 \in 0 .. Space
        BY <2>3, <4>1, SpaceAssumption
      <4> HIDE DEF s
      <4> QED
        BY <2>6, <4>1, <4>2
    <3>7. FrameLooked'
      <4>1. frame.sent + 1 \in 0 .. StubBudget
        BY <2>1, BudgetAssumption
      <4> QED
        BY <2>6, <4>1, StubLoopLooks
    <3> QED
      BY <1>1, <2>6, <3>5, <3>6, <3>7, InfoSame DEF QueueInv, OtherTypes, gate
  <2> QED
    BY <1>4, <2>4, <2>5, <2>6 DEF DrainStub
<1> QED
  BY <1>2, <1>3, <1>4 DEF ThinkStep

LEMMA EventsBound == MaxEvents \in Nat
BY BoundAssumption

LEMMA QueueInductive == DeliveryInv /\ QueueInv /\ [Next]_vars => QueueInv'
<1> SUFFICES ASSUME DeliveryInv, QueueInv, [Next]_vars PROVE QueueInv'
  OBVIOUS
<1>1. ASSUME UNCHANGED <<pending, infoQueue, stubs, stubQueue>>, FrameLooked', OtherTypes'
      PROVE  QueueInv'
  BY <1>1, StubsSame, InfoSame DEF QueueInv
<1>2. ASSUME NEW s \in Slot,
             Connect(s) \/ DispatchRecovery(s) \/ Restart(s) \/ Prespawn(s) \/ Transmit(s)
      PROVE  QueueInv'
  <2>1. MainThreadFree /\ UNCHANGED <<gate, queues, frame, events>>
    BY <1>2 DEF Connect, DispatchRecovery, Restart, Prespawn, Transmit
  <2>2. space' \in [Slot -> 0 .. Space]
    <3>1. Space \in 0 .. Space
      BY SpaceAssumption
    <3> QED
      BY <1>2, <3>1 DEF Connect, DispatchRecovery, Restart, Prespawn, Transmit, QueueInv, OtherTypes
  <2>3. FrameLooked'
    BY <2>1, FrameIdle DEF QueueInv
  <2> QED
    BY <1>1, <2>1, <2>2, <2>3 DEF QueueInv, OtherTypes, gate, queues
<1>3. ASSUME NEW s \in Slot, BeginSignon(s) PROVE QueueInv'
  <2>1. StubsListed' /\ InfoListed'
    BY <1>3, ClearListed DEF BeginSignon
  <2>2. FrameLooked' /\ OtherTypes'
    BY <1>3, FrameIdle DEF BeginSignon, QueueInv, OtherTypes, gate
  <2> QED
    BY <2>1, <2>2 DEF QueueInv
<1>4. ASSUME NEW s \in Slot, Leave(s) \/ ClientActive(s) PROVE QueueInv'
  <2>1. FrameLooked' /\ UNCHANGED <<gate, events>>
    BY <1>4, FrameIdle DEF Leave, ClientActive, QueueInv
  <2>2. CASE Disconnect(s)
    BY <2>1, <2>2, DisconnectListed DEF QueueInv, OtherTypes, gate
  <2>3. CASE ~Disconnect(s)
    BY <1>1, <1>4, <2>1, <2>3 DEF Leave, ClientActive, QueueInv, OtherTypes, gate, queues
  <2> QED
    BY <2>2, <2>3
<1>5. ASSUME NEW s \in Slot, SendServerInfo(s) \/ Requests(s) PROVE QueueInv'
  BY <1>5, PollListed, RequestListed DEF Requests
<1>6. CASE LevelShutdown
  BY <1>6, LevelListed
<1>7. CASE Switch \/ Prepare \/ \E f \in Edited : UpdateFile(f)
  <2>1. MainThreadFree /\ UNCHANGED <<pending, infoQueue, stubs, stubQueue, frame>>
    BY <1>7 DEF Switch, Prepare, UpdateFile, queues
  <2>2. OtherTypes'
    <3>1. /\ {enabled, refresh, baseWork}' \subseteq BOOLEAN /\ space' = space
          /\ events' = events \/ (events < MaxEvents /\ events' = events + 1)
      BY <1>7 DEF Switch, Prepare, UpdateFile, QueueInv, OtherTypes, gate
    <3> QED
      BY <3>1, EventsBound DEF QueueInv, OtherTypes
  <2> QED
    BY <1>1, <2>1, <2>2, FrameIdle DEF QueueInv
<1>8. CASE ThinkStep
  BY <1>8, ThinkListed
<1>9. CASE UNCHANGED vars
  BY <1>1, <1>9 DEF vars, queues, gate, QueueInv, FrameLooked, FrameTypes, OtherTypes
<1> QED
  BY <1>2, <1>3, <1>4, <1>5, <1>6, <1>7, <1>8, <1>9 DEF Next

LEMMA QueueInit == Init => QueueInv
<1> SUFFICES ASSUME Init PROVE QueueInv
  OBVIOUS
<1>1. stubs = [s \in Slot |-> <<>>] /\ pending = [s \in Slot |-> 0]
      /\ stubQueue = <<>> /\ infoQueue = <<>>
  BY DEF Init
<1>2. Behind = {} /\ Owed = {}
  BY <1>1 DEF Behind, Owed
<1>3. StubsListed /\ InfoListed
  BY <1>1, <1>2, ListsNothing DEF StubsListed, InfoListed, IsInjective
<1>4. FrameLooked
  BY BudgetAssumption DEF Init, Idle, FrameLooked, FrameTypes
<1>5. OtherTypes
  <2>1. 0 \in 0 .. MaxEvents /\ Space \in 0 .. Space
    BY EventsBound, SpaceAssumption
  <2> QED
    BY <2>1 DEF Init, OtherTypes
<1> QED
  BY <1>3, <1>4, <1>5 DEF QueueInv

LEMMA QueueInvariant == Spec => [](DeliveryInv /\ QueueInv)
BY Invariant, QueueInit, QueueInductive, PTL DEF Spec

(* Every variable has its type: among others, a frame never serves more     *)
(* than its budgets, and the stream never holds more than there is space.   *)
THEOREM TypeCorrect == Spec => []TypeOK
<1>1. DeliveryInv /\ QueueInv => TypeOK
  <2> SUFFICES ASSUME DeliveryInv, QueueInv PROVE TypeOK
    OBVIOUS
  <2>1. infoQueue \in Seq(Slot) /\ stubQueue \in Seq(Slot)
    <3>1. infoQueue \in Seq(Owed) /\ stubQueue \in Seq(Behind)
      BY DEF QueueInv, InfoListed, StubsListed, Lists
    <3> QED
      BY <3>1, SeqMonotonic DEF Owed, Behind
  <2> QED
    BY <2>1 DEF DeliveryInv, SlotTypes, QueueInv, StubsListed, InfoListed, FrameLooked, FrameTypes,
       OtherTypes, TypeOK
<1> QED
  BY <1>1, QueueInvariant, PTL

(* A slot is in a queue exactly while it waits there, and once: a request   *)
(* is neither forgotten by the round robin nor served twice.                *)
THEOREM QueuesAreExact == Spec => []QueuedIsScheduled
<1>1. QueueInv => QueuedIsScheduled
  BY DEF QueueInv, StubsListed, InfoListed, Lists, Behind, Owed, QueuedIsScheduled
<1> QED
  BY <1>1, QueueInvariant, PTL

Dropped(s) == Range(stubs[s]) \ Range(stubs'[s])

Accounted(s, f) ==
  \/ space'[s] < space[s] /\ f = Head(stubs[s])
  \/ {"none", "connected"} \cap {client[s].signon, client'[s].signon} # {}

LEMMA DroppedAreAccounted ==
  ASSUME DeliveryInv, QueueInv, [Next]_vars, NEW s \in Slot, NEW f \in Dropped(s)
  PROVE  Accounted(s, f)
<1>1. /\ stubs'[s] # stubs[s] /\ f \in Range(stubs[s]) /\ f \notin Range(stubs'[s])
      /\ stubs \in [Slot -> Seq(File)] /\ client \in [Slot -> Client]
      /\ \A t \in Slot : IsInjective(stubs[t])
  BY DEF Dropped, DeliveryInv, SlotTypes, QueueInv, StubsListed
<1>2. ASSUME NEW t, NEW q, stubs' = [stubs EXCEPT ![t] = q] PROVE t = s
  BY <1>1, <1>2
<1>3. ASSUME NEW t, Disconnect(t) PROVE Accounted(s, f)
  <2>1. t = s
    BY <1>2, <1>3 DEF Disconnect, ClearDelivery, ClearPinned
  <2> QED
    BY <1>1, <1>3, <2>1 DEF Disconnect, Vacant, Accounted
<1>4. ASSUME NEW t, client[t].signon = "connected", stubs' = [stubs EXCEPT ![t] = <<>>]
      PROVE  Accounted(s, f)
  BY <1>2, <1>4 DEF Accounted
<1>5. ASSUME NEW t, SendNow(t), Waiting(t) PROVE Accounted(s, f)
  BY <1>3, <1>4, <1>5 DEF SendNow, Waiting
<1>6. ASSUME NEW t \in Slot, BeginSignon(t) \/ Leave(t) \/ ClientActive(t) \/ SendServerInfo(t)
      PROVE  Accounted(s, f)
  BY <1>1, <1>3, <1>4, <1>5, <1>6
     DEF BeginSignon, Leave, ClientActive, SendServerInfo, ClearDelivery, ClearPinned, queues
<1>7. CASE LevelShutdown
  <2>1. client'[s].signon \in {"none", "connected"}
    BY <1>1, <1>7 DEF LevelShutdown, Restarted, Vacant, Client
  <2> QED
    BY <2>1 DEF Accounted
<1>8. ASSUME NEW t \in Slot, Requests(t) PROVE Accounted(s, f)
  <2>1. PICK files \in SUBSET File : OnFilesRequested(t, files)
    BY <1>8 DEF Requests
  <2> DEFINE asked == IF enabled THEN files \cap pins[t] ELSE {}
             q == stubs[t] \o InOrder(asked \ Range(stubs[t]))
  <2>2. CASE stubs' = [stubs EXCEPT ![t] = q]
    <3>1. t = s
      BY <1>2, <2>2
    <3>2. Range(stubs[t]) \subseteq Range(q)
      <4>1. asked \in SUBSET File
        OBVIOUS
      <4> HIDE DEF asked
      <4> QED
        BY <1>1, <4>1, NewBehind
    <3> HIDE DEF q
    <3> QED
      BY <1>1, <2>2, <3>1, <3>2
  <2>3. CASE Disconnect(t)
    BY <1>3, <2>3
  <2> QED
    BY <1>1, <2>1, <2>2, <2>3 DEF OnFilesRequested
<1>9. CASE ThinkStep
  <2>1. CASE ThinkBegin
    BY <1>1, <2>1 DEF ThinkBegin, queues
  <2>2. CASE DrainInfo
    BY <1>1, <1>5, <2>2 DEF DrainInfo, StillWanted
  <2>3. CASE DrainStub
    <3> DEFINE t == Head(stubQueue)
    <3>1. CASE Disconnect(t)
      BY <1>3, <3>1
    <3>2. CASE /\ ~NoSpace(t) /\ stubs' = [stubs EXCEPT ![t] = Tail(@)]
               /\ space' = [space EXCEPT ![t] = @ - 1]
      <4>1. t = s
        BY <1>2, <3>2
      <4> HIDE DEF t
      <4>2. stubs'[s] = Tail(stubs[s]) /\ stubs[s] # <<>> /\ Lists(stubs[s], Range(stubs[s]))
        <5>1. stubs[s] \in Seq(File) /\ stubs'[s] = Tail(stubs[s])
          BY <1>1, <3>2, <4>1
        <5>2. stubs[s] # <<>>
          BY <1>1 DEF Range
        <5> QED
          BY <1>1, <5>1, <5>2, SeqOfRange DEF Lists
      <4>3. f = Head(stubs[s])
        <5>1. Range(Tail(stubs[s])) = Range(stubs[s]) \ {Head(stubs[s])}
          BY <4>2, ListsTail DEF Lists
        <5> QED
          BY <1>1, <4>2, <5>1
      <4>4. space'[s] < space[s]
        <5>1. space \in [Slot -> 0 .. Space] /\ space[s] \in Nat /\ space'[s] = space[s] - 1
          BY <3>2, <4>1, SpaceAssumption DEF QueueInv, OtherTypes
        <5> QED
          BY <5>1
      <4> QED
        BY <4>3, <4>4 DEF Accounted
    <3> QED
      BY <1>1, <2>3, <3>1, <3>2 DEF DrainStub
  <2> QED
    BY <1>9, <2>1, <2>2, <2>3 DEF ThinkStep
<1>10. ASSUME NEW t \in Slot,
              Connect(t) \/ DispatchRecovery(t) \/ Restart(t) \/ Prespawn(t) \/ Transmit(t)
       PROVE  UNCHANGED stubs
  BY <1>10 DEF Connect, DispatchRecovery, Restart, Prespawn, Transmit, queues
<1>11. CASE Switch \/ Prepare \/ (\E g \in Edited : UpdateFile(g)) \/ UNCHANGED vars
  BY <1>1, <1>11 DEF Switch, Prepare, UpdateFile, vars, queues
<1> QED
  BY <1>1, <1>6, <1>7, <1>8, <1>9, <1>10, <1>11 DEF Next

(* A placeholder leaves its queue by being written, or with its join.       *)
THEOREM NoRequestIsDropped == Spec => NothingDropped
<1>1. DeliveryInv /\ QueueInv /\ [Next]_vars =>
        \A s \in Slot : \A f \in Range(stubs[s]) \ Range(stubs'[s]) :
          \/ space'[s] < space[s] /\ f = Head(stubs[s])
          \/ {"none", "connected"} \cap {client[s].signon, client'[s].signon} # {}
  BY DroppedAreAccounted DEF Dropped, Accounted
<1> QED
  BY <1>1, QueueInvariant, PTL DEF NothingDropped, Spec
=============================================================================
