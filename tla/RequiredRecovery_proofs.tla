----------------------- MODULE RequiredRecovery_proofs -----------------------
(***************************************************************************)
(* For every number of slots and accounts: the variables of the recovery   *)
(* keep their types, no identity or handoff outlives the connection it     *)
(* belongs to, and the recovery implements OneShotRecovery.  Then, as long *)
(* as no other client of the account is connected: the latch a pending     *)
(* handoff counts on outlives the handoff, what a client is sent follows   *)
(* the lane of its baseline, and no epoch is asked to reconnect twice.     *)
(***************************************************************************)
EXTENDS RequiredRecovery, TLAPS

(* What a slot's engine client, pin and handoff say of each other.  It is   *)
(* the strengthening that makes IdentityOfOccupant and HandoffOwned         *)
(* inductive: an identity is only known of a client that is present, so a   *)
(* slot the engine gives away holds neither identity nor handoff.           *)
SlotOwned(s) ==
  /\ engine[s].known \/ engine[s].owed # {} => Present(s)
  /\ Present(s) => engine[s].account \in Accounts
  /\ pin[s].steam # NoAccount => engine[s].known /\ engine[s].account = pin[s].steam
  /\ Pending(s) => engine[s].known /\ engine[s].account = handoff[s].account
  /\ handoff[s].phase = "Queued" =>
       pin[s].serial = handoff[s].failed /\ pin[s].steam = handoff[s].account

IInv == TypeOK /\ \A s \in Slots : SlotOwned(s)

-----------------------------------------------------------------------------
(* What the helpers return.                                                 *)

LEMMA ConstantTypes ==
  /\ NoEntry \in Entry /\ NoHandoff \in Handoff /\ NoPin \in Pin /\ Vacant \in Client
  /\ 0 \in Serials /\ 0 \in Slots
BY NSlotsAssumption, SerialAssumption, WindowAssumption
   DEF NoEntry, Entry, NoHandoff, Handoff, NoPin, Pin, Vacant, Client, Serials, Lanes, Slots

LEMMA BoundPin ==
  ASSUME TypeOK, NEW s \in Slots, NEW p \in Pin
  PROVE  /\ Bound(s, p) \in Pin
         /\ Bound(s, p).serial = p.serial
         /\ \/ Bound(s, p).steam = p.steam
            \/ p.steam = NoAccount /\ engine[s].known
               /\ Bound(s, p).steam = engine[s].account
BY DEF TypeOK, Bound, CanBind, Pin, Client

LEMMA ResolvedPin ==
  ASSUME TypeOK, NEW s \in Slots, NEW p \in Pin, NEW choice \in LaneChoices
  PROVE  /\ Resolved(s, p, choice) \in Pin
         /\ Resolved(s, p, choice).serial = p.serial
         /\ \/ Resolved(s, p, choice).steam = p.steam
            \/ p.steam = NoAccount /\ engine[s].known
               /\ Resolved(s, p, choice).steam = engine[s].account
<1> DEFINE b == Bound(s, p)
<1>1. /\ b \in Pin /\ b.serial = p.serial
      /\ \/ b.steam = p.steam
         \/ p.steam = NoAccount /\ engine[s].known /\ b.steam = engine[s].account
  BY BoundPin
<1>2. choice \in {"Required", "NativeOptOut", "NativeRescue"}
  BY LaneAssumption
<1>3. Resolved(s, p, choice) \in
        {p, [b EXCEPT !.lane = "NativeRecovery", !.ready = FALSE],
         [b EXCEPT !.lane = "Required"], [b EXCEPT !.lane = choice, !.ready = FALSE],
         [p EXCEPT !.lane = choice, !.ready = FALSE]}
  BY <1>2 DEF Resolved
<1> HIDE DEF b
<1>4. \A q \in {b, p} : /\ [q EXCEPT !.lane = choice, !.ready = FALSE] \in Pin
                        /\ [q EXCEPT !.lane = "NativeRecovery", !.ready = FALSE] \in Pin
                        /\ [q EXCEPT !.lane = "Required"] \in Pin
  BY <1>1, <1>2 DEF Pin, Lanes
<1>5. Resolved(s, p, choice) \in Pin
  BY <1>3, <1>4
<1>6. /\ Resolved(s, p, choice).serial \in {b.serial, p.serial}
      /\ Resolved(s, p, choice).steam \in {b.steam, p.steam}
  BY <1>1, <1>3 DEF Pin
<1> QED
  BY <1>1, <1>5, <1>6

LEMMA ProvenPinPin ==
  ASSUME TypeOK, NEW s \in Slots, NEW p \in Pin
  PROVE  /\ ProvenPin(s, p) \in Pin
         /\ ProvenPin(s, p).serial = p.serial
         /\ \/ ProvenPin(s, p).steam = p.steam
            \/ p.steam = NoAccount /\ engine[s].known
               /\ ProvenPin(s, p).steam = engine[s].account
<1> DEFINE b == Bound(s, p)
<1>1. /\ b \in Pin /\ b.serial = p.serial
      /\ \/ b.steam = p.steam
         \/ p.steam = NoAccount /\ engine[s].known /\ b.steam = engine[s].account
  BY BoundPin
<1>2. PICK c \in BOOLEAN : ProvenPin(s, p) \in {p, b, [b EXCEPT !.cleared = c]}
  <2> DEFINE a == engine[s].account
             d == \/ p.lane = "NativeRecovery" /\ OwnsConsumed(a, p.serial)
                  \/ Succeeded(p) /\ ~RetainsOwnLatch(a, p.serial)
  <2>1. d \in BOOLEAN
    OBVIOUS
  <2>2. ProvenPin(s, p) \in {p, b, [b EXCEPT !.cleared = d]}
    BY DEF ProvenPin
  <2> QED
    BY <2>1, <2>2
<1> HIDE DEF b
<1> QED
  BY <1>1, <1>2 DEF Pin

LEMMA ConsumedLatch ==
  ASSUME TypeOK, NEW a \in Accounts, NEW c \in Serials
  PROVE  Consumed(a, c) \in [Accounts -> Entry]
<1>1. latch \in [Accounts -> Entry] /\ latch[a] \in Entry
  BY DEF TypeOK
<1>2. /\ [latch[a] EXCEPT !.phase = "Consumed", !.recovery = c] \in Entry
      /\ NoEntry \in Entry
  BY <1>1, ConstantTypes DEF Entry
<1> QED
  BY <1>1, <1>2 DEF Consumed

LEMMA ProvenLatchType ==
  ASSUME TypeOK, NEW s \in Slots, NEW p \in Pin
  PROVE  ProvenLatch(s, p) \in [Accounts -> Entry]
BY ConstantTypes DEF TypeOK, ProvenLatch

LEMMA LatchAfterLaneType ==
  ASSUME IInv, NEW s \in Slots, NEW p \in Pin, NEW choice \in LaneChoices
  PROVE  LatchAfterLane(s, p, choice) \in [Accounts -> Entry]
BY ConsumedLatch DEF LatchAfterLane, IInv, SlotOwned, TypeOK, Pin, CanBind

-----------------------------------------------------------------------------
(* How a step keeps a slot owned.                                           *)

(* The client of the slot stays; its pin keeps epoch and identity, binds    *)
(* the client's identity, or is reset with no handoff queued; its handoff   *)
(* stays, is dropped or moves on.                                           *)
LEMMA SlotKept ==
  ASSUME IInv, NEW t \in Slots,
         engine'[t].known = engine[t].known,
         engine'[t].account = engine[t].account,
         Present(t)' <=> Present(t),
         engine'[t].owed = {} \/ Present(t),
         \/ handoff'[t] = handoff[t]
         \/ handoff'[t] = NoHandoff
         \/ /\ Pending(t) /\ handoff'[t].account = handoff[t].account
            /\ handoff'[t].phase # "Queued",
         pin'[t].serial = pin[t].serial \/ handoff'[t].phase # "Queued",
         \/ pin'[t].steam = pin[t].steam
         \/ pin[t].steam = NoAccount /\ engine[t].known /\ pin'[t].steam = engine[t].account
         \/ pin'[t].steam = NoAccount /\ handoff'[t].phase # "Queued"
  PROVE  SlotOwned(t)'
BY AccountAssumption DEF IInv, SlotOwned, Present, Pending, NoHandoff

(* Nothing of the slot changes.                                             *)
LEMMA SlotUntouched ==
  ASSUME IInv, NEW t \in Slots, engine'[t] = engine[t], pin'[t] = pin[t],
         handoff'[t] = handoff[t] \/ handoff'[t] = NoHandoff
  PROVE  SlotOwned(t)'
BY DEF IInv, SlotOwned, Present, Pending, NoHandoff

(* A physical disconnect empties the slot and at most drops the handoffs of *)
(* the others.                                                              *)
LEMMA DisconnectKeeps ==
  ASSUME IInv, NEW s \in Slots, Disconnect(s)
  PROVE  /\ handoff' \in [Slots -> Handoff] /\ pin' \in [Slots -> Pin]
         /\ engine' \in [Slots -> Client] /\ served' \in [Slots -> Lanes \cup {"none"}]
         /\ \A t \in Slots : SlotOwned(t)'
<1>1. /\ handoff' \in [Slots -> Handoff] /\ pin' \in [Slots -> Pin]
      /\ engine' \in [Slots -> Client] /\ served' \in [Slots -> Lanes \cup {"none"}]
  BY ConstantTypes DEF IInv, TypeOK, Disconnect, DropHandoffs
<1>2. ASSUME NEW t \in Slots PROVE SlotOwned(t)'
  <2>1. CASE t = s
    <3>1. engine'[t] = Vacant /\ pin'[t] = NoPin /\ handoff'[t] = NoHandoff
      BY <2>1 DEF IInv, TypeOK, Disconnect, DropHandoffs
    <3> QED
      BY <3>1 DEF SlotOwned, Present, Pending, Vacant, NoPin, NoHandoff
  <2>2. CASE t # s
    <3>1. /\ engine'[t] = engine[t] /\ pin'[t] = pin[t]
          /\ handoff'[t] = handoff[t] \/ handoff'[t] = NoHandoff
      BY <2>2 DEF IInv, TypeOK, Disconnect, DropHandoffs
    <3> QED
      BY <3>1, SlotUntouched
  <2> QED
    BY <2>1, <2>2
<1> QED
  BY <1>1, <1>2

-----------------------------------------------------------------------------
(* The steps of the engine and its callbacks.                               *)

LEMMA EngineKeeps ==
  ASSUME IInv, NEW s \in Slots,
         EngineConnect(s) \/ SteamIdentity(s) \/ EngineDisconnect(s)
  PROVE  IInv'
<1> USE DEF IInv
<1>1. CASE EngineConnect(s)
  <2>1. PICK c \in Client :
          /\ engine' = [engine EXCEPT ![s] = c]
          /\ c.signon = "connected" /\ c.account \in Accounts
    <3>1. ASSUME NEW a \in Accounts, NEW known \in BOOLEAN
          PROVE  [signon |-> "connected", account |-> a, known |-> known, auth |-> FALSE,
                  sendInfo |-> FALSE, owed |-> {"connect"}] \in Client
      BY DEF Client
    <3> QED
      BY <1>1, <3>1 DEF EngineConnect
  <2>2. TypeOK'
    BY <1>1, <2>1 DEF TypeOK, EngineConnect
  <2>3. ASSUME NEW t \in Slots PROVE SlotOwned(t)'
    <3>1. CASE t = s
      <4>1. /\ engine'[t] = c /\ pin'[t] = pin[t] /\ handoff'[t] = handoff[t]
            /\ ~engine[t].known
        BY <1>1, <2>1, <3>1 DEF EngineConnect, TypeOK, SlotOwned
      <4> QED
        BY <2>1, <4>1 DEF SlotOwned, Present, Pending
    <3>2. CASE t # s
      BY <1>1, <2>1, <3>2, SlotUntouched DEF EngineConnect, TypeOK
    <3> QED
      BY <3>1, <3>2
  <2> QED
    BY <2>2, <2>3
<1>2. CASE SteamIdentity(s)
  <2>1. PICK c \in Client :
          /\ engine' = [engine EXCEPT ![s] = c]
          /\ c.signon = engine[s].signon /\ c.account = engine[s].account
          /\ engine[s].known => c.known
    <3>1. engine[s] \in Client
      BY DEF TypeOK
    <3>2. /\ [engine[s] EXCEPT !.known = TRUE] \in Client
          /\ [engine[s] EXCEPT !.auth = TRUE] \in Client
      BY <3>1 DEF Client
    <3> QED
      BY <1>2, <3>1, <3>2 DEF SteamIdentity, Client
  <2>2. TypeOK'
    BY <1>2, <2>1 DEF TypeOK, SteamIdentity
  <2>3. ASSUME NEW t \in Slots PROVE SlotOwned(t)'
    <3>1. CASE t = s
      <4>1. /\ engine'[t] = c /\ pin'[t] = pin[t] /\ handoff'[t] = handoff[t]
            /\ Present(t)
        BY <1>2, <2>1, <3>1 DEF SteamIdentity, TypeOK
      <4> QED
        BY <2>1, <3>1, <4>1 DEF SlotOwned, Present, Pending
    <3>2. CASE t # s
      BY <1>2, <2>1, <3>2, SlotUntouched DEF SteamIdentity, TypeOK
    <3> QED
      BY <3>1, <3>2
  <2> QED
    BY <2>2, <2>3
<1>3. CASE EngineDisconnect(s)
  <2>1. TypeOK'
    BY <1>3, DisconnectKeeps DEF EngineDisconnect, TypeOK
  <2> QED
    BY <1>3, <2>1, DisconnectKeeps DEF EngineDisconnect
<1> QED
  BY <1>1, <1>2, <1>3

LEMMA EpochPin ==
  ASSUME TypeOK, next < MaxSerial
  PROVE  /\ next + 1 \in Serials /\ Epoch(next + 1) \in Pin
         /\ Epoch(next + 1).steam = NoAccount
<1>1. next + 1 \in Serials /\ enabled \in BOOLEAN /\ base \in BOOLEAN
  BY SerialAssumption DEF TypeOK, Serials
<1> QED
  BY <1>1, ConstantTypes DEF Epoch, NoPin, Pin

(* A handler of slot s that leaves its engine client in place.              *)
LEMMA SlotOnly ==
  ASSUME IInv, NEW s \in Slots, NEW c \in Client, NEW p \in Pin,
         engine' = [engine EXCEPT ![s] = c], pin' = [pin EXCEPT ![s] = p],
         c.known = engine[s].known, c.account = engine[s].account,
         c.signon # "none" <=> Present(s),
         c.owed = {} \/ Present(s),
         \/ /\ handoff' = handoff
            /\ \/ p.serial = pin[s].serial
               \/ handoff[s].phase # "Queued"
         \/ handoff' = [handoff EXCEPT ![s] = NoHandoff],
         \/ p.steam = pin[s].steam
         \/ pin[s].steam = NoAccount /\ engine[s].known /\ p.steam = engine[s].account
         \/ p.steam = NoAccount /\ (handoff[s].phase # "Queued" \/ handoff' # handoff)
  PROVE  /\ engine' \in [Slots -> Client] /\ pin' \in [Slots -> Pin]
         /\ handoff' \in [Slots -> Handoff]
         /\ \A t \in Slots : SlotOwned(t)'
<1> USE DEF IInv, TypeOK
<1>1. /\ engine' \in [Slots -> Client] /\ pin' \in [Slots -> Pin]
      /\ handoff' \in [Slots -> Handoff]
  BY ConstantTypes
<1>2. ASSUME NEW t \in Slots PROVE SlotOwned(t)'
  <2>1. CASE t = s
    <3>1. engine'[t] = c /\ pin'[t] = p
      BY <2>1
    <3>2. /\ Present(t)' <=> Present(t)
          /\ engine'[t].known = engine[t].known /\ engine'[t].account = engine[t].account
          /\ engine'[t].owed = {} \/ Present(t)
      BY <2>1, <3>1 DEF Present
    <3>3. /\ \/ handoff'[t] = handoff[t]
             \/ handoff'[t] = NoHandoff
          /\ pin'[t].serial = pin[t].serial \/ handoff'[t].phase # "Queued"
          /\ \/ pin'[t].steam = pin[t].steam
             \/ pin[t].steam = NoAccount /\ engine[t].known /\ pin'[t].steam = engine[t].account
             \/ pin'[t].steam = NoAccount /\ handoff'[t].phase # "Queued"
      BY <2>1, <3>1 DEF NoHandoff
    <3> QED
      BY <3>2, <3>3, SlotKept
  <2>2. CASE t # s
    <3>1. /\ engine'[t] = engine[t] /\ pin'[t] = pin[t]
          /\ handoff'[t] = handoff[t]
      BY <2>2
    <3> QED
      BY <3>1, SlotUntouched
  <2> QED
    BY <2>1, <2>2
<1> QED
  BY <1>1, <1>2

LEMMA CallbacksKeep ==
  ASSUME IInv, NEW s \in Slots,
         ClientConnect(s) \/ ClientDisconnect(s) \/ ClientActive(s)
  PROVE  IInv'
<1> USE DEF IInv
<1> DEFINE e == engine[s]
<1>e. /\ e \in Client /\ pin[s] \in Pin /\ NoPin \in Pin /\ NoPin.steam = NoAccount
      /\ e.owed # {} => e.signon # "none"
  BY ConstantTypes DEF TypeOK, SlotOwned, Present, NoPin
<1>h. Invoked(s) => handoff[s].phase # "Queued"
  BY DEF Invoked
<1>n. handoff[s].phase = "Queued" => [handoff EXCEPT ![s] = NoHandoff] # handoff
  BY DEF TypeOK, NoHandoff
<1>1. CASE ClientConnect(s)
  <2> DEFINE c == [e EXCEPT !.signon = "connected", !.sendInfo = TRUE,
                            !.owed = e.owed \ {"connect"}]
  <2>1. /\ c \in Client /\ c.known = e.known /\ c.account = e.account
        /\ c.signon # "none" /\ e.signon # "none"
    BY <1>1, <1>e DEF ClientConnect, Client
  <2>2. engine' = [engine EXCEPT ![s] = c]
    BY <1>1 DEF ClientConnect
  <2>3. served' \in [Slots -> Lanes \cup {"none"}] /\ next' \in Serials
    BY <1>1, EpochPin DEF ClientConnect, TypeOK
  <2> HIDE DEF c, e
  <2>4. PICK p \in Pin :
          /\ pin' = [pin EXCEPT ![s] = p]
          /\ \/ handoff' = handoff /\ p = pin[s]
             \/ /\ p.steam = NoAccount
                /\ \/ handoff' = handoff /\ handoff[s].phase # "Queued"
                   \/ handoff' = [handoff EXCEPT ![s] = NoHandoff]
    <3>1. CASE Preserves(s)
      <4>1. pin' = [pin EXCEPT ![s] = pin[s]] /\ handoff' = handoff
        BY <1>1, <3>1 DEF ClientConnect, TypeOK
      <4> QED
        BY <4>1, <1>e
    <3>2. CASE ~Preserves(s)
      <4>1. /\ Epoch(next + 1) \in Pin /\ Epoch(next + 1).steam = NoAccount
            /\ pin' = [pin EXCEPT ![s] = Epoch(next + 1)]
            /\ handoff' = IF Invoked(s) THEN handoff ELSE [handoff EXCEPT ![s] = NoHandoff]
        BY <1>1, <3>2, EpochPin DEF ClientConnect
      <4> QED
        BY <4>1, <1>h
    <3> QED
      BY <3>1, <3>2
  <2>5. /\ engine' \in [Slots -> Client] /\ pin' \in [Slots -> Pin]
        /\ handoff' \in [Slots -> Handoff]
        /\ \A t \in Slots : SlotOwned(t)'
    BY <2>1, <2>2, <2>4, <1>n, SlotOnly DEF Present, e
  <2> QED
    BY <1>1, <2>3, <2>5 DEF TypeOK, ClientConnect
<1>2. CASE ClientDisconnect(s)
  <2> DEFINE c == [e EXCEPT !.owed = e.owed \ {"disconnect"}]
  <2>1. /\ c \in Client /\ c.known = e.known /\ c.account = e.account
        /\ c.signon = e.signon /\ e.signon # "none"
    BY <1>2, <1>e DEF ClientDisconnect, Client
  <2>2. engine' = [engine EXCEPT ![s] = c]
    BY <1>2 DEF ClientDisconnect
  <2> HIDE DEF c, e
  <2>3. PICK p \in Pin :
          /\ pin' = [pin EXCEPT ![s] = p]
          /\ \/ handoff' = handoff /\ p = pin[s]
             \/ /\ p.steam = NoAccount
                /\ \/ handoff' = handoff /\ handoff[s].phase # "Queued"
                   \/ handoff' = [handoff EXCEPT ![s] = NoHandoff]
    <3>1. CASE Preserves(s)
      <4>1. pin' = [pin EXCEPT ![s] = pin[s]] /\ handoff' = handoff
        BY <1>2, <3>1 DEF ClientDisconnect, TypeOK
      <4> QED
        BY <4>1, <1>e
    <3>2. CASE ~Preserves(s)
      BY <1>2, <3>2, <1>h, <1>e DEF ClientDisconnect
    <3> QED
      BY <3>1, <3>2
  <2>4. /\ engine' \in [Slots -> Client] /\ pin' \in [Slots -> Pin]
        /\ handoff' \in [Slots -> Handoff]
        /\ \A t \in Slots : SlotOwned(t)'
    BY <2>1, <2>2, <2>3, <1>n, SlotOnly DEF Present, e
  <2> QED
    BY <1>2, <2>4 DEF TypeOK, ClientDisconnect
<1>3. CASE ClientActive(s)
  <2> DEFINE p == [pin[s] EXCEPT !.active = TRUE]
             c == [e EXCEPT !.signon = "active"]
  <2>1. /\ p \in Pin /\ p.serial = pin[s].serial /\ p.steam = pin[s].steam
        /\ c \in Client /\ c.known = e.known /\ c.account = e.account
        /\ c.signon # "none" /\ e.signon # "none"
    BY <1>3, <1>e DEF ClientActive, Pin, Client
  <2>2. /\ pin' = [pin EXCEPT ![s] = ProvenPin(s, p)] /\ latch' = ProvenLatch(s, p)
        /\ engine' = [engine EXCEPT ![s] = c] /\ handoff' = handoff
    BY <1>3 DEF ClientActive
  <2> HIDE DEF p, c, e
  <2>3. /\ ProvenPin(s, p) \in Pin
        /\ ProvenPin(s, p).serial = pin[s].serial
        /\ \/ ProvenPin(s, p).steam = pin[s].steam
           \/ pin[s].steam = NoAccount /\ engine[s].known
              /\ ProvenPin(s, p).steam = engine[s].account
    BY <2>1, ProvenPinPin
  <2>4. /\ engine' \in [Slots -> Client] /\ pin' \in [Slots -> Pin]
        /\ handoff' \in [Slots -> Handoff]
        /\ \A t \in Slots : SlotOwned(t)'
    BY <2>1, <2>2, <2>3, SlotOnly DEF Present, e
  <2>5. latch' \in [Accounts -> Entry]
    BY <2>1, <2>2, ProvenLatchType
  <2>6. UNCHANGED <<enabled, lastEnabled, base, next, think, asked, served>>
    BY <1>3 DEF ClientActive
  <2> QED
    BY <2>4, <2>5, <2>6 DEF TypeOK
<1> QED
  BY <1>1, <1>2, <1>3

-----------------------------------------------------------------------------
(* The steps of a ServerInfo baseline and of a file request.                *)

(* A handler that gives slot s a baseline or a new pin.                     *)
LEMMA ServeKeeps ==
  ASSUME IInv, NEW s \in Slots, NEW lane \in Lanes \cup {"none"}, ServerInfoDue(s),
         Serve(s, lane), NEW p \in Pin, pin' = [pin EXCEPT ![s] = p],
         \/ /\ handoff' = handoff
            /\ p.serial = pin[s].serial \/ handoff[s].phase # "Queued"
            /\ \/ p.steam = pin[s].steam
               \/ engine[s].known /\ p.steam = engine[s].account
                  /\ pin[s].steam = NoAccount
               \/ p.steam = NoAccount /\ handoff[s].phase # "Queued"
         \/ /\ handoff' = [handoff EXCEPT ![s] = NoHandoff]
            /\ engine[s].known /\ p.steam = engine[s].account
  PROVE  /\ engine' \in [Slots -> Client] /\ pin' \in [Slots -> Pin]
         /\ handoff' \in [Slots -> Handoff]
         /\ served' \in [Slots -> Lanes \cup {"none"}]
         /\ \A t \in Slots : SlotOwned(t)'
<1> USE DEF IInv
<1> DEFINE e == engine[s]
           c == [e EXCEPT !.signon = "joining", !.sendInfo = FALSE]
<1>1. /\ c \in Client /\ c.known = e.known /\ c.account = e.account
      /\ c.signon # "none" /\ e.signon # "none"
  <2>1. e \in Client /\ e.signon = "connected"
    BY DEF TypeOK, ServerInfoDue
  <2> QED
    BY <2>1 DEF Client
<1>2. /\ engine' = [engine EXCEPT ![s] = c]
      /\ served' \in [Slots -> Lanes \cup {"none"}]
  BY DEF Serve, TypeOK
<1>3. engine[s].account \in Accounts
  BY <1>1 DEF SlotOwned, Present
<1> HIDE DEF c, e
<1>4. \/ p.steam = pin[s].steam
      \/ pin[s].steam = NoAccount /\ engine[s].known /\ p.steam = engine[s].account
      \/ p.steam = NoAccount /\ handoff[s].phase # "Queued"
  BY <1>3, AccountAssumption DEF SlotOwned
<1>5. /\ engine' \in [Slots -> Client] /\ pin' \in [Slots -> Pin]
      /\ handoff' \in [Slots -> Handoff]
      /\ \A t \in Slots : SlotOwned(t)'
  BY <1>1, <1>2, <1>4, SlotOnly DEF Present, e
<1> QED
  BY <1>2, <1>5

LEMMA DisconnectTypes ==
  ASSUME IInv, NEW s \in Slots, Disconnect(s), next' \in Serials,
         latch' \in [Accounts -> Entry],
         lastEnabled' \in BOOLEAN, asked' \subseteq Serials,
         think' \in [at : {"idle", "handoffs", "clients"}, slot : Slots],
         UNCHANGED <<enabled, base>>
  PROVE  IInv'
BY DisconnectKeeps DEF IInv, TypeOK

LEMMA RefusalsKeep ==
  ASSUME IInv, NEW s \in Slots,
         ServerInfoUnprepared(s) \/ RecoveryServerInfoRefused(s)
  PROVE  IInv'
BY DisconnectTypes DEF ServerInfoUnprepared, RecoveryServerInfoRefused, IInv, TypeOK

LEMMA UnchangedKeeps ==
  ASSUME IInv, NEW s \in Slots, ServerInfoUnchanged(s)
  PROVE  IInv'
<1>1. pin[s] \in Pin /\ pin' = [pin EXCEPT ![s] = pin[s]] /\ handoff' = handoff
  BY DEF ServerInfoUnchanged, IInv, TypeOK
<1>2. /\ engine' \in [Slots -> Client] /\ pin' \in [Slots -> Pin]
      /\ handoff' \in [Slots -> Handoff]
      /\ served' \in [Slots -> Lanes \cup {"none"}]
      /\ \A t \in Slots : SlotOwned(t)'
  BY <1>1, ServeKeeps DEF ServerInfoUnchanged
<1> QED
  BY <1>2 DEF ServerInfoUnchanged, IInv, TypeOK

LEMMA RecoveryKeeps ==
  ASSUME IInv, NEW s \in Slots, RecoveryServerInfo(s)
  PROVE  IInv'
<1> USE DEF IInv
<1>1. PICK t \in Candidates(s) :
        /\ Candidates(s) = {t} /\ CanBegin(s, t)
        /\ latch' = Consumed(engine[s].account, next + 1)
        /\ IF ConsumeResult(engine[s].account, next + 1) = "Native"
           THEN /\ handoff' = [handoff EXCEPT ![t] = NoHandoff]
                /\ pin' = [pin EXCEPT ![s] =
                     [Epoch(next + 1) EXCEPT !.steam = engine[s].account,
                                             !.lane = "NativeRecovery"]]
                /\ Serve(s, "NativeRecovery")
           ELSE Disconnect(s)
  BY DEF RecoveryServerInfo
<1>2. /\ t \in Slots /\ Pending(t) /\ handoff[t].account = AccountOf(s)
      /\ handoff[t].account \in Accounts
  BY <1>1 DEF Candidates, SlotOwned, Present
<1>3. engine[s].known /\ engine[s].account \in Accounts
  BY <1>2, AccountAssumption DEF AccountOf
<1>4. Pending(s) => t = s
  BY <1>1, <1>3 DEF Candidates, AccountOf, SlotOwned
<1>5. /\ next' \in Serials /\ next + 1 \in Serials /\ Epoch(next + 1) \in Pin
      /\ UNCHANGED <<enabled, lastEnabled, base, think, asked>>
  BY EpochPin DEF RecoveryServerInfo
<1>6. latch' \in [Accounts -> Entry]
  BY <1>1, <1>3, <1>5, ConsumedLatch
<1>7. CASE ConsumeResult(engine[s].account, next + 1) = "Native"
  <2> DEFINE p == [Epoch(next + 1) EXCEPT !.steam = engine[s].account,
                                          !.lane = "NativeRecovery"]
  <2>1. /\ p \in Pin /\ p.steam = engine[s].account
    BY <1>3, <1>5 DEF Pin, Lanes
  <2>2. /\ pin' = [pin EXCEPT ![s] = p] /\ Serve(s, "NativeRecovery")
        /\ handoff' = [handoff EXCEPT ![t] = NoHandoff]
    BY <1>1, <1>7
  <2> HIDE DEF p
  <2> DEFINE e == engine[s]
             c == [e EXCEPT !.signon = "joining", !.sendInfo = FALSE]
  <2>3. /\ c \in Client /\ c.known = e.known /\ c.account = e.account
        /\ c.signon # "none" /\ e.signon # "none"
    <3>1. e \in Client /\ e.signon = "connected"
      BY DEF TypeOK, RecoveryServerInfo, ServerInfoDue
    <3> QED
      BY <3>1 DEF Client
  <2>4. /\ engine' = [engine EXCEPT ![s] = c]
        /\ served' \in [Slots -> Lanes \cup {"none"}]
    BY <2>2 DEF Serve, TypeOK, Lanes
  <2> HIDE DEF c, e
  <2>5. TypeOK'
    BY <1>5, <1>6, <2>1, <2>2, <2>3, <2>4, ConstantTypes DEF TypeOK
  <2>6. ASSUME NEW u \in Slots PROVE SlotOwned(u)'
    <3>1. CASE u = s
      <4>1. /\ engine'[u] = c /\ pin'[u] = p
            /\ handoff'[u] = handoff[u] \/ handoff'[u] = NoHandoff
            /\ handoff'[u].phase # "Queued"
        BY <1>2, <1>4, <2>2, <2>4, <3>1 DEF TypeOK, Pending, NoHandoff
      <4>2. Present(u)' /\ Present(u)
        BY <2>3, <3>1, <4>1 DEF Present, e
      <4>3. \/ pin'[u].steam = pin[u].steam
            \/ /\ pin[u].steam = NoAccount /\ engine[u].known
               /\ pin'[u].steam = engine[u].account
        BY <1>3, <2>1, <3>1, <4>1 DEF SlotOwned
      <4> QED
        BY <2>3, <3>1, <4>1, <4>2, <4>3, SlotKept DEF e
    <3>2. CASE u # s
      BY <2>2, <2>4, <3>2, SlotUntouched DEF TypeOK
    <3> QED
      BY <3>1, <3>2
  <2> QED
    BY <2>5, <2>6
<1>8. CASE ConsumeResult(engine[s].account, next + 1) # "Native"
  BY <1>1, <1>5, <1>6, <1>8, DisconnectTypes DEF TypeOK
<1> QED
  BY <1>7, <1>8

(* The pin a ServerInfo resolves the lane of: the slot's own, or a fresh    *)
(* epoch when the game layer never started one.                             *)
LEMMA ServerInfoKeeps ==
  ASSUME IInv, NEW s \in Slots, ServerInfo(s)
  PROVE  IInv'
<1> USE DEF IInv
<1> DEFINE p == IF pin[s].serial = 0 THEN Epoch(next + 1) ELSE pin[s]
<1>1. /\ ServerInfoDue(s) /\ handoff[s].phase # "Queued"
      /\ UNCHANGED <<enabled, lastEnabled, base, think, asked>>
  BY DEF ServerInfo, Pending
<1>2. p \in Pin /\ p.steam \in {pin[s].steam, NoAccount} /\ next' \in Serials
  <2>1. CASE pin[s].serial = 0
    BY <2>1, EpochPin DEF ServerInfo
  <2>2. CASE pin[s].serial # 0
    BY <2>2 DEF ServerInfo, TypeOK
  <2> QED
    BY <2>1, <2>2
<1>3. PICK choice \in LaneChoices, usable \in BOOLEAN :
        LET q == Resolved(s, p, choice)
        IN /\ latch' = LatchAfterLane(s, p, choice)
           /\ IF q.lane = "Required" /\ ~(usable /\ (q.pinned \/ base))
              THEN Disconnect(s)
              ELSE /\ pin' = [pin EXCEPT ![s] =
                                [q EXCEPT !.pinned = @ \/ (q.lane = "Required" /\ base)]]
                   /\ Serve(s, q.lane)
                   /\ UNCHANGED handoff
  BY DEF ServerInfo
<1> HIDE DEF p
<1> DEFINE q == Resolved(s, p, choice)
<1>4. /\ q \in Pin
      /\ \/ q.steam = p.steam
         \/ p.steam = NoAccount /\ engine[s].known /\ q.steam = engine[s].account
  BY <1>2, ResolvedPin
<1>5. latch' \in [Accounts -> Entry]
  BY <1>2, <1>3, LatchAfterLaneType
<1>6. CASE q.lane = "Required" /\ ~(usable /\ (q.pinned \/ base))
  <2>1. Disconnect(s)
    BY <1>3, <1>6
  <2> QED
    BY <1>1, <1>2, <1>5, <2>1, DisconnectTypes DEF TypeOK
<1>7. CASE ~(q.lane = "Required" /\ ~(usable /\ (q.pinned \/ base)))
  <2> DEFINE b == q.pinned \/ (q.lane = "Required" /\ base)
             r == [q EXCEPT !.pinned = b]
  <2>1. /\ pin' = [pin EXCEPT ![s] = r] /\ Serve(s, q.lane) /\ handoff' = handoff
    BY <1>3, <1>7
  <2>2. r \in Pin /\ r.steam = q.steam /\ q.lane \in Lanes
    <3>1. b \in BOOLEAN
      OBVIOUS
    <3> HIDE DEF b
    <3> QED
      BY <1>4, <3>1 DEF Pin
  <2> HIDE DEF q, r
  <2>3. \/ r.steam = pin[s].steam
        \/ engine[s].known /\ r.steam = engine[s].account /\ pin[s].steam = NoAccount
        \/ r.steam = NoAccount
        \/ engine[s].known /\ r.steam = engine[s].account /\ pin[s].steam = engine[s].account
    BY <1>2, <1>4, <2>2 DEF SlotOwned
  <2>4. /\ engine' \in [Slots -> Client] /\ pin' \in [Slots -> Pin]
        /\ handoff' \in [Slots -> Handoff]
        /\ served' \in [Slots -> Lanes \cup {"none"}]
        /\ \A t \in Slots : SlotOwned(t)'
    BY <1>1, <2>1, <2>2, <2>3, ServeKeeps
  <2> QED
    BY <1>1, <1>2, <1>5, <2>4 DEF TypeOK
<1> QED
  BY <1>6, <1>7

(* A handler that only writes the pin of slot s.                            *)
LEMMA PinOnly ==
  ASSUME IInv, NEW s \in Slots, NEW p \in Pin, pin' = [pin EXCEPT ![s] = p],
         p.serial = pin[s].serial,
         \/ p.steam = pin[s].steam
         \/ pin[s].steam = NoAccount /\ engine[s].known /\ p.steam = engine[s].account,
         latch' \in [Accounts -> Entry],
         UNCHANGED <<enabled, lastEnabled, base, next, handoff, engine, think, asked, served>>
  PROVE  IInv'
<1> USE DEF IInv
<1>1. /\ engine' = [engine EXCEPT ![s] = engine[s]] /\ engine[s] \in Client
      /\ engine[s].owed = {} \/ Present(s)
      /\ engine[s].signon # "none" <=> Present(s)
  BY DEF TypeOK, SlotOwned, Present
<1>2. /\ pin' \in [Slots -> Pin] /\ \A t \in Slots : SlotOwned(t)'
  BY <1>1, SlotOnly
<1> QED
  BY <1>2 DEF TypeOK

LEMMA FileRequestKeeps ==
  ASSUME IInv, NEW s \in Slots, FileRequest(s)
  PROVE  IInv'
<1> USE DEF IInv
<1>1. PICK choice \in LaneChoices, usable \in BOOLEAN :
        LET q == Resolved(s, pin[s], choice) IN
        /\ latch' = LatchAfterLane(s, pin[s], choice)
        /\ IF q.lane = "Required" /\ ~(usable /\ q.pinned)
           THEN Disconnect(s)
           ELSE /\ pin' = [pin EXCEPT ![s] = q]
                /\ UNCHANGED <<handoff, engine, served>>
  BY DEF FileRequest
<1> DEFINE q == Resolved(s, pin[s], choice)
<1>2. /\ pin[s] \in Pin /\ UNCHANGED <<enabled, lastEnabled, base, next, think, asked>>
  BY DEF FileRequest, TypeOK
<1>3. latch' \in [Accounts -> Entry]
  BY <1>1, <1>2, LatchAfterLaneType
<1>4. /\ q \in Pin /\ q.serial = pin[s].serial
      /\ \/ q.steam = pin[s].steam
         \/ pin[s].steam = NoAccount /\ engine[s].known /\ q.steam = engine[s].account
  BY <1>2, ResolvedPin
<1>5. \/ Disconnect(s)
      \/ pin' = [pin EXCEPT ![s] = q] /\ UNCHANGED <<handoff, engine, served>>
  BY <1>1
<1> HIDE DEF q
<1>6. CASE Disconnect(s)
  BY <1>2, <1>3, <1>6, DisconnectTypes DEF TypeOK
<1>7. CASE pin' = [pin EXCEPT ![s] = q] /\ UNCHANGED <<handoff, engine, served>>
  BY <1>2, <1>3, <1>4, <1>7, PinOnly
<1> QED
  BY <1>5, <1>6, <1>7

-----------------------------------------------------------------------------
(* The client's console commands.                                           *)

LEMMA FailedKeeps ==
  ASSUME IInv, NEW s \in Slots, FailedCommand(s)
  PROVE  IInv'
<1> USE DEF IInv
<1> DEFINE a == engine[s].account
<1>1. /\ UNCHANGED <<enabled, lastEnabled, base, next, think, asked>>
      /\ Present(s) /\ engine[s].known /\ a \in Accounts
      /\ pin[s].steam \in {NoAccount, a} /\ pin[s] \in Pin
  BY DEF FailedCommand, Arms, Authenticated, CanBind, TypeOK, SlotOwned
<1>2. CASE Pending(s)
  <2>1. latch' = [latch EXCEPT ![a] = NoEntry] /\ Disconnect(s)
    BY <1>2 DEF FailedCommand
  <2>2. latch' \in [Accounts -> Entry]
    BY <2>1, ConstantTypes DEF TypeOK
  <2> QED
    BY <1>1, <2>1, <2>2, DisconnectTypes DEF TypeOK
<1>3. CASE ~Pending(s)
  <2> DEFINE h == [phase |-> "Queued", account |-> a, failed |-> pin[s].serial,
                   left |-> Window]
  <2>1. /\ latch' = [latch EXCEPT ![a] = ArmedEntry(pin[s].serial)]
        /\ handoff' = [handoff EXCEPT ![s] = h]
        /\ pin' = [pin EXCEPT ![s] = Bound(s, pin[s])]
        /\ UNCHANGED <<engine, served>>
    BY <1>3 DEF FailedCommand
  <2>2. h \in Handoff /\ h.phase = "Queued" /\ h.account = a /\ h.failed = pin[s].serial
    BY <1>1, WindowAssumption DEF Handoff, Pin
  <2>3. ArmedEntry(pin[s].serial) \in Entry
    BY <1>1, SerialAssumption, WindowAssumption DEF ArmedEntry, Entry, Pin, Serials
  <2>4. /\ Bound(s, pin[s]) \in Pin /\ Bound(s, pin[s]).serial = pin[s].serial
        /\ Bound(s, pin[s]).steam = a
    BY <1>1, BoundPin DEF Bound, CanBind, Pin
  <2> HIDE DEF h
  <2>5. TypeOK'
    BY <1>1, <2>1, <2>2, <2>3, <2>4 DEF TypeOK
  <2>6. ASSUME NEW t \in Slots PROVE SlotOwned(t)'
    <3>1. CASE t = s
      <4>1. /\ engine'[t] = engine[t] /\ handoff'[t] = h /\ pin'[t] = Bound(s, pin[s])
        BY <2>1, <3>1 DEF TypeOK
      <4> QED
        BY <1>1, <2>2, <2>4, <3>1, <4>1 DEF SlotOwned, Present, Pending
    <3>2. CASE t # s
      BY <2>1, <3>2, SlotUntouched DEF TypeOK
    <3> QED
      BY <3>1, <3>2
  <2> QED
    BY <2>5, <2>6
<1> QED
  BY <1>2, <1>3

LEMMA UnarmedKeeps ==
  ASSUME IInv, NEW s \in Slots, UnarmedFailure(s)
  PROVE  IInv'
<1> USE DEF IInv
<1> DEFINE p == [pin[s] EXCEPT !.ready = FALSE]
<1>1. /\ UNCHANGED <<enabled, lastEnabled, base, next, latch, think, asked>>
      /\ latch' \in [Accounts -> Entry]
  BY DEF UnarmedFailure, TypeOK
<1>2. CASE RequiredLane(pin[s])
  BY <1>1, <1>2, DisconnectTypes DEF UnarmedFailure, TypeOK
<1>3. CASE ~RequiredLane(pin[s])
  <2>1. p \in Pin /\ p.serial = pin[s].serial /\ p.steam = pin[s].steam
    <3>1. pin[s] \in Pin
      BY DEF TypeOK
    <3> QED
      BY <3>1 DEF Pin
  <2>2. pin' = [pin EXCEPT ![s] = p] /\ UNCHANGED <<handoff, engine, served>>
    BY <1>3 DEF UnarmedFailure
  <2> QED
    BY <1>1, <2>1, <2>2, PinOnly
<1> QED
  BY <1>2, <1>3

LEMMA ReadyKeeps ==
  ASSUME IInv, NEW s \in Slots, ReadyCommand(s)
  PROVE  IInv'
<1> USE DEF IInv
<1> DEFINE p == [pin[s] EXCEPT !.ready = TRUE]
<1>1. p \in Pin /\ p.serial = pin[s].serial /\ p.steam = pin[s].steam
  <2>1. pin[s] \in Pin
    BY DEF TypeOK
  <2> QED
    BY <2>1 DEF Pin
<1>2. /\ pin' = [pin EXCEPT ![s] = ProvenPin(s, p)] /\ latch' = ProvenLatch(s, p)
      /\ UNCHANGED <<enabled, lastEnabled, base, next, handoff, engine, think, asked, served>>
  BY DEF ReadyCommand
<1> HIDE DEF p
<1>3. latch' \in [Accounts -> Entry]
  BY <1>1, <1>2, ProvenLatchType
<1>4. /\ ProvenPin(s, p) \in Pin
      /\ ProvenPin(s, p).serial = pin[s].serial
      /\ \/ ProvenPin(s, p).steam = pin[s].steam
         \/ pin[s].steam = NoAccount /\ engine[s].known
            /\ ProvenPin(s, p).steam = engine[s].account
  BY <1>1, ProvenPinPin
<1> QED
  BY <1>2, <1>3, <1>4, PinOnly

-----------------------------------------------------------------------------
(* Think.                                                                   *)

LEMMA DisabledKeeps ==
  ASSUME IInv, ThinkDisabled
  PROVE  IInv'
<1> USE DEF IInv
<1>1. TypeOK'
  <2>1. latch' \in [Accounts -> Entry] /\ handoff' \in [Slots -> Handoff]
    BY ConstantTypes DEF ThinkDisabled, ForgetRecoveries
  <2>2. pin' \in [Slots -> Pin]
    BY ConstantTypes DEF ThinkDisabled, TypeOK
  <2> QED
    BY <2>1, <2>2 DEF ThinkDisabled, TypeOK
<1>2. ASSUME NEW t \in Slots PROVE SlotOwned(t)'
  <2>1. /\ engine'[t] = engine[t] /\ handoff'[t] = NoHandoff
        /\ pin'[t] = pin[t] \/ pin'[t] = NoPin
    BY DEF ThinkDisabled
  <2> QED
    BY <2>1 DEF SlotOwned, Present, Pending, NoHandoff, NoPin
<1> QED
  BY <1>1, <1>2

LEMMA NextHandoffType ==
  ASSUME TypeOK, NextHandoff
  PROVE  think' \in [at : {"idle", "handoffs", "clients"}, slot : Slots]
<1>1. CASE think.slot + 1 < NSlots
  BY <1>1, NSlotsAssumption DEF NextHandoff, TypeOK, Slots
<1>2. CASE ~(think.slot + 1 < NSlots)
  BY <1>2, ConstantTypes DEF NextHandoff
<1> QED
  BY <1>1, <1>2

LEMMA NextClientType ==
  ASSUME TypeOK, NextClient
  PROVE  think' \in [at : {"idle", "handoffs", "clients"}, slot : Slots]
BY NSlotsAssumption DEF NextClient, TypeOK, Slots, Idle

LEMMA ClientKeeps ==
  ASSUME IInv, NEW s \in Slots, ThinkClient(s)
  PROVE  IInv'
<1> USE DEF IInv
<1>1. /\ think' \in [at : {"idle", "handoffs", "clients"}, slot : Slots]
      /\ UNCHANGED <<enabled, lastEnabled, base, next, asked>> /\ pin[s] \in Pin
  BY NextClientType DEF ThinkClient, TypeOK
<1>2. latch' \in [Accounts -> Entry]
  <2>1. ProvenLatch(s, pin[s]) \in [Accounts -> Entry]
    BY <1>1, ProvenLatchType
  <2>2. latch' = PruneAfter(s, ProvenLatch(s, pin[s]))
    BY DEF ThinkClient
  <2> QED
    BY <2>1, <2>2, ConstantTypes DEF PruneAfter, Pruned
<1>3. CASE Disconnect(s)
  BY <1>1, <1>2, <1>3, DisconnectTypes DEF TypeOK
<1>4. CASE /\ pin' = [pin EXCEPT ![s] = ProvenPin(s, pin[s])]
           /\ UNCHANGED <<handoff, engine, served>>
  <2>1. /\ ProvenPin(s, pin[s]) \in Pin
        /\ ProvenPin(s, pin[s]).serial = pin[s].serial
        /\ \/ ProvenPin(s, pin[s]).steam = pin[s].steam
           \/ pin[s].steam = NoAccount /\ engine[s].known
              /\ ProvenPin(s, pin[s]).steam = engine[s].account
    BY <1>1, ProvenPinPin
  <2>2. /\ engine' = [engine EXCEPT ![s] = engine[s]] /\ engine[s] \in Client
        /\ engine[s].owed = {} \/ Present(s)
        /\ engine[s].signon # "none" <=> Present(s)
    BY <1>4 DEF TypeOK, SlotOwned, Present
  <2>3. pin' \in [Slots -> Pin] /\ \A t \in Slots : SlotOwned(t)'
    BY <1>4, <2>1, <2>2, SlotOnly
  <2> QED
    BY <1>1, <1>2, <1>4, <2>3 DEF TypeOK
<1> QED
  BY <1>3, <1>4 DEF ThinkClient

(* The handoff of slot s moves on while its client stays.                   *)
LEMMA HandoffMoves ==
  ASSUME IInv, NEW s \in Slots, NEW c \in Client, NEW p \in Pin, NEW h \in Handoff,
         engine' = [engine EXCEPT ![s] = c], pin' = [pin EXCEPT ![s] = p],
         handoff' = [handoff EXCEPT ![s] = h],
         c.known = engine[s].known, c.account = engine[s].account,
         c.signon # "none", Present(s), Pending(s),
         h.account = handoff[s].account, h.phase # "Queued",
         p.steam \in {pin[s].steam, NoAccount}
  PROVE  /\ engine' \in [Slots -> Client] /\ pin' \in [Slots -> Pin]
         /\ handoff' \in [Slots -> Handoff]
         /\ \A t \in Slots : SlotOwned(t)'
<1> USE DEF IInv, TypeOK
<1>1. ASSUME NEW t \in Slots PROVE SlotOwned(t)'
  <2>1. CASE t = s
    <3>1. engine'[t] = c /\ pin'[t] = p /\ handoff'[t] = h
      BY <2>1
    <3>2. /\ Present(t)' /\ Present(t)
          /\ engine'[t].known = engine[t].known /\ engine'[t].account = engine[t].account
      BY <2>1, <3>1 DEF Present
    <3> QED
      BY <2>1, <3>1, <3>2, SlotKept
  <2>2. CASE t # s
    <3>1. engine'[t] = engine[t] /\ pin'[t] = pin[t] /\ handoff'[t] = handoff[t]
      BY <2>2
    <3> QED
      BY <3>1, SlotUntouched
  <2> QED
    BY <2>1, <2>2
<1> QED
  BY <1>1

(* A slot's handoff is dropped and nothing else happens to it.              *)
LEMMA HandoffDropped ==
  ASSUME IInv, NEW s \in Slots, handoff' = [handoff EXCEPT ![s] = NoHandoff],
         UNCHANGED <<pin, engine>>
  PROVE  handoff' \in [Slots -> Handoff] /\ \A t \in Slots : SlotOwned(t)'
<1>1. handoff' \in [Slots -> Handoff]
  BY ConstantTypes DEF IInv, TypeOK
<1>2. ASSUME NEW t \in Slots PROVE SlotOwned(t)'
  <2>1. handoff'[t] = handoff[t] \/ handoff'[t] = NoHandoff
    BY DEF IInv, TypeOK
  <2> QED
    BY <2>1, SlotUntouched
<1> QED
  BY <1>1, <1>2

LEMMA InvokeKeeps ==
  ASSUME IInv, NEW s \in Slots, NEW channel \in BOOLEAN, ThinkInvoke(s, channel),
         UNCHANGED <<enabled, lastEnabled, base, latch>>
  PROVE  IInv'
<1> USE DEF IInv
<1>1. /\ think' \in [at : {"idle", "handoffs", "clients"}, slot : Slots]
      /\ handoff[s].phase = "Queued" /\ Pending(s) /\ Present(s) /\ next < MaxSerial
      /\ pin[s] \in Pin /\ engine[s] \in Client /\ handoff[s] \in Handoff
  BY NextHandoffType DEF ThinkInvoke, Pending, SlotOwned, TypeOK
<1>2. CASE AccountOf(s) # handoff[s].account \/ pin[s].serial # handoff[s].failed
  <2>1. /\ handoff' = [handoff EXCEPT ![s] = NoHandoff]
        /\ UNCHANGED <<next, pin, engine, served, asked>>
    BY <1>2 DEF ThinkInvoke
  <2>2. handoff' \in [Slots -> Handoff] /\ \A t \in Slots : SlotOwned(t)'
    BY <2>1, HandoffDropped
  <2> QED
    BY <1>1, <2>1, <2>2 DEF TypeOK
<1>3. CASE /\ ~(AccountOf(s) # handoff[s].account \/ pin[s].serial # handoff[s].failed)
           /\ ~(engine[s].auth /\ channel)
  <2>1. Disconnect(s) /\ UNCHANGED <<next, asked>>
    BY <1>3 DEF ThinkInvoke
  <2> QED
    BY <1>1, <2>1, DisconnectTypes DEF TypeOK
<1>4. CASE /\ ~(AccountOf(s) # handoff[s].account \/ pin[s].serial # handoff[s].failed)
           /\ engine[s].auth /\ channel
  <2>1. PICK ran \in {{}, {"disconnect"}, {"disconnect", "connect"}}, queued \in BOOLEAN :
          /\ next' = IF "connect" \in ran THEN next + 1 ELSE next
          /\ pin' = [pin EXCEPT ![s] =
               IF "connect" \in ran THEN Epoch(next + 1)
               ELSE IF "disconnect" \in ran THEN NoPin ELSE @]
          /\ engine' = [engine EXCEPT ![s].signon = "connected",
               ![s].sendInfo = queued \/ "connect" \in ran,
               ![s].owed = {"disconnect", "connect"} \ ran]
    BY <1>4 DEF ThinkInvoke
  <2>2. /\ handoff' = [handoff EXCEPT ![s].phase = "Invoked"]
        /\ asked' = asked \cup {pin[s].serial}
        /\ served' = [served EXCEPT ![s] = "none"]
    BY <1>4 DEF ThinkInvoke
  <2> DEFINE e == engine[s]
             o == handoff[s]
             send == queued \/ "connect" \in ran
             c == [e EXCEPT !.signon = "connected", !.sendInfo = send,
                            !.owed = {"disconnect", "connect"} \ ran]
             h == [o EXCEPT !.phase = "Invoked"]
             p == IF "connect" \in ran THEN Epoch(next + 1)
                  ELSE IF "disconnect" \in ran THEN NoPin ELSE pin[s]
  <2>3. engine' = [engine EXCEPT ![s] = c] /\ handoff' = [handoff EXCEPT ![s] = h]
        /\ pin' = [pin EXCEPT ![s] = p]
    BY <2>1, <2>2
  <2>4. p \in Pin /\ p.steam \in {pin[s].steam, NoAccount}
    BY <1>1, EpochPin, ConstantTypes DEF NoPin
  <2>5. /\ c \in Client /\ c.known = e.known /\ c.account = e.account
        /\ c.signon # "none"
    <3>1. send \in BOOLEAN /\ {"disconnect", "connect"} \ ran \in SUBSET {"disconnect", "connect"}
      OBVIOUS
    <3> HIDE DEF send, e
    <3>2. e \in Client
      BY <1>1 DEF e
    <3> QED
      BY <3>1, <3>2 DEF Client
  <2>6. h \in Handoff /\ h.account = o.account /\ h.phase # "Queued"
    BY <1>1 DEF Handoff
  <2>7. /\ next' \in Serials /\ asked' \subseteq Serials
        /\ served' \in [Slots -> Lanes \cup {"none"}]
    BY <1>1, <2>1, <2>2, EpochPin DEF TypeOK, Pin
  <2> HIDE DEF c, h, p
  <2>8. /\ engine' \in [Slots -> Client] /\ pin' \in [Slots -> Pin]
        /\ handoff' \in [Slots -> Handoff]
        /\ \A t \in Slots : SlotOwned(t)'
    BY <1>1, <2>3, <2>4, <2>5, <2>6, HandoffMoves
  <2> QED
    BY <1>1, <2>7, <2>8 DEF TypeOK
<1> QED
  BY <1>2, <1>3, <1>4

LEMMA DispatchKeeps ==
  ASSUME IInv, NEW s \in Slots, NEW channel \in BOOLEAN, ThinkDispatch(s, channel),
         UNCHANGED <<enabled, lastEnabled, base, latch>>
  PROVE  IInv'
<1> USE DEF IInv
<1> DEFINE e == engine[s]
           o == handoff[s]
           c == [e EXCEPT !.sendInfo = TRUE]
           h == [o EXCEPT !.phase = "Claimed", !.left = Window]
<1>1. /\ e \in Client /\ o \in Handoff /\ o.phase = "Invoked" /\ Pending(s)
      /\ UNCHANGED <<next, pin, served, asked>>
  BY DEF ThinkDispatch, Dispatchable, TypeOK, Pending
<1>2. CASE /\ AccountOf(s) = handoff[s].account /\ engine[s].auth /\ channel
           /\ engine[s].signon = "connected"
  <2>1. /\ handoff' = [handoff EXCEPT ![s] = h] /\ engine' = [engine EXCEPT ![s] = c]
        /\ think' = think /\ pin' = [pin EXCEPT ![s] = pin[s]] /\ pin[s] \in Pin
    BY <1>1, <1>2 DEF ThinkDispatch, TypeOK
  <2>2. /\ c \in Client /\ c.known = e.known /\ c.account = e.account
        /\ c.signon # "none" /\ Present(s)
    <3>1. e.signon = "connected" /\ Present(s)
      BY <1>2 DEF Present
    <3> HIDE DEF e
    <3> QED
      BY <1>1, <3>1 DEF Client
  <2>4. /\ h \in Handoff /\ h.account = o.account /\ h.phase # "Queued"
    <3>1. o \in Handoff /\ Window \in 0 .. Window
      BY <1>1, WindowAssumption
    <3> HIDE DEF o
    <3> QED
      BY <3>1 DEF Handoff
  <2> HIDE DEF c, h
  <2>3. /\ engine' \in [Slots -> Client] /\ pin' \in [Slots -> Pin]
        /\ handoff' \in [Slots -> Handoff]
        /\ \A t \in Slots : SlotOwned(t)'
    BY <1>1, <2>1, <2>2, <2>4, HandoffMoves
  <2> QED
    BY <1>1, <2>1, <2>3 DEF TypeOK
<1>3. CASE ~(/\ AccountOf(s) = handoff[s].account /\ engine[s].auth /\ channel
             /\ engine[s].signon = "connected")
  <2>1. UNCHANGED <<handoff, engine, pin>> /\ NextHandoff
    BY <1>1, <1>3 DEF ThinkDispatch
  <2>2. \A t \in Slots : SlotOwned(t)'
    BY <2>1, SlotUntouched
  <2>3. think' \in [at : {"idle", "handoffs", "clients"}, slot : Slots]
    BY <2>1, NextHandoffType
  <2> QED
    BY <1>1, <2>1, <2>2, <2>3 DEF TypeOK
<1> QED
  BY <1>2, <1>3

LEMMA HandoffKeeps ==
  ASSUME IInv, NEW s \in Slots, ThinkHandoff(s)
  PROVE  IInv'
<1> USE DEF IInv
<1>1. UNCHANGED <<enabled, lastEnabled, base, latch>>
  BY DEF ThinkHandoff
<1>2. CASE ThinkNoHandoff(s)
  <2>1. /\ UNCHANGED <<next, handoff, pin, engine, served, asked>>
        /\ think' \in [at : {"idle", "handoffs", "clients"}, slot : Slots]
    BY <1>2, NextHandoffType DEF ThinkNoHandoff
  <2>2. \A t \in Slots : SlotOwned(t)'
    BY <2>1, SlotUntouched
  <2> QED
    BY <1>1, <2>1, <2>2 DEF TypeOK
<1>3. CASE ThinkExpired(s)
  <2>1. /\ UNCHANGED <<next, asked>>
        /\ think' \in [at : {"idle", "handoffs", "clients"}, slot : Slots]
    BY <1>3, NextHandoffType DEF ThinkExpired
  <2>2. CASE Disconnect(s)
    BY <1>1, <2>1, <2>2, DisconnectTypes DEF TypeOK
  <2>3. CASE /\ handoff' = [handoff EXCEPT ![s] = NoHandoff]
             /\ UNCHANGED <<pin, engine, served>>
    <3>1. handoff' \in [Slots -> Handoff] /\ \A t \in Slots : SlotOwned(t)'
      BY <2>3, HandoffDropped
    <3> QED
      BY <1>1, <2>1, <2>3, <3>1 DEF TypeOK
  <2> QED
    BY <1>3, <2>2, <2>3 DEF ThinkExpired
<1>4. ASSUME NEW channel \in BOOLEAN,
             ThinkInvoke(s, channel) \/ ThinkDispatch(s, channel)
      PROVE  IInv'
  BY <1>1, <1>4, InvokeKeeps, DispatchKeeps
<1> QED
  BY <1>2, <1>3, <1>4 DEF ThinkHandoff

LEMMA BeginKeeps ==
  ASSUME IInv, ThinkBegin \/ ToggleEnable \/ PublishBase
  PROVE  IInv'
<1> USE DEF IInv
<1>1. UNCHANGED <<next, latch, handoff, pin, engine, asked, served>>
  BY DEF ThinkBegin, ToggleEnable, PublishBase
<1>2. /\ {enabled', lastEnabled', base'} \subseteq BOOLEAN
      /\ think' \in [at : {"idle", "handoffs", "clients"}, slot : Slots]
  <2>1. CASE ThinkBegin
    BY <2>1, ConstantTypes DEF ThinkBegin, TypeOK
  <2>2. CASE ToggleEnable \/ PublishBase
    BY <2>2 DEF ToggleEnable, PublishBase, TypeOK
  <2> QED
    BY <2>1, <2>2
<1>3. \A t \in Slots : SlotOwned(t)'
  BY <1>1, SlotUntouched
<1> QED
  BY <1>1, <1>2, <1>3 DEF TypeOK

LEMMA TickKeeps ==
  ASSUME IInv, Tick
  PROVE  IInv'
<1> USE DEF IInv
<1>1. UNCHANGED <<enabled, lastEnabled, base, next, pin, engine, think, asked, served>>
  BY DEF Tick
<1>2. latch' \in [Accounts -> Entry]
  <2>1. ASSUME NEW a \in Accounts, latch[a].left > 0
        PROVE  [latch[a] EXCEPT !.left = @ - 1] \in Entry
    BY <2>1, WindowAssumption DEF TypeOK, Entry
  <2> QED
    BY <2>1 DEF Tick, TypeOK
<1>3. ASSUME NEW t \in Slots
      PROVE  /\ handoff'[t] \in Handoff /\ SlotOwned(t)'
  <2>1. CASE handoff'[t] = handoff[t]
    BY <1>1, <2>1, SlotUntouched DEF TypeOK
  <2>2. CASE Pending(t) /\ handoff[t].left > 0
    <3> DEFINE h == [handoff[t] EXCEPT !.left = @ - 1]
    <3>1. handoff'[t] = h
      BY <2>2 DEF Tick
    <3>2. /\ h \in Handoff /\ h.phase = handoff[t].phase
          /\ h.account = handoff[t].account /\ h.failed = handoff[t].failed
      BY <2>2, WindowAssumption DEF TypeOK, Handoff
    <3> HIDE DEF h
    <3> QED
      BY <1>1, <3>1, <3>2 DEF SlotOwned, Present, Pending
  <2> QED
    BY <2>1, <2>2 DEF Tick
<1>4. handoff' \in [Slots -> Handoff]
  BY <1>3 DEF Tick
<1> QED
  BY <1>1, <1>2, <1>3, <1>4 DEF TypeOK

LEMMA LevelKeeps ==
  ASSUME IInv, LevelShutdown
  PROVE  IInv'
<1> USE DEF IInv
<1>1. ASSUME NEW t \in Slots
      PROVE  engine'[t] \in Client /\ SlotOwned(t)'
  <2>1. handoff'[t] = NoHandoff /\ pin'[t] = NoPin
    BY DEF LevelShutdown
  <2>2. CASE Present(t)
    <3> DEFINE e == engine[t]
               c == [e EXCEPT !.signon = "connected", !.sendInfo = FALSE,
                              !.owed = {"connect"}]
    <3>1. engine'[t] = c
      BY <2>2 DEF LevelShutdown
    <3>2. e \in Client
      BY DEF TypeOK
    <3> HIDE DEF e
    <3>3. /\ c \in Client /\ c.signon = "connected" /\ c.account = e.account
      BY <3>2 DEF Client
    <3> HIDE DEF c
    <3> QED
      BY <2>1, <2>2, <3>1, <3>3 DEF SlotOwned, Present, Pending, NoHandoff, NoPin, e
  <2>3. CASE ~Present(t)
    <3>1. engine'[t] = Vacant
      BY <2>3 DEF LevelShutdown
    <3> QED
      BY <2>1, <3>1, ConstantTypes
         DEF SlotOwned, Present, Pending, NoHandoff, NoPin, Vacant
  <2> QED
    BY <2>2, <2>3
<1>2. engine' \in [Slots -> Client]
  BY <1>1 DEF LevelShutdown
<1>3. /\ {enabled', lastEnabled', base'} \subseteq BOOLEAN /\ next' \in Serials
      /\ latch' \in [Accounts -> Entry] /\ handoff' \in [Slots -> Handoff]
      /\ pin' \in [Slots -> Pin] /\ asked' \subseteq Serials
      /\ served' \in [Slots -> Lanes \cup {"none"}] /\ think' = think
  BY ConstantTypes DEF LevelShutdown, ForgetRecoveries, TypeOK
<1> QED
  BY <1>1, <1>2, <1>3 DEF TypeOK

-----------------------------------------------------------------------------
(* The invariant, and what follows from it.                                 *)

LEMMA Initially == Init => IInv
<1> SUFFICES ASSUME Init PROVE IInv
  OBVIOUS
<1>1. TypeOK
  BY ConstantTypes DEF Init, TypeOK, Idle
<1>2. \A s \in Slots : SlotOwned(s)
  BY DEF Init, SlotOwned, Present, Pending, Vacant, NoPin, NoHandoff
<1> QED
  BY <1>1, <1>2 DEF IInv

(* Every step of the engine, of a client, of a frame and of the operator    *)
(* keeps every slot owned.                                                  *)
THEOREM Inductive == IInv /\ [Next]_vars => IInv'
<1> SUFFICES ASSUME IInv, [Next]_vars PROVE IInv'
  OBVIOUS
<1>1. CASE UNCHANGED vars
  BY <1>1 DEF vars, IInv, TypeOK, SlotOwned, Present, Pending
<1>2. ASSUME NEW s \in Slots,
             EngineConnect(s) \/ SteamIdentity(s) \/ EngineDisconnect(s)
      PROVE  IInv'
  BY <1>2, EngineKeeps
<1>3. ASSUME NEW s \in Slots,
             ClientConnect(s) \/ ClientDisconnect(s) \/ ClientActive(s)
      PROVE  IInv'
  BY <1>3, CallbacksKeep
<1>4. ASSUME NEW s \in Slots,
             \/ ServerInfoUnchanged(s) \/ ServerInfoUnprepared(s) \/ ServerInfo(s)
             \/ RecoveryServerInfo(s) \/ RecoveryServerInfoRefused(s) \/ FileRequest(s)
      PROVE  IInv'
  BY <1>4, UnchangedKeeps, RefusalsKeep, ServerInfoKeeps, RecoveryKeeps, FileRequestKeeps
<1>5. ASSUME NEW s \in Slots,
             FailedCommand(s) \/ UnarmedFailure(s) \/ ReadyCommand(s)
      PROVE  IInv'
  BY <1>5, FailedKeeps, UnarmedKeeps, ReadyKeeps
<1>6. CASE ThinkStep
  BY <1>6, DisabledKeeps, BeginKeeps, HandoffKeeps, ClientKeeps DEF ThinkStep
<1>7. CASE Tick \/ ToggleEnable \/ PublishBase \/ LevelShutdown
  BY <1>7, TickKeeps, BeginKeeps, LevelKeeps
<1> QED
  BY <1>1, <1>2, <1>3, <1>4, <1>5, <1>6, <1>7 DEF Next

LEMMA Invariant == Spec => []IInv
BY Initially, Inductive, PTL DEF Spec

(* The variables of the recovery keep their types for any number of slots,  *)
(* accounts and epochs.                                                     *)
THEOREM TypeCorrect == Spec => []TypeOK
<1>1. IInv => TypeOK
  BY DEF IInv
<1> QED
  BY <1>1, Invariant, PTL

(* No connection inherits the identity bound by another: a pin's identity   *)
(* is that of the client now in the slot, in every order of game-layer and  *)
(* physical disconnects.                                                    *)
THEOREM Identity == Spec => []IdentityOfOccupant
<1>1. IInv => IdentityOfOccupant
  BY DEF IInv, SlotOwned, IdentityOfOccupant
<1> QED
  BY <1>1, Invariant, PTL

(* The engine Reconnect of a queued handoff and the native baseline of an   *)
(* invoked one go to the client that failed, never to another connection.   *)
THEOREM Ownership == Spec => []HandoffOwned
<1>1. IInv => HandoffOwned
  BY DEF IInv, SlotOwned, HandoffOwned
<1> QED
  BY <1>1, Invariant, PTL

-----------------------------------------------------------------------------
(* Connection epochs are unique, the recovery implements OneShotRecovery,  *)
(* and a spent latch is kept.                                              *)
(*                                                                         *)
(* Most steps are quiet: an epoch, a lane or a latch stays what it is or   *)
(* is cleared, which is a Settle of the abstract specification.  The       *)
(* others start an epoch, arm a latch or claim one, in one slot.           *)

\* What the abstract specification sees of a latch and of a pin.
SameLatch(e, f) == e.phase = f.phase /\ e.failed = f.failed /\ e.recovery = f.recovery
SamePin(p, q) == p.serial = q.serial /\ p.lane = q.lane
Recovering(p) == IF p.lane = "NativeRecovery" THEN p.serial ELSE 0

LatchesQuiet == \A a \in Accounts : SameLatch(latch'[a], latch[a]) \/ latch'[a] = NoEntry
PinsQuiet == \A s \in Slots : SamePin(pin'[s], pin[s]) \/ pin'[s] = NoPin
HandoffsQuiet == \A s \in Slots : handoff'[s].failed \in {0, handoff[s].failed}
Quiet == LatchesQuiet /\ PinsQuiet /\ HandoffsQuiet /\ next' = next

\* A slot starts an epoch, the others stay or are cleared.
EpochStarts(s) ==
  /\ next' = next + 1 /\ pin'[s].serial = next + 1
  /\ \A t \in Slots \ {s} : SamePin(pin'[t], pin[t]) \/ pin'[t] = NoPin

\* What a step does to epochs: they stay, end, or one more starts.
EpochsMove ==
  /\ next' \in {next, next + 1}
  /\ \/ \A s \in Slots : pin'[s].serial \in {0, pin[s].serial}
     \/ \E s \in Slots : EpochStarts(s)
  /\ \A s \in Slots : handoff'[s].failed \in {0, handoff[s].failed, pin[s].serial}

\* The three steps of the abstract specification, on the latches and the pins.
Settles == LatchesQuiet /\ \A s \in Slots : Recovering(pin'[s]) \in {0, Recovering(pin[s])}
ArmsLatch(a, s) ==
  /\ latch[a].phase # "Consumed" /\ pin[s].serial # 0
  /\ latch' = [latch EXCEPT ![a] = ArmedEntry(pin[s].serial)]
  /\ \A t \in Slots : SamePin(pin'[t], pin[t])
ClaimsLatch(a, s, c) ==
  /\ latch[a].phase = "Armed" /\ latch[a].failed # c /\ c \in Serials \ {0}
  /\ c = pin[s].serial \/ c = next'
  /\ latch' = [latch EXCEPT ![a] = [@ EXCEPT !.phase = "Consumed", !.recovery = c]]
  /\ Recovering(pin'[s]) = c
  /\ \A t \in Slots \ {s} : SamePin(pin'[t], pin[t])
LatchStep ==
  \/ Settles
  \/ \E a \in Accounts, s \in Slots : ArmsLatch(a, s) \/ \E c \in Serials : ClaimsLatch(a, s, c)

LevelEnds ==
  /\ next' = 0 /\ \A a \in Accounts : latch'[a] = NoEntry
  /\ \A s \in Slots : pin'[s] = NoPin /\ handoff'[s] = NoHandoff

Moves == (EpochsMove \/ LevelEnds) /\ LatchStep

LEMMA QuietMoves == Quiet => Moves
  BY DEF Quiet, LatchesQuiet, PinsQuiet, HandoffsQuiet, Moves, EpochsMove, LatchStep, Settles,
     SamePin, Recovering, NoPin

-----------------------------------------------------------------------------
(* Quiet steps.                                                             *)

LEMMA DisconnectQuiet ==
  ASSUME TypeOK, NEW s \in Slots, Disconnect(s)
  PROVE  PinsQuiet /\ HandoffsQuiet
  BY DEF TypeOK, Disconnect, DropHandoffs, PinsQuiet, HandoffsQuiet, SamePin, NoHandoff

(* The pin of one slot is replaced by one of the same epoch and lane.       *)
LEMMA PinQuiet ==
  ASSUME TypeOK, NEW s \in Slots, NEW p, pin' = [pin EXCEPT ![s] = p],
         SamePin(p, pin[s]) \/ p = NoPin
  PROVE  PinsQuiet
  BY DEF TypeOK, PinsQuiet, SamePin

LEMMA BoundSame ==
  ASSUME NEW s \in Slots, NEW p \in Pin
  PROVE  SamePin(Bound(s, p), p) /\ SamePin(ProvenPin(s, p), p)
  BY DEF Bound, ProvenPin, SamePin, Pin

LEMMA ProvenQuiet ==
  ASSUME TypeOK, NEW s \in Slots, NEW p
  PROVE  \A a \in Accounts : ProvenLatch(s, p)[a] \in {latch[a], NoEntry}
  BY DEF TypeOK, ProvenLatch

LEMMA EngineQuiet ==
  ASSUME IInv, NEW s \in Slots,
         \/ EngineConnect(s) \/ SteamIdentity(s) \/ EngineDisconnect(s)
         \/ ServerInfoUnchanged(s) \/ ServerInfoUnprepared(s) \/ RecoveryServerInfoRefused(s)
  PROVE  Quiet
<1>1. next' = next /\ LatchesQuiet
  BY DEF EngineConnect, SteamIdentity, EngineDisconnect, ServerInfoUnchanged,
     ServerInfoUnprepared, RecoveryServerInfoRefused, LatchesQuiet, SameLatch
<1>2. Disconnect(s) \/ UNCHANGED <<pin, handoff>>
  BY DEF EngineConnect, SteamIdentity, EngineDisconnect, ServerInfoUnchanged,
     ServerInfoUnprepared, RecoveryServerInfoRefused
<1>3. PinsQuiet /\ HandoffsQuiet
  BY <1>2, DisconnectQuiet DEF IInv, PinsQuiet, HandoffsQuiet, SamePin
<1> QED
  BY <1>1, <1>3 DEF Quiet

LEMMA CommandsQuiet ==
  ASSUME IInv, NEW s \in Slots,
         ClientDisconnect(s) \/ ClientActive(s) \/ UnarmedFailure(s) \/ ReadyCommand(s)
  PROVE  Quiet
<1> USE DEF IInv
<1>0. pin[s] \in Pin
  BY DEF TypeOK
<1>1. CASE ClientDisconnect(s)
  <2>1. next' = next /\ LatchesQuiet
    BY <1>1 DEF ClientDisconnect, LatchesQuiet, SameLatch
  <2>2. PinsQuiet
    BY <1>1 DEF ClientDisconnect, TypeOK, PinsQuiet, SamePin
  <2>3. HandoffsQuiet
    BY <1>1 DEF ClientDisconnect, TypeOK, HandoffsQuiet, NoHandoff
  <2> QED
    BY <2>1, <2>2, <2>3 DEF Quiet
<1>2. CASE UnarmedFailure(s)
  <2>1. next' = next /\ LatchesQuiet
    BY <1>2 DEF UnarmedFailure, LatchesQuiet, SameLatch
  <2>2. CASE Disconnect(s)
    BY <2>1, <2>2, DisconnectQuiet DEF Quiet
  <2>3. CASE pin' = [pin EXCEPT ![s].ready = FALSE] /\ handoff' = handoff
    BY <2>1, <2>3 DEF Quiet, PinsQuiet, HandoffsQuiet, SamePin, TypeOK, Pin
  <2> QED
    BY <1>2, <2>2, <2>3 DEF UnarmedFailure
<1>3. ASSUME NEW p \in Pin, SamePin(p, pin[s]), UNCHANGED <<next, handoff>>,
             pin' = [pin EXCEPT ![s] = ProvenPin(s, p)], latch' = ProvenLatch(s, p)
      PROVE  Quiet
  <2>1. LatchesQuiet
    BY <1>3, ProvenQuiet DEF LatchesQuiet, SameLatch
  <2>2. SamePin(ProvenPin(s, p), pin[s])
    BY <1>3, BoundSame DEF SamePin
  <2>3. PinsQuiet
    BY <1>3, <2>2, PinQuiet
  <2> QED
    BY <1>3, <2>1, <2>3 DEF Quiet, HandoffsQuiet
<1>4. CASE ClientActive(s)
  <2> DEFINE p == [pin[s] EXCEPT !.active = TRUE]
  <2>1. p \in Pin /\ SamePin(p, pin[s])
    BY <1>0 DEF Pin, SamePin
  <2> QED
    BY <1>3, <1>4, <2>1 DEF ClientActive
<1>5. CASE ReadyCommand(s)
  <2> DEFINE p == [pin[s] EXCEPT !.ready = TRUE]
  <2>1. p \in Pin /\ SamePin(p, pin[s])
    BY <1>0 DEF Pin, SamePin
  <2> QED
    BY <1>3, <1>5, <2>1 DEF ReadyCommand
<1> QED
  BY <1>1, <1>2, <1>4, <1>5

LEMMA FrameQuiet ==
  ASSUME IInv, \/ ThinkDisabled \/ ThinkBegin \/ Tick \/ ToggleEnable \/ PublishBase
               \/ \E s \in Slots : ThinkClient(s)
  PROVE  Quiet
<1> USE DEF IInv
<1>1. CASE ThinkDisabled
  BY <1>1 DEF ThinkDisabled, ForgetRecoveries, Quiet, LatchesQuiet, PinsQuiet, HandoffsQuiet,
     SamePin, NoHandoff
<1>2. CASE ThinkBegin \/ ToggleEnable \/ PublishBase
  BY <1>2 DEF ThinkBegin, ToggleEnable, PublishBase, Quiet, LatchesQuiet, PinsQuiet,
     HandoffsQuiet, SamePin, SameLatch
<1>3. CASE Tick
  <2>1. UNCHANGED <<next, pin>>
    BY <1>3 DEF Tick
  <2>2. LatchesQuiet
    BY <1>3 DEF Tick, TypeOK, Entry, LatchesQuiet, SameLatch
  <2>3. HandoffsQuiet
    BY <1>3 DEF Tick, TypeOK, Handoff, HandoffsQuiet
  <2> QED
    BY <2>1, <2>2, <2>3 DEF Quiet, PinsQuiet, SamePin
<1>4. ASSUME NEW s \in Slots, ThinkClient(s) PROVE Quiet
  <2>1. next' = next /\ latch' = PruneAfter(s, ProvenLatch(s, pin[s])) /\ pin[s] \in Pin
    BY <1>4 DEF ThinkClient, TypeOK
  <2>2. LatchesQuiet
    <3>1. \A a \in Accounts : ProvenLatch(s, pin[s])[a] \in {latch[a], NoEntry}
      BY ProvenQuiet
    <3>2. \A a \in Accounts : latch'[a] \in {ProvenLatch(s, pin[s])[a], NoEntry}
      BY <2>1 DEF PruneAfter, Pruned
    <3> QED
      BY <3>1, <3>2 DEF LatchesQuiet, SameLatch
  <2>3. PinsQuiet /\ HandoffsQuiet
    <3>1. CASE pin' = [pin EXCEPT ![s] = ProvenPin(s, pin[s])] /\ handoff' = handoff
      <4>1. SamePin(ProvenPin(s, pin[s]), pin[s])
        BY <2>1, BoundSame
      <4> QED
        BY <3>1, <4>1, PinQuiet DEF HandoffsQuiet
    <3>2. CASE Disconnect(s)
      BY <3>2, DisconnectQuiet
    <3> QED
      BY <1>4, <3>1, <3>2 DEF ThinkClient
  <2> QED
    BY <2>1, <2>2, <2>3 DEF Quiet
<1> QED
  BY <1>1, <1>2, <1>3, <1>4

LEMMA HandoffQuiet ==
  ASSUME IInv, NEW s \in Slots, NEW channel \in BOOLEAN, latch' = latch,
         ThinkNoHandoff(s) \/ ThinkExpired(s) \/ ThinkDispatch(s, channel)
  PROVE  Quiet
<1> USE DEF IInv
<1>1. next' = next /\ LatchesQuiet
  BY DEF ThinkNoHandoff, ThinkExpired, ThinkDispatch, LatchesQuiet, SameLatch
<1>2. CASE ThinkNoHandoff(s)
  BY <1>1, <1>2 DEF ThinkNoHandoff, Quiet, PinsQuiet, HandoffsQuiet, SamePin
<1>3. CASE ThinkExpired(s)
  <2>1. CASE Disconnect(s)
    BY <1>1, <2>1, DisconnectQuiet DEF Quiet
  <2>2. CASE handoff' = [handoff EXCEPT ![s] = NoHandoff] /\ pin' = pin
    BY <1>1, <2>2 DEF Quiet, PinsQuiet, HandoffsQuiet, SamePin, NoHandoff, TypeOK
  <2> QED
    BY <1>3, <2>1, <2>2 DEF ThinkExpired
<1>4. CASE ThinkDispatch(s, channel)
  <2>1. pin' = pin
    BY <1>4 DEF ThinkDispatch
  <2>2. HandoffsQuiet
    <3>1. CASE handoff' = handoff
      BY <3>1 DEF HandoffsQuiet
    <3>2. CASE handoff' = [handoff EXCEPT ![s].phase = "Claimed", ![s].left = Window]
      BY <3>2 DEF HandoffsQuiet, TypeOK, Handoff
    <3> QED
      BY <1>4, <3>1, <3>2 DEF ThinkDispatch
  <2> QED
    BY <1>1, <2>1, <2>2 DEF Quiet, PinsQuiet, SamePin
<1> QED
  BY <1>2, <1>3, <1>4

-----------------------------------------------------------------------------
(* Steps that start an epoch, arm a latch or claim one.                     *)

LEMMA EpochStarted ==
  ASSUME IInv, NEW s \in Slots, next < MaxSerial, next' = next + 1,
         pin' = [pin EXCEPT ![s] = Epoch(next + 1)], HandoffsQuiet, LatchesQuiet
  PROVE  Moves
<1>1. Epoch(next + 1).serial = next + 1 /\ Epoch(next + 1).lane = "Unresolved"
  BY DEF Epoch, NoPin
<1>2. /\ pin'[s].serial = next + 1 /\ pin'[s].lane = "Unresolved"
      /\ \A t \in Slots \ {s} : pin'[t] = pin[t]
  BY <1>1 DEF IInv, TypeOK
<1>3. EpochsMove
  BY <1>2 DEF EpochsMove, EpochStarts, SamePin, HandoffsQuiet
<1>4. Settles
  BY <1>2 DEF Settles, Recovering
<1> QED
  BY <1>3, <1>4 DEF Moves, LatchStep

LEMMA ConnectMoves ==
  ASSUME IInv, NEW s \in Slots, ClientConnect(s)
  PROVE  Moves
<1>1. LatchesQuiet
  BY DEF ClientConnect, LatchesQuiet, SameLatch
<1>2. CASE Preserves(s)
  BY <1>1, <1>2, QuietMoves
     DEF ClientConnect, Quiet, PinsQuiet, HandoffsQuiet, SamePin
<1>3. CASE ~Preserves(s)
  <2>1. HandoffsQuiet
    BY <1>3 DEF ClientConnect, HandoffsQuiet, IInv, TypeOK, NoHandoff
  <2> QED
    BY <1>1, <1>3, <2>1, EpochStarted DEF ClientConnect
<1> QED
  BY <1>2, <1>3

LEMMA InvokeMoves ==
  ASSUME IInv, NEW s \in Slots, NEW channel \in BOOLEAN, ThinkInvoke(s, channel),
         latch' = latch
  PROVE  Moves
<1> USE DEF IInv
<1>1. LatchesQuiet
  BY DEF LatchesQuiet, SameLatch
<1>2. CASE Disconnect(s) /\ next' = next
  BY <1>1, <1>2, DisconnectQuiet, QuietMoves DEF Quiet
<1>3. CASE handoff' = [handoff EXCEPT ![s] = NoHandoff] /\ UNCHANGED <<next, pin>>
  <2>1. HandoffsQuiet
    BY <1>3 DEF HandoffsQuiet, TypeOK, NoHandoff
  <2> QED
    BY <1>1, <1>3, <2>1, QuietMoves DEF Quiet, PinsQuiet, SamePin
<1>4. ASSUME NEW ran \in {{}, {"disconnect"}, {"disconnect", "connect"}},
             handoff' = [handoff EXCEPT ![s].phase = "Invoked"], next < MaxSerial,
             next' = IF "connect" \in ran THEN next + 1 ELSE next,
             pin' = [pin EXCEPT ![s] = IF "connect" \in ran THEN Epoch(next + 1)
                                       ELSE IF "disconnect" \in ran THEN NoPin ELSE @]
      PROVE  Moves
  <2>1. HandoffsQuiet
    BY <1>4 DEF HandoffsQuiet, TypeOK, Handoff
  <2>2. CASE "connect" \in ran
    BY <1>1, <1>4, <2>1, <2>2, EpochStarted
  <2>3. CASE "connect" \notin ran
    <3>1. PinsQuiet
      BY <1>4, <2>3 DEF PinsQuiet, SamePin, TypeOK
    <3> QED
      BY <1>1, <1>4, <2>1, <2>3, <3>1, QuietMoves DEF Quiet
  <2> QED
    BY <2>2, <2>3
<1> QED
  BY <1>2, <1>3, <1>4 DEF ThinkInvoke

(* A lane that is resolved: only a claimed latch makes it a recovery.       *)
LEMMA ResolvedLane ==
  ASSUME NEW s \in Slots, NEW p \in Pin, NEW choice \in LaneChoices
  PROVE  LET q == Resolved(s, p, choice)
             recovers == choice = "Required" /\ Recovers(s, p)
         IN /\ q.serial = p.serial
            /\ p.lane # "Unresolved" => q.lane = p.lane
            /\ p.lane = "Unresolved" => q.lane = IF recovers THEN "NativeRecovery" ELSE choice
            /\ p.lane = "Unresolved" /\ ~recovers => q.lane # "NativeRecovery"
<1>1. choice \in {"Required", "NativeOptOut", "NativeRescue"}
  BY LaneAssumption
<1>2. Bound(s, p) \in {p, [p EXCEPT !.steam = engine[s].account]}
  BY DEF Bound
<1>3. PICK b \in {p, [p EXCEPT !.steam = engine[s].account]} : b = Bound(s, p)
  BY <1>2
<1>4. DOMAIN b = DOMAIN p /\ b.serial = p.serial /\ b.lane = p.lane
  BY DEF Pin
<1>5. DOMAIN p = {"serial", "pinned", "lane", "steam", "cleared", "active", "ready"}
  BY DEF Pin
<1> QED
  BY <1>1, <1>3, <1>4, <1>5 DEF Resolved

(* The latch of the account: claimed, removed because it expired, or left.  *)
LEMMA ConsumedCases ==
  ASSUME TypeOK, NEW a \in Accounts, NEW c \in Serials
  PROVE  /\ ConsumeResult(a, c) = "Native" =>
              /\ latch[a].phase = "Armed" /\ latch[a].failed # c /\ c # 0
              /\ Consumed(a, c) = [latch EXCEPT ![a] = [@ EXCEPT !.phase = "Consumed",
                                                                 !.recovery = c]]
         /\ ConsumeResult(a, c) # "Native" =>
              \A b \in Accounts : Consumed(a, c)[b] \in {latch[b], NoEntry}
<1>1. latch[a].phase \in {"None", "Armed", "Consumed"} /\ latch \in [Accounts -> Entry]
  BY DEF TypeOK, Entry
<1>2. ConsumeResult(a, c) = "Native" =>
         latch[a].phase = "Armed" /\ latch[a].failed # c /\ c # 0
  BY <1>1 DEF ConsumeResult
<1>3. ConsumeResult(a, c) = "Native" =>
         Consumed(a, c) = [latch EXCEPT ![a] = [@ EXCEPT !.phase = "Consumed", !.recovery = c]]
  BY DEF Consumed
<1>4. ConsumeResult(a, c) # "Native" =>
         \A b \in Accounts : Consumed(a, c)[b] \in {latch[b], NoEntry}
  BY <1>1 DEF Consumed
<1> QED
  BY <1>2, <1>3, <1>4

(* The lane of slot s is resolved for the pin p, its own or a new epoch's;  *)
(* the client stays with it, or a required one is disconnected.             *)
LEMMA LaneMoves ==
  ASSUME IInv, NEW s \in Slots, NEW p \in Pin, NEW choice \in LaneChoices, NEW r,
         latch' = LatchAfterLane(s, p, choice),
         \/ p = pin[s] /\ next' = next
         \/ p.serial = next + 1 /\ p.lane = "Unresolved" /\ next' = next + 1,
         \/ /\ pin' = [pin EXCEPT ![s] = r] /\ handoff' = handoff
            /\ SamePin(r, Resolved(s, p, choice))
         \/ Resolved(s, p, choice).lane = "Required" /\ Disconnect(s)
  PROVE  Moves
<1> USE DEF IInv
<1> DEFINE q == Resolved(s, p, choice)
           claims == p.lane = "Unresolved" /\ choice = "Required" /\ Recovers(s, p)
           a == engine[s].account
<1>1. /\ q.serial = p.serial /\ (p.lane # "Unresolved" => q.lane = p.lane)
      /\ claims => q.lane = "NativeRecovery"
      /\ p.lane = "Unresolved" /\ ~claims => q.lane # "NativeRecovery"
  BY ResolvedLane
<1>2. p.serial \in Serials /\ next \in Nat
  BY SerialAssumption DEF TypeOK, Pin, Serials
<1>3. CanBind(s, p) => a \in Accounts
  BY DEF SlotOwned, CanBind
<1> HIDE DEF q
<1>4. EpochsMove
  <2>1. CASE Disconnect(s)
    BY <2>1, DisconnectQuiet DEF EpochsMove, PinsQuiet, HandoffsQuiet, SamePin, NoPin
  <2>2. CASE pin' = [pin EXCEPT ![s] = r] /\ handoff' = handoff /\ SamePin(r, q)
    <3>1. /\ pin'[s].serial = p.serial /\ \A t \in Slots \ {s} : pin'[t] = pin[t]
          /\ \A t \in Slots : handoff'[t].failed = handoff[t].failed
      BY <1>1, <2>2 DEF TypeOK, SamePin
    <3> QED
      BY <1>2, <3>1 DEF EpochsMove, EpochStarts, SamePin
  <2> QED
    BY <2>1, <2>2 DEF q
<1>5. CASE claims
  <2>1. pin' = [pin EXCEPT ![s] = r] /\ SamePin(r, q)
    BY <1>1, <1>5 DEF q
  <2>2. a \in Accounts /\ ConsumeResult(a, p.serial) = "Native" /\ latch' = Consumed(a, p.serial)
    BY <1>3, <1>5 DEF LatchAfterLane, Recovers
  <2>3. Recovering(pin'[s]) = p.serial /\ \A t \in Slots \ {s} : SamePin(pin'[t], pin[t])
    BY <1>1, <1>5, <2>1 DEF TypeOK, SamePin, Recovering
  <2>4. ClaimsLatch(a, s, p.serial)
    BY <1>2, <2>2, <2>3, ConsumedCases DEF ClaimsLatch
  <2> QED
    BY <1>2, <1>4, <2>2, <2>4 DEF Moves, LatchStep
<1>6. CASE ~claims
  <2>1. LatchesQuiet
    <3>1. CASE latch' = latch
      BY <3>1 DEF LatchesQuiet, SameLatch
    <3>2. CASE /\ CanBind(s, p) /\ latch' = Consumed(a, p.serial)
               /\ ConsumeResult(a, p.serial) # "Native"
      <4>1. a \in Accounts /\ p.serial \in Serials
        BY <1>2, <1>3, <3>2
      <4>2. \A b \in Accounts : Consumed(a, p.serial)[b] \in {latch[b], NoEntry}
        BY <4>1, <3>2, ConsumedCases
      <4>3. \A b \in Accounts : latch'[b] = latch[b] \/ latch'[b] = NoEntry
        BY <3>2, <4>2
      <4> QED
        BY <4>3 DEF LatchesQuiet, SameLatch
    <3> QED
      BY <1>6, <3>1, <3>2 DEF LatchAfterLane, Recovers
  <2>2. \A t \in Slots : Recovering(pin'[t]) \in {0, Recovering(pin[t])}
    <3>1. CASE Disconnect(s)
      BY <3>1, DisconnectQuiet DEF PinsQuiet, SamePin, NoPin, Recovering
    <3>2. CASE pin' = [pin EXCEPT ![s] = r] /\ SamePin(r, q)
      <4>1. \A t \in Slots \ {s} : pin'[t] = pin[t]
        BY <3>2 DEF TypeOK
      <4>2. Recovering(pin'[s]) \in {0, Recovering(pin[s])}
        BY <1>1, <1>6, <3>2 DEF TypeOK, SamePin, Recovering
      <4> QED
        BY <4>1, <4>2
    <3> QED
      BY <3>1, <3>2 DEF q
  <2> QED
    BY <1>4, <2>1, <2>2 DEF Moves, LatchStep, Settles
<1> QED
  BY <1>5, <1>6

LEMMA ServerInfoMoves ==
  ASSUME IInv, NEW s \in Slots, ServerInfo(s)
  PROVE  Moves
<1> USE DEF IInv
<1> DEFINE p == IF pin[s].serial = 0 THEN Epoch(next + 1) ELSE pin[s]
<1>1. /\ p \in Pin
      /\ \/ p = pin[s] /\ next' = next
         \/ p.serial = next + 1 /\ p.lane = "Unresolved" /\ next' = next + 1
  <2>1. CASE pin[s].serial = 0
    <3>1. next < MaxSerial /\ next' = next + 1
      BY <2>1 DEF ServerInfo
    <3>2. Epoch(next + 1).serial = next + 1 /\ Epoch(next + 1).lane = "Unresolved"
      BY DEF Epoch, NoPin
    <3> QED
      BY <2>1, <3>1, <3>2, EpochPin
  <2>2. CASE pin[s].serial # 0
    BY <2>2 DEF ServerInfo, TypeOK
  <2> QED
    BY <2>1, <2>2
<1>2. PICK choice \in LaneChoices, usable \in BOOLEAN :
        LET q == Resolved(s, p, choice)
        IN /\ latch' = LatchAfterLane(s, p, choice)
           /\ IF q.lane = "Required" /\ ~(usable /\ (q.pinned \/ base))
              THEN Disconnect(s)
              ELSE /\ pin' = [pin EXCEPT ![s] =
                                [q EXCEPT !.pinned = @ \/ (q.lane = "Required" /\ base)]]
                   /\ handoff' = handoff
  BY DEF ServerInfo
<1> DEFINE q == Resolved(s, p, choice)
           r == [q EXCEPT !.pinned = @ \/ (q.lane = "Required" /\ base)]
<1> HIDE DEF p
<1>3. q \in Pin
  BY <1>1, ResolvedPin
<1>4. \/ pin' = [pin EXCEPT ![s] = r] /\ handoff' = handoff
      \/ q.lane = "Required" /\ Disconnect(s)
  BY <1>2
<1>5. latch' = LatchAfterLane(s, p, choice)
  BY <1>2
<1> HIDE DEF q
<1>6. SamePin(r, q)
  BY <1>3 DEF SamePin, Pin
<1> HIDE DEF r
<1> QED
  BY <1>1, <1>4, <1>5, <1>6, LaneMoves DEF q

LEMMA FileRequestMoves ==
  ASSUME IInv, NEW s \in Slots, FileRequest(s)
  PROVE  Moves
<1> USE DEF IInv
<1>1. next' = next /\ pin[s] \in Pin
  BY DEF FileRequest, TypeOK
<1>2. PICK choice \in LaneChoices, usable \in BOOLEAN :
        LET q == Resolved(s, pin[s], choice)
        IN /\ latch' = LatchAfterLane(s, pin[s], choice)
           /\ IF q.lane = "Required" /\ ~(usable /\ q.pinned)
              THEN Disconnect(s)
              ELSE pin' = [pin EXCEPT ![s] = q] /\ handoff' = handoff
  BY DEF FileRequest
<1> DEFINE q == Resolved(s, pin[s], choice)
<1>3. /\ latch' = LatchAfterLane(s, pin[s], choice)
      /\ \/ pin' = [pin EXCEPT ![s] = q] /\ handoff' = handoff
         \/ q.lane = "Required" /\ Disconnect(s)
  BY <1>2
<1>4. SamePin(q, q)
  BY DEF SamePin
<1> HIDE DEF q
<1> QED
  BY <1>1, <1>3, <1>4, LaneMoves DEF q

(* The baseline of a handoff starts an epoch and claims the latch with it;  *)
(* a latch that is not claimed leaves the slot without an epoch.            *)
LEMMA RecoveryMoves ==
  ASSUME IInv, NEW s \in Slots, RecoveryServerInfo(s)
  PROVE  Moves
<1> USE DEF IInv
<1> DEFINE a == engine[s].account
           c == next + 1
<1>1. PICK t \in Candidates(s) :
        /\ CanBegin(s, t) /\ next' = c /\ latch' = Consumed(a, c)
        /\ IF ConsumeResult(a, c) = "Native"
           THEN /\ handoff' = [handoff EXCEPT ![t] = NoHandoff]
                /\ pin' = [pin EXCEPT ![s] =
                     [Epoch(c) EXCEPT !.steam = a, !.lane = "NativeRecovery"]]
           ELSE Disconnect(s)
  BY DEF RecoveryServerInfo
<1>2. Present(s) /\ a \in Accounts
  BY DEF RecoveryServerInfo, ServerInfoDue, Present, SlotOwned
<1>3. c \in Serials /\ c # 0 /\ Epoch(c) \in Pin /\ t \in Slots
  BY EpochPin, SerialAssumption DEF RecoveryServerInfo, TypeOK, Serials, Candidates
<1>4. CASE ConsumeResult(a, c) = "Native"
  <2> DEFINE r == [Epoch(c) EXCEPT !.steam = a, !.lane = "NativeRecovery"]
  <2>1. r.serial = c /\ r.lane = "NativeRecovery"
    BY DEF Epoch, NoPin
  <2>2. pin' = [pin EXCEPT ![s] = r] /\ handoff' = [handoff EXCEPT ![t] = NoHandoff]
    BY <1>1, <1>4
  <2> HIDE DEF r
  <2>3. /\ pin'[s].serial = c /\ Recovering(pin'[s]) = c
        /\ \A u \in Slots \ {s} : SamePin(pin'[u], pin[u])
    BY <2>1, <2>2 DEF TypeOK, SamePin, Recovering
  <2>4. HandoffsQuiet
    BY <1>3, <2>2 DEF HandoffsQuiet, TypeOK, NoHandoff
  <2>5. EpochsMove
    BY <1>1, <2>3, <2>4 DEF EpochsMove, EpochStarts, HandoffsQuiet
  <2>6. ClaimsLatch(a, s, c)
    BY <1>1, <1>2, <1>3, <1>4, <2>3, ConsumedCases DEF ClaimsLatch
  <2> HIDE DEF a, c
  <2> QED
    BY <1>2, <1>3, <2>5, <2>6 DEF Moves, LatchStep
<1>5. CASE ConsumeResult(a, c) # "Native"
  <2>1. PinsQuiet /\ HandoffsQuiet
    BY <1>1, <1>5, DisconnectQuiet
  <2>2. LatchesQuiet
    <3>1. \A b \in Accounts : Consumed(a, c)[b] \in {latch[b], NoEntry}
      BY <1>2, <1>3, <1>5, ConsumedCases
    <3>2. \A b \in Accounts : latch'[b] = latch[b] \/ latch'[b] = NoEntry
      BY <1>1, <3>1
    <3> QED
      BY <3>2 DEF LatchesQuiet, SameLatch
  <2> QED
    BY <1>1, <2>1, <2>2
       DEF Moves, EpochsMove, PinsQuiet, HandoffsQuiet, LatchStep, Settles, SamePin, Recovering,
           NoPin
<1> QED
  BY <1>4, <1>5

(* A failure arms the latch with the epoch that failed; one that finds a    *)
(* handoff pending takes it away again.                                     *)
LEMMA FailedMoves ==
  ASSUME IInv, NEW s \in Slots, FailedCommand(s)
  PROVE  Moves
<1> USE DEF IInv
<1> DEFINE a == engine[s].account
<1>1. /\ a \in Accounts /\ latch[a].phase # "Consumed" /\ pin[s].serial # 0
      /\ pin[s] \in Pin /\ next' = next
  BY DEF FailedCommand, Arms, Authenticated, CanBind, CanArm, SlotOwned, TypeOK
<1>2. CASE Pending(s)
  <2>1. latch' = [latch EXCEPT ![a] = NoEntry] /\ Disconnect(s)
    BY <1>2 DEF FailedCommand
  <2>2. LatchesQuiet
    BY <1>1, <2>1 DEF LatchesQuiet, SameLatch, TypeOK
  <2> QED
    BY <1>1, <2>1, <2>2, DisconnectQuiet, QuietMoves DEF Quiet
<1>3. CASE ~Pending(s)
  <2> DEFINE h == [phase |-> "Queued", account |-> a, failed |-> pin[s].serial,
                   left |-> Window]
  <2>1. /\ latch' = [latch EXCEPT ![a] = ArmedEntry(pin[s].serial)]
        /\ handoff' = [handoff EXCEPT ![s] = h]
        /\ pin' = [pin EXCEPT ![s] = Bound(s, pin[s])]
    BY <1>3 DEF FailedCommand
  <2>2. \A t \in Slots : SamePin(pin'[t], pin[t])
    BY <1>1, <2>1, BoundSame DEF TypeOK, SamePin
  <2>3. \A t \in Slots : handoff'[t].failed \in {handoff[t].failed, pin[t].serial}
    BY <2>1 DEF TypeOK
  <2>4. EpochsMove
    BY <1>1, <2>2, <2>3 DEF EpochsMove, SamePin
  <2>5. ArmsLatch(a, s)
    BY <1>1, <2>1, <2>2 DEF ArmsLatch
  <2> QED
    BY <1>1, <2>4, <2>5 DEF Moves, LatchStep
<1> QED
  BY <1>2, <1>3

LEMMA LevelMoves ==
  ASSUME LevelShutdown
  PROVE  Moves
BY DEF LevelShutdown, ForgetRecoveries, Moves, LevelEnds, LatchStep, Settles, LatchesQuiet,
   Recovering, NoPin

(* Every step of the recovery is one of these.                              *)
LEMMA Step ==
  ASSUME IInv, [Next]_vars
  PROVE  Moves
<1>1. CASE UNCHANGED vars
  BY <1>1, QuietMoves
     DEF vars, Quiet, LatchesQuiet, PinsQuiet, HandoffsQuiet, SameLatch, SamePin
<1>2. ASSUME NEW s \in Slots,
             \/ EngineConnect(s) \/ SteamIdentity(s) \/ EngineDisconnect(s)
             \/ ServerInfoUnchanged(s) \/ ServerInfoUnprepared(s)
             \/ RecoveryServerInfoRefused(s)
             \/ ClientDisconnect(s) \/ ClientActive(s) \/ UnarmedFailure(s)
             \/ ReadyCommand(s)
      PROVE  Moves
  BY <1>2, EngineQuiet, CommandsQuiet, QuietMoves
<1>3. ASSUME NEW s \in Slots,
             \/ ClientConnect(s) \/ ServerInfo(s) \/ RecoveryServerInfo(s)
             \/ FileRequest(s) \/ FailedCommand(s)
      PROVE  Moves
  BY <1>3, ConnectMoves, ServerInfoMoves, RecoveryMoves, FileRequestMoves, FailedMoves
<1>4. ASSUME NEW s \in Slots, ThinkHandoff(s) PROVE Moves
  <2>1. latch' = latch
    BY <1>4 DEF ThinkHandoff
  <2>2. PICK channel \in BOOLEAN :
          ThinkNoHandoff(s) \/ ThinkExpired(s) \/ ThinkDispatch(s, channel)
          \/ ThinkInvoke(s, channel)
    BY <1>4 DEF ThinkHandoff
  <2> QED
    BY <2>1, <2>2, HandoffQuiet, InvokeMoves, QuietMoves
<1>5. CASE ThinkStep
  BY <1>4, <1>5, FrameQuiet, QuietMoves DEF ThinkStep
<1>6. CASE Tick \/ ToggleEnable \/ PublishBase \/ LevelShutdown
  BY <1>6, FrameQuiet, QuietMoves, LevelMoves
<1> QED
  BY <1>1, <1>2, <1>3, <1>5, <1>6 DEF Next

-----------------------------------------------------------------------------
(* Epochs.                                                                  *)

(* EpochsUnique is inductive once a latch that is not spent names no        *)
(* recovery epoch: a latch can then only be claimed by a new epoch or by    *)
(* the slot's own, both bounded by the counter.                             *)
EpochInv ==
  /\ EpochsUnique
  /\ \A a \in Accounts : latch[a].phase # "Consumed" => latch[a].recovery = 0

LEMMA EpochTypes ==
  ASSUME TypeOK
  PROVE  /\ next \in Nat /\ \A s \in Slots : pin[s].serial \in Nat /\ handoff[s].failed \in Nat
         /\ latch \in [Accounts -> Entry]
         /\ \A a \in Accounts : latch[a].failed \in Nat /\ latch[a].recovery \in Nat
BY SerialAssumption DEF TypeOK, Serials, Pin, Handoff, Entry

LEMMA SlotEpochs ==
  ASSUME IInv, IInv', EpochInv, EpochsMove
  PROVE  /\ \A s \in Slots : pin'[s].serial <= next' /\ handoff'[s].failed <= next'
         /\ \A s, t \in Slots :
              s # t /\ pin'[s].serial # 0 => pin'[s].serial # pin'[t].serial
<1> USE DEF IInv
<1>1. /\ next \in Nat /\ next' \in {next, next + 1}
      /\ \A s \in Slots : /\ pin[s].serial \in Nat /\ handoff[s].failed \in Nat
                          /\ pin[s].serial <= next /\ handoff[s].failed <= next
                          /\ handoff'[s].failed \in {0, handoff[s].failed, pin[s].serial}
      /\ \A s, t \in Slots :
           s # t /\ pin[s].serial # 0 => pin[s].serial # pin[t].serial
  BY EpochTypes DEF EpochInv, EpochsUnique, EpochsMove
<1>2. CASE \A s \in Slots : pin'[s].serial \in {0, pin[s].serial}
  BY <1>1, <1>2
<1>3. ASSUME NEW s \in Slots, EpochStarts(s)
      PROVE  /\ \A t \in Slots : pin'[t].serial <= next' /\ handoff'[t].failed <= next'
             /\ \A t, u \in Slots :
                  t # u /\ pin'[t].serial # 0 => pin'[t].serial # pin'[u].serial
  <2>1. /\ next' = next + 1 /\ pin'[s].serial = next + 1
        /\ \A t \in Slots \ {s} : pin'[t].serial \in {0, pin[t].serial}
    BY <1>3 DEF EpochStarts, SamePin, NoPin
  <2> QED
    BY <1>1, <2>1
<1> QED
  BY <1>2, <1>3 DEF EpochsMove

LEMMA LatchEpochs ==
  ASSUME IInv, EpochInv, next' \in {next, next + 1}, LatchStep
  PROVE  \A a \in Accounts :
           /\ latch'[a].failed <= next' /\ latch'[a].recovery <= next'
           /\ latch'[a].phase = "Consumed" => latch'[a].failed # latch'[a].recovery
           /\ latch'[a].phase # "Consumed" => latch'[a].recovery = 0
<1> USE DEF IInv
<1>1. /\ next \in Nat /\ latch \in [Accounts -> Entry]
      /\ \A s \in Slots : pin[s].serial \in Nat /\ pin[s].serial <= next
  BY EpochTypes DEF EpochInv, EpochsUnique
<1>2. \A a \in Accounts :
        /\ latch[a].failed \in Nat /\ latch[a].recovery \in Nat
        /\ latch[a].failed <= next /\ latch[a].recovery <= next
        /\ latch[a].phase = "Consumed" => latch[a].failed # latch[a].recovery
        /\ latch[a].phase # "Consumed" => latch[a].recovery = 0
  BY EpochTypes DEF EpochInv, EpochsUnique
<1>3. CASE Settles
  <2>1. \A a \in Accounts : SameLatch(latch'[a], latch[a]) \/ latch'[a] = NoEntry
    BY <1>3 DEF Settles, LatchesQuiet
  <2> QED
    BY <1>1, <1>2, <2>1 DEF SameLatch, NoEntry
<1>4. ASSUME NEW a \in Accounts, NEW s \in Slots, ArmsLatch(a, s)
      PROVE  \A b \in Accounts :
               /\ latch'[b].failed <= next' /\ latch'[b].recovery <= next'
               /\ latch'[b].phase = "Consumed" => latch'[b].failed # latch'[b].recovery
               /\ latch'[b].phase # "Consumed" => latch'[b].recovery = 0
  <2>1. /\ latch'[a].phase = "Armed" /\ latch'[a].failed = pin[s].serial
        /\ latch'[a].recovery = 0 /\ \A b \in Accounts \ {a} : latch'[b] = latch[b]
    BY <1>1, <1>4 DEF ArmsLatch, ArmedEntry
  <2> QED
    BY <1>1, <1>2, <2>1
<1>5. ASSUME NEW a \in Accounts, NEW s \in Slots, NEW c \in Serials, ClaimsLatch(a, s, c)
      PROVE  \A b \in Accounts :
               /\ latch'[b].failed <= next' /\ latch'[b].recovery <= next'
               /\ latch'[b].phase = "Consumed" => latch'[b].failed # latch'[b].recovery
               /\ latch'[b].phase # "Consumed" => latch'[b].recovery = 0
  <2>1. c <= next' /\ latch[a].failed # c
    BY <1>1, <1>5 DEF ClaimsLatch
  <2>2. /\ latch'[a].phase = "Consumed" /\ latch'[a].failed = latch[a].failed
        /\ latch'[a].recovery = c /\ \A b \in Accounts \ {a} : latch'[b] = latch[b]
    BY <1>1, <1>5 DEF ClaimsLatch, Entry
  <2> QED
    BY <1>1, <1>2, <2>1, <2>2
<1> QED
  BY <1>3, <1>4, <1>5 DEF LatchStep

LEMMA EpochsKept ==
  ASSUME IInv, IInv', EpochInv, Moves
  PROVE  EpochInv'
<1>1. CASE EpochsMove
  <2>1. next' \in {next, next + 1}
    BY <1>1 DEF EpochsMove
  <2> QED
    BY <1>1, <2>1, SlotEpochs, LatchEpochs DEF Moves, EpochInv, EpochsUnique
<1>2. CASE LevelEnds
  BY <1>2 DEF LevelEnds, EpochInv, EpochsUnique, NoEntry, NoPin, NoHandoff
<1> QED
  BY <1>1, <1>2 DEF Moves

LEMMA Epochs == Spec => []EpochInv
<1>1. Init => EpochInv
  BY DEF Init, EpochInv, EpochsUnique, NoEntry, NoPin, NoHandoff
<1>2. IInv /\ IInv' /\ EpochInv /\ [Next]_vars => EpochInv'
  BY Step, EpochsKept
<1> QED
  BY <1>1, <1>2, Invariant, PTL DEF Spec

(* A connection epoch names one connection, and the epoch that spends a     *)
(* latch is never the one that armed it (StartClientEpoch and Consume).     *)
THEOREM EpochsAreUnique == Spec => []EpochsUnique
<1>1. EpochInv => EpochsUnique
  BY DEF EpochInv
<1> QED
  BY <1>1, Epochs, PTL

-----------------------------------------------------------------------------
(* The refinement.                                                          *)

LEMMA SettlesOnce == Settles => OneShot!Settle
<1> SUFFICES ASSUME Settles PROVE OneShot!Settle
  OBVIOUS
<1> DEFINE lapsed == {a \in Accounts : ~SameLatch(latch'[a], latch[a])}
           ended == {s \in Slots : Recovering(pin'[s]) # Recovering(pin[s])}
<1>1. /\ lapsed \in SUBSET Accounts /\ ended \in SUBSET Slots
      /\ \A a \in Accounts \ lapsed : SameLatch(latch'[a], latch[a])
      /\ \A a \in lapsed : latch'[a] = NoEntry
      /\ \A s \in Slots : Recovering(pin'[s]) = IF s \in ended THEN 0 ELSE Recovering(pin[s])
  BY DEF Settles, LatchesQuiet
<1> HIDE DEF lapsed, ended
<1>2. /\ \A a \in Accounts : latch'[a].phase = IF a \in lapsed THEN "None" ELSE latch[a].phase
      /\ \A a \in Accounts : latch'[a].failed = IF a \in lapsed THEN 0 ELSE latch[a].failed
      /\ \A a \in Accounts : latch'[a].recovery = IF a \in lapsed THEN 0 ELSE latch[a].recovery
  BY <1>1 DEF SameLatch, NoEntry
<1> QED
  BY <1>1, <1>2 DEF OneShot!Settle, Recovering

LEMMA ArmsOnce ==
  ASSUME IInv, EpochInv, NEW a \in Accounts, NEW s \in Slots, ArmsLatch(a, s)
  PROVE  \E c \in Serials \ {0} : OneShot!Arm(a, c)
<1>0. pin[s].serial \in Serials \ {0} /\ latch \in [Accounts -> Entry]
  BY DEF IInv, TypeOK, Pin, ArmsLatch
<1>1. PICK c \in Serials \ {0} : c = pin[s].serial
  BY <1>0
<1>2. /\ latch[a].phase # "Consumed" /\ latch[a].recovery = 0
      /\ latch'[a].phase = "Armed" /\ latch'[a].failed = c
      /\ latch'[a].recovery = 0 /\ \A b \in Accounts \ {a} : latch'[b] = latch[b]
  BY <1>0, <1>1 DEF EpochInv, ArmsLatch, ArmedEntry
<1>3. \A t \in Slots : Recovering(pin'[t]) = Recovering(pin[t])
  BY DEF ArmsLatch, SamePin, Recovering
<1>4. OneShot!Arm(a, c)
  BY <1>0, <1>2, <1>3 DEF OneShot!Arm, Recovering
<1> QED
  BY <1>4

LEMMA ClaimsOnce ==
  ASSUME IInv, NEW a \in Accounts, NEW s \in Slots, NEW c \in Serials, ClaimsLatch(a, s, c)
  PROVE  c # 0 /\ OneShot!Claim(a, s, c)
<1>1. latch \in [Accounts -> Entry]
  BY DEF IInv, TypeOK
<1>2. /\ latch[a].phase = "Armed" /\ latch[a].failed # c /\ c # 0
      /\ latch'[a].phase = "Consumed" /\ latch'[a].failed = latch[a].failed
      /\ latch'[a].recovery = c /\ \A b \in Accounts \ {a} : latch'[b] = latch[b]
  BY <1>1 DEF ClaimsLatch, Entry
<1>3. /\ Recovering(pin'[s]) = c
      /\ \A t \in Slots \ {s} : Recovering(pin'[t]) = Recovering(pin[t])
  BY DEF ClaimsLatch, SamePin, Recovering
<1> QED
  BY <1>2, <1>3 DEF OneShot!Claim, Recovering

(* For any number of slots, accounts and epochs the recovery of required    *)
(* joins gives every account one chance, spent by another epoch than the    *)
(* one that failed, and runs no native recovery that did not spend it.      *)
THEOREM ImplementsOneShot == Spec => OneShotSpec
<1>1. Init => OneShot!Init
  BY DEF Init, OneShot!Init, NoEntry, NoPin
<1>2. IInv /\ EpochInv /\ [Next]_vars => [OneShot!Next]_(OneShot!vars)
  <2> SUFFICES ASSUME IInv, EpochInv, [Next]_vars PROVE OneShot!Next
    OBVIOUS
  <2>1. LatchStep
    BY Step DEF Moves
  <2>2. CASE Settles
    BY <2>2, SettlesOnce DEF OneShot!Next
  <2>3. ASSUME NEW a \in Accounts, NEW s \in Slots, ArmsLatch(a, s) PROVE OneShot!Next
    BY <2>3, ArmsOnce DEF OneShot!Next
  <2>4. ASSUME NEW a \in Accounts, NEW s \in Slots, NEW c \in Serials, ClaimsLatch(a, s, c)
        PROVE  OneShot!Next
    BY <2>4, ClaimsOnce DEF OneShot!Next
  <2> QED
    BY <2>1, <2>2, <2>3, <2>4 DEF LatchStep
<1> QED
  BY <1>1, <1>2, Invariant, Epochs, PTL DEF Spec, OneShotSpec, OneShot!Spec

-----------------------------------------------------------------------------
(* Tombstones.                                                              *)

(* A spent latch stays, unless a proven connection of its account, a        *)
(* disabled module or the end of the level removes it.                      *)
Released(a) ==
  /\ latch'[a] = NoEntry
  /\ \E s \in Slots : /\ ~pin[s].cleared /\ pin'[s].cleared
                     /\ pin'[s].active /\ pin'[s].steam = a /\ engine[s].auth
Kept(a) == latch[a].phase = "Consumed" => latch'[a] = latch[a] \/ Released(a)

LEMMA ConsumedKept ==
  ASSUME NEW a \in Accounts, latch \in [Accounts -> Entry], NEW b \in Accounts, NEW c \in Serials
  PROVE  latch[a].phase = "Consumed" => Consumed(b, c)[a] = latch[a]
<1>1. latch[b].phase = "Consumed" => ConsumeResult(b, c) \notin {"Native", "Expired"}
  BY DEF ConsumeResult
<1> QED
  BY <1>1 DEF Consumed

LEMMA LaneKept ==
  ASSUME IInv, NEW s \in Slots, NEW p \in Pin, NEW choice \in LaneChoices,
         latch' = LatchAfterLane(s, p, choice), NEW a \in Accounts
  PROVE  Kept(a)
<1> USE DEF IInv
<1>1. CASE latch' = latch
  BY <1>1 DEF Kept
<1>2. CASE CanBind(s, p) /\ latch' = Consumed(engine[s].account, p.serial)
  <2>1. engine[s].account \in Accounts /\ p.serial \in Serials /\ latch \in [Accounts -> Entry]
    BY <1>2 DEF CanBind, SlotOwned, Pin, TypeOK
  <2> QED
    BY <1>2, <2>1, ConsumedKept DEF Kept
<1> QED
  BY <1>1, <1>2 DEF LatchAfterLane

(* The proof of success clears the latch of the client in the slot, and     *)
(* marks its pin.                                                           *)
LEMMA ProofReleases ==
  ASSUME IInv, NEW s \in Slots, NEW p \in Pin, p.cleared = pin[s].cleared,
         pin' = [pin EXCEPT ![s] = ProvenPin(s, p)], NEW a \in Accounts,
         ProvenLatch(s, p)[a] # latch[a], latch'[a] = NoEntry
  PROVE  Released(a)
<1> USE DEF IInv
<1> DEFINE b == Bound(s, p)
           d == \/ p.lane = "NativeRecovery" /\ OwnsConsumed(engine[s].account, p.serial)
                \/ Succeeded(p) /\ ~RetainsOwnLatch(engine[s].account, p.serial)
<1>1. /\ Proves(s, p) /\ d = TRUE /\ a = engine[s].account
  BY DEF ProvenLatch, TypeOK
<1>2. /\ p.active /\ ~p.cleared /\ CanBind(s, p) /\ engine[s].auth
  BY <1>1 DEF Proves, Proving, Authenticated
<1>3. b \in Pin /\ b.steam = a /\ b.active
  BY <1>1, <1>2, BoundPin DEF Bound, Pin
<1>4. ProvenPin(s, p) = [b EXCEPT !.cleared = TRUE]
  BY <1>1 DEF ProvenPin
<1> HIDE DEF b
<1>5. pin'[s].cleared /\ pin'[s].active /\ pin'[s].steam = a
  BY <1>3, <1>4 DEF Pin, TypeOK
<1> QED
  BY <1>2, <1>5 DEF Released

LEMMA ProofKept ==
  ASSUME IInv, NEW s \in Slots, NEW p \in Pin, p.cleared = pin[s].cleared,
         pin' = [pin EXCEPT ![s] = ProvenPin(s, p)], latch' = ProvenLatch(s, p),
         NEW a \in Accounts
  PROVE  Kept(a)
<1>1. latch'[a] \in {latch[a], NoEntry}
  BY ProvenQuiet DEF IInv
<1> QED
  BY <1>1, ProofReleases DEF Kept

LEMMA ClientKept ==
  ASSUME IInv, NEW s \in Slots, ThinkClient(s), NEW a \in Accounts
  PROVE  Kept(a)
<1> USE DEF IInv
<1>1. pin[s] \in Pin /\ latch' = PruneAfter(s, ProvenLatch(s, pin[s]))
  BY DEF ThinkClient, TypeOK
<1>2. ProvenLatch(s, pin[s])[a] \in {latch[a], NoEntry}
  BY ProvenQuiet
<1>3. \/ latch'[a] = ProvenLatch(s, pin[s])[a]
      \/ ProvenLatch(s, pin[s])[a].phase = "Armed" /\ latch'[a] = NoEntry
  BY <1>1 DEF PruneAfter, Pruned
<1>4. CASE ProvenLatch(s, pin[s])[a] = latch[a]
  BY <1>3, <1>4 DEF Kept
<1>5. CASE ProvenLatch(s, pin[s])[a] # latch[a]
  <2>1. latch'[a] = NoEntry
    BY <1>2, <1>3, <1>5
  <2>2. ProvenLatch(s, pin[s]) # latch
    BY <1>5
  <2>3. pin' = [pin EXCEPT ![s] = ProvenPin(s, pin[s])]
    BY <2>2 DEF ThinkClient, ProvenLatch, Succeeded
  <2> QED
    BY <1>1, <1>5, <2>1, <2>3, ProofReleases DEF Kept
<1> QED
  BY <1>4, <1>5

LEMMA CommandKept ==
  ASSUME IInv, NEW s \in Slots, NEW a \in Accounts,
         ClientActive(s) \/ ReadyCommand(s) \/ FailedCommand(s)
  PROVE  Kept(a)
<1> USE DEF IInv
<1>0. pin[s] \in Pin
  BY DEF TypeOK
<1>1. CASE ClientActive(s)
  <2> DEFINE p == [pin[s] EXCEPT !.active = TRUE]
  <2>1. p \in Pin /\ p.cleared = pin[s].cleared
    BY <1>0 DEF Pin
  <2> QED
    BY <1>1, <2>1, ProofKept DEF ClientActive
<1>2. CASE ReadyCommand(s)
  <2> DEFINE p == [pin[s] EXCEPT !.ready = TRUE]
  <2>1. p \in Pin /\ p.cleared = pin[s].cleared
    BY <1>0 DEF Pin
  <2> QED
    BY <1>2, <2>1, ProofKept DEF ReadyCommand
<1>3. CASE FailedCommand(s)
  <2>1. latch[engine[s].account].phase # "Consumed"
    BY <1>3 DEF FailedCommand, Arms, CanArm
  <2>2. a # engine[s].account => latch'[a] = latch[a]
    BY <1>3 DEF FailedCommand, TypeOK
  <2> QED
    BY <2>1, <2>2 DEF Kept
<1> QED
  BY <1>1, <1>2, <1>3

LEMMA BaselineKept ==
  ASSUME IInv, NEW s \in Slots, NEW a \in Accounts,
         ServerInfo(s) \/ FileRequest(s) \/ RecoveryServerInfo(s)
  PROVE  Kept(a)
<1> USE DEF IInv
<1>1. CASE ServerInfo(s)
  <2> DEFINE p == IF pin[s].serial = 0 THEN Epoch(next + 1) ELSE pin[s]
  <2>1. p \in Pin
    BY <1>1, EpochPin DEF ServerInfo, TypeOK
  <2>2. PICK choice \in LaneChoices : latch' = LatchAfterLane(s, p, choice)
    BY <1>1 DEF ServerInfo
  <2> HIDE DEF p
  <2> QED
    BY <2>1, <2>2, LaneKept
<1>2. CASE FileRequest(s)
  <2>1. pin[s] \in Pin /\ \E choice \in LaneChoices : latch' = LatchAfterLane(s, pin[s], choice)
    BY <1>2 DEF FileRequest, TypeOK
  <2> QED
    BY <2>1, LaneKept
<1>3. CASE RecoveryServerInfo(s)
  <2>1. engine[s].account \in Accounts /\ next + 1 \in Serials /\ latch \in [Accounts -> Entry]
    BY <1>3, EpochPin DEF RecoveryServerInfo, ServerInfoDue, Present, SlotOwned, TypeOK
  <2>2. latch' = Consumed(engine[s].account, next + 1)
    BY <1>3 DEF RecoveryServerInfo
  <2> QED
    BY <2>1, <2>2, ConsumedKept DEF Kept
<1> QED
  BY <1>1, <1>2, <1>3

(* The tombstone of a spent recovery outlives disconnects, timeouts and     *)
(* slot reuse, for any number of slots that share an account.               *)
THEOREM TombstoneIsKept == Spec => TombstoneKept
<1>1. ASSUME IInv, [Next]_vars, NEW a \in Accounts
      PROVE  \/ Kept(a)
             \/ latch'[a] = NoEntry /\ ~enabled
             \/ latch' = [b \in Accounts |-> NoEntry] /\ ~base'
  <2>1. CASE latch' = latch
    BY <2>1 DEF Kept
  <2>2. CASE ThinkDisabled
    BY <2>2 DEF ThinkDisabled, ForgetRecoveries
  <2>3. CASE LevelShutdown
    BY <2>3 DEF LevelShutdown, ForgetRecoveries
  <2>4. CASE Tick
    BY <2>4 DEF Tick, Kept
  <2>5. ASSUME NEW s \in Slots,
               \/ ThinkClient(s) \/ ClientActive(s) \/ ReadyCommand(s) \/ FailedCommand(s)
               \/ ServerInfo(s) \/ FileRequest(s) \/ RecoveryServerInfo(s)
        PROVE  Kept(a)
    BY <1>1, <2>5, ClientKept, CommandKept, BaselineKept
  <2>6. ASSUME NEW s \in Slots,
               \/ EngineConnect(s) \/ SteamIdentity(s) \/ EngineDisconnect(s)
               \/ ClientConnect(s) \/ ClientDisconnect(s)
               \/ ServerInfoUnchanged(s) \/ ServerInfoUnprepared(s)
               \/ RecoveryServerInfoRefused(s) \/ UnarmedFailure(s) \/ ThinkHandoff(s)
        PROVE  latch' = latch
    BY <2>6 DEF EngineConnect, SteamIdentity, EngineDisconnect, ClientConnect,
       ClientDisconnect, ServerInfoUnchanged, ServerInfoUnprepared,
       RecoveryServerInfoRefused, UnarmedFailure, ThinkHandoff
  <2>7. CASE ThinkBegin \/ ToggleEnable \/ PublishBase \/ UNCHANGED vars
    BY <2>1, <2>7 DEF ThinkBegin, ToggleEnable, PublishBase, vars
  <2> QED
    BY <1>1, <2>1, <2>2, <2>3, <2>4, <2>5, <2>6, <2>7 DEF Next, ThinkStep
<1>2. IInv /\ [Next]_vars =>
        [\A a \in Accounts :
           latch[a].phase = "Consumed" /\ latch'[a] # latch[a] =>
             \/ Released(a)
             \/ latch'[a] = NoEntry /\ ~enabled
             \/ latch' = [b \in Accounts |-> NoEntry] /\ ~base']_vars
  BY <1>1 DEF Kept
<1> QED
  BY <1>2, Invariant, PTL DEF Spec, TombstoneKept, Released

-----------------------------------------------------------------------------
(* Deadlines and lanes.                                                     *)

(* Another client of the slot's account is connected; only it can have      *)
(* taken the latch, and when it leaves the handoff is dropped as well.      *)
Witnessed(s) ==
  \E t \in Slots \ {s} : engine[t].known /\ engine[t].account = engine[s].account

LatchOf(s) == latch[handoff[s].account]
Good(s) ==
  /\ LatchOf(s).phase = "Armed" /\ LatchOf(s).failed = handoff[s].failed
  /\ LatchOf(s).left >= handoff[s].left + (IF handoff[s].phase = "Claimed" THEN 0 ELSE Window)
Waits(s) == Pending(s) /\ handoff[s].left > 0
Covered(s) == Waits(s) => Good(s) \/ Witnessed(s)

(* A queued handoff belongs to a required lane; after the Reconnect the     *)
(* client is back at the start of its signon until the baseline takes the   *)
(* handoff, and its pin is the failed one or a new one.                     *)
Flows(s) ==
  /\ handoff[s].phase = "Queued" => pin[s].lane = "Required"
  /\ Invoked(s) =>
       /\ lastEnabled /\ engine[s].signon = "connected"
       /\ pin[s].serial = handoff[s].failed \/ ~pin[s].active

DInv ==
  /\ IInv
  /\ think.at # "idle" => lastEnabled
  /\ \A s \in Slots : Covered(s) /\ Flows(s)

-----------------------------------------------------------------------------
(* How a step keeps a slot covered.                                         *)

(* The latches that a step of slot s may change: those of its client's      *)
(* account, and expired ones.                                               *)
LatchOwned(s) ==
  \A b \in Accounts : \/ latch'[b] = latch[b] \/ latch[b].left = 0
                      \/ engine[s].known /\ engine[s].account = b

SameClients ==
  \A t \in Slots : engine[t].known =>
    engine'[t].known /\ engine'[t].account = engine[t].account

LEMMA DeadlineTypes ==
  ASSUME IInv
  PROVE  /\ Ttl \in Nat /\ Window \in Nat \ {0} /\ 2 * Window <= Ttl
         /\ latch \in [Accounts -> Entry] /\ handoff \in [Slots -> Handoff]
         /\ \A b \in Accounts : latch[b].left \in Nat
         /\ \A s \in Slots : /\ handoff[s].left \in Nat
                             /\ Pending(s) => /\ handoff[s].account \in Accounts
                                              /\ engine[s].known
                                              /\ engine[s].account = handoff[s].account
BY WindowAssumption DEF IInv, TypeOK, Entry, Handoff, SlotOwned

LEMMA GoodIsAlive ==
  ASSUME IInv, NEW u \in Slots, Waits(u), Good(u)
  PROVE  LatchOf(u).left # 0
BY DeadlineTypes DEF Waits, Good, LatchOf

LEMMA CoveredKept ==
  ASSUME DInv, NEW u \in Slots, SameClients,
         \/ handoff'[u] = NoHandoff
         \/ /\ handoff'[u] = handoff[u]
            /\ Waits(u) /\ Good(u) =>
                 latch'[handoff[u].account] = latch[handoff[u].account] \/ Witnessed(u)
  PROVE  Covered(u)'
<1>1. CASE handoff'[u] = NoHandoff
  BY <1>1 DEF Covered, Waits, Pending, NoHandoff
<1>2. CASE /\ handoff'[u] = handoff[u]
           /\ Waits(u) /\ Good(u) =>
                latch'[handoff[u].account] = latch[handoff[u].account] \/ Witnessed(u)
  <2> SUFFICES ASSUME Waits(u)' PROVE Good(u)' \/ Witnessed(u)'
    BY DEF Covered
  <2>1. Waits(u) /\ engine[u].known
    BY <1>2, DeadlineTypes DEF DInv, Waits, Pending
  <2>2. Witnessed(u) => Witnessed(u)'
    BY <2>1 DEF Witnessed, SameClients
  <2>3. CASE latch'[handoff[u].account] = latch[handoff[u].account] /\ Good(u)
    BY <1>2, <2>3 DEF Good, LatchOf
  <2> QED
    BY <1>2, <2>1, <2>2, <2>3 DEF DInv, Covered
<1> QED
  BY <1>1, <1>2

(* What slot s does to its latch does not reach the handoff of slot u.      *)
LEMMA CoveredOther ==
  ASSUME DInv, NEW s \in Slots, NEW u \in Slots \ {s}, SameClients, LatchOwned(s),
         handoff'[u] = handoff[u] \/ handoff'[u] = NoHandoff
  PROVE  Covered(u)'
<1>1. ASSUME Waits(u), Good(u), handoff'[u] = handoff[u]
      PROVE  latch'[handoff[u].account] = latch[handoff[u].account] \/ Witnessed(u)
  <2>1. /\ handoff[u].account \in Accounts /\ engine[u].account = handoff[u].account
        /\ latch[handoff[u].account].left # 0
    BY <1>1, DeadlineTypes, GoodIsAlive DEF DInv, Waits, LatchOf
  <2> QED
    BY <2>1 DEF LatchOwned, Witnessed
<1> QED
  BY <1>1, CoveredKept

LEMMA DisconnectCovers ==
  ASSUME DInv, NEW s \in Slots, Disconnect(s), LatchOwned(s), NEW u \in Slots
  PROVE  Covered(u)'
<1>1. CASE handoff'[u] = NoHandoff
  BY <1>1 DEF Covered, Waits, Pending, NoHandoff
<1>2. CASE handoff'[u] # NoHandoff
  <2>1. /\ u # s /\ handoff'[u] = handoff[u]
        /\ ~(engine[s].known /\ handoff[u].account = engine[s].account)
        /\ \A t \in Slots \ {s} : engine'[t] = engine[t]
    BY <1>2 DEF Disconnect, DropHandoffs, DInv, IInv, TypeOK
  <2> SUFFICES ASSUME Waits(u)' PROVE Good(u)' \/ Witnessed(u)'
    BY DEF Covered
  <2>2. Waits(u) /\ engine[u].account = handoff[u].account /\ handoff[u].account \in Accounts
    BY <2>1, DeadlineTypes DEF DInv, Waits, Pending
  <2>3. Witnessed(u) => Witnessed(u)'
    BY <2>1, <2>2 DEF Witnessed
  <2>4. ASSUME Good(u) PROVE Good(u)'
    <3>1. latch'[handoff[u].account] = latch[handoff[u].account]
      BY <2>1, <2>2, <2>4, GoodIsAlive DEF DInv, LatchOwned, LatchOf
    <3> QED
      BY <2>1, <2>4, <3>1 DEF Good, LatchOf
  <2> QED
    BY <2>2, <2>3, <2>4 DEF DInv, Covered
<1> QED
  BY <1>1, <1>2

LEMMA FlowsOther ==
  ASSUME DInv, NEW u \in Slots, pin'[u] = pin[u], engine'[u] = engine[u],
         handoff'[u] = handoff[u] \/ handoff'[u] = NoHandoff, lastEnabled => lastEnabled'
  PROVE  Flows(u)'
BY DEF DInv, Flows, Invoked, NoHandoff

LEMMA DisconnectFlows ==
  ASSUME DInv, NEW s \in Slots, Disconnect(s), lastEnabled' = lastEnabled, NEW u \in Slots
  PROVE  Flows(u)'
<1>1. CASE u = s
  <2>1. handoff'[u] = NoHandoff
    BY <1>1 DEF Disconnect, DropHandoffs
  <2> QED
    BY <2>1 DEF Flows, Invoked, NoHandoff
<1>2. CASE u # s
  BY <1>2, FlowsOther DEF Disconnect, DropHandoffs, DInv, IInv, TypeOK
<1> QED
  BY <1>1, <1>2

(* A step of slot s that disconnects its client, whatever it did to the     *)
(* latch of that client's account.                                          *)
LEMMA DisconnectStep ==
  ASSUME DInv, IInv', NEW s \in Slots, Disconnect(s), LatchOwned(s),
         lastEnabled' = lastEnabled, think'.at # "idle" => lastEnabled
  PROVE  DInv'
BY DisconnectCovers, DisconnectFlows DEF DInv

(* A step of slot s that leaves the other slots alone.                      *)
LEMMA SlotStep ==
  ASSUME DInv, IInv', NEW s \in Slots, SameClients, LatchOwned(s),
         lastEnabled' = lastEnabled, think'.at # "idle" => lastEnabled,
         \A u \in Slots \ {s} :
           /\ pin'[u] = pin[u] /\ engine'[u] = engine[u]
           /\ handoff'[u] = handoff[u] \/ handoff'[u] = NoHandoff,
         Covered(s)', Flows(s)'
  PROVE  DInv'
<1>1. ASSUME NEW u \in Slots \ {s} PROVE Covered(u)' /\ Flows(u)'
  BY <1>1, CoveredOther, FlowsOther
<1> QED
  BY <1>1 DEF DInv

-----------------------------------------------------------------------------
(* The latches of a step.                                                   *)

LEMMA ProvenOwned ==
  ASSUME NEW s \in Slots, NEW p
  PROVE  \A b \in Accounts : \/ ProvenLatch(s, p)[b] = latch[b]
                             \/ engine[s].known /\ engine[s].account = b
BY DEF ProvenLatch, Proves, Authenticated, CanBind

(* A success of the failed epoch itself does not clear the latch it armed.  *)
LEMMA ProvenRetains ==
  ASSUME DInv, NEW s \in Slots, NEW p, Waits(s), Good(s),
         p.serial = handoff[s].failed \/ ~p.active
  PROVE  ProvenLatch(s, p) = latch
<1>1. engine[s].account = handoff[s].account
  BY DeadlineTypes DEF DInv, Waits
<1> QED
  BY <1>1 DEF ProvenLatch, Proves, Proving, RetainsOwnLatch, OwnsConsumed, Good, LatchOf

LEMMA ConsumedOwned ==
  ASSUME IInv, NEW s \in Slots, NEW c, engine[s].known
  PROVE  \A b \in Accounts : \/ Consumed(engine[s].account, c)[b] = latch[b]
                             \/ engine[s].known /\ engine[s].account = b
BY DeadlineTypes DEF Consumed

LEMMA LaneOwned ==
  ASSUME IInv, NEW s \in Slots, NEW p, NEW choice, latch' = LatchAfterLane(s, p, choice)
  PROVE  LatchOwned(s)
<1>1. CASE latch' = latch
  BY <1>1 DEF LatchOwned
<1>2. CASE engine[s].known /\ latch' = Consumed(engine[s].account, p.serial)
  BY <1>2, ConsumedOwned DEF LatchOwned
<1> QED
  BY <1>1, <1>2 DEF LatchAfterLane, CanBind

LEMMA PendingPhase ==
  ASSUME IInv, NEW s \in Slots
  PROVE  Pending(s) <=> Invoked(s) \/ handoff[s].phase = "Queued"
BY DeadlineTypes DEF Pending, Invoked, Handoff

(* The pin is checked for proof of success.                                 *)
LEMMA ProvenStep ==
  ASSUME DInv, IInv', NEW s \in Slots, NEW p \in Pin,
         p.serial = pin[s].serial, p.lane = pin[s].lane,
         p.active = pin[s].active \/ ~Invoked(s),
         pin' = [pin EXCEPT ![s] = ProvenPin(s, p)],
         \A b \in Accounts : \/ latch'[b] = ProvenLatch(s, p)[b]
                             \/ ProvenLatch(s, p)[b].left = 0,
         engine' = engine \/ (engine' = [engine EXCEPT ![s].signon = "active"] /\ ~Invoked(s)),
         UNCHANGED <<lastEnabled, handoff>>, think'.at # "idle" => think.at # "idle"
  PROVE  DInv'
<1> USE DEF DInv, IInv
<1>1. SameClients
  BY DEF SameClients, TypeOK, Client
<1>2. LatchOwned(s)
  BY ProvenOwned DEF LatchOwned
<1>3. ASSUME Waits(s), Good(s)
      PROVE  latch'[handoff[s].account] = latch[handoff[s].account]
  <2>1. p.serial = handoff[s].failed \/ ~p.active
    BY <1>3, PendingPhase DEF Waits, SlotOwned, Flows
  <2>2. handoff[s].account \in Accounts /\ latch[handoff[s].account].left # 0
    BY <1>3, DeadlineTypes, GoodIsAlive DEF Waits, LatchOf
  <2> QED
    BY <1>3, <2>1, <2>2, ProvenRetains
<1>4. Covered(s)'
  BY <1>1, <1>3, CoveredKept
<1>5. Flows(s)'
  <2>1. /\ pin'[s] = ProvenPin(s, p)
        /\ ProvenPin(s, p).serial = p.serial /\ ProvenPin(s, p).lane = p.lane
        /\ ProvenPin(s, p).active = p.active
    BY DEF TypeOK, ProvenPin, Bound, Pin
  <2>2. Invoked(s) => engine' = engine
    OBVIOUS
  <2> QED
    BY <2>1, <2>2 DEF Flows, Invoked
<1>6. \A u \in Slots \ {s} : pin'[u] = pin[u] /\ engine'[u] = engine[u]
  BY DEF TypeOK
<1> QED
  BY <1>1, <1>2, <1>4, <1>5, <1>6, SlotStep

-----------------------------------------------------------------------------
(* The engine and the callbacks.                                            *)

LEMMA EngineCovers ==
  ASSUME DInv, IInv', NEW s \in Slots,
         EngineConnect(s) \/ SteamIdentity(s) \/ EngineDisconnect(s)
  PROVE  DInv'
<1> USE DEF DInv, IInv
<1>1. LatchOwned(s) /\ UNCHANGED <<lastEnabled, think, latch>>
  BY DEF EngineConnect, SteamIdentity, EngineDisconnect, LatchOwned
<1>2. CASE EngineDisconnect(s)
  BY <1>1, <1>2, DisconnectStep DEF EngineDisconnect
<1>3. CASE EngineConnect(s)
  <2>1. ~Present(s) /\ UNCHANGED <<pin, handoff>>
    BY <1>3 DEF EngineConnect
  <2>2. ~engine[s].known /\ ~Pending(s) /\ \A u \in Slots \ {s} : engine'[u] = engine[u]
    BY <1>3, <2>1, DeadlineTypes DEF EngineConnect, SlotOwned, TypeOK
  <2>3. SameClients
    BY <2>2 DEF SameClients
  <2>4. Covered(s)' /\ Flows(s)'
    BY <2>1, <2>2, PendingPhase DEF Covered, Waits, Pending, Flows, Invoked
  <2> QED
    BY <1>1, <2>1, <2>2, <2>3, <2>4, SlotStep
<1>4. CASE SteamIdentity(s)
  <2>1. /\ UNCHANGED <<pin, handoff>>
        /\ \/ engine' = [engine EXCEPT ![s].known = TRUE]
           \/ engine' = [engine EXCEPT ![s].auth = TRUE]
    BY <1>4 DEF SteamIdentity
  <2>2. /\ engine'[s].account = engine[s].account /\ engine'[s].signon = engine[s].signon
        /\ engine[s].known => engine'[s].known
        /\ \A u \in Slots \ {s} : engine'[u] = engine[u]
    BY <2>1 DEF TypeOK, Client
  <2>3. SameClients
    BY <2>2 DEF SameClients
  <2>4. Covered(s)'
    BY <1>1, <2>1, <2>3, CoveredKept
  <2>5. Flows(s)'
    BY <1>1, <2>1, <2>2 DEF Flows, Invoked
  <2> QED
    BY <1>1, <2>1, <2>2, <2>3, <2>4, <2>5, SlotStep
<1> QED
  BY <1>2, <1>3, <1>4

LEMMA CallbacksCover ==
  ASSUME DInv, IInv', NEW s \in Slots, ClientConnect(s) \/ ClientDisconnect(s)
  PROVE  DInv'
<1> USE DEF DInv, IInv
<1>1. LatchOwned(s) /\ UNCHANGED <<lastEnabled, think, latch>>
  BY DEF ClientConnect, ClientDisconnect, LatchOwned
<1>2. /\ engine'[s].known = engine[s].known /\ engine'[s].account = engine[s].account
      /\ engine'[s].signon \in {"connected", engine[s].signon}
      /\ \A u \in Slots \ {s} : engine'[u] = engine[u]
  BY DEF ClientConnect, ClientDisconnect, TypeOK, Client
<1>3. SameClients
  BY <1>2 DEF SameClients
<1>4. /\ \/ pin' = pin /\ handoff' = handoff
         \/ /\ pin' = [pin EXCEPT ![s] = Epoch(next + 1)] \/ pin' = [pin EXCEPT ![s] = NoPin]
            /\ handoff' = IF Invoked(s) THEN handoff ELSE [handoff EXCEPT ![s] = NoHandoff]
  BY DEF ClientConnect, ClientDisconnect
<1>5. \A u \in Slots \ {s} : pin'[u] = pin[u] /\ handoff'[u] = handoff[u]
  BY <1>4 DEF TypeOK
<1>6. handoff'[s] = handoff[s] \/ handoff'[s] = NoHandoff
  BY <1>4 DEF TypeOK
<1>7. Covered(s)'
  BY <1>1, <1>3, <1>6, CoveredKept
<1>8. Flows(s)'
  <2>1. CASE pin' = pin /\ handoff' = handoff
    BY <1>1, <1>2, <2>1 DEF Flows, Invoked
  <2>2. CASE /\ pin' = [pin EXCEPT ![s] = Epoch(next + 1)] \/ pin' = [pin EXCEPT ![s] = NoPin]
             /\ handoff' = IF Invoked(s) THEN handoff ELSE [handoff EXCEPT ![s] = NoHandoff]
    <3>1. ~pin'[s].active
      <4>1. ~Epoch(next + 1).active /\ ~NoPin.active
        BY DEF Epoch, NoPin
      <4> QED
        BY <2>2, <4>1 DEF TypeOK
    <3>2. handoff'[s].phase # "Queued"
      BY <2>2 DEF TypeOK, Invoked, NoHandoff
    <3>3. Invoked(s)' => Invoked(s)
      BY <2>2 DEF TypeOK, Invoked, NoHandoff
    <3> QED
      BY <1>1, <1>2, <3>1, <3>2, <3>3 DEF Flows
  <2> QED
    BY <1>4, <2>1, <2>2
<1> QED
  BY <1>1, <1>2, <1>3, <1>5, <1>7, <1>8, SlotStep

LEMMA ProofsCover ==
  ASSUME DInv, IInv', NEW s \in Slots, ClientActive(s) \/ ReadyCommand(s)
  PROVE  DInv'
<1> USE DEF DInv, IInv
<1>0. pin[s] \in Pin
  BY DEF TypeOK
<1>1. CASE ClientActive(s)
  <2> DEFINE p == [pin[s] EXCEPT !.active = TRUE]
  <2>1. p \in Pin /\ p.serial = pin[s].serial /\ p.lane = pin[s].lane
    BY <1>0 DEF Pin
  <2>2. ~Invoked(s)
    BY <1>1 DEF ClientActive, Flows
  <2>3. /\ pin' = [pin EXCEPT ![s] = ProvenPin(s, p)] /\ latch' = ProvenLatch(s, p)
        /\ engine' = [engine EXCEPT ![s].signon = "active"]
        /\ UNCHANGED <<lastEnabled, handoff, think>>
    BY <1>1 DEF ClientActive
  <2> HIDE DEF p
  <2> QED
    BY <2>1, <2>2, <2>3, ProvenStep
<1>2. CASE ReadyCommand(s)
  <2> DEFINE p == [pin[s] EXCEPT !.ready = TRUE]
  <2>1. /\ p \in Pin /\ p.serial = pin[s].serial /\ p.lane = pin[s].lane
        /\ p.active = pin[s].active
    BY <1>0 DEF Pin
  <2>2. /\ pin' = [pin EXCEPT ![s] = ProvenPin(s, p)] /\ latch' = ProvenLatch(s, p)
        /\ UNCHANGED <<lastEnabled, handoff, think, engine>>
    BY <1>2 DEF ReadyCommand
  <2> HIDE DEF p
  <2> QED
    BY <2>1, <2>2, ProvenStep
<1> QED
  BY <1>1, <1>2

LEMMA UnarmedCovers ==
  ASSUME DInv, IInv', NEW s \in Slots, UnarmedFailure(s)
  PROVE  DInv'
<1> USE DEF DInv, IInv
<1>1. LatchOwned(s) /\ UNCHANGED <<lastEnabled, think, latch>>
  BY DEF UnarmedFailure, LatchOwned
<1>2. CASE RequiredLane(pin[s])
  BY <1>1, <1>2, DisconnectStep DEF UnarmedFailure
<1>3. CASE ~RequiredLane(pin[s])
  <2>1. pin' = [pin EXCEPT ![s].ready = FALSE] /\ UNCHANGED <<handoff, engine>>
    BY <1>3 DEF UnarmedFailure
  <2>2. SameClients
    BY <2>1 DEF SameClients
  <2>3. Covered(s)'
    BY <1>1, <2>1, <2>2, CoveredKept
  <2>4. /\ pin'[s].serial = pin[s].serial /\ pin'[s].lane = pin[s].lane
        /\ pin'[s].active = pin[s].active /\ \A u \in Slots \ {s} : pin'[u] = pin[u]
    BY <2>1 DEF TypeOK, Pin
  <2>5. Flows(s)'
    BY <1>1, <2>1, <2>4 DEF Flows, Invoked
  <2> QED
    BY <1>1, <2>1, <2>2, <2>3, <2>4, <2>5, SlotStep
<1> QED
  BY <1>2, <1>3

-----------------------------------------------------------------------------
(* Baselines, requests and failures.                                        *)

(* The slot is served: a handoff of its own is gone by then.                *)
LEMMA ServeStep ==
  ASSUME DInv, IInv', NEW s \in Slots, NEW lane, Serve(s, lane), LatchOwned(s),
         UNCHANGED <<lastEnabled, think>>,
         \A u \in Slots \ {s} :
           pin'[u] = pin[u] /\ (handoff'[u] = handoff[u] \/ handoff'[u] = NoHandoff),
         \/ handoff'[s] = NoHandoff
         \/ ~Pending(s) /\ handoff' = handoff
         \/ /\ ~Invoked(s) /\ handoff' = handoff
            /\ latch' = latch /\ pin' = pin
  PROVE  DInv'
<1> USE DEF DInv, IInv
<1>1. /\ SameClients /\ \A u \in Slots \ {s} : engine'[u] = engine[u]
  BY DEF Serve, SameClients, TypeOK, Client
<1>2. CASE handoff'[s] = NoHandoff
  <2>1. Covered(s)' /\ Flows(s)'
    BY <1>2 DEF Covered, Waits, Pending, Flows, Invoked, NoHandoff
  <2> QED
    BY <1>1, <2>1, SlotStep
<1>3. CASE ~Pending(s) /\ handoff' = handoff
  <2>1. Covered(s)' /\ Flows(s)'
    BY <1>3, PendingPhase DEF Covered, Waits, Pending, Flows, Invoked
  <2> QED
    BY <1>1, <2>1, SlotStep
<1>4. CASE ~Invoked(s) /\ handoff' = handoff /\ latch' = latch /\ pin' = pin
  <2>1. Covered(s)'
    BY <1>1, <1>4, CoveredKept
  <2>2. Flows(s)'
    BY <1>4 DEF Flows, Invoked
  <2> QED
    BY <1>1, <2>1, <2>2, SlotStep
<1> QED
  BY <1>2, <1>3, <1>4

LEMMA BaselinesCover ==
  ASSUME DInv, IInv', NEW s \in Slots,
         \/ ServerInfoUnchanged(s) \/ ServerInfoUnprepared(s)
         \/ RecoveryServerInfoRefused(s) \/ ServerInfo(s)
  PROVE  DInv'
<1> USE DEF DInv, IInv
<1>1. CASE ServerInfoUnprepared(s) \/ RecoveryServerInfoRefused(s)
  <2>1. LatchOwned(s) /\ UNCHANGED <<lastEnabled, think, latch>> /\ Disconnect(s)
    BY <1>1 DEF ServerInfoUnprepared, RecoveryServerInfoRefused, LatchOwned
  <2> QED
    BY <2>1, DisconnectStep
<1>2. CASE ServerInfoUnchanged(s)
  <2>1. /\ LatchOwned(s) /\ UNCHANGED <<lastEnabled, think, latch, handoff, pin>>
        /\ Serve(s, "none") /\ ~Invoked(s)
    BY <1>2 DEF ServerInfoUnchanged, LatchOwned, Flows, Prepared
  <2> QED
    BY <2>1, ServeStep
<1>3. CASE ServerInfo(s)
  <2> DEFINE p == IF pin[s].serial = 0 THEN Epoch(next + 1) ELSE pin[s]
  <2>1. PICK choice \in LaneChoices :
          LET q == Resolved(s, p, choice) IN
          /\ latch' = LatchAfterLane(s, p, choice)
          /\ \/ Disconnect(s)
             \/ /\ pin' = [pin EXCEPT ![s] =
                             [q EXCEPT !.pinned = @ \/ (q.lane = "Required" /\ base)]]
                /\ Serve(s, q.lane) /\ handoff' = handoff
    BY <1>3 DEF ServerInfo
  <2>2. ~Pending(s) /\ UNCHANGED <<lastEnabled, think>>
    BY <1>3 DEF ServerInfo
  <2>3. LatchOwned(s)
    BY <2>1, LaneOwned
  <2>4. CASE Disconnect(s)
    BY <2>2, <2>3, <2>4, DisconnectStep
  <2>5. ASSUME ~Disconnect(s) PROVE DInv'
    <3>1. PICK r : pin' = [pin EXCEPT ![s] = r]
      BY <2>1, <2>5
    <3>2. PICK lane : Serve(s, lane) /\ handoff' = handoff
      BY <2>1, <2>5
    <3>3. \A u \in Slots \ {s} : pin'[u] = pin[u]
      BY <3>1 DEF TypeOK
    <3> QED
      BY <2>2, <2>3, <3>2, <3>3, ServeStep
  <2> QED
    BY <2>4, <2>5
<1> QED
  BY <1>1, <1>2, <1>3

LEMMA RecoveryCovers ==
  ASSUME DInv, IInv', NEW s \in Slots, RecoveryServerInfo(s)
  PROVE  DInv'
<1> USE DEF DInv, IInv
<1> DEFINE a == engine[s].account
<1>1. PICK t \in Candidates(s) :
        /\ Candidates(s) = {t} /\ CanBegin(s, t)
        /\ latch' = Consumed(a, next + 1)
        /\ \/ /\ handoff' = [handoff EXCEPT ![t] = NoHandoff]
              /\ \E r : pin' = [pin EXCEPT ![s] = r]
              /\ Serve(s, "NativeRecovery")
           \/ Disconnect(s)
  BY DEF RecoveryServerInfo
<1>2. UNCHANGED <<lastEnabled, think>> /\ Present(s) /\ t \in Slots
  BY DEF RecoveryServerInfo, ServerInfoDue, Present, Candidates
<1>3. engine[s].known
  BY <1>1, DeadlineTypes, AccountAssumption DEF Candidates, AccountOf
<1>4. LatchOwned(s)
  BY <1>1, <1>3, ConsumedOwned DEF LatchOwned
<1>5. CASE Disconnect(s)
  BY <1>2, <1>4, <1>5, DisconnectStep
<1>6. ASSUME handoff' = [handoff EXCEPT ![t] = NoHandoff], NEW r,
             pin' = [pin EXCEPT ![s] = r], Serve(s, "NativeRecovery")
      PROVE  DInv'
  <2>1. /\ \A u \in Slots : handoff'[u] = handoff[u] \/ handoff'[u] = NoHandoff
        /\ \A u \in Slots \ {s} : pin'[u] = pin[u]
    BY <1>6 DEF TypeOK
  <2>2. Pending(s) => s = t
    BY <1>1, <1>3, DeadlineTypes DEF Candidates, AccountOf
  <2>3. handoff'[s] = NoHandoff \/ (~Pending(s) /\ handoff'[s] = handoff[s])
    BY <1>6, <2>2 DEF TypeOK
  <2>4. CASE handoff'[s] = NoHandoff
    BY <1>2, <1>4, <1>6, <2>1, <2>4, ServeStep
  <2>5. CASE ~Pending(s) /\ handoff'[s] = handoff[s]
    <3>1. SameClients /\ \A u \in Slots \ {s} : engine'[u] = engine[u]
      BY <1>6 DEF Serve, SameClients, TypeOK, Client
    <3>2. Covered(s)' /\ Flows(s)'
      BY <2>5, PendingPhase DEF Covered, Waits, Pending, Flows, Invoked
    <3> QED
      BY <1>2, <1>4, <2>1, <3>1, <3>2, SlotStep
  <2> QED
    BY <2>3, <2>4, <2>5
<1> QED
  BY <1>1, <1>5, <1>6

LEMMA RequestCovers ==
  ASSUME DInv, IInv', NEW s \in Slots, FileRequest(s)
  PROVE  DInv'
<1> USE DEF DInv, IInv
<1>1. PICK choice \in LaneChoices :
        /\ latch' = LatchAfterLane(s, pin[s], choice)
        /\ \/ Disconnect(s)
           \/ /\ pin' = [pin EXCEPT ![s] = Resolved(s, pin[s], choice)]
              /\ UNCHANGED <<handoff, engine>>
  BY DEF FileRequest
<1>2. UNCHANGED <<lastEnabled, think>> /\ ~Invoked(s)
  BY DEF FileRequest, Flows
<1>3. LatchOwned(s)
  BY <1>1, LaneOwned
<1>4. CASE Disconnect(s)
  BY <1>2, <1>3, <1>4, DisconnectStep
<1>5. CASE /\ pin' = [pin EXCEPT ![s] = Resolved(s, pin[s], choice)]
           /\ UNCHANGED <<handoff, engine>>
  <2>1. SameClients /\ \A u \in Slots \ {s} : pin'[u] = pin[u]
    BY <1>5 DEF SameClients, TypeOK
  <2>2. Pending(s) => pin'[s] = pin[s] /\ latch' = latch /\ pin[s].lane = "Required"
    BY <1>1, <1>2, <1>5, PendingPhase DEF Flows, Resolved, LatchAfterLane, TypeOK
  <2>3. Covered(s)'
    BY <1>5, <2>1, <2>2, CoveredKept DEF Waits
  <2>4. Flows(s)'
    BY <1>2, <1>5, <2>2, PendingPhase DEF Flows, Invoked
  <2> QED
    BY <1>2, <1>3, <1>5, <2>1, <2>3, <2>4, SlotStep
<1> QED
  BY <1>1, <1>4, <1>5

(* The handoff of a failure is queued together with its latch, which lives  *)
(* for two windows at least.                                                *)
LEMMA FailureCovers ==
  ASSUME DInv, IInv', NEW s \in Slots, FailedCommand(s)
  PROVE  DInv'
<1> USE DEF DInv, IInv
<1> DEFINE a == engine[s].account
<1>1. /\ engine[s].known /\ a \in Accounts /\ UNCHANGED <<lastEnabled, think>>
      /\ pin[s].lane = "Required"
  BY DEF FailedCommand, Arms, Authenticated, CanBind, SlotOwned, ExactFailure
<1>2. CASE Pending(s)
  <2>1. latch' = [latch EXCEPT ![a] = NoEntry] /\ Disconnect(s)
    BY <1>2 DEF FailedCommand
  <2>2. LatchOwned(s)
    BY <1>1, <2>1, DeadlineTypes DEF LatchOwned
  <2> QED
    BY <1>1, <2>1, <2>2, DisconnectStep
<1>3. CASE ~Pending(s)
  <2> DEFINE h == [phase |-> "Queued", account |-> a, failed |-> pin[s].serial,
                   left |-> Window]
  <2>1. /\ latch' = [latch EXCEPT ![a] = ArmedEntry(pin[s].serial)]
        /\ handoff' = [handoff EXCEPT ![s] = h]
        /\ pin' = [pin EXCEPT ![s] = Bound(s, pin[s])] /\ engine' = engine
    BY <1>3 DEF FailedCommand
  <2>2. LatchOwned(s) /\ SameClients
    BY <1>1, <2>1, DeadlineTypes DEF LatchOwned, SameClients
  <2>3. /\ handoff'[s] = h /\ latch'[a] = ArmedEntry(pin[s].serial)
        /\ \A u \in Slots \ {s} : pin'[u] = pin[u] /\ handoff'[u] = handoff[u]
    BY <1>1, <2>1 DEF TypeOK
  <2>4. Window + Window <= Ttl
    BY DeadlineTypes
  <2>5. Good(s)'
    BY <2>3, <2>4 DEF Good, LatchOf, ArmedEntry
  <2>6. pin'[s].lane = "Required"
    BY <1>1, <2>1 DEF TypeOK, Bound, Pin
  <2>7. Covered(s)' /\ Flows(s)'
    BY <2>3, <2>5, <2>6 DEF Covered, Flows, Invoked
  <2> QED
    BY <1>1, <2>1, <2>2, <2>3, <2>7, SlotStep
<1> QED
  BY <1>2, <1>3

-----------------------------------------------------------------------------
(* The frame, the clock and the level.                                      *)

LEMMA ClientCovers ==
  ASSUME DInv, IInv', NEW s \in Slots, ThinkClient(s)
  PROVE  DInv'
<1> USE DEF DInv, IInv
<1>1. /\ lastEnabled' = lastEnabled /\ think.at # "idle" /\ pin[s] \in Pin
      /\ latch' = PruneAfter(s, ProvenLatch(s, pin[s]))
  BY DEF ThinkClient, TypeOK
<1>2. \A b \in Accounts : \/ latch'[b] = ProvenLatch(s, pin[s])[b]
                          \/ ProvenLatch(s, pin[s])[b].left = 0
  BY <1>1 DEF PruneAfter, Pruned
<1>3. CASE pin' = [pin EXCEPT ![s] = ProvenPin(s, pin[s])] /\ UNCHANGED <<handoff, engine>>
  BY <1>1, <1>2, <1>3, ProvenStep
<1>4. CASE Disconnect(s)
  <2>1. LatchOwned(s)
    BY <1>2, ProvenOwned DEF LatchOwned
  <2> QED
    BY <1>1, <1>4, <2>1, DisconnectStep
<1> QED
  BY <1>3, <1>4 DEF ThinkClient

LEMMA HandoffCovers ==
  ASSUME DInv, IInv', NEW s \in Slots, ThinkHandoff(s)
  PROVE  DInv'
<1> USE DEF DInv, IInv
<1>1. /\ latch' = latch /\ LatchOwned(s) /\ lastEnabled' = lastEnabled /\ lastEnabled
  BY DEF ThinkHandoff, AtHandoff, LatchOwned
<1>2. CASE Disconnect(s)
  BY <1>1, <1>2, DisconnectStep
<1>3. ASSUME UNCHANGED <<pin, engine>>,
             handoff' = handoff \/ handoff' = [handoff EXCEPT ![s] = NoHandoff]
      PROVE  DInv'
  <2>1. \A u \in Slots : handoff'[u] = handoff[u] \/ handoff'[u] = NoHandoff
    BY <1>3 DEF TypeOK
  <2>2. SameClients
    BY <1>3 DEF SameClients
  <2>3. Covered(s)'
    BY <1>1, <2>1, <2>2, CoveredKept
  <2>4. Flows(s)'
    BY <1>1, <1>3, <2>1, FlowsOther
  <2> QED
    BY <1>1, <1>3, <2>1, <2>2, <2>3, <2>4, SlotStep
<1>4. ASSUME NEW ran \in {{}, {"disconnect"}, {"disconnect", "connect"}}, NEW queued \in BOOLEAN,
             handoff[s].phase = "Queued",
             handoff' = [handoff EXCEPT ![s].phase = "Invoked"],
             pin' = [pin EXCEPT ![s] = IF "connect" \in ran THEN Epoch(next + 1)
                                       ELSE IF "disconnect" \in ran THEN NoPin ELSE @],
             engine' = [engine EXCEPT ![s].signon = "connected",
                          ![s].sendInfo = queued \/ "connect" \in ran,
                          ![s].owed = {"disconnect", "connect"} \ ran]
      PROVE  DInv'
  <2>1. /\ engine'[s].known = engine[s].known /\ engine'[s].account = engine[s].account
        /\ engine'[s].signon = "connected"
        /\ \A u \in Slots \ {s} : /\ engine'[u] = engine[u] /\ pin'[u] = pin[u]
                                 /\ handoff'[u] = handoff[u]
    BY <1>4 DEF TypeOK, Client
  <2>2. SameClients
    BY <2>1 DEF SameClients
  <2>3. /\ handoff'[s].phase = "Invoked" /\ handoff'[s].failed = handoff[s].failed
        /\ handoff'[s].account = handoff[s].account /\ handoff'[s].left = handoff[s].left
    BY <1>4 DEF TypeOK, Handoff
  <2>4. Pending(s)
    BY <1>4 DEF Pending
  <2>5. Witnessed(s) => Witnessed(s)'
    BY <2>1 DEF Witnessed
  <2>6. Good(s) => Good(s)'
    BY <1>1, <1>4, <2>3 DEF Good, LatchOf
  <2>7. Covered(s)'
    BY <2>3, <2>4, <2>5, <2>6 DEF Covered, Waits
  <2>8. pin'[s].serial = handoff[s].failed \/ ~pin'[s].active
    <3>1. ~Epoch(next + 1).active /\ ~NoPin.active
      BY DEF Epoch, NoPin
    <3>2. pin[s].serial = handoff[s].failed
      BY <1>4 DEF SlotOwned
    <3> QED
      BY <1>4, <3>1, <3>2 DEF TypeOK
  <2>9. Flows(s)'
    BY <1>1, <2>1, <2>3, <2>8 DEF Flows, Invoked
  <2> QED
    BY <1>1, <2>1, <2>2, <2>7, <2>9, SlotStep
<1>5. ASSUME handoff[s].phase = "Invoked", engine[s].signon = "connected", pin' = pin,
             handoff' = [handoff EXCEPT ![s].phase = "Claimed", ![s].left = Window],
             handoff[s].left > 0, engine' = [engine EXCEPT ![s].sendInfo = TRUE]
      PROVE  DInv'
  <2>1. /\ engine'[s].known = engine[s].known /\ engine'[s].account = engine[s].account
        /\ engine'[s].signon = engine[s].signon
        /\ \A u \in Slots \ {s} : engine'[u] = engine[u] /\ handoff'[u] = handoff[u]
    BY <1>5 DEF TypeOK, Client
  <2>2. SameClients
    BY <2>1 DEF SameClients
  <2>3. /\ handoff'[s].phase = "Claimed" /\ handoff'[s].failed = handoff[s].failed
        /\ handoff'[s].account = handoff[s].account /\ handoff'[s].left = Window
    BY <1>5 DEF TypeOK, Handoff
  <2>4. Waits(s)
    BY <1>5 DEF Waits, Pending
  <2>5. Witnessed(s) => Witnessed(s)'
    BY <2>1 DEF Witnessed
  <2>6. ASSUME Good(s) PROVE Good(s)'
    <3>1. LatchOf(s).left >= handoff[s].left + Window /\ handoff[s].account \in Accounts
      BY <1>5, <2>4, <2>6, DeadlineTypes DEF Good, Waits
    <3>2. LatchOf(s).left \in Nat /\ handoff[s].left \in Nat /\ Window \in Nat
      BY <3>1, DeadlineTypes DEF LatchOf
    <3>3. LatchOf(s).left >= Window
      BY <3>1, <3>2
    <3>4. LatchOf(s)' = LatchOf(s)
      BY <1>1, <2>3 DEF LatchOf
    <3>5. Window + 0 = Window
      BY <3>2
    <3> QED
      BY <2>3, <2>6, <3>3, <3>4, <3>5 DEF Good
  <2>7. Covered(s)'
    BY <2>4, <2>5, <2>6 DEF Covered
  <2>8. Flows(s)'
    BY <1>1, <1>5, <2>1, <2>3 DEF Flows, Invoked
  <2> QED
    BY <1>1, <1>5, <2>1, <2>2, <2>7, <2>8, SlotStep
<1>6. CASE ThinkNoHandoff(s) \/ ThinkExpired(s)
  BY <1>2, <1>3, <1>6 DEF ThinkNoHandoff, ThinkExpired
<1>7. ASSUME handoff[s].left > 0, NEW channel \in BOOLEAN, ThinkInvoke(s, channel)
      PROVE  DInv'
  BY <1>2, <1>3, <1>4, <1>7 DEF ThinkInvoke
<1>8. ASSUME handoff[s].left > 0, NEW channel \in BOOLEAN, ThinkDispatch(s, channel)
      PROVE  DInv'
  BY <1>3, <1>5, <1>8 DEF ThinkDispatch, Dispatchable
<1> QED
  BY <1>6, <1>7, <1>8 DEF ThinkHandoff

(* The clock lowers the latch and the handoff alike.                        *)
LEMMA TickCovers ==
  ASSUME DInv, IInv', Tick
  PROVE  DInv'
<1> USE DEF DInv, IInv
<1>1. UNCHANGED <<lastEnabled, think, pin, engine>>
  BY DEF Tick
<1>2. ASSUME NEW u \in Slots PROVE Covered(u)' /\ Flows(u)'
  <2>1. /\ handoff'[u].phase = handoff[u].phase /\ handoff'[u].failed = handoff[u].failed
        /\ handoff'[u].account = handoff[u].account
        /\ handoff'[u].left = IF Pending(u) /\ handoff[u].left > 0
                              THEN handoff[u].left - 1 ELSE handoff[u].left
    BY DEF Tick, TypeOK, Handoff
  <2>2. Flows(u)'
    BY <1>1, <2>1 DEF Flows, Invoked
  <2>3. Covered(u)'
    <3> SUFFICES ASSUME Waits(u)' PROVE Good(u)' \/ Witnessed(u)'
      BY DEF Covered
    <3>1. /\ Waits(u) /\ handoff[u].left \in Nat /\ handoff'[u].left = handoff[u].left - 1
          /\ handoff[u].account \in Accounts
      BY <2>1, DeadlineTypes DEF Waits, Pending
    <3>2. Witnessed(u) => Witnessed(u)'
      BY <1>1 DEF Witnessed
    <3>3. ASSUME Good(u) PROVE Good(u)'
      <4>1. LatchOf(u).left \in Nat \ {0} /\ LatchOf(u).phase = "Armed"
        BY <3>1, <3>3, DeadlineTypes, GoodIsAlive DEF LatchOf, Good
      <4>2. latch'[handoff[u].account] = [LatchOf(u) EXCEPT !.left = @ - 1]
        BY <3>1, <4>1 DEF Tick, LatchOf
      <4>3. LatchOf(u) \in Entry
        BY <3>1, DeadlineTypes DEF LatchOf
      <4>4. /\ LatchOf(u)'.phase = "Armed" /\ LatchOf(u)'.failed = LatchOf(u).failed
            /\ LatchOf(u)'.left = LatchOf(u).left - 1
        BY <2>1, <4>1, <4>2, <4>3 DEF LatchOf, Entry
      <4> DEFINE extra == IF handoff[u].phase = "Claimed" THEN 0 ELSE Window
      <4>5. extra \in Nat /\ LatchOf(u).left >= handoff[u].left + extra
        BY <3>3, DeadlineTypes DEF Good
      <4> HIDE DEF extra
      <4>6. LatchOf(u).left - 1 >= (handoff[u].left - 1) + extra
        BY <3>1, <4>1, <4>5
      <4> QED
        BY <2>1, <3>1, <3>3, <4>4, <4>6 DEF Good, extra
    <3> QED
      BY <3>1, <3>2, <3>3 DEF Covered
  <2> QED
    BY <2>2, <2>3
<1> QED
  BY <1>1, <1>2

LEMMA RestCovers ==
  ASSUME DInv, IInv',
         \/ ThinkDisabled \/ ThinkBegin \/ ToggleEnable \/ PublishBase \/ LevelShutdown
         \/ UNCHANGED vars
  PROVE  DInv'
<1> USE DEF DInv, IInv
<1>1. CASE ThinkDisabled \/ LevelShutdown
  <2>1. (\A u \in Slots : handoff'[u] = NoHandoff) /\ think.at = "idle" /\ think' = think
    BY <1>1 DEF ThinkDisabled, LevelShutdown, MainThreadFree
  <2> QED
    BY <2>1 DEF Covered, Waits, Pending, Flows, Invoked, NoHandoff
<1>2. CASE ThinkBegin \/ ToggleEnable \/ PublishBase \/ UNCHANGED vars
  <2>1. /\ UNCHANGED <<latch, handoff, pin, engine>> /\ (lastEnabled => lastEnabled')
        /\ think'.at # "idle" => lastEnabled'
    BY <1>2 DEF ThinkBegin, ToggleEnable, PublishBase, vars
  <2>2. SameClients
    BY <2>1 DEF SameClients
  <2> QED
    BY <2>1, <2>2, CoveredKept, FlowsOther
<1> QED
  BY <1>1, <1>2

-----------------------------------------------------------------------------
LEMMA DeadlinesHold == Spec => []DInv
<1>1. Init => DInv
  <2>1. Init => IInv
    BY Initially
  <2> QED
    BY <2>1 DEF Init, DInv, Idle, Covered, Waits, Pending, Flows, Invoked, NoHandoff
<1>2. DInv /\ IInv' /\ [Next]_vars => DInv'
  <2> SUFFICES ASSUME DInv, IInv', [Next]_vars PROVE DInv'
    OBVIOUS
  <2>1. ASSUME NEW s \in Slots,
               \/ EngineConnect(s) \/ SteamIdentity(s) \/ EngineDisconnect(s)
               \/ ClientConnect(s) \/ ClientDisconnect(s) \/ ClientActive(s)
        PROVE  DInv'
    BY <2>1, EngineCovers, CallbacksCover, ProofsCover
  <2>2. ASSUME NEW s \in Slots,
               \/ ServerInfoUnchanged(s) \/ ServerInfoUnprepared(s) \/ ServerInfo(s)
               \/ RecoveryServerInfo(s) \/ RecoveryServerInfoRefused(s) \/ FileRequest(s)
        PROVE  DInv'
    BY <2>2, BaselinesCover, RecoveryCovers, RequestCovers
  <2>3. ASSUME NEW s \in Slots,
               FailedCommand(s) \/ UnarmedFailure(s) \/ ReadyCommand(s)
        PROVE  DInv'
    BY <2>3, FailureCovers, UnarmedCovers, ProofsCover
  <2>4. CASE ThinkStep
    BY <2>4, RestCovers, HandoffCovers, ClientCovers DEF ThinkStep
  <2>5. CASE Tick \/ ToggleEnable \/ PublishBase \/ LevelShutdown \/ UNCHANGED vars
    BY <2>5, TickCovers, RestCovers
  <2> QED
    BY <2>1, <2>2, <2>3, <2>4, <2>5 DEF Next
<1> QED
  BY <1>1, <1>2, Invariant, PTL DEF Spec

(* For every time to live of at least two windows and any number of slots:  *)
(* while no other client of the account is connected, the latch of a        *)
(* pending handoff is armed by the same failure and expires after it, so a  *)
(* baseline that begins in time is never refused by Consume.                *)
THEOREM LatchesOutlive == Spec => []LatchOutlivesHandoff
<1>1. DInv => LatchOutlivesHandoff
  <2> SUFFICES ASSUME DInv, NEW s \in Slots, Waits(s), Alone(s)
               PROVE  Good(s)
    BY DEF LatchOutlivesHandoff, Waits, Good, LatchOf
  <2>1. ~Witnessed(s)
    BY DEF Alone, Witnessed, DInv, IInv, SlotOwned
  <2> QED
    BY <2>1 DEF DInv, Covered
<1> QED
  BY <1>1, DeadlinesHold, PTL

-----------------------------------------------------------------------------
(* The lane of a served connection.                                         *)

(* The callbacks a Reconnect leaves behind meet the handoff it came from or *)
(* the recovery that followed, never the connection that is served.         *)
Lives(s) ==
  /\ served[s] # "none" => pin[s].lane = served[s]
  /\ served[s] # "Unresolved"
  /\ "disconnect" \in engine[s].owed => Invoked(s) \/ Preserves(s)
  /\ Invoked(s) => served[s] = "none"

(* No account is logged in twice.                                           *)
SingleLogins == \A s \in Slots : Alone(s)

BInv == IInv /\ SingleLogins /\ \A s \in Slots : Lives(s)

(* Step s spends or forgets no latch but its own client's.                  *)
SpentKept(s) ==
  \A b \in Accounts : \/ latch'[b] = latch[b] \/ latch[b].phase # "Consumed"
                      \/ engine[s].known /\ engine[s].account = b

LEMMA KnownApart ==
  ASSUME IInv, SingleLogins, NEW s \in Slots, NEW u \in Slots \ {s},
         engine[s].known, engine[u].known
  PROVE  engine[s].account # engine[u].account
BY DEF IInv, SlotOwned, SingleLogins, Alone

(* A recovery stays preserved while its pin and its spent latch do.         *)
LEMMA PreservesKept ==
  ASSUME IInv, NEW s \in Slots, Preserves(s),
         pin'[s].lane = pin[s].lane, pin'[s].active = pin[s].active,
         pin'[s].cleared = pin[s].cleared, pin'[s].steam = pin[s].steam,
         pin'[s].serial = pin[s].serial,
         engine'[s].known = engine[s].known, engine'[s].account = engine[s].account,
         latch'[pin[s].steam] = latch[pin[s].steam]
  PROVE  Preserves(s)'
BY DEF Preserves, OwnsConsumed

LEMMA LivesOther ==
  ASSUME BInv, NEW s \in Slots, NEW u \in Slots \ {s}, SpentKept(s),
         served'[u] = served[u], pin'[u] = pin[u], engine'[u] = engine[u],
         \/ handoff'[u] = handoff[u]
         \/ /\ handoff'[u] = NoHandoff
            /\ Pending(u) => engine[s].known /\ engine[s].account = handoff[u].account
  PROVE  Lives(u)'
<1> USE DEF BInv
<1>1. Invoked(u)' <=> Invoked(u)
  <2>1. Pending(u) => engine[u].known /\ engine[u].account = handoff[u].account
    BY DEF IInv, SlotOwned
  <2>2. handoff'[u] = NoHandoff /\ handoff'[u] # handoff[u] => ~Pending(u)
    BY <2>1, KnownApart
  <2> QED
    BY <2>2 DEF Invoked, Pending, NoHandoff
<1>2. ASSUME Preserves(u) PROVE Preserves(u)'
  <2>1. /\ engine[u].known /\ engine[u].account = pin[u].steam
        /\ pin[u].steam \in Accounts /\ latch[pin[u].steam].phase = "Consumed"
    BY <1>2 DEF IInv, TypeOK, Pin, Preserves, OwnsConsumed
  <2>2. latch'[pin[u].steam] = latch[pin[u].steam]
    BY <2>1, KnownApart DEF SpentKept
  <2> QED
    BY <1>2, <2>2, PreservesKept
<1> QED
  BY <1>1, <1>2 DEF Lives

LEMMA LivesDisconnect ==
  ASSUME BInv, NEW s \in Slots, Disconnect(s), SpentKept(s), NEW u \in Slots
  PROVE  Lives(u)'
<1> USE DEF BInv
<1>1. CASE u = s
  <2>1. /\ served'[s] = "none" /\ handoff'[s] = NoHandoff /\ engine'[s].owed = {}
    BY DEF Disconnect, DropHandoffs, Vacant, IInv, TypeOK
  <2> QED
    BY <1>1, <2>1 DEF Lives, Invoked, NoHandoff
<1>2. CASE u # s
  <2>1. /\ served'[u] = served[u] /\ pin'[u] = pin[u] /\ engine'[u] = engine[u]
        /\ \/ handoff'[u] = handoff[u]
           \/ /\ handoff'[u] = NoHandoff
              /\ engine[s].known /\ engine[s].account = handoff[u].account
    BY <1>2 DEF Disconnect, DropHandoffs, IInv, TypeOK
  <2> QED
    BY <1>2, <2>1, LivesOther
<1> QED
  BY <1>1, <1>2

(* A step of slot s that leaves the other slots alone.                      *)
LEMMA LivesStep ==
  ASSUME BInv, NEW s \in Slots, SpentKept(s), Lives(s)',
         \A u \in Slots \ {s} :
           /\ served'[u] = served[u] /\ pin'[u] = pin[u] /\ engine'[u] = engine[u]
           /\ handoff'[u] = handoff[u],
         NEW u \in Slots
  PROVE  Lives(u)'
BY LivesOther

-----------------------------------------------------------------------------
LEMMA EngineLives ==
  ASSUME BInv, NEW s \in Slots, NEW u \in Slots,
         EngineConnect(s) \/ SteamIdentity(s) \/ EngineDisconnect(s)
  PROVE  Lives(u)'
<1> USE DEF BInv, IInv
<1>1. SpentKept(s) /\ latch' = latch
  BY DEF EngineConnect, SteamIdentity, EngineDisconnect, SpentKept
<1>2. CASE EngineDisconnect(s)
  BY <1>1, <1>2, LivesDisconnect DEF EngineDisconnect
<1>3. CASE EngineConnect(s) \/ SteamIdentity(s)
  <2>1. /\ UNCHANGED <<served, pin, handoff>>
        /\ \A t \in Slots \ {s} : engine'[t] = engine[t]
    BY <1>3 DEF EngineConnect, SteamIdentity, TypeOK
  <2>2. "disconnect" \in engine'[s].owed /\ Preserves(s) => Preserves(s)'
    <3>1. CASE EngineConnect(s)
      BY <3>1 DEF EngineConnect, TypeOK
    <3>2. ASSUME SteamIdentity(s), Preserves(s) PROVE Preserves(s)'
      <4>1. engine'[s].known = engine[s].known /\ engine'[s].account = engine[s].account
        <5>1. engine[s].known /\ engine' = [engine EXCEPT ![s].auth = TRUE]
          BY <3>2 DEF SteamIdentity, Preserves
        <5> QED
          BY <5>1 DEF TypeOK, Client
      <4> QED
        BY <1>1, <2>1, <3>2, <4>1, PreservesKept
    <3> QED
      BY <1>3, <3>1, <3>2
  <2>3. "disconnect" \in engine'[s].owed => "disconnect" \in engine[s].owed
    BY <1>3 DEF EngineConnect, SteamIdentity, TypeOK, Client
  <2>4. Lives(s)'
    BY <2>1, <2>2, <2>3 DEF Lives, Invoked
  <2> QED
    BY <1>1, <2>1, <2>4, LivesStep
<1> QED
  BY <1>2, <1>3

(* A Reconnect's disconnect callback finds the handoff or the recovery; the *)
(* connect callback starts a connection that is served anew.                *)
LEMMA CallbacksLive ==
  ASSUME BInv, NEW s \in Slots, NEW u \in Slots, ClientConnect(s) \/ ClientDisconnect(s)
  PROVE  Lives(u)'
<1> USE DEF BInv, IInv
<1>1. SpentKept(s) /\ latch' = latch
  BY DEF ClientConnect, ClientDisconnect, SpentKept
<1>2. /\ engine'[s].known = engine[s].known /\ engine'[s].account = engine[s].account
      /\ engine'[s].owed \subseteq engine[s].owed
      /\ \A t \in Slots \ {s} : engine'[t] = engine[t]
  BY DEF ClientConnect, ClientDisconnect, TypeOK, Client
<1>3. /\ \A t \in Slots \ {s} : /\ served'[t] = served[t] /\ pin'[t] = pin[t]
                               /\ handoff'[t] = handoff[t]
      /\ \/ pin' = pin /\ handoff' = handoff
         \/ /\ ~Preserves(s)
            /\ handoff' = IF Invoked(s) THEN handoff ELSE [handoff EXCEPT ![s] = NoHandoff]
  BY DEF ClientConnect, ClientDisconnect, TypeOK
<1>4. Invoked(s)' <=> Invoked(s)
  BY <1>3 DEF Invoked, NoHandoff, TypeOK
<1>5. "disconnect" \in engine'[s].owed => Invoked(s)' \/ Preserves(s)'
  <2>1. ASSUME Preserves(s), pin' = pin PROVE Preserves(s)'
    BY <1>1, <1>2, <2>1, PreservesKept
  <2> QED
    BY <1>2, <1>3, <1>4, <2>1 DEF Lives
<1>6. CASE ClientConnect(s)
  <2>1. served'[s] = "none"
    BY <1>6 DEF ClientConnect, TypeOK
  <2> QED
    BY <1>1, <1>2, <1>3, <1>5, <2>1, LivesStep DEF Lives
<1>7. CASE ClientDisconnect(s)
  <2>1. served' = served /\ (Preserves(s) => pin' = pin) /\ "disconnect" \in engine[s].owed
    BY <1>7 DEF ClientDisconnect
  <2>2. pin' = pin \/ served[s] = "none"
    BY <2>1 DEF Lives
  <2>3. Lives(s)'
    BY <1>4, <1>5, <2>1, <2>2 DEF Lives
  <2> QED
    BY <1>1, <1>2, <1>3, <2>1, <2>3, LivesStep
<1> QED
  BY <1>6, <1>7

LEMMA ProvenSpentKept ==
  ASSUME NEW s \in Slots, NEW p, latch' = ProvenLatch(s, p)
  PROVE  SpentKept(s)
BY ProvenOwned DEF SpentKept

LEMMA ProvenLane ==
  ASSUME IInv, NEW s \in Slots, NEW p \in Pin
  PROVE  ProvenPin(s, p).lane = p.lane
BY DEF ProvenPin, Bound, Pin

LEMMA ProofsLive ==
  ASSUME BInv, NEW s \in Slots, NEW u \in Slots, ClientActive(s) \/ ReadyCommand(s)
  PROVE  Lives(u)'
<1> USE DEF BInv, IInv
<1> DEFINE p == IF ClientActive(s) THEN [pin[s] EXCEPT !.active = TRUE]
                ELSE [pin[s] EXCEPT !.ready = TRUE]
<1>1. p \in Pin /\ p.lane = pin[s].lane
  <2>1. pin[s] \in Pin
    BY DEF TypeOK
  <2>2. /\ [pin[s] EXCEPT !.active = TRUE] \in Pin /\ [pin[s] EXCEPT !.ready = TRUE] \in Pin
        /\ [pin[s] EXCEPT !.active = TRUE].lane = pin[s].lane
        /\ [pin[s] EXCEPT !.ready = TRUE].lane = pin[s].lane
    BY <2>1 DEF Pin
  <2> QED
    BY <2>2
<1>2. /\ pin' = [pin EXCEPT ![s] = ProvenPin(s, p)] /\ latch' = ProvenLatch(s, p)
      /\ UNCHANGED <<handoff, served>>
  BY DEF ClientActive, ReadyCommand
<1>3. /\ engine'[s].owed = engine[s].owed
      /\ \A t \in Slots \ {s} : engine'[t] = engine[t]
      /\ "disconnect" \in engine[s].owed => ~Preserves(s)
  BY DEF ClientActive, ReadyCommand, TypeOK, Client, Preserves
<1> HIDE DEF p
<1>4. pin'[s].lane = pin[s].lane /\ \A t \in Slots \ {s} : pin'[t] = pin[t]
  BY <1>1, <1>2, ProvenLane DEF TypeOK
<1>5. Lives(s)'
  BY <1>2, <1>3, <1>4 DEF Lives, Invoked
<1>6. SpentKept(s)
  BY <1>2, ProvenSpentKept
<1> QED
  BY <1>2, <1>3, <1>4, <1>5, <1>6, LivesStep

-----------------------------------------------------------------------------
(* A failure comes from a required lane, so no recovery is under way, and   *)
(* with a handoff pending the client is disconnected.                       *)
LEMMA FailuresLive ==
  ASSUME BInv, NEW s \in Slots, NEW u \in Slots, FailedCommand(s) \/ UnarmedFailure(s)
  PROVE  Lives(u)'
<1> USE DEF BInv, IInv
<1>1. CASE Disconnect(s) /\ SpentKept(s)
  BY <1>1, LivesDisconnect
<1>2. CASE FailedCommand(s)
  <2> DEFINE a == engine[s].account
  <2>1. /\ engine[s].known /\ a \in Accounts /\ ~Preserves(s)
        /\ \/ latch' = [latch EXCEPT ![a] = NoEntry]
           \/ latch' = [latch EXCEPT ![a] = ArmedEntry(pin[s].serial)]
    BY <1>2 DEF FailedCommand, Arms, Authenticated, CanBind, SlotOwned, ExactFailure, Preserves
  <2>2. SpentKept(s)
    BY <2>1 DEF SpentKept, TypeOK
  <2>3. CASE ~Pending(s)
    <3>1. /\ handoff' = [handoff EXCEPT ![s] = [phase |-> "Queued", account |-> a,
                             failed |-> pin[s].serial, left |-> Window]]
          /\ pin' = [pin EXCEPT ![s] = Bound(s, pin[s])] /\ UNCHANGED <<engine, served>>
      BY <1>2, <2>3 DEF FailedCommand, TypeOK
    <3>2. pin'[s].lane = pin[s].lane
      BY <3>1 DEF TypeOK, Bound, Pin
    <3>3. ~Invoked(s)' /\ ~Invoked(s)
      BY <2>3, <3>1 DEF Invoked, Pending, TypeOK
    <3>4. "disconnect" \notin engine[s].owed
      BY <2>1, <3>3 DEF Lives
    <3>5. Lives(s)'
      BY <3>1, <3>2, <3>3, <3>4 DEF Lives
    <3>6. \A t \in Slots \ {s} : pin'[t] = pin[t] /\ handoff'[t] = handoff[t]
      BY <3>1 DEF TypeOK
    <3> QED
      BY <2>2, <3>1, <3>5, <3>6, LivesStep
  <2>4. CASE Pending(s)
    BY <1>1, <1>2, <2>2, <2>4 DEF FailedCommand
  <2> QED
    BY <2>3, <2>4
<1>3. CASE UnarmedFailure(s)
  <2>1. SpentKept(s) /\ latch' = latch /\ ~Preserves(s)
    BY <1>3 DEF UnarmedFailure, SpentKept, LateFailure, Preserves
  <2>2. CASE RequiredLane(pin[s])
    BY <1>1, <1>3, <2>1, <2>2 DEF UnarmedFailure
  <2>3. CASE ~RequiredLane(pin[s])
    <3>1. pin' = [pin EXCEPT ![s].ready = FALSE] /\ UNCHANGED <<handoff, engine, served>>
      BY <1>3, <2>3 DEF UnarmedFailure
    <3>2. pin'[s].lane = pin[s].lane /\ \A t \in Slots \ {s} : pin'[t] = pin[t]
      BY <3>1 DEF TypeOK, Pin
    <3>3. Lives(s)'
      BY <2>1, <3>1, <3>2 DEF Lives, Invoked
    <3> QED
      BY <2>1, <3>1, <3>2, <3>3, LivesStep
  <2> QED
    BY <2>2, <2>3
<1> QED
  BY <1>2, <1>3

(* What a step that resolves the lane leaves alone: a resolved lane.        *)
LEMMA ResolvedKept ==
  ASSUME NEW s \in Slots, NEW p, NEW choice, p.lane # "Unresolved"
  PROVE  Resolved(s, p, choice) = p /\ LatchAfterLane(s, p, choice) = latch
BY DEF Resolved, LatchAfterLane

LEMMA LaneSpentKept ==
  ASSUME IInv, NEW s \in Slots, NEW p, NEW choice, latch' = LatchAfterLane(s, p, choice)
  PROVE  SpentKept(s)
<1>1. CASE latch' = latch
  BY <1>1 DEF SpentKept
<1>2. CASE engine[s].known /\ latch' = Consumed(engine[s].account, p.serial)
  BY <1>2, ConsumedOwned DEF SpentKept
<1> QED
  BY <1>1, <1>2 DEF LatchAfterLane, CanBind

LEMMA RequestLives ==
  ASSUME BInv, NEW s \in Slots, NEW u \in Slots, FileRequest(s)
  PROVE  Lives(u)'
<1> USE DEF BInv, IInv
<1>1. PICK choice \in LaneChoices :
        /\ latch' = LatchAfterLane(s, pin[s], choice)
        /\ \/ Disconnect(s)
           \/ /\ pin' = [pin EXCEPT ![s] = Resolved(s, pin[s], choice)]
              /\ UNCHANGED <<handoff, engine, served>>
  BY DEF FileRequest
<1>2. SpentKept(s)
  BY <1>1, LaneSpentKept
<1>3. CASE Disconnect(s)
  BY <1>2, <1>3, LivesDisconnect
<1>4. CASE /\ pin' = [pin EXCEPT ![s] = Resolved(s, pin[s], choice)]
           /\ UNCHANGED <<handoff, engine, served>>
  <2>1. \A t \in Slots \ {s} : pin'[t] = pin[t]
    BY <1>4 DEF TypeOK
  <2>2. Lives(s)'
    <3>1. CASE pin[s].lane = "Unresolved"
      BY <1>4, <3>1 DEF Lives, Invoked, Preserves
    <3>2. CASE pin[s].lane # "Unresolved"
      <4>1. pin'[s] = pin[s] /\ latch' = latch
        BY <1>1, <1>4, <3>2, ResolvedKept DEF TypeOK
      <4>2. Preserves(s) => Preserves(s)'
        BY <1>4, <4>1, PreservesKept
      <4> QED
        BY <1>4, <4>1, <4>2 DEF Lives, Invoked
    <3> QED
      BY <3>1, <3>2
  <2> QED
    BY <1>2, <1>4, <2>1, <2>2, LivesStep
<1> QED
  BY <1>1, <1>3, <1>4

LEMMA BaselinesLive ==
  ASSUME BInv, NEW s \in Slots, NEW u \in Slots,
         ServerInfoUnprepared(s) \/ RecoveryServerInfoRefused(s) \/ ServerInfo(s)
  PROVE  Lives(u)'
<1> USE DEF BInv, IInv
<1>1. CASE ServerInfoUnprepared(s) \/ RecoveryServerInfoRefused(s)
  <2>1. SpentKept(s) /\ Disconnect(s)
    BY <1>1 DEF ServerInfoUnprepared, RecoveryServerInfoRefused, SpentKept
  <2> QED
    BY <2>1, LivesDisconnect
<1>2. CASE ServerInfo(s)
  <2> DEFINE p == IF pin[s].serial = 0 THEN Epoch(next + 1) ELSE pin[s]
  <2>1. PICK choice \in LaneChoices :
          /\ latch' = LatchAfterLane(s, p, choice)
          /\ \/ Disconnect(s)
             \/ /\ pin' = [pin EXCEPT ![s] =
                             [Resolved(s, p, choice) EXCEPT !.pinned =
                                @ \/ (Resolved(s, p, choice).lane = "Required" /\ base)]]
                /\ Serve(s, Resolved(s, p, choice).lane) /\ handoff' = handoff
    BY <1>2 DEF ServerInfo
  <2>2. SpentKept(s)
    BY <2>1, LaneSpentKept
  <2>3. p \in Pin
    BY <1>2, EpochPin DEF ServerInfo, TypeOK
  <2>4. ~Invoked(s)
    BY <1>2 DEF ServerInfo, Invoked, Pending
  <2> DEFINE q == Resolved(s, p, choice)
             r == [q EXCEPT !.pinned = @ \/ (q.lane = "Required" /\ base)]
  <2>5. q \in Pin
    BY <2>3, ResolvedPin
  <2>6. r.lane = q.lane /\ r.active = q.active /\ r.cleared = q.cleared /\ r.steam = q.steam
        /\ r.serial = q.serial
    BY <2>5 DEF Pin
  <2>7. q.lane # "Unresolved"
    <3>1. choice \in {"Required", "NativeOptOut", "NativeRescue"}
      BY LaneAssumption
    <3>2. Bound(s, p) \in Pin
      BY <2>3, BoundPin
    <3> QED
      BY <2>3, <3>1, <3>2 DEF Resolved, Pin
  <2>8. Preserves(s) => q = pin[s] /\ latch' = latch
    BY <2>1, ResolvedKept DEF Preserves, OwnsConsumed
  <2>9. CASE Disconnect(s)
    BY <2>2, <2>9, LivesDisconnect
  <2> HIDE DEF q
  <2>10. CASE pin' = [pin EXCEPT ![s] = r] /\ Serve(s, q.lane) /\ handoff' = handoff
    <3>1. /\ pin'[s] = r /\ served'[s] = q.lane
          /\ engine'[s].owed = engine[s].owed /\ engine'[s].known = engine[s].known
          /\ engine'[s].account = engine[s].account
          /\ \A t \in Slots \ {s} : /\ pin'[t] = pin[t] /\ served'[t] = served[t]
                                   /\ engine'[t] = engine[t]
      BY <2>10 DEF Serve, TypeOK, Client
    <3>2. Preserves(s) => Preserves(s)'
      BY <2>6, <2>8, <3>1, PreservesKept
    <3>3. Lives(s)'
      BY <2>4, <2>6, <2>7, <2>10, <3>1, <3>2 DEF Lives, Invoked
    <3> QED
      BY <2>2, <2>10, <3>1, <3>3, LivesStep
  <2> QED
    BY <2>1, <2>9, <2>10 DEF q
<1> QED
  BY <1>1, <1>2

(* The recovery baseline takes the handoff and leaves the lane it serves    *)
(* preserved, so the callbacks still owed do not reach the pin.             *)
LEMMA RecoveryLives ==
  ASSUME BInv, NEW s \in Slots, NEW u \in Slots, RecoveryServerInfo(s)
  PROVE  Lives(u)'
<1> USE DEF BInv, IInv
<1> DEFINE a == engine[s].account
           r == [Epoch(next + 1) EXCEPT !.steam = a, !.lane = "NativeRecovery"]
<1>1. PICK t \in Candidates(s) :
        /\ CanBegin(s, t)
        /\ latch' = Consumed(a, next + 1)
        /\ \/ /\ ConsumeResult(a, next + 1) = "Native"
              /\ handoff' = [handoff EXCEPT ![t] = NoHandoff]
              /\ pin' = [pin EXCEPT ![s] = r]
              /\ Serve(s, "NativeRecovery")
           \/ Disconnect(s)
  BY DEF RecoveryServerInfo
<1>2. engine[s].known /\ t \in Slots /\ handoff[t].account = a /\ Pending(t)
  BY <1>1, DeadlineTypes, AccountAssumption DEF Candidates, AccountOf
<1>3. a \in Accounts /\ next < MaxSerial /\ t = s
  BY <1>2, KnownApart DEF RecoveryServerInfo, SlotOwned
<1>4. SpentKept(s)
  BY <1>1, <1>2, ConsumedOwned DEF SpentKept
<1>5. CASE Disconnect(s)
  BY <1>4, <1>5, LivesDisconnect
<1>6. CASE /\ ConsumeResult(a, next + 1) = "Native"
           /\ handoff' = [handoff EXCEPT ![t] = NoHandoff]
           /\ pin' = [pin EXCEPT ![s] = r]
           /\ Serve(s, "NativeRecovery")
  <2>1. /\ handoff'[s] = NoHandoff /\ pin'[s] = r /\ served'[s] = "NativeRecovery"
        /\ engine'[s].known /\ engine'[s].account = a
        /\ \A v \in Slots \ {s} : /\ pin'[v] = pin[v] /\ served'[v] = served[v]
                                 /\ engine'[v] = engine[v] /\ handoff'[v] = handoff[v]
    BY <1>2, <1>3, <1>6 DEF Serve, TypeOK, Client
  <2>2. latch'[a].phase = "Consumed" /\ latch'[a].recovery = next + 1
    BY <1>1, <1>3, <1>6 DEF Consumed, TypeOK, Entry
  <2>3. /\ r.lane = "NativeRecovery" /\ ~r.active /\ ~r.cleared /\ r.steam = a
        /\ r.serial = next + 1
    BY DEF Epoch, NoPin
  <2>4. a # NoAccount /\ next + 1 # 0
    BY <1>3, AccountAssumption DEF TypeOK, Serials
  <2>5. Preserves(s)'
    BY <2>1, <2>2, <2>3, <2>4 DEF Preserves, OwnsConsumed
  <2>6. Lives(s)'
    BY <2>1, <2>3, <2>5 DEF Lives, Invoked, NoHandoff
  <2> QED
    BY <1>4, <2>1, <2>6, LivesStep
<1> QED
  BY <1>1, <1>5, <1>6

LEMMA HandoffLives ==
  ASSUME BInv, NEW s \in Slots, NEW u \in Slots, ThinkHandoff(s)
  PROVE  Lives(u)'
<1> USE DEF BInv, IInv
<1>1. SpentKept(s) /\ latch' = latch
  BY DEF ThinkHandoff, SpentKept
<1>2. CASE Disconnect(s)
  BY <1>1, <1>2, LivesDisconnect
<1>3. CASE UNCHANGED <<pin, engine, served, handoff>>
  <2>1. Lives(s)'
    <3>1. Preserves(s) => Preserves(s)'
      BY <1>1, <1>3, PreservesKept
    <3> QED
      BY <1>3, <3>1 DEF Lives, Invoked
  <2> QED
    BY <1>1, <1>3, <2>1, LivesStep
<1>4. ASSUME ThinkNoHandoff(s) \/ ThinkExpired(s) PROVE Lives(u)'
  BY <1>2, <1>3, <1>4, AccountAssumption
     DEF ThinkNoHandoff, ThinkExpired, SlotOwned, AccountOf
<1>5. ASSUME handoff' = [handoff EXCEPT ![s].phase = "Invoked"],
             served' = [served EXCEPT ![s] = "none"],
             NEW p, pin' = [pin EXCEPT ![s] = p], NEW c, engine' = [engine EXCEPT ![s] = c]
      PROVE  Lives(u)'
  <2>1. /\ handoff'[s].phase = "Invoked" /\ served'[s] = "none"
        /\ \A t \in Slots \ {s} : /\ pin'[t] = pin[t] /\ served'[t] = served[t]
                                 /\ engine'[t] = engine[t] /\ handoff'[t] = handoff[t]
    BY <1>5 DEF TypeOK, Handoff
  <2>2. Lives(s)'
    BY <2>1 DEF Lives, Invoked
  <2> QED
    BY <1>1, <2>1, <2>2, LivesStep
<1>6. ASSUME NEW channel \in BOOLEAN, ThinkInvoke(s, channel) PROVE Lives(u)'
  <2>1. AccountOf(s) = handoff[s].account /\ pin[s].serial = handoff[s].failed
    BY <1>6 DEF ThinkInvoke, SlotOwned, AccountOf, Pending
  <2>2. ASSUME NEW ran \in {{}, {"disconnect"}, {"disconnect", "connect"}}, NEW queued \in BOOLEAN,
               handoff' = [handoff EXCEPT ![s].phase = "Invoked"],
               served' = [served EXCEPT ![s] = "none"],
               pin' = [pin EXCEPT ![s] = IF "connect" \in ran THEN Epoch(next + 1)
                                         ELSE IF "disconnect" \in ran THEN NoPin ELSE @],
               engine' = [engine EXCEPT ![s].signon = "connected",
                            ![s].sendInfo = queued \/ "connect" \in ran,
                            ![s].owed = {"disconnect", "connect"} \ ran]
        PROVE  Lives(u)'
    BY <1>5, <2>2
  <2> QED
    BY <1>2, <1>6, <2>1, <2>2 DEF ThinkInvoke
<1>7. ASSUME NEW channel \in BOOLEAN, ThinkDispatch(s, channel) PROVE Lives(u)'
  <2>1. CASE UNCHANGED <<handoff, engine>>
    BY <1>3, <1>7, <2>1 DEF ThinkDispatch
  <2>2. CASE /\ handoff' = [handoff EXCEPT ![s].phase = "Claimed", ![s].left = Window]
             /\ engine' = [engine EXCEPT ![s].sendInfo = TRUE]
    <3>1. UNCHANGED <<pin, served>> /\ Invoked(s)
      BY <1>7 DEF ThinkDispatch, Dispatchable, Invoked
    <3>2. /\ handoff'[s].phase = "Claimed"
          /\ \A t \in Slots \ {s} : engine'[t] = engine[t] /\ handoff'[t] = handoff[t]
      BY <2>2 DEF TypeOK, Handoff
    <3>3. Lives(s)'
      BY <3>1, <3>2 DEF Lives, Invoked
    <3> QED
      BY <1>1, <3>1, <3>2, <3>3, LivesStep
  <2> QED
    BY <1>7, <2>1, <2>2 DEF ThinkDispatch
<1> QED
  BY <1>4, <1>6, <1>7 DEF ThinkHandoff

LEMMA ClientLives ==
  ASSUME BInv, NEW s \in Slots, NEW u \in Slots, ThinkClient(s)
  PROVE  Lives(u)'
<1> USE DEF BInv, IInv
<1>1. latch' = PruneAfter(s, ProvenLatch(s, pin[s])) /\ pin[s] \in Pin
  BY DEF ThinkClient, TypeOK
<1>2. \A b \in Accounts : \/ latch'[b] = ProvenLatch(s, pin[s])[b]
                          \/ ProvenLatch(s, pin[s])[b].phase = "Armed"
  BY <1>1 DEF PruneAfter, Pruned
<1>3. SpentKept(s)
  BY <1>2, ProvenOwned DEF SpentKept
<1>4. CASE Disconnect(s)
  BY <1>3, <1>4, LivesDisconnect
<1>5. CASE pin' = [pin EXCEPT ![s] = ProvenPin(s, pin[s])] /\ UNCHANGED <<handoff, engine, served>>
  <2>1. pin'[s].lane = pin[s].lane /\ \A t \in Slots \ {s} : pin'[t] = pin[t]
    BY <1>1, <1>5, ProvenLane DEF TypeOK
  <2>2. ASSUME Preserves(s) PROVE Preserves(s)'
    <3>1. ~Proving(pin[s])
      BY <2>2 DEF Preserves, Proving
    <3>2. pin'[s] = pin[s] /\ ProvenLatch(s, pin[s]) = latch
      BY <1>5, <3>1 DEF ProvenPin, ProvenLatch, Proves, TypeOK
    <3>3. /\ pin[s].steam \in Accounts /\ latch[pin[s].steam].phase = "Consumed"
      BY <2>2 DEF Preserves, OwnsConsumed, TypeOK, Pin
    <3>4. latch'[pin[s].steam] = latch[pin[s].steam]
      BY <1>2, <3>2, <3>3
    <3> QED
      BY <1>5, <2>2, <3>2, <3>4, PreservesKept
  <2>3. Lives(s)'
    BY <1>5, <2>1, <2>2 DEF Lives, Invoked
  <2> QED
    BY <1>3, <1>5, <2>1, <2>3, LivesStep
<1> QED
  BY <1>4, <1>5 DEF ThinkClient

LEMMA RestLives ==
  ASSUME BInv, NEW u \in Slots,
         Tick \/ ThinkBegin \/ ToggleEnable \/ PublishBase \/ LevelShutdown \/ UNCHANGED vars
  PROVE  Lives(u)'
<1> USE DEF BInv, IInv
<1>1. CASE LevelShutdown
  <2>1. served'[u] = "none" /\ handoff'[u] = NoHandoff /\ "disconnect" \notin engine'[u].owed
    BY <1>1 DEF LevelShutdown, Vacant, TypeOK, Client
  <2> QED
    BY <2>1 DEF Lives, Invoked, NoHandoff
<1>2. CASE Tick \/ ThinkBegin \/ ToggleEnable \/ PublishBase \/ UNCHANGED vars
  <2>1. /\ UNCHANGED <<pin, engine, served>> /\ handoff'[u].phase = handoff[u].phase
        /\ \A b \in Accounts : latch[b].phase = "Consumed" => latch'[b] = latch[b]
    BY <1>2 DEF Tick, ThinkBegin, ToggleEnable, PublishBase, vars, TypeOK, Handoff
  <2>2. ASSUME Preserves(u) PROVE Preserves(u)'
    <3>1. /\ pin[u].steam \in Accounts /\ latch[pin[u].steam].phase = "Consumed"
      BY <2>2 DEF Preserves, OwnsConsumed, TypeOK, Pin
    <3> QED
      BY <2>1, <2>2, <3>1, PreservesKept
  <2> QED
    BY <2>1, <2>2 DEF Lives, Invoked
<1> QED
  BY <1>1, <1>2

-----------------------------------------------------------------------------
LEMMA LivesInductive ==
  ASSUME BInv, enabled, [Next]_vars
  PROVE  \A u \in Slots : Lives(u)'
<1> SUFFICES ASSUME NEW u \in Slots PROVE Lives(u)'
  OBVIOUS
<1>1. ASSUME NEW s \in Slots,
             \/ EngineConnect(s) \/ SteamIdentity(s) \/ EngineDisconnect(s)
             \/ ClientConnect(s) \/ ClientDisconnect(s) \/ ClientActive(s)
             \/ FailedCommand(s) \/ UnarmedFailure(s) \/ ReadyCommand(s)
      PROVE  Lives(u)'
  BY <1>1, EngineLives, CallbacksLive, ProofsLive, FailuresLive
<1>2. ASSUME NEW s \in Slots,
             \/ ServerInfoUnchanged(s) \/ ServerInfoUnprepared(s) \/ ServerInfo(s)
             \/ RecoveryServerInfo(s) \/ RecoveryServerInfoRefused(s) \/ FileRequest(s)
      PROVE  Lives(u)'
  BY <1>2, BaselinesLive, RecoveryLives, RequestLives DEF ServerInfoUnchanged
<1>3. CASE ThinkStep
  BY <1>3, HandoffLives, ClientLives, RestLives DEF ThinkStep, ThinkDisabled
<1>4. CASE Tick \/ ToggleEnable \/ PublishBase \/ LevelShutdown \/ UNCHANGED vars
  BY <1>4, RestLives
<1> QED
  BY <1>1, <1>2, <1>3, <1>4 DEF Next

(* For any number of slots and accounts: while no account is logged in      *)
(* twice, Lua bodies follow the lane of the baseline, whatever order the    *)
(* callbacks around a Reconnect take.  A second login's success could clear *)
(* the latch by which the late callbacks know the recovery.                 *)
THEOREM LanesFollowBaseline ==
  Spec /\ [](\A s \in Slots : Alone(s)) => BodiesFollowBaseline
<1> DEFINE Served == \A s \in Slots : served[s] # "none" /\ pin[s].lane # "Unresolved"
                                       => pin[s].lane = served[s]
           AllLive == \A s \in Slots : Lives(s)
<1>1. Init => AllLive
  BY DEF Init, Lives, Invoked, NoHandoff, Vacant
<1>2. IInv /\ SingleLogins /\ AllLive /\ enabled /\ [Next]_vars => AllLive'
  BY LivesInductive DEF BInv
<1>3. AllLive => Served
  BY DEF Lives
<1>4. SingleLogins <=> \A s \in Slots : Alone(s)
  BY DEF SingleLogins
<1>5. BodiesFollowBaseline <=> ([]enabled => []Served)
  BY PTL DEF BodiesFollowBaseline
<1> HIDE DEF Served, AllLive
<1> QED
  BY <1>1, <1>2, <1>3, <1>4, <1>5, Invariant, PTL DEF Spec

-----------------------------------------------------------------------------
(* One Reconnect for an epoch.                                              *)

(* An epoch that was asked to reconnect and is still the slot's has its     *)
(* invoked handoff, which a second failure of it finds pending.             *)
AskedOnce(s) ==
  /\ pin[s].serial \in asked => Invoked(s) /\ pin[s].pinned
  /\ handoff[s].phase = "Queued" => pin[s].serial # 0 /\ pin[s].pinned

AInv ==
  /\ IInv /\ EpochsUnique /\ SingleLogins
  /\ asked \subseteq 1 .. next /\ \A s \in Slots : AskedOnce(s)

(* What a step may do to the epoch and the handoff of a slot: end the       *)
(* epoch, start one, keep both, drop a handoff whose epoch is of no use, or *)
(* queue the first handoff of the epoch.                                    *)
Renews(u) ==
  \/ pin'[u].serial = 0 /\ handoff'[u].phase # "Queued"
  \/ pin'[u].serial = next + 1 /\ handoff'[u].phase # "Queued"
  \/ /\ pin'[u].serial = pin[u].serial /\ (pin[u].pinned => pin'[u].pinned)
     /\ handoff'[u].phase = "Queued" => handoff[u].phase = "Queued"
     /\ Invoked(u) => Invoked(u)'
  \/ ~pin[u].pinned /\ pin'[u].serial = pin[u].serial /\ handoff'[u] = NoHandoff
  \/ /\ ~Pending(u) /\ pin[u].serial # 0 /\ pin[u].pinned
     /\ pin'[u].serial = pin[u].serial /\ pin'[u].pinned

LEMMA RenewsKeeps ==
  ASSUME AInv, NEW u \in Slots, Renews(u), asked' = asked
  PROVE  AskedOnce(u)'
<1>1. /\ next \in Nat /\ 0 \notin asked /\ next + 1 \notin asked
      /\ AskedOnce(u)
  BY EpochTypes DEF AInv, IInv
<1> QED
  BY <1>1 DEF Renews, AskedOnce, Invoked, Pending, NoHandoff

LEMMA EpochSerial ==
  NoPin.serial = 0 /\ \A c : Epoch(c).serial = c
BY DEF Epoch, NoPin

LEMMA SameRenews ==
  ASSUME NEW u \in Slots, pin'[u] = pin[u], handoff'[u].phase = handoff[u].phase
  PROVE  Renews(u)
BY DEF Renews, Invoked

LEMMA DisconnectRenews ==
  ASSUME AInv, NEW s \in Slots, Disconnect(s), NEW u \in Slots
  PROVE  Renews(u)
<1> USE DEF AInv
<1>1. CASE u = s
  <2>1. pin'[s] = NoPin /\ handoff'[s] = NoHandoff
    BY DEF Disconnect, DropHandoffs, IInv, TypeOK
  <2> QED
    BY <1>1, <2>1 DEF Renews, NoPin, NoHandoff
<1>2. CASE u # s
  <2>1. /\ pin'[u] = pin[u]
        /\ \/ handoff'[u] = handoff[u]
           \/ /\ handoff'[u] = NoHandoff
              /\ engine[s].known /\ engine[s].account = handoff[u].account
    BY <1>2 DEF Disconnect, DropHandoffs, IInv, TypeOK
  <2>2. Pending(u) => engine[u].known /\ engine[u].account = handoff[u].account
    BY DEF IInv, SlotOwned
  <2>3. handoff'[u].phase = handoff[u].phase
    BY <1>2, <2>1, <2>2, KnownApart DEF Pending, NoHandoff
  <2> QED
    BY <2>1, <2>3, SameRenews
<1> QED
  BY <1>1, <1>2

(* The pin of one slot is replaced by one of the same epoch.                *)
LEMMA PinRenews ==
  ASSUME AInv, NEW s \in Slots, NEW p, pin' = [pin EXCEPT ![s] = p],
         p.serial = pin[s].serial, pin[s].pinned => p.pinned, handoff' = handoff,
         NEW u \in Slots
  PROVE  Renews(u)
<1>1. /\ pin'[u].serial = pin[u].serial /\ (pin[u].pinned => pin'[u].pinned)
  BY DEF AInv, IInv, TypeOK
<1> QED
  BY <1>1 DEF Renews, Invoked

LEMMA PinnedKept ==
  ASSUME NEW s \in Slots, NEW p \in Pin
  PROVE  /\ Bound(s, p).serial = p.serial /\ Bound(s, p).pinned = p.pinned
         /\ ProvenPin(s, p).serial = p.serial /\ ProvenPin(s, p).pinned = p.pinned
         /\ \A choice \in LaneChoices :
              /\ Resolved(s, p, choice).serial = p.serial
              /\ Resolved(s, p, choice).pinned = p.pinned
<1>1. /\ Bound(s, p).serial = p.serial /\ Bound(s, p).pinned = p.pinned
  BY DEF Bound, Pin
<1>2. /\ ProvenPin(s, p).serial = p.serial /\ ProvenPin(s, p).pinned = p.pinned
  BY <1>1 DEF ProvenPin
<1>3. ASSUME NEW choice \in LaneChoices
      PROVE  /\ Resolved(s, p, choice).serial = p.serial
             /\ Resolved(s, p, choice).pinned = p.pinned
  BY <1>1 DEF Resolved
<1> QED
  BY <1>1, <1>2, <1>3

-----------------------------------------------------------------------------
LEMMA CallbacksRenew ==
  ASSUME AInv, NEW s \in Slots, NEW u \in Slots, ClientConnect(s) \/ ClientDisconnect(s)
  PROVE  Renews(u)
<1> USE DEF AInv, IInv, TypeOK
<1>1. CASE u # s \/ Preserves(s)
  <2>1. pin'[u] = pin[u] /\ handoff'[u] = handoff[u]
    BY <1>1 DEF ClientConnect, ClientDisconnect
  <2> QED
    BY <2>1, SameRenews
<1>2. CASE u = s /\ ~Preserves(s)
  <2>1. pin'[s] \in {NoPin, Epoch(next + 1)}
    BY <1>2 DEF ClientConnect, ClientDisconnect
  <2>2. handoff'[s].phase # "Queued"
    BY <1>2 DEF ClientConnect, ClientDisconnect, Invoked, NoHandoff
  <2> QED
    BY <1>2, <2>1, <2>2, EpochSerial DEF Renews
<1> QED
  BY <1>1, <1>2

LEMMA CommandsRenew ==
  ASSUME AInv, NEW s \in Slots, NEW u \in Slots,
         \/ ClientActive(s) \/ ReadyCommand(s) \/ UnarmedFailure(s) \/ FileRequest(s)
         \/ FailedCommand(s)
  PROVE  Renews(u)
<1>1. pin[s] \in Pin
  BY DEF AInv, IInv, TypeOK
<1>2. CASE Disconnect(s)
  BY <1>2, DisconnectRenews
<1>3. CASE ClientActive(s) \/ ReadyCommand(s)
  <2> DEFINE p == IF ClientActive(s) THEN [pin[s] EXCEPT !.active = TRUE]
                  ELSE [pin[s] EXCEPT !.ready = TRUE]
  <2>1. p \in Pin /\ p.serial = pin[s].serial /\ p.pinned = pin[s].pinned
    <3>1. \A q \in {[pin[s] EXCEPT !.active = TRUE], [pin[s] EXCEPT !.ready = TRUE]} :
            q \in Pin /\ q.serial = pin[s].serial /\ q.pinned = pin[s].pinned
      BY <1>1 DEF Pin
    <3> QED
      BY <3>1
  <2>2. pin' = [pin EXCEPT ![s] = ProvenPin(s, p)] /\ handoff' = handoff
    BY <1>3 DEF ClientActive, ReadyCommand
  <2> HIDE DEF p
  <2>3. ProvenPin(s, p).serial = p.serial /\ ProvenPin(s, p).pinned = p.pinned
    BY <2>1, PinnedKept
  <2> QED
    BY <2>1, <2>2, <2>3, PinRenews
<1>4. CASE UnarmedFailure(s) /\ ~Disconnect(s)
  <2>1. pin' = [pin EXCEPT ![s].ready = FALSE] /\ handoff' = handoff
    BY <1>4 DEF UnarmedFailure
  <2>2. /\ [pin[s] EXCEPT !.ready = FALSE].serial = pin[s].serial
        /\ [pin[s] EXCEPT !.ready = FALSE].pinned = pin[s].pinned
    BY <1>1 DEF Pin
  <2> QED
    BY <2>1, <2>2, PinRenews
<1>5. CASE FileRequest(s) /\ ~Disconnect(s)
  <2>1. PICK choice \in LaneChoices :
          pin' = [pin EXCEPT ![s] = Resolved(s, pin[s], choice)] /\ handoff' = handoff
    BY <1>5 DEF FileRequest
  <2>2. /\ Resolved(s, pin[s], choice).serial = pin[s].serial
        /\ Resolved(s, pin[s], choice).pinned = pin[s].pinned
    BY <1>1, PinnedKept
  <2> QED
    BY <2>1, <2>2, PinRenews
<1>6. CASE FailedCommand(s) /\ ~Disconnect(s)
  <2>1. /\ ~Pending(s) /\ pin[s].pinned /\ pin[s].serial # 0
        /\ pin' = [pin EXCEPT ![s] = Bound(s, pin[s])]
        /\ \A t \in Slots \ {s} : handoff'[t] = handoff[t]
    BY <1>6 DEF FailedCommand, ExactFailure, Arms, CanArm, AInv, IInv, TypeOK
  <2>2. CASE u = s
    BY <1>1, <2>1, <2>2, PinnedKept DEF Renews, AInv, IInv, TypeOK
  <2>3. CASE u # s
    BY <2>1, <2>3, SameRenews DEF AInv, IInv, TypeOK
  <2> QED
    BY <2>2, <2>3
<1> QED
  BY <1>2, <1>3, <1>4, <1>5, <1>6

LEMMA BaselinesRenew ==
  ASSUME AInv, NEW s \in Slots, NEW u \in Slots,
         \/ ServerInfoUnprepared(s) \/ RecoveryServerInfoRefused(s) \/ ServerInfo(s)
         \/ RecoveryServerInfo(s)
  PROVE  Renews(u)
<1> USE DEF AInv, IInv
<1>1. CASE Disconnect(s)
  BY <1>1, DisconnectRenews
<1>2. CASE ServerInfo(s) /\ ~Disconnect(s)
  <2> DEFINE p == IF pin[s].serial = 0 THEN Epoch(next + 1) ELSE pin[s]
  <2>1. PICK choice \in LaneChoices :
          /\ pin' = [pin EXCEPT ![s] =
                       [Resolved(s, p, choice) EXCEPT !.pinned =
                          @ \/ (Resolved(s, p, choice).lane = "Required" /\ base)]]
          /\ handoff' = handoff
    BY <1>2 DEF ServerInfo
  <2>2. p \in Pin
    BY <1>2, EpochPin DEF ServerInfo, TypeOK
  <2>3. /\ Resolved(s, p, choice) \in Pin
        /\ Resolved(s, p, choice).serial = p.serial
        /\ Resolved(s, p, choice).pinned = p.pinned
    BY <2>2, ResolvedPin, PinnedKept
  <2> DEFINE r == [Resolved(s, p, choice) EXCEPT !.pinned =
                     @ \/ (Resolved(s, p, choice).lane = "Required" /\ base)]
  <2>4. r.serial = p.serial /\ (p.pinned => r.pinned)
    BY <2>3 DEF Pin
  <2>5. pin' = [pin EXCEPT ![s] = r]
    BY <2>1
  <2> HIDE DEF r
  <2>6. CASE pin[s].serial # 0
    BY <2>1, <2>4, <2>5, <2>6, PinRenews
  <2>7. CASE pin[s].serial = 0
    <3>1. r.serial = next + 1 /\ ~Pending(s)
      BY <1>2, <2>4, <2>7 DEF Epoch, NoPin, ServerInfo
    <3>2. u = s => Renews(u)
      BY <2>1, <2>5, <3>1 DEF Renews, Pending, TypeOK
    <3> QED
      BY <2>1, <2>5, <3>2, SameRenews DEF TypeOK
  <2> QED
    BY <2>6, <2>7
<1>3. CASE RecoveryServerInfo(s) /\ ~Disconnect(s)
  <2> DEFINE r == [Epoch(next + 1) EXCEPT !.steam = engine[s].account,
                                          !.lane = "NativeRecovery"]
  <2>1. PICK t \in Candidates(s) :
          /\ handoff' = [handoff EXCEPT ![t] = NoHandoff] /\ pin' = [pin EXCEPT ![s] = r]
    BY <1>3 DEF RecoveryServerInfo
  <2>2. engine[s].known /\ t \in Slots /\ handoff[t].account = engine[s].account /\ Pending(t)
    BY <2>1, DeadlineTypes, AccountAssumption DEF Candidates, AccountOf
  <2>3. t = s
    BY <2>2, KnownApart DEF SlotOwned
  <2>4. r.serial = next + 1
    BY DEF Epoch, NoPin
  <2>5. u = s => Renews(u)
    BY <2>1, <2>3, <2>4 DEF Renews, NoHandoff, TypeOK
  <2> QED
    BY <2>1, <2>3, <2>5, SameRenews DEF TypeOK
<1> QED
  BY <1>1, <1>2, <1>3 DEF ServerInfoUnprepared, RecoveryServerInfoRefused

(* Every step of a frame but the Reconnect itself.                          *)
LEMMA FrameRenews ==
  ASSUME AInv, NEW u \in Slots,
         \/ ThinkDisabled
         \/ \E s \in Slots : \/ ThinkClient(s)
                             \/ ThinkNoHandoff(s) \/ ThinkExpired(s)
                             \/ \E channel \in BOOLEAN : ThinkDispatch(s, channel)
  PROVE  Renews(u)
<1> USE DEF AInv, IInv
<1>1. CASE ThinkDisabled
  <2>1. /\ handoff'[u] = NoHandoff
        /\ pin'[u] = IF pin[u].pinned THEN NoPin ELSE pin[u]
    BY <1>1 DEF ThinkDisabled
  <2> QED
    BY <2>1 DEF Renews, NoPin, NoHandoff
<1>2. ASSUME NEW s \in Slots, ThinkClient(s) PROVE Renews(u)
  <2>1. CASE Disconnect(s)
    BY <2>1, DisconnectRenews
  <2>2. CASE pin' = [pin EXCEPT ![s] = ProvenPin(s, pin[s])] /\ handoff' = handoff
    BY <2>2, PinnedKept, PinRenews DEF TypeOK
  <2> QED
    BY <1>2, <2>1, <2>2 DEF ThinkClient
<1>3. ASSUME NEW s \in Slots, ThinkNoHandoff(s) \/ ThinkExpired(s) PROVE Renews(u)
  <2>1. CASE Disconnect(s)
    BY <2>1, DisconnectRenews
  <2>2. CASE pin' = pin /\ handoff' = handoff
    BY <2>2, SameRenews
  <2> QED
    BY <1>3, <2>1, <2>2, AccountAssumption
       DEF ThinkNoHandoff, ThinkExpired, SlotOwned, AccountOf
<1>4. ASSUME NEW s \in Slots, NEW channel \in BOOLEAN, ThinkDispatch(s, channel)
      PROVE  Renews(u)
  <2>1. CASE handoff' = handoff
    BY <1>4, <2>1, SameRenews DEF ThinkDispatch
  <2>2. CASE handoff' = [handoff EXCEPT ![s].phase = "Claimed", ![s].left = Window]
    <3>1. /\ pin' = pin /\ handoff'[s].phase = "Claimed"
          /\ u # s => handoff'[u] = handoff[u]
      BY <1>4, <2>2 DEF ThinkDispatch, TypeOK, Handoff
    <3> QED
      BY <3>1 DEF Renews, Invoked
  <2> QED
    BY <1>4, <2>1, <2>2 DEF ThinkDispatch
<1> QED
  BY <1>1, <1>2, <1>3, <1>4

(* The Reconnect: an epoch of no other slot is asked, and its handoff is    *)
(* invoked.                                                                 *)
LEMMA InvokeAsks ==
  ASSUME AInv, NEW s \in Slots, NEW channel \in BOOLEAN, ThinkInvoke(s, channel),
         NEW u \in Slots
  PROVE  AskedOnce(u)' /\ asked' \subseteq 1 .. next'
<1> USE DEF AInv, IInv
<1>1. /\ AccountOf(s) = handoff[s].account /\ pin[s].serial = handoff[s].failed
      /\ pin[s].pinned /\ pin[s].serial # 0
  BY DEF ThinkInvoke, SlotOwned, AccountOf, Pending, AskedOnce
<1>2. /\ next \in Nat /\ pin[s].serial \in 1 .. next /\ pin[u].serial \in Nat
      /\ u # s => pin[u].serial # pin[s].serial
  BY <1>1, EpochTypes DEF EpochsUnique
<1>3. CASE Disconnect(s) /\ UNCHANGED <<next, asked>>
  BY <1>3, DisconnectRenews, RenewsKeeps
<1>4. CASE ~(Disconnect(s) /\ UNCHANGED <<next, asked>>)
  <2>1. PICK ran \in {{}, {"disconnect"}, {"disconnect", "connect"}} :
          /\ handoff' = [handoff EXCEPT ![s].phase = "Invoked"]
          /\ asked' = asked \cup {pin[s].serial}
          /\ next' = IF "connect" \in ran THEN next + 1 ELSE next
          /\ pin' = [pin EXCEPT ![s] = IF "connect" \in ran THEN Epoch(next + 1)
                                       ELSE IF "disconnect" \in ran THEN NoPin ELSE @]
    BY <1>1, <1>4 DEF ThinkInvoke
  <2>2. next' \in {next, next + 1} /\ asked' \subseteq 1 .. next'
    BY <1>2, <2>1
  <2>3. /\ handoff'[s].phase = "Invoked"
        /\ pin'[s] \in {pin[s], NoPin, Epoch(next + 1)}
        /\ u # s => handoff'[u] = handoff[u] /\ pin'[u] = pin[u]
    BY <2>1 DEF TypeOK, Handoff
  <2>4. 0 \notin asked' /\ next + 1 \notin asked'
    BY <1>2, <2>1
  <2>5. CASE u = s
    <3>1. pin'[s].serial \in asked' => pin'[s] = pin[s]
      BY <2>3, <2>4, EpochSerial
    <3> QED
      BY <1>1, <2>2, <2>3, <2>5, <3>1 DEF AskedOnce, Invoked
  <2>6. CASE u # s
    <3>1. pin'[u].serial \in asked' <=> pin[u].serial \in asked
      BY <1>2, <2>1, <2>3, <2>6
    <3> QED
      BY <2>2, <2>3, <2>6, <3>1 DEF AskedOnce, Invoked
  <2> QED
    BY <2>2, <2>5, <2>6
<1> QED
  BY <1>3, <1>4

LEMMA AskedInductive ==
  ASSUME AInv, [Next]_vars
  PROVE  asked' \subseteq 1 .. next' /\ \A u \in Slots : AskedOnce(u)'
<1>1. next \in Nat
  BY EpochTypes DEF AInv, IInv
<1>2. ASSUME asked' = asked, next' \in {next, next + 1}, \A u \in Slots : Renews(u)
      PROVE  asked' \subseteq 1 .. next' /\ \A u \in Slots : AskedOnce(u)'
  BY <1>1, <1>2, RenewsKeeps DEF AInv
<1>3. ASSUME NEW s \in Slots,
             \/ EngineConnect(s) \/ SteamIdentity(s) \/ EngineDisconnect(s)
             \/ ServerInfoUnchanged(s)
      PROVE  asked' = asked /\ next' = next /\ \A u \in Slots : Renews(u)
  BY <1>3, SameRenews, DisconnectRenews
     DEF EngineConnect, SteamIdentity, EngineDisconnect, ServerInfoUnchanged
<1>4. ASSUME NEW s \in Slots,
             \/ ClientConnect(s) \/ ClientDisconnect(s)
             \/ ClientActive(s) \/ ReadyCommand(s) \/ UnarmedFailure(s) \/ FileRequest(s)
             \/ FailedCommand(s)
      PROVE  asked' = asked /\ next' \in {next, next + 1} /\ \A u \in Slots : Renews(u)
  <2>1. asked' = asked /\ next' \in {next, next + 1}
    BY <1>4 DEF ClientConnect, ClientDisconnect, ClientActive, ReadyCommand, UnarmedFailure,
                FileRequest, FailedCommand
  <2> QED
    BY <1>4, <2>1, CallbacksRenew, CommandsRenew
<1>5. ASSUME NEW s \in Slots,
             \/ ServerInfoUnprepared(s) \/ ServerInfo(s)
             \/ RecoveryServerInfo(s) \/ RecoveryServerInfoRefused(s)
      PROVE  asked' = asked /\ next' \in {next, next + 1} /\ \A u \in Slots : Renews(u)
  <2>1. asked' = asked /\ next' \in {next, next + 1}
    BY <1>5 DEF ServerInfoUnprepared, ServerInfo, RecoveryServerInfo, RecoveryServerInfoRefused
  <2> QED
    BY <1>5, <2>1, BaselinesRenew
<1>6. CASE ThinkStep
  <2>1. CASE ThinkBegin
    BY <1>2, <2>1, SameRenews DEF ThinkBegin
  <2>2. CASE \E s \in Slots, channel \in BOOLEAN : ThinkInvoke(s, channel)
    <3>1. 0 \in Slots
      BY ConstantTypes
    <3> QED
      BY <2>2, <3>1, InvokeAsks
  <2>3. CASE ThinkDisabled \/ \E s \in Slots : ThinkClient(s)
    <3>1. asked' = asked /\ next' = next
      BY <2>3 DEF ThinkDisabled, ThinkClient
    <3> QED
      BY <1>2, <2>3, <3>1, FrameRenews
  <2>4. CASE \E s \in Slots : \/ ThinkNoHandoff(s) \/ ThinkExpired(s)
                             \/ \E channel \in BOOLEAN : ThinkDispatch(s, channel)
    <3>1. asked' = asked /\ next' = next
      BY <2>4 DEF ThinkNoHandoff, ThinkExpired, ThinkDispatch
    <3> QED
      BY <1>2, <2>4, <3>1, FrameRenews
  <2> QED
    BY <1>6, <2>1, <2>2, <2>3, <2>4 DEF ThinkStep, ThinkHandoff
<1>7. CASE Tick \/ ToggleEnable \/ PublishBase \/ UNCHANGED vars
  <2>1. /\ asked' = asked /\ next' = next /\ pin' = pin
        /\ \A u \in Slots : handoff'[u].phase = handoff[u].phase
    <3>1. CASE Tick
      BY <3>1 DEF Tick, AInv, IInv, TypeOK, Handoff
    <3> QED
      BY <1>7, <3>1 DEF ToggleEnable, PublishBase, vars
  <2> QED
    BY <1>2, <2>1, SameRenews
<1>8. CASE LevelShutdown
  <2>1. asked' = {} /\ \A u \in Slots : handoff'[u] = NoHandoff
    BY <1>8 DEF LevelShutdown
  <2> QED
    BY <2>1 DEF AskedOnce, NoHandoff
<1> QED
  BY <1>2, <1>3, <1>4, <1>5, <1>6, <1>7, <1>8 DEF Next

(* For any number of slots and accounts: while no account is logged in      *)
(* twice, the engine Reconnect is invoked at most once for a connection     *)
(* epoch.  A second login's success could clear the latch, and its end drop *)
(* the handoff, by which a second failure of the epoch is refused.          *)
THEOREM OneReconnectAnEpoch ==
  Spec /\ [](\A s \in Slots : Alone(s)) => ReconnectOnce
<1> DEFINE Asked == asked \subseteq 1 .. next /\ \A s \in Slots : AskedOnce(s)
           Fresh == \A s \in Slots : handoff[s].phase = "Queued" /\ handoff'[s].phase = "Invoked"
                                       => handoff[s].failed \notin asked
<1>1. Init => Asked
  BY DEF Init, AskedOnce, NoHandoff, NoPin
<1>2. IInv /\ EpochsUnique /\ SingleLogins /\ Asked /\ [Next]_vars => Asked'
  BY AskedInductive DEF AInv
<1>3. IInv /\ Asked => Fresh
  BY DEF IInv, SlotOwned, AskedOnce, Invoked
<1>4. SingleLogins <=> \A s \in Slots : Alone(s)
  BY DEF SingleLogins
<1>5. ReconnectOnce <=> [][Fresh]_vars
  BY PTL DEF ReconnectOnce
<1> HIDE DEF Asked, Fresh
<1> QED
  BY <1>1, <1>2, <1>3, <1>4, <1>5, Invariant, EpochsAreUnique, PTL DEF Spec
=============================================================================
