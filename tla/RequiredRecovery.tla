-------------------------- MODULE RequiredRecovery --------------------------
(***************************************************************************)
(* The automatic native recovery of a required LuaPack join, as the server *)
(* runs it on its main thread (source/modules/gmoddatapack_luapack.cpp and *)
(* the state machines of gmoddatapack_luapack_policy.h).                    *)
(*                                                                          *)
(* A client of the required lane that cannot resolve its map base reports  *)
(* the failure.  The server then arms an account-owned latch and queues    *)
(* one engine Reconnect for the slot; the next ServerInfo baseline of that *)
(* account consumes the latch and is served wholly native.  The engine     *)
(* decides when connections, Steam identities, signon callbacks and        *)
(* disconnects happen, so each of them is an action of the environment.     *)
(*                                                                          *)
(* Deadlines are kept as the time that is left: "now >= expiresAt" of the  *)
(* code is left = 0 here.                                                   *)
(***************************************************************************)
EXTENDS Naturals, FiniteSets

CONSTANTS
  NSlots,          \* client slots are 0 .. NSlots-1 (ABSOLUTE_PLAYER_LIMIT)
  Accounts,        \* SteamID64 values
  NoAccount,       \* the zero SteamID64
  MaxSerial,       \* bound: connection epochs of one level
  Ttl,             \* requiredRecoveryTtlSeconds
  Window,          \* RecoveryHandoffWindow(Ttl)
  LaneChoices,     \* what ResolveLane may answer under the configuration
  RecoveryEnabled  \* holylib_gmoddatapack_luapack_required_recovery

Slots == 0 .. NSlots - 1
Lanes == {"Unresolved", "Required", "NativeOptOut", "NativeRescue", "NativeRecovery"}

ASSUME NSlotsAssumption == NSlots \in Nat \ {0}
ASSUME AccountAssumption == NoAccount \notin Accounts
ASSUME SerialAssumption == MaxSerial \in Nat
(* RecoveryHandoffWindow is at most half of the latch's time to live.       *)
ASSUME WindowAssumption == Ttl \in Nat /\ Window \in Nat \ {0} /\ 2 * Window <= Ttl
ASSUME LaneAssumption == LaneChoices \subseteq {"Required", "NativeOptOut", "NativeRescue"}
ASSUME EnabledAssumption == RecoveryEnabled \in BOOLEAN

VARIABLES
  enabled,      \* holylib_gmoddatapack_luapack_enable
  lastEnabled,  \* state.featureEnabledLastFrame
  base,      \* state.currentGeneration is not empty
  next,      \* state.nextConnectionSerial
  latch,     \* state.requiredRecovery: the entry of every account
  handoff,   \* state.recoveryHandoffs
  pin,       \* state.clients
  engine,    \* the engine's CBaseClient of every slot
  think,     \* where the main thread is inside LuaPack::Think
  asked,     \* history: epochs on which the engine Reconnect was invoked
  served     \* history: lane of the slot's last ServerInfo baseline

vars == <<enabled, lastEnabled, base, next, latch, handoff, pin, engine, think, asked, served>>

-----------------------------------------------------------------------------
(* Data.                                                                    *)

Serials == 0 .. MaxSerial

Entry == [phase : {"None", "Armed", "Consumed"}, failed : Serials,
          recovery : Serials, left : 0 .. Ttl]
NoEntry == [phase |-> "None", failed |-> 0, recovery |-> 0, left |-> 0]

Handoff == [phase : {"Empty", "Queued", "Invoked", "Claimed"},
            account : Accounts \cup {NoAccount}, failed : Serials, left : 0 .. Window]
NoHandoff == [phase |-> "Empty", account |-> NoAccount, failed |-> 0, left |-> 0]

(* ClientPin.  lane folds deliveryLaneResolved, requiredLane, optOut,       *)
(* nativeLane and requiredRecovery; steam # NoAccount is resolvedIdentity.  *)
Pin == [serial : Serials, pinned : BOOLEAN, lane : Lanes,
        steam : Accounts \cup {NoAccount}, cleared : BOOLEAN,
        active : BOOLEAN, ready : BOOLEAN]
NoPin == [serial |-> 0, pinned |-> FALSE, lane |-> "Unresolved", steam |-> NoAccount,
          cleared |-> FALSE, active |-> FALSE, ready |-> FALSE]

(* What the module reads of the engine's client: m_nSignonState, m_SteamID  *)
(* once it is known, IsFullyAuthenticated, m_bSendServerInfo, and the       *)
(* game-layer callbacks the engine still owes this connection.              *)
Client == [signon : {"none", "connected", "joining", "active"},
           account : Accounts \cup {NoAccount}, known : BOOLEAN, auth : BOOLEAN,
           sendInfo : BOOLEAN, owed : SUBSET {"disconnect", "connect"}]
Vacant == [signon |-> "none", account |-> NoAccount, known |-> FALSE, auth |-> FALSE,
           sendInfo |-> FALSE, owed |-> {}]

Idle == [at |-> "idle", slot |-> 0]

Present(s) == engine[s].signon # "none"
Pending(s) == handoff[s].phase # "Empty"
Invoked(s) == handoff[s].phase \in {"Invoked", "Claimed"}
AccountOf(s) == IF engine[s].known THEN engine[s].account ELSE NoAccount

-----------------------------------------------------------------------------
(* RequiredRecoveryTracker.  An operator named X_... just above an operator *)
(* X is X with a plausible mistake, which some property must notice.        *)

(* Mistake: only an armed entry counts as pending.                          *)
CanArm_OverTombstone(a, c) ==
  c # 0 /\ ~(latch[a].phase = "Armed" /\ latch[a].left > 0)

CanArm(a, c) ==
  /\ c # 0
  /\ \/ latch[a].phase = "None"
     \/ latch[a].phase = "Armed" /\ latch[a].left = 0

(* Mistake: the latch lives no longer than the handoff.                     *)
ArmedEntry_Window(c) == [phase |-> "Armed", failed |-> c, recovery |-> 0, left |-> Window]

ArmedEntry(c) == [phase |-> "Armed", failed |-> c, recovery |-> 0, left |-> Ttl]

(* Mistake: a spent latch is claimed again.                                 *)
ConsumeResult_Spent(a, c) ==
  CASE c = 0 \/ latch[a].phase = "None"                          -> "None"
    [] c # 0 /\ latch[a].phase = "Armed" /\ latch[a].left = 0    -> "Expired"
    [] OTHER -> IF latch[a].failed = c THEN "SameConnection" ELSE "Native"

ConsumeResult(a, c) ==
  CASE c = 0 \/ latch[a].phase = "None"                -> "None"
    [] c # 0 /\ latch[a].phase = "Consumed"            -> "RetryExhausted"
    [] c # 0 /\ latch[a].phase = "Armed" /\ latch[a].left = 0 -> "Expired"
    [] OTHER -> IF latch[a].failed = c THEN "SameConnection" ELSE "Native"

Consumed(a, c) ==
  [latch EXCEPT ![a] =
     CASE ConsumeResult(a, c) = "Native"  -> [@ EXCEPT !.phase = "Consumed", !.recovery = c]
       [] ConsumeResult(a, c) = "Expired" -> NoEntry
       [] OTHER -> @]

OwnsConsumed(a, c) ==
  /\ a # NoAccount /\ c # 0
  /\ latch[a].phase = "Consumed" /\ latch[a].recovery = c

Pruned(e) == IF e.phase = "Armed" /\ e.left = 0 THEN NoEntry ELSE e

-----------------------------------------------------------------------------
(* Client pins.                                                             *)

CanBind(s, p) == engine[s].known /\ p.steam \in {NoAccount, engine[s].account}

Bound(s, p) == IF CanBind(s, p) THEN [p EXCEPT !.steam = engine[s].account] ELSE p

Authenticated(s, p) == CanBind(s, p) /\ engine[s].auth

(* StartClientEpoch, after nextConnectionSerial was advanced to c.          *)
Epoch(c) == [NoPin EXCEPT !.serial = c, !.pinned = enabled /\ base]

(* ResolveDeliveryLane; choice is what ResolveLane answers for the slot.    *)
Recovers(s, p) ==
  /\ RecoveryEnabled
  /\ CanBind(s, p)
  /\ ConsumeResult(engine[s].account, p.serial) = "Native"

Resolved(s, p, choice) ==
  IF p.lane # "Unresolved" THEN p
  ELSE CASE choice = "Required" ->
              IF Recovers(s, p)
              THEN [Bound(s, p) EXCEPT !.lane = "NativeRecovery", !.ready = FALSE]
              ELSE [Bound(s, p) EXCEPT !.lane = "Required"]
         [] choice = "NativeOptOut" ->
              [Bound(s, p) EXCEPT !.lane = choice, !.ready = FALSE]
         [] OTHER -> [p EXCEPT !.lane = choice, !.ready = FALSE]

LatchAfterLane(s, p, choice) ==
  IF p.lane = "Unresolved" /\ choice = "Required" /\ RecoveryEnabled /\ CanBind(s, p)
  THEN Consumed(engine[s].account, p.serial)
  ELSE latch

RequiredLane(p) == p.lane \in {"Required", "NativeRecovery"}

(* Mistake: asks the handoff, which the recovery baseline has consumed.     *)
Preserves_Pending(s) == pin[s].lane = "NativeRecovery" /\ Pending(s)

(* PreserveClaimedRecoveryLifecycle for a game-layer callback.              *)
Preserves(s) ==
  /\ pin[s].lane = "NativeRecovery" /\ ~pin[s].active /\ ~pin[s].cleared
  /\ engine[s].known /\ pin[s].steam = engine[s].account
  /\ OwnsConsumed(pin[s].steam, pin[s].serial)

(* ShouldIgnoreLateRecoveryFailure.                                         *)
LateFailure(s) ==
  /\ pin[s].lane = "NativeRecovery"
  /\ OwnsConsumed(pin[s].steam, pin[s].serial) \/ pin[s].cleared

(* ClearProvenRecoveryState on the pin p of slot s.                         *)
Proving(p) == p.active /\ ~p.cleared

Proves(s, p) == Proving(p) /\ Authenticated(s, p)

Succeeded(p) == p.lane = "NativeOptOut" \/ (p.lane = "Required" /\ p.ready)

RetainsOwnLatch(a, c) == c # 0 /\ latch[a].phase = "Armed" /\ latch[a].failed = c

ProvenPin(s, p) ==
  IF ~Proves(s, p) THEN IF Proving(p) THEN Bound(s, p) ELSE p
  ELSE LET a == engine[s].account IN
       [Bound(s, p) EXCEPT !.cleared =
          \/ p.lane = "NativeRecovery" /\ OwnsConsumed(a, p.serial)
          \/ Succeeded(p) /\ ~RetainsOwnLatch(a, p.serial)]

ProvenLatch(s, p) ==
  LET a == engine[s].account IN
  IF /\ Proves(s, p)
     /\ \/ p.lane = "NativeRecovery" /\ OwnsConsumed(a, p.serial)
        \/ Succeeded(p) /\ p.serial # 0 /\ ~RetainsOwnLatch(a, p.serial)
  THEN [latch EXCEPT ![a] = NoEntry]
  ELSE latch

(* Mistake: an invoked handoff survives the physical disconnect as well.    *)
DropHandoffs_KeepInvoked(s) ==
  [t \in Slots |-> IF t = s /\ ~Invoked(t) THEN NoHandoff ELSE handoff[t]]

(* PhysicalClientDisconnect and what is left of the slot after it: the      *)
(* engine runs it inside CBaseClient::Disconnect.                           *)
DropHandoffs(s) ==
  [t \in Slots |->
     IF t = s \/ (engine[s].known /\ handoff[t].account = engine[s].account)
     THEN NoHandoff ELSE handoff[t]]

(* Mistake: the physical disconnect also preserves a claimed recovery.      *)
Disconnect_Preserving(s) ==
  /\ handoff' = DropHandoffs(s)
  /\ pin' = IF Preserves(s) THEN pin ELSE [pin EXCEPT ![s] = NoPin]
  /\ engine' = [engine EXCEPT ![s] = Vacant]
  /\ served' = [served EXCEPT ![s] = "none"]

Disconnect(s) ==
  /\ handoff' = DropHandoffs(s)
  /\ pin' = [pin EXCEPT ![s] = NoPin]
  /\ engine' = [engine EXCEPT ![s] = Vacant]
  /\ served' = [served EXCEPT ![s] = "none"]

(* RequiredRecoveryTracker::Reset.                                          *)
ForgetRecoveries_Not == UNCHANGED latch

ForgetRecoveries == latch' = [a \in Accounts |-> NoEntry]

-----------------------------------------------------------------------------
Init ==
  /\ enabled \in BOOLEAN
  /\ lastEnabled = enabled
  /\ base = FALSE
  /\ next = 0
  /\ latch = [a \in Accounts |-> NoEntry]
  /\ handoff = [s \in Slots |-> NoHandoff]
  /\ pin = [s \in Slots |-> NoPin]
  /\ engine = [s \in Slots |-> Vacant]
  /\ think = Idle
  /\ asked = {}
  /\ served = [s \in Slots |-> "none"]

MainThreadFree == think.at = "idle"

-----------------------------------------------------------------------------
(* The engine.                                                              *)

(* A client is given the slot; its SteamID may or may not be exposed yet.   *)
EngineConnect(s) ==
  /\ MainThreadFree /\ ~Present(s)
  /\ \E a \in Accounts, known \in BOOLEAN :
       engine' = [engine EXCEPT ![s] =
         [signon |-> "connected", account |-> a, known |-> known, auth |-> FALSE,
          sendInfo |-> FALSE, owed |-> {"connect"}]]
  /\ UNCHANGED <<enabled, lastEnabled, base, next, latch, handoff, pin, think, asked, served>>

(* Steam exposes the ticket's identity, then validates it.                  *)
SteamIdentity(s) ==
  /\ MainThreadFree /\ Present(s)
  /\ \/ /\ ~engine[s].known
        /\ engine' = [engine EXCEPT ![s].known = TRUE]
     \/ /\ engine[s].known /\ ~engine[s].auth
        /\ engine' = [engine EXCEPT ![s].auth = TRUE]
  /\ UNCHANGED <<enabled, lastEnabled, base, next, latch, handoff, pin, think, asked, served>>

EngineDisconnect(s) ==
  /\ MainThreadFree /\ Present(s)
  /\ Disconnect(s)
  /\ UNCHANGED <<enabled, lastEnabled, base, next, latch, think, asked>>

(* Time passes for every armed latch and every pending handoff.             *)
Tick ==
  /\ \/ \E a \in Accounts : latch[a].phase = "Armed" /\ latch[a].left > 0
     \/ \E s \in Slots : Pending(s) /\ handoff[s].left > 0
  /\ latch' = [a \in Accounts |->
       IF latch[a].phase = "Armed" /\ latch[a].left > 0
       THEN [latch[a] EXCEPT !.left = @ - 1] ELSE latch[a]]
  /\ handoff' = [s \in Slots |->
       IF Pending(s) /\ handoff[s].left > 0
       THEN [handoff[s] EXCEPT !.left = @ - 1] ELSE handoff[s]]
  /\ UNCHANGED <<enabled, lastEnabled, base, next, pin, engine, think, asked, served>>

-----------------------------------------------------------------------------
(* Game-layer callbacks, which the engine runs late and in either order     *)
(* around a reconnect.                                                      *)

(* The engine's SetSignonState(CONNECTED) runs ClientConnect and then asks  *)
(* for a baseline; after a Reconnect that may come after the dispatched one. *)
ClientConnect(s) ==
  /\ MainThreadFree /\ "connect" \in engine[s].owed
  /\ engine' = [engine EXCEPT ![s].signon = "connected", ![s].sendInfo = TRUE,
                              ![s].owed = @ \ {"connect"}]
  /\ served' = [served EXCEPT ![s] = "none"]
  /\ \/ /\ Preserves(s)
        /\ UNCHANGED <<next, handoff, pin>>
     \/ /\ ~Preserves(s)
        /\ next < MaxSerial
        /\ next' = next + 1
        /\ pin' = [pin EXCEPT ![s] = Epoch(next + 1)]
        /\ handoff' = IF Invoked(s) THEN handoff ELSE [handoff EXCEPT ![s] = NoHandoff]
  /\ UNCHANGED <<enabled, lastEnabled, base, latch, think, asked>>

ClientDisconnect(s) ==
  /\ MainThreadFree /\ "disconnect" \in engine[s].owed
  /\ engine' = [engine EXCEPT ![s].owed = @ \ {"disconnect"}]
  /\ \/ /\ Preserves(s)
        /\ UNCHANGED <<handoff, pin>>
     \/ /\ ~Preserves(s)
        /\ pin' = [pin EXCEPT ![s] = NoPin]
        /\ handoff' = IF Invoked(s) THEN handoff ELSE [handoff EXCEPT ![s] = NoHandoff]
  /\ UNCHANGED <<enabled, lastEnabled, base, next, latch, think, asked, served>>

ClientActive(s) ==
  /\ MainThreadFree
  /\ engine[s].signon = "joining" /\ engine[s].owed = {}
  /\ engine' = [engine EXCEPT ![s].signon = "active"]
  /\ LET p == [pin[s] EXCEPT !.active = TRUE] IN
       /\ pin' = [pin EXCEPT ![s] = ProvenPin(s, p)]
       /\ latch' = ProvenLatch(s, p)
  /\ UNCHANGED <<enabled, lastEnabled, base, next, handoff, think, asked, served>>

-----------------------------------------------------------------------------
(* SendServerInfo, the boundary at which a connection's baseline and lane   *)
(* are decided (SendLuaPackServerInfoNow and DecideBaselineForClient).      *)

(* The engine asks, a scheduled request is drained, or Think has just       *)
(* dispatched the handoff of this very slot.                                *)
ServerInfoDue(s) ==
  /\ MainThreadFree \/ (think = [at |-> "handoffs", slot |-> s] /\ handoff[s].phase = "Claimed")
  /\ engine[s].signon = "connected" /\ engine[s].sendInfo

Serve(s, lane) ==
  /\ engine' = [engine EXCEPT ![s].signon = "joining", ![s].sendInfo = FALSE]
  /\ served' = [served EXCEPT ![s] = lane]

(* RegistrationRefreshPending holds from a switch of the feature to the     *)
(* next frame, and beyond while that frame's sweep runs.                    *)
Prepared == enabled = lastEnabled

(* LuaPack is off: the engine's own baseline is sent unchanged.             *)
ServerInfoUnchanged(s) ==
  /\ ServerInfoDue(s) /\ Prepared /\ ~enabled
  /\ Serve(s, "none")
  /\ UNCHANGED <<enabled, lastEnabled, base, next, latch, handoff, pin, think, asked>>

(* BaselinePreparationPending: a registration refresh or the map base is    *)
(* under way.  Both are another component's, so it may hold at any time.    *)
ServerInfoUnprepared(s) ==
  /\ ServerInfoDue(s)
  /\ Disconnect(s)
  /\ UNCHANGED <<enabled, lastEnabled, base, next, latch, think, asked>>

Candidates(s) == {t \in Slots : Pending(t) /\ handoff[t].account = AccountOf(s)}

(* RequiredRecoveryHandoff::BeginBaseline accepts the handoff of slot t.    *)
CanBegin(s, t) == handoff[t].left > 0 /\ engine[s].auth /\ Invoked(t)

(* BeginPendingRecoveryBaseline takes over: exactly one handoff, in any     *)
(* slot, belongs to this account.                                           *)
RecoveryServerInfo(s) ==
  /\ ServerInfoDue(s) /\ Prepared /\ enabled
  /\ next < MaxSerial
  /\ \E t \in Candidates(s) :
       /\ Candidates(s) = {t} /\ CanBegin(s, t)
       /\ next' = next + 1
       /\ latch' = Consumed(engine[s].account, next + 1)
       /\ IF ConsumeResult(engine[s].account, next + 1) = "Native"
          THEN /\ handoff' = [handoff EXCEPT ![t] = NoHandoff]
               /\ pin' = [pin EXCEPT ![s] =
                    [Epoch(next + 1) EXCEPT !.steam = engine[s].account,
                                            !.lane = "NativeRecovery"]]
               /\ Serve(s, "NativeRecovery")
          ELSE Disconnect(s)
  /\ UNCHANGED <<enabled, lastEnabled, base, think, asked>>

(* A pending handoff of this account or slot that cannot begin rejects the  *)
(* baseline: it expired, was not invoked, is not authenticated, is one of   *)
(* several, or belongs to another account than this slot's client.          *)
RecoveryServerInfoRefused(s) ==
  /\ ServerInfoDue(s) /\ Prepared /\ enabled
  /\ \/ Cardinality(Candidates(s)) > 1
     \/ \E t \in Candidates(s) : Candidates(s) = {t} /\ ~CanBegin(s, t)
     \/ Candidates(s) = {} /\ Pending(s)
  /\ Disconnect(s)
  /\ UNCHANGED <<enabled, lastEnabled, base, next, latch, think, asked>>

(* No recovery is pending: resolve the lane, starting an epoch when the     *)
(* game layer has not, and serve it when its base is usable.                *)
ServerInfo(s) ==
  /\ ServerInfoDue(s) /\ Prepared /\ enabled
  /\ Candidates(s) = {} /\ ~Pending(s)
  /\ pin[s].serial = 0 => next < MaxSerial
  /\ next' = IF pin[s].serial = 0 THEN next + 1 ELSE next
  /\ \E choice \in LaneChoices, usable \in BOOLEAN :
       LET p == IF pin[s].serial = 0 THEN Epoch(next + 1) ELSE pin[s]
           q == Resolved(s, p, choice)
       IN /\ latch' = LatchAfterLane(s, p, choice)
          /\ IF q.lane = "Required" /\ ~(usable /\ (q.pinned \/ base))
             THEN Disconnect(s)
             ELSE /\ pin' = [pin EXCEPT ![s] =
                               [q EXCEPT !.pinned = @ \/ (q.lane = "Required" /\ base)]]
                  /\ Serve(s, q.lane)
                  /\ UNCHANGED handoff
  /\ UNCHANGED <<enabled, lastEnabled, base, think, asked>>

(* A file request (DecideDeliveryForClient) resolves the lane when nothing  *)
(* did before, and rejects a required client without a usable base.         *)
FileRequest(s) ==
  /\ MainThreadFree /\ enabled
  /\ engine[s].signon \in {"joining", "active"}
  /\ \E choice \in LaneChoices, usable \in BOOLEAN :
       LET q == Resolved(s, pin[s], choice) IN
       /\ latch' = LatchAfterLane(s, pin[s], choice)
       /\ IF q.lane = "Required" /\ ~(usable /\ q.pinned)
          THEN Disconnect(s)
          ELSE /\ pin' = [pin EXCEPT ![s] = q]
               /\ UNCHANGED <<handoff, engine, served>>
  /\ UNCHANGED <<enabled, lastEnabled, base, next, think, asked>>

-----------------------------------------------------------------------------
(* Console commands of the client bootstrap (ClientCommand).                *)

ExactFailure(s) == pin[s].lane = "Required" /\ pin[s].pinned

(* The latch can be armed for the authenticated owner of this epoch.        *)
Arms(s) ==
  /\ RecoveryEnabled /\ Authenticated(s, pin[s])
  /\ CanArm(engine[s].account, pin[s].serial)

(* holylib_luapack_failed that names the pinned generation.                 *)
FailedCommand(s) ==
  /\ MainThreadFree /\ Present(s) /\ enabled
  /\ ExactFailure(s) /\ Arms(s)
  /\ LET a == engine[s].account IN
     IF ~Pending(s)
     THEN /\ latch' = [latch EXCEPT ![a] = ArmedEntry(pin[s].serial)]
          /\ handoff' = [handoff EXCEPT ![s] =
               [phase |-> "Queued", account |-> a, failed |-> pin[s].serial,
                left |-> Window]]
          /\ pin' = [pin EXCEPT ![s] = Bound(s, @)]
          /\ UNCHANGED <<engine, served>>
     ELSE /\ latch' = [latch EXCEPT ![a] = NoEntry]
          /\ Disconnect(s)
  /\ UNCHANGED <<enabled, lastEnabled, base, next, think, asked>>

(* A failure report that arms nothing, malformed, stale or exhausted, or    *)
(* the legacy holylib_luapack_unready: a required client is disconnected,   *)
(* any other loses its READY state.  Reports late for the failed baseline   *)
(* of a native recovery are ignored.                                        *)
UnarmedFailure(s) ==
  /\ MainThreadFree /\ Present(s) /\ enabled
  /\ ~LateFailure(s)
  /\ IF RequiredLane(pin[s]) THEN Disconnect(s)
     ELSE /\ pin' = [pin EXCEPT ![s].ready = FALSE]
          /\ UNCHANGED <<handoff, engine, served>>
  /\ UNCHANGED <<enabled, lastEnabled, base, next, latch, think, asked>>

(* holylib_luapack_ready for the pinned generation.                         *)
ReadyCommand(s) ==
  /\ MainThreadFree /\ Present(s) /\ enabled
  /\ pin[s].pinned /\ pin[s].lane \in {"Unresolved", "Required"}
  /\ LET p == [pin[s] EXCEPT !.ready = TRUE] IN
       /\ pin' = [pin EXCEPT ![s] = ProvenPin(s, p)]
       /\ latch' = ProvenLatch(s, p)
  /\ UNCHANGED <<enabled, lastEnabled, base, next, handoff, engine, think, asked, served>>

-----------------------------------------------------------------------------
(* Think.  One frame walks the slots twice, first their handoffs and then   *)
(* their pins; think.at keeps every other main-thread handler out.          *)

(* Mistake: the pins of the epochs that failed stay.                        *)
ThinkDisabled_KeepPins ==
  /\ MainThreadFree /\ ~enabled
  /\ handoff' = [s \in Slots |-> NoHandoff]
  /\ ForgetRecoveries
  /\ lastEnabled' = enabled
  /\ UNCHANGED <<enabled, base, next, pin, engine, think, asked, served>>

ThinkDisabled ==
  /\ MainThreadFree /\ ~enabled
  /\ pin' = [s \in Slots |-> IF pin[s].pinned THEN NoPin ELSE pin[s]]
  /\ handoff' = [s \in Slots |-> NoHandoff]
  /\ ForgetRecoveries
  /\ lastEnabled' = enabled
  /\ UNCHANGED <<enabled, base, next, engine, think, asked, served>>

ThinkBegin ==
  /\ MainThreadFree /\ enabled
  /\ think' = [at |-> "handoffs", slot |-> 0]
  /\ lastEnabled' = enabled
  /\ UNCHANGED <<enabled, base, next, latch, handoff, pin, engine, asked, served>>

(* Mistake: the walk runs one slot too far.                                 *)
NextHandoff_TooFar ==
  think' = IF think.slot < NSlots THEN [think EXCEPT !.slot = @ + 1]
           ELSE [at |-> "clients", slot |-> 0]

NextHandoff ==
  think' = IF think.slot + 1 < NSlots THEN [think EXCEPT !.slot = @ + 1]
           ELSE [at |-> "clients", slot |-> 0]

AtHandoff(s) == think.at = "handoffs" /\ think.slot = s

(* TryInvoke: the engine reconnect of a queued handoff.  A slot that no     *)
(* longer holds the failed connection only drops the handoff.  The          *)
(* game-layer callbacks run inside Reconnect or are delivered after it.     *)
ThinkInvoke(s, channel) ==
  /\ handoff[s].phase = "Queued"
  /\ next < MaxSerial
  /\ NextHandoff
  /\ IF AccountOf(s) # handoff[s].account \/ pin[s].serial # handoff[s].failed
     THEN /\ handoff' = [handoff EXCEPT ![s] = NoHandoff]
          /\ UNCHANGED <<next, pin, engine, served, asked>>
     ELSE IF ~(engine[s].auth /\ channel)
     THEN Disconnect(s) /\ UNCHANGED <<next, asked>>
     ELSE /\ handoff' = [handoff EXCEPT ![s].phase = "Invoked"]
          /\ asked' = asked \cup {pin[s].serial}
          /\ served' = [served EXCEPT ![s] = "none"]
          /\ \E ran \in {{}, {"disconnect"}, {"disconnect", "connect"}}, queued \in BOOLEAN :
               /\ next' = IF "connect" \in ran THEN next + 1 ELSE next
               /\ pin' = [pin EXCEPT ![s] =
                    IF "connect" \in ran THEN Epoch(next + 1)
                    ELSE IF "disconnect" \in ran THEN NoPin ELSE @]
               /\ engine' = [engine EXCEPT ![s].signon = "connected",
                    ![s].sendInfo = queued \/ "connect" \in ran, ![s].owed = {"disconnect", "connect"} \ ran]

Dispatchable(s) == handoff[s].phase = "Invoked"

(* TryDispatchServerInfo: one native ServerInfo for the restarted signon,   *)
(* sent before the walk goes on (ServerInfoDue) or left to the scheduler.   *)
ThinkDispatch(s, channel) ==
  /\ Dispatchable(s)
  /\ IF /\ AccountOf(s) = handoff[s].account /\ engine[s].auth /\ channel
        /\ engine[s].signon = "connected"
     THEN /\ handoff' = [handoff EXCEPT ![s].phase = "Claimed", ![s].left = Window]
          /\ engine' = [engine EXCEPT ![s].sendInfo = TRUE]
          /\ UNCHANGED think
     ELSE UNCHANGED <<handoff, engine>> /\ NextHandoff
  /\ UNCHANGED <<next, pin, served, asked>>

(* Mistake: a claimed handoff is never asked for its expiry.                *)
ThinkNoHandoff_Kept(s) ==
  /\ ~Pending(s) \/ handoff[s].phase = "Claimed"
  /\ NextHandoff
  /\ UNCHANGED <<next, handoff, pin, engine, served, asked>>

(* Nothing pending, or a claimed handoff that still has time.               *)
ThinkNoHandoff(s) ==
  /\ ~Pending(s) \/ (handoff[s].phase = "Claimed" /\ handoff[s].left > 0)
  /\ NextHandoff
  /\ UNCHANGED <<next, handoff, pin, engine, served, asked>>

(* The window closed: only the client that owns the handoff is disconnected. *)
ThinkExpired(s) ==
  /\ Pending(s) /\ handoff[s].left = 0
  /\ NextHandoff
  /\ IF AccountOf(s) = handoff[s].account THEN Disconnect(s)
     ELSE /\ handoff' = [handoff EXCEPT ![s] = NoHandoff]
          /\ UNCHANGED <<pin, engine, served>>
  /\ UNCHANGED <<next, asked>>

ThinkHandoff(s) ==
  /\ AtHandoff(s)
  /\ \/ ThinkNoHandoff(s) \/ ThinkExpired(s)
     \/ /\ handoff[s].left > 0
        /\ \E channel \in BOOLEAN : ThinkInvoke(s, channel) \/ ThinkDispatch(s, channel)
  /\ UNCHANGED <<enabled, lastEnabled, base, latch>>

(* The second walk clears proven recoveries and disconnects a required      *)
(* client whose READY deadline passed; the last slot also prunes expired    *)
(* latches (PruneAfter).                                                    *)
PruneAfter(s, l) ==
  IF s = NSlots - 1 THEN [a \in Accounts |-> Pruned(l[a])] ELSE l

NextClient ==
  think' = IF think.slot + 1 < NSlots THEN [think EXCEPT !.slot = @ + 1] ELSE Idle

ThinkClient(s) ==
  /\ think.at = "clients" /\ think.slot = s /\ NextClient
  /\ latch' = PruneAfter(s, ProvenLatch(s, pin[s]))
  /\ \/ /\ pin' = [pin EXCEPT ![s] = ProvenPin(s, pin[s])]
        /\ UNCHANGED <<handoff, engine, served>>
     \/ /\ pin[s].pinned /\ pin[s].active /\ ~pin[s].ready
        /\ pin[s].lane = "Required" /\ Present(s)
        /\ Disconnect(s)
  /\ UNCHANGED <<enabled, lastEnabled, base, next, asked>>

-----------------------------------------------------------------------------
(* Operator and level.                                                      *)

ToggleEnable ==
  /\ MainThreadFree
  /\ enabled' = ~enabled
  /\ UNCHANGED <<lastEnabled, base, next, latch, handoff, pin, engine, think, asked, served>>

(* The immutable map base of the level is published (module MapBase).       *)
PublishBase ==
  /\ MainThreadFree /\ enabled /\ lastEnabled /\ ~base
  /\ base' = TRUE
  /\ UNCHANGED <<enabled, lastEnabled, next, latch, handoff, pin, engine, think, asked, served>>

(* LevelShutdown resets the module; the engine restarts the signon of every *)
(* client that stays for the next level.                                    *)
LevelShutdown ==
  /\ MainThreadFree
  /\ base' = FALSE /\ next' = 0 /\ asked' = {} /\ lastEnabled' = FALSE
  /\ ForgetRecoveries
  /\ handoff' = [s \in Slots |-> NoHandoff]
  /\ pin' = [s \in Slots |-> NoPin]
  /\ served' = [s \in Slots |-> "none"]
  /\ engine' = [s \in Slots |->
       IF Present(s) THEN [engine[s] EXCEPT !.signon = "connected", !.sendInfo = FALSE,
                                            !.owed = {"connect"}]
       ELSE Vacant]
  /\ UNCHANGED <<enabled, think>>

ThinkStep == ThinkDisabled \/ ThinkBegin \/ \E s \in Slots : ThinkHandoff(s) \/ ThinkClient(s)

Next ==
  \/ \E s \in Slots :
       \/ EngineConnect(s) \/ SteamIdentity(s) \/ EngineDisconnect(s)
       \/ ClientConnect(s) \/ ClientDisconnect(s) \/ ClientActive(s)
       \/ ServerInfoUnchanged(s) \/ ServerInfoUnprepared(s) \/ ServerInfo(s)
       \/ RecoveryServerInfo(s) \/ RecoveryServerInfoRefused(s) \/ FileRequest(s)
       \/ FailedCommand(s) \/ UnarmedFailure(s) \/ ReadyCommand(s)
  \/ ThinkStep \/ Tick
  \/ ToggleEnable \/ PublishBase \/ LevelShutdown

Spec == Init /\ [][Next]_vars

(* The server keeps running frames and the clock keeps running.             *)
Fairness == WF_vars(ThinkStep) /\ WF_vars(Tick)

FairSpec == Spec /\ Fairness
-----------------------------------------------------------------------------
(* Properties.                                                              *)

(* Every variable of the recovery keeps its type.                           *)
TypeOK ==
  /\ {enabled, lastEnabled, base} \subseteq BOOLEAN
  /\ next \in Serials
  /\ latch \in [Accounts -> Entry]
  /\ handoff \in [Slots -> Handoff]
  /\ pin \in [Slots -> Pin]
  /\ engine \in [Slots -> Client]
  /\ think \in [at : {"idle", "handoffs", "clients"}, slot : Slots]
  /\ asked \subseteq Serials
  /\ served \in [Slots -> Lanes \cup {"none"}]

(* A connection epoch names one connection: no two slots hold the same      *)
(* epoch, none is newer than the counter, and the epoch that spends a latch *)
(* is not the one that armed it (StartClientEpoch and Consume).             *)
EpochsUnique ==
  /\ \A s \in Slots : pin[s].serial <= next /\ handoff[s].failed <= next
  /\ \A a \in Accounts : latch[a].failed <= next /\ latch[a].recovery <= next
  /\ \A s, t \in Slots : s # t /\ pin[s].serial # 0 => pin[s].serial # pin[t].serial
  /\ \A a \in Accounts : latch[a].phase = "Consumed" => latch[a].failed # latch[a].recovery

(* An identity bound to a slot is that of the client now in it: whatever    *)
(* the order of the game-layer and physical disconnects, a reused slot      *)
(* never inherits another player's identity, and with it a recovery.        *)
IdentityOfOccupant ==
  \A s \in Slots : pin[s].steam # NoAccount =>
    engine[s].known /\ engine[s].account = pin[s].steam

(* A pending handoff belongs to the client in its slot, and while it is     *)
(* queued to the very epoch that failed, so the engine Reconnect never hits *)
(* another connection (the ownership mismatch of TryInvoke is unreachable).  *)
HandoffOwned ==
  \A s \in Slots : Pending(s) =>
    /\ engine[s].known /\ engine[s].account = handoff[s].account
    /\ handoff[s].phase = "Queued" =>
         pin[s].serial = handoff[s].failed /\ pin[s].steam = handoff[s].account

(* The latch a pending handoff counts on outlives it: it is still armed by  *)
(* the same failure and expires later than the handoff, so a baseline that  *)
(* begins in time is never refused by Consume.  Only another connection of  *)
(* the same account can have taken the latch.                               *)
Alone(s) == \A t \in Slots \ {s} : ~(Present(t) /\ engine[t].account = engine[s].account)

LatchOutlivesHandoff ==
  \A s \in Slots : Pending(s) /\ handoff[s].left > 0 /\ Alone(s) =>
    LET e == latch[handoff[s].account] IN
    /\ e.phase = "Armed" /\ e.failed = handoff[s].failed
    /\ e.left >= handoff[s].left + (IF handoff[s].phase = "Claimed" THEN 0 ELSE Window)

(* The engine Reconnect is invoked at most once for a connection epoch.     *)
ReconnectOnce ==
  [][\A s \in Slots :
       handoff[s].phase = "Queued" /\ handoff'[s].phase = "Invoked"
         => handoff[s].failed \notin asked]_vars

(* The tombstone of a spent recovery outlives disconnects, timeouts and     *)
(* slot reuse: only a connection of that account that is active and         *)
(* authenticated, a disabled module or a level change removes it.           *)
TombstoneKept ==
  [][\A a \in Accounts :
       latch[a].phase = "Consumed" /\ latch'[a] # latch[a] =>
         \/ /\ latch'[a] = NoEntry
            /\ \E s \in Slots : /\ ~pin[s].cleared /\ pin'[s].cleared
                               /\ pin'[s].active /\ pin'[s].steam = a /\ engine[s].auth
         \/ latch'[a] = NoEntry /\ ~enabled
         \/ latch' = [b \in Accounts |-> NoEntry] /\ ~base']_vars

(* The state machine of latches and lanes implements OneShotRecovery.       *)
OneShot == INSTANCE OneShotRecovery WITH
  Epochs <- Serials,
  phase <- [a \in Accounts |-> latch[a].phase],
  failed <- [a \in Accounts |-> latch[a].failed],
  recovery <- [a \in Accounts |-> latch[a].recovery],
  recovering <- [s \in Slots |-> IF pin[s].lane = "NativeRecovery" THEN pin[s].serial ELSE 0]

OneShotSpec == OneShot!Spec

(* A handoff never stays pending: it begins its baseline, is dropped or     *)
(* expires, however slowly the client authenticates and signs on.           *)
HandoffResolves == \A s \in Slots : Pending(s) ~> ~Pending(s)

(* Lua bodies follow the lane the connection's ServerInfo baseline was      *)
(* serialised with, whatever order the callbacks around a reconnect take    *)
(* (docs/luapack.md: "Recovery never changes the failed join's lane in      *)
(* progress").  Only disabling the module resolves the lane of a served     *)
(* connection again.                                                        *)
BodiesFollowBaseline ==
  []enabled =>
    [](\A s \in Slots : served[s] # "none" /\ pin[s].lane # "Unresolved"
         => pin[s].lane = served[s])
=============================================================================
