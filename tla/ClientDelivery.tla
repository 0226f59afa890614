--------------------------- MODULE ClientDelivery ---------------------------
(***************************************************************************)
(* What one client of the required lane gets between its ServerInfo and    *)
(* the end of its join (source/modules/gmoddatapack.cpp and the queues of  *)
(* gmoddatapack_luapack_policy.h): the ServerInfo requests the engine      *)
(* polls are queued per slot and served a few per frame, each baseline     *)
(* pins the files whose placeholder it announced, the requested            *)
(* placeholders are queued per client and written to the reliable stream a *)
(* few per frame, round-robin.                                             *)
(*                                                                         *)
(* Everything runs on the main thread.  CGModDataPackModule::Think drains  *)
(* both queues; while frame.at is not "idle" nothing else happens.  Lanes, *)
(* recovery and the registration sweep are modules of their own            *)
(* (RequiredRecovery, RegistrationRefresh): here a lane is what the        *)
(* connection was given and the gate is open or closed.                    *)
(***************************************************************************)
EXTENDS Naturals, Sequences, FiniteSets, SequencesExt, Subsequences

CONSTANTS
  NSlots,      \* client slots are 1 .. NSlots
  Watched,     \* the slots the liveness properties are about: slots are all alike
  NFiles,      \* IDs of client_lua_files without the path entry and init
  Baselines,   \* which of them a required baseline may announce as placeholders
  Edited,      \* the files that are registered again
  InfoBudget,  \* holylib_gmoddatapack_luapack_serverinfo_budget
  StubBudget,  \* holylib_gmoddatapack_luapack_required_stub_budget
  Space,       \* placeholders that fit into an empty reliable stream
  MaxEvents    \* bound: switches, level changes and re-registrations

Slot == 1 .. NSlots
File == 1 .. NFiles

ASSUME BudgetAssumption == InfoBudget \in Nat \ {0} /\ StubBudget \in Nat \ {0}
ASSUME WatchedAssumption == Watched \subseteq Slot /\ Watched # {}
ASSUME FileAssumption == Baselines \subseteq SUBSET File /\ Baselines # {} /\ Edited \subseteq File
ASSUME SpaceAssumption == Space \in Nat \ {0}
ASSUME BoundAssumption == {NSlots, NFiles, MaxEvents} \subseteq Nat

VARIABLES
  enabled,     \* IsEnabled()
  refresh,     \* RegistrationRefreshPending()
  baseWork,    \* the first map base is requested or being built
  client,      \* the engine's client of every slot, with its lane
  pending,     \* g_pendingLuaPackServerInfos: the connection, 0 for none
  infoQueue,   \* g_luaPackServerInfoScheduler
  pins,        \* g_clientPinnedCanonicalFiles
  stubs,       \* g_clientRequiredStubQueues[].pending
  stubQueue,   \* g_requiredStubScheduler
  space,       \* placeholders that still fit into the slot's reliable stream
  frame,       \* where the main thread is in Think
  events       \* how many switches, level changes and re-registrations there were

gate == <<enabled, refresh, baseWork>>
queues == <<pending, infoQueue, pins, stubs, stubQueue>>
vars == <<gate, client, queues, space, frame, events>>

(* conn stands for what QueuedServerInfoIdentityMatches compares: client,   *)
(* channel, user ID and challenge; that of a new connection is not that of  *)
(* a queued token.  want: m_bSendServerInfo; base: the map  *)
(* base is pinned; changed is history: files registered again since the     *)
(* client's baseline.                                                       *)
Client == [conn : 0 .. 2, signon : {"none", "connected", "new", "prespawn", "active"},
           want : BOOLEAN, lane : {"native", "required"}, base : BOOLEAN, changed : SUBSET File]
Vacant == [conn |-> 0, signon |-> "none", want |-> FALSE, lane |-> "native", base |-> FALSE,
           changed |-> {}]

Idle == [at |-> "idle", left |-> 0, served |-> 0, sent |-> 0, stuck |-> 0]
MainThreadFree == frame.at = "idle"

Present(s) == client[s].conn # 0
Served == {"new", "prespawn", "active"}
Waiting(s) == client[s].signon = "connected" /\ client[s].want

(* BaselinePreparationPending, for a server with required stubbing.         *)
Preparing == refresh \/ (enabled /\ baseWork)

TypeOK ==
  /\ {enabled, refresh, baseWork} \subseteq BOOLEAN
  /\ client \in [Slot -> Client]
  /\ pending \in [Slot -> 0 .. 2]
  /\ infoQueue \in Seq(Slot) /\ stubQueue \in Seq(Slot)
  /\ pins \in [Slot -> SUBSET File]
  /\ stubs \in [Slot -> Seq(File)]
  /\ space \in [Slot -> 0 .. Space]
  /\ frame \in [at : {"idle", "info", "stubs"}, left : Nat, served : 0 .. InfoBudget,
                sent : 0 .. StubBudget, stuck : Nat]
  /\ events \in 0 .. MaxEvents

Init ==
  /\ enabled \in BOOLEAN /\ refresh = FALSE /\ baseWork = enabled
  /\ client = [s \in Slot |-> Vacant]
  /\ pending = [s \in Slot |-> 0] /\ infoQueue = <<>>
  /\ pins = [s \in Slot |-> {}] /\ stubs = [s \in Slot |-> <<>>] /\ stubQueue = <<>>
  /\ space = [s \in Slot |-> Space]
  /\ frame = Idle
  /\ events = 0

-----------------------------------------------------------------------------
(* Clearing a slot.                                                         *)

Without(q, s) == Those(q, Range(q) \ {s})

(* ClearClientPinnedRequiredDeliveryState.                                  *)
ClearPinned(s) ==
  /\ pins' = [pins EXCEPT ![s] = {}]
  /\ stubs' = [stubs EXCEPT ![s] = <<>>]
  /\ stubQueue' = Without(stubQueue, s)

(* Mistake: only the ServerInfo request is cleared.                         *)
ClearDelivery_InfoOnly(s) ==
  /\ UNCHANGED <<pins, stubs, stubQueue>>
  /\ pending' = [pending EXCEPT ![s] = 0]
  /\ infoQueue' = Without(infoQueue, s)

(* ClearClientLuaDeliveryState.                                             *)
ClearDelivery(s) ==
  /\ ClearPinned(s)
  /\ pending' = [pending EXCEPT ![s] = 0]
  /\ infoQueue' = Without(infoQueue, s)

(* CBaseClient::Disconnect: NotifyClientDisconnect runs OnClientDisconnect  *)
(* before it returns.                                                       *)
Disconnect(s) ==
  /\ ClearDelivery(s)
  /\ client' = [client EXCEPT ![s] = Vacant]
  /\ space' = [space EXCEPT ![s] = Space]

-----------------------------------------------------------------------------
(* The engine's connections.                                                *)

(* The engine gives a new connection the slot.                              *)
Connect(s) ==
  /\ MainThreadFree /\ ~Present(s) 
  /\ \E lane \in {"native", "required"} :
       client' = [client EXCEPT ![s] =
         [Vacant EXCEPT !.conn = Min({1, 2} \ {pending[s]}), !.signon = "connected",
                        !.lane = lane]]
  /\ UNCHANGED <<gate, queues, space, frame, events>>

(* ClientDisconnect, for a signon that starts over, and ClientConnect; from *)
(* then on the engine wants the client's baseline.                          *)
BeginSignon(s) ==
  /\ MainThreadFree /\ client[s].signon = "connected" /\ ~client[s].want
  /\ client' = [client EXCEPT ![s].want = TRUE, ![s].base = FALSE]
  /\ ClearDelivery(s)
  /\ UNCHANGED <<gate, space, frame, events>>

(* A recovery's baseline is wanted before those callbacks have run; they    *)
(* then preserve what the slot has.                                         *)
DispatchRecovery(s) ==
  /\ MainThreadFree /\ enabled /\ client[s].signon = "connected" /\ ~client[s].want
  /\ client' = [client EXCEPT ![s].want = TRUE, ![s].lane = "native"]
  /\ UNCHANGED <<gate, queues, space, frame, events>>

Leave(s) ==
  /\ MainThreadFree /\ Present(s)
  /\ Disconnect(s)
  /\ UNCHANGED <<gate, frame, events>>

Restarted(c) == [c EXCEPT !.signon = "connected", !.want = FALSE, !.changed = {}]

(* CBaseClient::Reconnect: the same connection starts its signon again.     *)
Restart(s) ==
  /\ MainThreadFree /\ Present(s)
  /\ client' = [client EXCEPT ![s] = Restarted(@)]
  /\ UNCHANGED <<gate, queues, space, frame, events>>

(* SetSignonState(PRESPAWN), which GMODDataPack_SetSignOnState holds back.  *)
Prespawn(s) ==
  /\ MainThreadFree /\ client[s].signon = "new"
  /\ stubs[s] = <<>>
  /\ client' = [client EXCEPT ![s].signon = "prespawn"]
  /\ UNCHANGED <<gate, queues, space, frame, events>>

(* ClientActive: what was requested after PRESPAWN must be out by then.     *)
ClientActive(s) ==
  /\ MainThreadFree /\ client[s].signon = "prespawn"
  /\ IF stubs[s] # <<>> THEN Disconnect(s)
     ELSE client' = [client EXCEPT ![s].signon = "active"] /\ UNCHANGED <<queues, space>>
  /\ UNCHANGED <<gate, frame, events>>

(* The netchannel has sent what its reliable stream held.                   *)
Transmit(s) ==
  /\ MainThreadFree /\ space[s] < Space
  /\ space' = [space EXCEPT ![s] = Space]
  /\ UNCHANGED <<gate, client, queues, frame, events>>

(* CGModDataPackModule::LevelShutdown; the clients that stay start over.    *)
LevelShutdown ==
  /\ MainThreadFree /\ events < MaxEvents
  /\ events' = events + 1
  /\ pending' = [s \in Slot |-> 0] /\ infoQueue' = <<>>
  /\ pins' = [s \in Slot |-> {}] /\ stubs' = [s \in Slot |-> <<>>] /\ stubQueue' = <<>>
  /\ client' = [s \in Slot |-> IF Present(s)
                              THEN [Restarted(client[s]) EXCEPT !.base = FALSE] ELSE Vacant]
  /\ baseWork' \in BOOLEAN
  /\ UNCHANGED <<enabled, refresh, space, frame>>

-----------------------------------------------------------------------------
(* The gate and the registrations.                                          *)

Switch ==
  /\ MainThreadFree /\ events < MaxEvents
  /\ events' = events + 1
  /\ enabled' = ~enabled /\ refresh' = TRUE
  /\ baseWork' \in IF enabled THEN {FALSE} ELSE BOOLEAN
  /\ UNCHANGED <<client, queues, space, frame>>

(* The sweep has ended, or the map base is published.                       *)
Prepare ==
  /\ MainThreadFree /\ (refresh \/ baseWork)
  /\ \/ refresh' = FALSE /\ UNCHANGED baseWork
     \/ baseWork' = FALSE /\ UNCHANGED refresh
  /\ UNCHANGED <<enabled, client, queues, space, frame, events>>

(* Mistake: the pins of the changed file stay.                              *)
InvalidatePinned_Not(f) == UNCHANGED pins

(* InvalidatePinnedCanonicalFileForAllClients.                              *)
InvalidatePinned(f) == pins' = [s \in Slot |-> pins[s] \ {f}]

(* Mistake: what was requested is taken back together with the pin.         *)
UpdateFile_Unqueue(f) ==
  /\ MainThreadFree /\ events < MaxEvents
  /\ events' = events + 1
  /\ InvalidatePinned(f)
  /\ client' = [s \in Slot |-> IF client[s].signon \in Served
                              THEN [client[s] EXCEPT !.changed = @ \cup {f}] ELSE client[s]]
  /\ stubs' = [s \in Slot |-> Without(stubs[s], f)]
  /\ UNCHANGED <<gate, pending, infoQueue, stubQueue, space, frame>>

(* AddFileContents with another source or mode than the entry has.          *)
UpdateFile(f) ==
  /\ MainThreadFree /\ events < MaxEvents
  /\ events' = events + 1
  /\ InvalidatePinned(f)
  /\ client' = [s \in Slot |-> IF client[s].signon \in Served
                              THEN [client[s] EXCEPT !.changed = @ \cup {f}] ELSE client[s]]
  /\ UNCHANGED <<gate, pending, infoQueue, stubs, stubQueue, space, frame>>

-----------------------------------------------------------------------------
(* ServerInfo.                                                              *)

(* SendLuaPackServerInfoNow: what the slot was owed by an earlier baseline  *)
(* is dropped, the lane decides, and a client whose base, reliable stream   *)
(* or file hashes will not do is disconnected.  Otherwise the engine        *)
(* serialises the baseline and the files it announced as placeholders stay  *)
(* pinned.                                                                  *)
SendNow(s) ==
  \/ /\ Preparing \/ enabled
     /\ Disconnect(s)
  \/ /\ ~Preparing
     /\ LET required == enabled /\ client[s].lane = "required" IN
          /\ client' = [client EXCEPT ![s].signon = "new", ![s].want = FALSE,
                                     ![s].base = required, ![s].changed = {}]
          /\ \E announced \in IF required THEN Baselines ELSE {{}} :
               pins' = [pins EXCEPT ![s] = announced]
     /\ stubs' = [stubs EXCEPT ![s] = <<>>]
     /\ stubQueue' = Without(stubQueue, s)
     /\ UNCHANGED space

(* ShouldScheduleLuaPackServerInfo.                                         *)
ShouldSchedule == refresh \/ enabled

Queued(s) == s \in Range(infoQueue) /\ pending[s] = client[s].conn

(* Mistake: every poll takes the slot to the tail of the queue.             *)
QueueServerInfo_Renewed(s) ==
  /\ infoQueue # Append(Without(infoQueue, s), s) \/ ~Queued(s)
  /\ pending' = [pending EXCEPT ![s] = client[s].conn]
  /\ infoQueue' = Append(Without(infoQueue, s), s)

(* QueueLuaPackServerInfo: a poll of the connection that is queued already  *)
(* changes nothing, another connection starts at the tail.                  *)
QueueServerInfo(s) ==
  /\ ~Queued(s)
  /\ pending' = [pending EXCEPT ![s] = client[s].conn]
  /\ infoQueue' = Append(Without(infoQueue, s), s)

(* hook_CBaseClient_SendServerInfo, polled by the engine while it is wanted. *)
SendServerInfo(s) ==
  /\ MainThreadFree /\ Waiting(s)
  /\ \/ /\ ShouldSchedule
        /\ QueueServerInfo(s)
        /\ UNCHANGED <<client, pins, stubs, stubQueue, space>>
     \/ /\ ~ShouldSchedule
        /\ SendNow(s)
        /\ Present(s)' => UNCHANGED <<pending, infoQueue>>
  /\ UNCHANGED <<gate, frame, events>>

(* GModDataPack::OnFilesRequested visits the IDs in ascending order.  A      *)
(* pinned file is queued unless it is already; what SendFileToClient does with the others fills the stream at  *)
(* once or disconnects the client.                                          *)
OnFilesRequested(s, files) ==
  /\ MainThreadFree /\ Present(s)
  /\ LET asked == IF enabled THEN files \cap pins[s] ELSE {}
         new == InOrder(asked \ Range(stubs[s]))
         others == files \ asked
     IN \/ /\ others = {} \/ ~enabled \/ client[s].lane = "native" \/ client[s].base
           /\ stubs' = [stubs EXCEPT ![s] = @ \o new]
           /\ stubQueue' = IF s \in Range(stubQueue) \/ new = <<>> THEN stubQueue
                           ELSE Append(stubQueue, s)
           /\ \E left \in IF others = {} THEN {space[s]} ELSE 0 .. space[s] :
                space' = [space EXCEPT ![s] = left]
           /\ UNCHANGED <<client, pending, infoQueue, pins>>
        \/ others # {} /\ Disconnect(s)
  /\ UNCHANGED <<gate, frame, events>>

Requests(s) == \E files \in SUBSET File \ {{}} : OnFilesRequested(s, files)

-----------------------------------------------------------------------------
(* CGModDataPackModule::Think.                                              *)

(* Where the main thread is when a loop's condition has been evaluated; the *)
(* stub loop follows the ServerInfo loop.                                   *)
StubLoop(sent, stuck) ==
  IF sent < StubBudget /\ stubQueue' # <<>>
  THEN [Idle EXCEPT !.at = "stubs", !.sent = sent, !.stuck = stuck] ELSE Idle

InfoLoop(left, served) ==
  IF served < InfoBudget /\ left > 0 /\ infoQueue' # <<>>
  THEN [Idle EXCEPT !.at = "info", !.left = left, !.served = served] ELSE StubLoop(0, 0)

(* The frame begins; LuaPack::Think has released the pins of a feature that *)
(* is off.                                                                  *)
ThinkBegin ==
  /\ MainThreadFree
  /\ client' = IF enabled THEN client ELSE [s \in Slot |-> [client[s] EXCEPT !.base = FALSE]]
  /\ UNCHANGED <<gate, queues, space, events>>
  /\ frame' = IF Preparing THEN StubLoop(0, 0) ELSE InfoLoop(Len(infoQueue), 0)

(* QueuedServerInfoIdentityMatches.                                         *)
StillWanted(s) == Waiting(s) /\ client[s].conn = pending[s]

(* DrainQueuedLuaPackServerInfos, one token.                                *)
DrainInfo ==
  /\ frame.at = "info"
  /\ LET s == Head(infoQueue) IN
       /\ pending' = [pending EXCEPT ![s] = 0] /\ infoQueue' = Tail(infoQueue)
       /\ IF StillWanted(s)
          THEN SendNow(s) /\ frame' = InfoLoop(frame.left - 1, frame.served + 1)
          ELSE /\ UNCHANGED <<client, pins, stubs, stubQueue, space>>
               /\ frame' = InfoLoop(frame.left - 1, frame.served)
  /\ UNCHANGED <<gate, events>>

(* SelectRequiredStubDrainAction for the first placeholder of the slot.     *)
Rejected(s) == ~enabled \/ Head(stubs[s]) \notin pins[s] \/ ~Present(s)

(* Mistake: whatever the stream has room for, the placeholder is written.   *)
NoSpace_Ignored(s) == FALSE

NoSpace(s) == space[s] = 0

(* Mistake: the slot that waits is not put back.                            *)
Rotated_Lost(s) == Tail(stubQueue)

(* Mistake: the slot stays at the head of the queue.                        *)
Rotated_First(s) == stubQueue

(* TakeNext and Schedule: the slot goes to the tail of the queue.           *)
Rotated(s) == Append(Tail(stubQueue), s)

(* DrainRequiredStubQueues, one slot.                                       *)
DrainStub ==
  /\ frame.at = "stubs"
  /\ LET s == Head(stubQueue) IN
     \/ /\ ~Rejected(s) /\ NoSpace(s)
        /\ stubQueue' = Rotated(s)
        /\ frame' = IF frame.stuck + 1 >= Len(stubQueue') THEN Idle
                    ELSE StubLoop(frame.sent, frame.stuck + 1)
        /\ UNCHANGED <<client, pending, infoQueue, pins, stubs, space>>
     \/ /\ Rejected(s) \/ (~NoSpace(s) /\ ~client[s].base)
        /\ Disconnect(s)
        /\ frame' = StubLoop(frame.sent, 0)
     \/ /\ ~Rejected(s) /\ ~NoSpace(s) /\ client[s].base
        /\ stubs' = [stubs EXCEPT ![s] = Tail(@)]
        /\ space' = [space EXCEPT ![s] = @ - 1]
        /\ stubQueue' = IF Len(stubs[s]) = 1 THEN Tail(stubQueue) ELSE Rotated(s)
        /\ frame' = StubLoop(frame.sent + 1, 0)
        /\ UNCHANGED <<client, pending, infoQueue, pins>>
  /\ UNCHANGED <<gate, events>>

ThinkStep == ThinkBegin \/ DrainInfo \/ DrainStub

Next ==
  \/ \E s \in Slot :
       \/ Connect(s) \/ BeginSignon(s) \/ DispatchRecovery(s) \/ Leave(s) \/ Restart(s)
       \/ Prespawn(s) \/ ClientActive(s) \/ Transmit(s) \/ SendServerInfo(s) \/ Requests(s)
  \/ LevelShutdown \/ Switch \/ Prepare \/ (\E f \in Edited : UpdateFile(f))
  \/ ThinkStep

(* Frames go on; in between the engine polls every client that wants a      *)
(* baseline, the netchannels send, and a preparation ends, each of them     *)
(* again and again.  Nothing makes a client connect, restart or request.    *)
Fairness ==
  /\ WF_vars(ThinkStep)
  /\ SF_vars(Prepare)
  /\ \A s \in Slot : SF_vars(SendServerInfo(s)) /\ SF_vars(Transmit(s))

Spec == Init /\ [][Next]_vars /\ Fairness

-----------------------------------------------------------------------------
(* Properties.                                                              *)

(* Nothing that is queued is forgotten or served twice: a slot is in a      *)
(* queue once at most, it is in the placeholder queue exactly while it has  *)
(* placeholders, and in the ServerInfo queue exactly while it has a token.  *)
QueuedIsScheduled ==
  /\ IsInjective(infoQueue) /\ IsInjective(stubQueue)
  /\ \A s \in Slot : IsInjective(stubs[s])
  /\ \A s \in Slot : stubs[s] # <<>> <=> s \in Range(stubQueue)
  /\ \A s \in Slot : pending[s] # 0 <=> s \in Range(infoQueue)

(* Pins and requests belong to the required baseline of the connection in   *)
(* the slot: never a predecessor's, and once the connection's next baseline *)
(* is wanted they are gone, but for a recovery, whose late callbacks        *)
(* preserve the slot until its native baseline is served.                   *)
PinsFollowBaseline ==
  \A s \in Slot : pins[s] # {} \/ stubs[s] # <<>> =>
    /\ Present(s)
    /\ client[s].signon \in Served => client[s].lane = "required"
    /\ Waiting(s) => client[s].lane = "native"

(* A pinned file still has the content and mode the baseline announced, so  *)
(* that the short path never sends a placeholder for a changed file.        *)
PinnedIsUnchanged == \A s \in Slot : pins[s] \cap client[s].changed = {}

(* A requested placeholder is written, or the join fails or starts over: it *)
(* is never dropped silently ("fails closed", docs/luapack.md).             *)
NothingDropped ==
  [][\A s \in Slot : \A f \in Range(stubs[s]) \ Range(stubs'[s]) :
       \/ space'[s] < space[s] /\ f = Head(stubs[s])
       \/ {"none", "connected"} \cap {client[s].signon, client'[s].signon} # {}]_vars

(* However others come, go and restart, a client that waits for its         *)
(* baseline is served, unless it starts its own signon over for ever.       *)
BaselineServed ==
  \A s \in Watched : []<>~Waiting(s) \/ []<><<Restart(s)>>_vars

(* Requested placeholders are not kept waiting for ever by the other        *)
(* clients' requests nor by their full streams: the slot's queue drains,    *)
(* unless its own client goes on requesting for ever.                       *)
RequestAnswered ==
  \A s \in Watched :
    (stubs[s] # <<>> ~> stubs[s] = <<>>) \/ []<><<Requests(s)>>_vars
=============================================================================
