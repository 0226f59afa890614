------------------------ MODULE RegistrationRefresh ------------------------
(***************************************************************************)
(* The refresh of every registered client Lua file after LuaPack is        *)
(* switched on or off.  The switch changes which bytes each registration   *)
(* stands for: the file itself ("plain"), or a placeholder whose real body *)
(* is in the map base ("canonical").  LuaPack::Think notices the switch    *)
(* once per frame; CGModDataPackModule::Think then feeds the registrations *)
(* again, a few per frame, and baselines wait until all of them, and the   *)
(* hashes a worker thread computes, are done.                              *)
(*                                                                         *)
(* One frame of the main thread is one action.  The worker locks one       *)
(* cache entry at a time, and each of its steps is one entry.              *)
(* SupportsCanonicalRegistration is taken to hold once the detours are     *)
(* installed, which is before the first frame.                             *)
(***************************************************************************)
EXTENDS Integers, Sequences, FiniteSets, SequencesExt, Subsequences

CONSTANTS
  File,           \* client Lua files
  InitFile,       \* includes/init.lua, the one file with a real canonical body
  Content,        \* what a file can contain
  None,           \* no content
  Budget,         \* luapack_registration_refresh_budget
  FlipsPerFrame,  \* how often the switch can change between two frames
  FlipWhileLoading, \* the switch can change between a level's start and its first frame
  MaxEvents       \* bound: changes of the switch, files added or updated, twice the levels ended

ASSUME ConstantsAssumption ==
       /\ IsFiniteSet(File) /\ InitFile \in File
       /\ Content # {} /\ None \notin Content
       /\ Budget \in Nat \ {0} /\ FlipsPerFrame \in Nat
       /\ FlipWhileLoading \in BOOLEAN
       /\ MaxEvents \in Nat

VARIABLES
  enabled,        \* IsEnabled(): holylib_gmoddatapack_luapack_enable
  switch,         \* what LuaPack::Think saw of it, and what follows
  sweep,          \* g_luaPackRegistrationRefresh
  main,           \* the main thread: playing, or ending a level
  level, spent, frameFlips,   \* the level played; events so far, and in this frame
  source, cached, \* the engine's Lua cache: contents; files it holds
  table, user,    \* client_lua_files: file of each ID; userdata of each ID
  bound,          \* a detour has bound g_pDataPack
  entry,          \* m_pLuaFileCache
  compressQueue,  \* m_pCompressQueue
  publishQueue,   \* m_pStringTableUpdateQueue
  worker          \* the compression thread

events == <<level, spent, frameFlips>>
engine == <<source, cached, table, bound>>
refreshVars == <<enabled, switch, sweep, main, events, engine, user, entry,
                 compressQueue, publishQueue, worker>>

Id == 1 .. Cardinality(File)
Registered == 1 .. Len(table)
Least(a, b) == IF a < b THEN a ELSE b

\* UsesCanonicalRegistration and UsesPassthroughProcessing for a switch position.
Mode(on) == IF on THEN "canonical" ELSE "plain"

EmptyEntry == [source |-> None, mode |-> "none", processed |-> FALSE,
               hashReady |-> FALSE, published |-> FALSE]
NoSweep == [active |-> FALSE, capture |-> FALSE, next |-> 0, target |-> 0,
            initRefreshed |-> FALSE, passDone |-> FALSE, todo |-> <<>>,
            retry |-> <<>>, hashTodo |-> <<>>, hashRetry |-> <<>>]
NoWorker == [state |-> "NOTRUNNING", at |-> "none", batch |-> {}, todo |-> {}]

\* The bytes an entry stands for; every canonical body but one is the same stub.
Body(f, e) ==
  CASE e.mode = "plain" -> <<"plain", e.source>>
    [] e.mode = "canonical" /\ f = InitFile -> <<"bootstrap", e.source>>
    [] e.mode = "canonical" /\ f # InitFile -> <<"stub", None>>
    [] OTHER -> <<"none", None>>

TypeOK ==
  /\ enabled \in BOOLEAN /\ bound \in BOOLEAN
  /\ switch \in [seen : BOOLEAN, canonical : BOOLEAN, bootstrap : BOOLEAN, pending : BOOLEAN]
  /\ DOMAIN sweep = DOMAIN NoSweep
  /\ sweep.next \in 0 .. Cardinality(File) + 1 /\ sweep.target \in 0 .. Cardinality(File)
  /\ \A q \in {sweep.todo, sweep.retry, sweep.hashTodo, sweep.hashRetry} : q \in Seq(Id)
  /\ main \in {"playing", "stopping", "ended"}
  /\ source \in [File -> Content] /\ cached \subseteq File
  /\ IsInjective(table) /\ table \in Seq(File)
  /\ entry \in [Id -> [source : Content \cup {None}, mode : {"none", "plain", "canonical"},
                       processed : BOOLEAN, hashReady : BOOLEAN, published : BOOLEAN]]
  /\ DOMAIN user = Id
  /\ compressQueue \subseteq Id /\ publishQueue \subseteq Id
  /\ worker.state \in {"RUNNING", "SHOULD_SHUTDOWN", "NOTRUNNING"}
  /\ worker.at \in {"none", "loop", "sleep", "process", "hash"}
  /\ worker.todo \subseteq worker.batch /\ worker.batch \subseteq Id

\* Files the engine registered before the module was loaded; none is bound yet.
\* A content is only ever compared with others of its file, so the first is any.
Init ==
  /\ enabled \in BOOLEAN
  /\ switch = [seen |-> enabled, canonical |-> FALSE, bootstrap |-> FALSE, pending |-> FALSE]
  /\ sweep = NoSweep /\ main = "playing"
  /\ level = 1 /\ spent = 0 /\ frameFlips = 0
  /\ source = [f \in File |-> CHOOSE c \in Content : TRUE] /\ cached \in SUBSET File
  /\ table \in {<<>>} \cup {<<f>> : f \in File} /\ bound = FALSE
  /\ entry = [id \in Id |-> EmptyEntry]
  /\ user = [id \in Id |-> <<"none", None>>]
  /\ compressQueue = {} /\ publishQueue = {}
  /\ worker = [NoWorker EXCEPT !.state = "RUNNING", !.at = "loop"]

-----------------------------------------------------------------------------
(* One cache entry.                                                        *)

\* Nothing to do: same source, same mode and already processed.
SameRegistration(e, c) == e.source = c /\ e.processed /\ e.mode = Mode(enabled)

\* Mistake: the entry still counts as published after it changed.
AddFileContents_Keep(e, c) ==
  IF SameRegistration(e, c) THEN [e EXCEPT !.published = TRUE]
  ELSE [EmptyEntry EXCEPT !.source = c, !.mode = Mode(enabled), !.published = e.published]

\* LuaDataPack::AddFileContents.
AddFileContents(e, c) ==
  IF SameRegistration(e, c) THEN [e EXCEPT !.published = TRUE]
  ELSE [EmptyEntry EXCEPT !.source = c, !.mode = Mode(enabled)]

\* LuaDataPack::PublishRegistrationHash: process now, on the main thread.
PublishRegistrationHash(e) == [e EXCEPT !.processed = TRUE, !.published = TRUE]

\* LuaDataPack::EnsureSourceHash: only canonical entries keep a source hash.
EnsureSourceHash(e) ==
  [e EXCEPT !.hashReady = @ \/ (e.mode = "canonical" /\ e.source # None)]

-----------------------------------------------------------------------------
(* The switch.                                                             *)

\* The start of LuaPack::Think.
SwitchSeen ==
  LET changed == enabled # switch.seen \/ enabled # switch.canonical
  IN [seen |-> enabled, canonical |-> enabled,
      bootstrap |-> switch.bootstrap \/ changed, pending |-> switch.pending \/ changed]

\* Mistake: the flags of the last frame are not part of the gate.
RegistrationRefreshPending_Late == switch.pending

\* RegistrationRefreshPending: baselines wait.
RegistrationRefreshPending ==
  \/ switch.pending
  \/ enabled # switch.seen
  \/ enabled # switch.canonical

\* CompleteRegistrationRefresh: a transition seen meanwhile keeps the gate.
CompleteRegistrationRefresh(s) == [s EXCEPT !.pending = s.bootstrap]

-----------------------------------------------------------------------------
(* The sweep.                                                              *)

\* LuaPackRegistrationRefresh::Begin.
Begin(n) == [NoSweep EXCEPT !.active = TRUE, !.capture = enabled,
                            !.next = 1, !.target = n]

\* The sweep this frame works on: a new one if one is requested.
SweepNow == IF bound /\ SwitchSeen.bootstrap THEN Begin(Len(table)) ELSE sweep

\* Mistake: the request is consumed before the datapack is known.
SwitchNow_Unbound == [SwitchSeen EXCEPT !.bootstrap = FALSE]

\* ConsumeBootstrapRefresh: only once the string table is known.
SwitchNow == IF bound THEN [SwitchSeen EXCEPT !.bootstrap = FALSE] ELSE SwitchSeen

\* A source can be found: in the Lua cache, or captured by the entry itself.
HasSource(id) == table[id] \in cached \/ entry[id].source # None
SourceOf(id) == IF table[id] \in cached THEN source[table[id]] ELSE entry[id].source

\* The IDs this frame refreshes: the next of the pass, or of those left over.
Slice(s) ==
  IF ~s.active THEN <<>>
  ELSE IF ~s.passDone
       THEN [i \in 1 .. Least(Budget, s.target - s.next + 1) |-> s.next + i - 1]
       ELSE SubSeq(s.todo, 1, Least(Budget, Len(s.todo)))

\* One bounded step of a list of IDs; those not done wait for the next round.
Round(todo, retry, n, done) ==
  LET left == SubSeq(todo, n + 1, Len(todo))
      again == retry \o Those(SubSeq(todo, 1, n), Id \ done)
  IN IF left = <<>> THEN [todo |-> again, retry |-> <<>>]
     ELSE [todo |-> left, retry |-> again]

\* The init file of a finished pass is looked up by its own name.
InitId == IF InitFile \in Range(table)
          THEN CHOOSE id \in Registered : table[id] = InitFile ELSE Len(table) + 1
\* IDs fed again in this frame by refreshFile, and whether the pass is over.
Fed(s) == {id \in Range(Slice(s)) : HasSource(id)}
PassDone(s) == s.passDone \/ s.next + Len(Slice(s)) > s.target
InitFed(s) == s.initRefreshed \/ \E id \in Fed(s) : table[id] = InitFile
FeedsInit(s) == s.active /\ PassDone(s) /\ ~InitFed(s) /\ InitFile \in cached

\* The entries after this frame's refreshes.
Refreshed(s) ==
  [id \in Id |->
     IF id \in Fed(s) THEN PublishRegistrationHash(AddFileContents(entry[id], SourceOf(id)))
     ELSE IF id = InitId /\ FeedsInit(s)
          THEN PublishRegistrationHash(AddFileContents(entry[id], source[InitFile]))
          ELSE entry[id]]

\* Mistake: completion does not wait for the worker's hashes or the left-overs.
CanCompleteRegistrationRefresh_Pass(s) == s.passDone

\* CanCompleteRegistrationRefresh.
CanCompleteRegistrationRefresh(s) ==
  s.passDone /\ s.initRefreshed /\ s.todo = <<>> /\ s.hashTodo = <<>>

\* The walk of this frame, in which the entries become es: the IDs without a source
\* are left for the next round, the fed ones without a hash wait for the worker.
Walked(s, es) ==
  LET fed == Fed(s)
      unhashed == IF s.capture THEN {id \in fed : ~es[id].hashReady} ELSE {}
      round == Round(s.todo, s.retry, Len(Slice(s)), fed)
      walked == IF ~s.passDone
                THEN [s EXCEPT !.next = @ + Len(Slice(s)),
                               !.todo = @ \o Those(Slice(s), Id \ fed)]
                ELSE [s EXCEPT !.todo = round.todo, !.retry = round.retry]
  IN [walked EXCEPT !.passDone = PassDone(s), !.initRefreshed = InitFed(s) \/ FeedsInit(s),
                    !.hashTodo = @ \o Those(Slice(s), unhashed)]

\* The hashes are looked at once every ID is fed.
Hashed(s, es) ==
  LET round == Round(s.hashTodo, s.hashRetry, Least(Budget, Len(s.hashTodo)),
                     {id \in Id : es[id].hashReady})
  IN IF s.passDone /\ s.initRefreshed /\ s.todo = <<>>
     THEN [s EXCEPT !.hashTodo = round.todo, !.hashRetry = round.retry]
     ELSE s

\* CGModDataPackModule::Think: the switch, a part of the sweep, then the hashes of
\* entries the worker processed.
Think ==
  /\ main = "playing"
  /\ \E s \in {IF bound /\ SweepNow.active THEN SweepNow ELSE NoSweep} :
     \E feeds \in {Fed(s) \cup (IF FeedsInit(s) THEN {InitId} ELSE {})} :
     \E fed \in {Refreshed(s)} :
     \E walked \in {IF s.active THEN Walked(s, fed) ELSE sweep} :
     \E after \in {IF s.active THEN Hashed(walked, fed) ELSE sweep} :
     LET names == IF FeedsInit(s) /\ InitFile \notin Range(table) THEN Append(table, InitFile)
                  ELSE table
         completes == s.active /\ CanCompleteRegistrationRefresh(after)
     IN /\ table' = names
        /\ entry' = [id \in Id |-> [fed[id] EXCEPT !.published = @ \/ id \in publishQueue]]
        /\ user' = [id \in Id |-> IF id \in (feeds \cup publishQueue) \cap DOMAIN names
                                  THEN Body(names[id], fed[id]) ELSE user[id]]
        /\ publishQueue' = {}
        /\ compressQueue' = compressQueue \cup {id \in feeds : ~SameRegistration(entry[id], fed[id].source)}
        /\ sweep' = IF completes THEN NoSweep ELSE after
        /\ switch' = IF completes THEN CompleteRegistrationRefresh(SwitchNow) ELSE SwitchNow
  /\ frameFlips' = 0
  /\ UNCHANGED <<enabled, main, level, spent, source, cached, bound, worker>>

-----------------------------------------------------------------------------
(* Events between frames, on the main thread.                              *)

\* The switch changes, from the console or from Lua.
Flip ==
  /\ main = "playing" /\ frameFlips < FlipsPerFrame /\ spent < MaxEvents
  /\ enabled' = ~enabled /\ spent' = spent + 1 /\ frameFlips' = frameFlips + 1
  /\ UNCHANGED <<switch, sweep, main, level, engine, user, entry, compressQueue,
                 publishQueue, worker>>

\* hook_GModDataPack_AddOrUpdateFile: a file is registered, or has a new content.
AddOrUpdateFile(f, c) ==
  /\ main = "playing" /\ spent < MaxEvents
  /\ f \in cached => c # source[f] \/ f \notin Range(table)
  /\ spent' = spent + 1 /\ bound' = TRUE
  /\ source' = [source EXCEPT ![f] = c] /\ cached' = cached \cup {f}
  /\ table' = IF f \in Range(table) THEN table ELSE Append(table, f)
  /\ LET id == CHOOSE i \in DOMAIN table' : table'[i] = f
         e == AddFileContents(entry[id], c)
     IN /\ entry' = [entry EXCEPT ![id] = e]
        /\ IF SameRegistration(entry[id], c)
           THEN user' = [user EXCEPT ![id] = Body(f, e)] /\ UNCHANGED compressQueue
           ELSE compressQueue' = compressQueue \cup {id} /\ UNCHANGED user
  /\ UNCHANGED <<enabled, switch, sweep, main, level, frameFlips, publishQueue,
                 worker>>

\* A registered file the Lua cache did not hold becomes available in it.
CacheFile(f) ==
  /\ main = "playing" /\ f \notin cached
  /\ cached' = cached \cup {f}
  /\ UNCHANGED <<enabled, switch, sweep, main, events, source, table, bound, user, entry,
                 compressQueue, publishQueue, worker>>

\* Mistake: the sweep is dropped, the request it was serving is not.
LevelShutdown_Pending ==
  /\ main = "playing" /\ spent + 1 < MaxEvents
  /\ main' = "stopping" /\ spent' = spent + 2
  /\ sweep' = NoSweep
  /\ switch' = [switch EXCEPT !.bootstrap = FALSE]
  /\ worker' = [worker EXCEPT !.state = "SHOULD_SHUTDOWN"]
  /\ UNCHANGED <<enabled, level, frameFlips, engine, user, entry, compressQueue, publishQueue>>

\* CGModDataPackModule::LevelShutdown, up to the wait for the worker.
LevelShutdown ==
  /\ main = "playing" /\ spent + 1 < MaxEvents
  /\ main' = "stopping" /\ spent' = spent + 2
  /\ sweep' = NoSweep
  /\ switch' = [seen |-> FALSE, canonical |-> FALSE, bootstrap |-> FALSE, pending |-> FALSE]
  /\ worker' = [worker EXCEPT !.state = "SHOULD_SHUTDOWN"]
  /\ UNCHANGED <<enabled, level, frameFlips, engine, user, entry, compressQueue, publishQueue>>

\* LuaDataPack::Shutdown returns; entries and both queues are kept.
WorkerJoined ==
  /\ main = "stopping" /\ worker.state = "NOTRUNNING"
  /\ main' = "ended"
  /\ UNCHANGED <<enabled, switch, sweep, events, engine, user, entry, compressQueue,
                 publishQueue, worker>>

\* LuaDataPack::Initialize: the next level starts with an empty string table.
Initialize ==
  /\ main = "ended"
  /\ main' = "playing" /\ level' = level + 1
  /\ frameFlips' = IF FlipWhileLoading THEN 0 ELSE FlipsPerFrame
  /\ table' = <<>> /\ cached' = {} /\ user' = [id \in Id |-> <<"none", None>>]
  /\ worker' = [NoWorker EXCEPT !.state = "RUNNING", !.at = "loop"]
  /\ UNCHANGED <<enabled, switch, sweep, spent, source, bound, entry,
                 compressQueue, publishQueue>>

-----------------------------------------------------------------------------
(* WorkerThread.                                                           *)

workerFrame == <<enabled, switch, sweep, main, events, engine, user>>

\* The state is looked at before the sleep, not after it.
WorkerSleep ==
  /\ worker.at = "loop" /\ worker.state = "RUNNING"
  /\ worker' = [worker EXCEPT !.at = "sleep"]
  /\ UNCHANGED <<workerFrame, entry, compressQueue, publishQueue>>

\* The queue is taken as a batch, even if the thread should stop by now.
WorkerTake ==
  /\ worker.at = "sleep"
  /\ worker' = IF compressQueue = {} THEN [worker EXCEPT !.at = "loop"]
               ELSE [worker EXCEPT !.at = "process", !.batch = compressQueue,
                                   !.todo = compressQueue]
  /\ compressQueue' = {}
  /\ UNCHANGED <<workerFrame, entry, publishQueue>>

\* First pass: ProcessContent of one entry that is not ready.
WorkerProcess(id) ==
  /\ worker.at = "process" /\ worker.state = "RUNNING" /\ id \in worker.todo
  /\ worker' = [worker EXCEPT !.todo = @ \ {id}]
  /\ IF entry[id].processed THEN UNCHANGED <<entry, publishQueue>>
     ELSE /\ entry' = [entry EXCEPT ![id].processed = TRUE, ![id].published = FALSE]
          /\ publishQueue' = publishQueue \cup {id}
  /\ UNCHANGED <<workerFrame, compressQueue>>

\* Mistake: the second pass skips entries the main thread processed.
WorkerHash_Skip(id) ==
  /\ worker.at = "hash" /\ worker.state = "RUNNING" /\ id \in worker.todo
  /\ worker' = [worker EXCEPT !.todo = @ \ {id}]
  /\ entry' = IF entry[id].processed /\ ~entry[id].published
              THEN [entry EXCEPT ![id] = EnsureSourceHash(@)] ELSE entry
  /\ UNCHANGED <<workerFrame, compressQueue, publishQueue>>

\* Second pass: the source hash, and the compressed body.
WorkerHash(id) ==
  /\ worker.at = "hash" /\ worker.state = "RUNNING" /\ id \in worker.todo
  /\ worker' = [worker EXCEPT !.todo = @ \ {id}]
  /\ entry' = IF entry[id].processed THEN [entry EXCEPT ![id] = EnsureSourceHash(@)]
              ELSE entry
  /\ UNCHANGED <<workerFrame, compressQueue, publishQueue>>

\* Mistake: the batch is moved out of the first pass.
WorkerNext_Moved ==
  /\ worker.at \in {"process", "hash"} /\ worker.state = "RUNNING" /\ worker.todo = {}
  /\ worker' = IF worker.at = "process"
               THEN [worker EXCEPT !.at = "hash", !.todo = worker.batch, !.batch = {}]
               ELSE [worker EXCEPT !.at = "loop", !.batch = {}]
  /\ UNCHANGED <<workerFrame, entry, compressQueue, publishQueue>>

\* A pass is over.
WorkerNext ==
  /\ worker.at \in {"process", "hash"} /\ worker.state = "RUNNING" /\ worker.todo = {}
  /\ worker' = IF worker.at = "process"
               THEN [worker EXCEPT !.at = "hash", !.todo = worker.batch]
               ELSE [worker EXCEPT !.at = "loop", !.batch = {}]
  /\ UNCHANGED <<workerFrame, entry, compressQueue, publishQueue>>

\* The thread sees that it should stop and abandons its batch.
WorkerStop ==
  /\ worker.state = "SHOULD_SHUTDOWN" /\ worker.at # "sleep"
  /\ worker' = NoWorker
  /\ UNCHANGED <<workerFrame, entry, compressQueue, publishQueue>>

WorkerStep == WorkerSleep \/ WorkerTake \/ (\E id \in Id : WorkerProcess(id) \/ WorkerHash(id))
              \/ WorkerNext \/ WorkerStop

Next ==
  \/ Think \/ Flip \/ WorkerStep
  \/ \E f \in File : CacheFile(f) \/ \E c \in Content : AddOrUpdateFile(f, c)
  \/ LevelShutdown \/ WorkerJoined \/ Initialize

\* Frames go on, the worker is scheduled, and a level that ends is followed by another.
Fairness == WF_refreshVars(Think) /\ WF_refreshVars(WorkerStep)
            /\ WF_refreshVars(WorkerJoined \/ Initialize)

Spec == Init /\ [][Next]_refreshVars /\ Fairness

-----------------------------------------------------------------------------
(* Properties.                                                             *)

\* No baseline sees a mixed string table (docs/luapack.md:80): once the gate is
\* open, every identity that is published belongs to the switch's position.
NoMixedTable ==
  main = "playing" /\ ~RegistrationRefreshPending =>
    \A id \in Registered :
      user[id][1] \in {"none"} \cup (IF enabled THEN {"stub", "bootstrap"} ELSE {"plain"})

\* The published identity is that of the body the entry would be served with.
PublishedIsServed ==
  main = "playing" => \A id \in Registered :
    user[id][1] # "none" /\ entry[id].published => user[id] = Body(table[id], entry[id])

\* The bootstrap is in the string table before any client's baseline is built.
BootstrapPublished ==
  main = "playing" /\ enabled /\ ~RegistrationRefreshPending =>
    \E id \in Registered : table[id] = InitFile /\ user[id][1] = "bootstrap"

\* The gate is held by a sweep that is running or about to: never by neither.
GateHasOwner ==
  switch.pending => switch.bootstrap \/ sweep.active

\* Sources are there: baselines do not wait for ever.
SourcesAvailable ==
  bound /\ InitFile \in cached /\ \A id \in Registered : HasSource(id)
RefreshCompletes == []<>(~RegistrationRefreshPending \/ ~SourcesAvailable)

\* The same for the first level: nothing it waits for was abandoned by the worker of
\* an earlier one.
FirstRefreshCompletes ==
  []<>(~RegistrationRefreshPending \/ ~SourcesAvailable \/ level > 1)
=============================================================================
