-------------------------- MODULE LuaThreadAccess --------------------------
(***************************************************************************)
(* Who may run Lua, and when: the LuaMutex of the main Lua state, the      *)
(* shared lifetime lock over all states (g_pThreadAccessMutex), and the    *)
(* two threads of gmoddatapack that meet on them.                          *)
(*                                                                         *)
(* The main thread owns the LuaMutex all the time and gives it away only   *)
(* inside Lua::ThinkMainInterface, once per frame and only when some       *)
(* thread is already waiting.  The worker thread of LuaDataPack takes its  *)
(* work from the compression queue, and needs the mutex as soon as a Lua   *)
(* state has declared itself (MarkAsTokenizeThread) the one whose          *)
(* HolyLib:OnTokenizeContent hook sees every token list.  The entry of a   *)
(* file has a lock of its own, which both threads take while they hold or  *)
(* wait for the others.                                                    *)
(*                                                                         *)
(* Each step is one atomic access to what the threads share: the fields    *)
(* of the LuaMutex are written one at a time, as in the code.  The modelled*)
(* interface is the main state (g_Lua); a file stands for a cache entry    *)
(* that is not in pass-through mode.                                       *)
(***************************************************************************)
EXTENDS Naturals, FiniteSets

CONSTANTS
  Files,      \* the entries of m_pLuaFileCache
  EventSets,  \* which of the main thread's operations may happen in a behaviour
  MaxDepth    \* bound: files are requested while the recursion is below it

AllEvents == {"add", "serve", "mark", "level", "teardown"}

ASSUME EventsAssumption == EventSets \subseteq SUBSET AllEvents
ASSUME DepthAssumption == MaxDepth \in Nat \ {0}

Main == "main"
Worker == "worker"
Nobody == "nobody"
Thread == {Main, Worker}

ASSUME FilesAssumption == Nobody \notin Files

VARIABLES
  events,                                  \* the operations of this behaviour
  waiting, holder, depth, owner,           \* LuaMutex of the main state
  shared,                                  \* g_pThreadAccessMutex, per thread
  alive, interface,                        \* the StateData; pInterface is set
  threadState, handle,                     \* m_pWorkerThreadState, m_pWorkerThread
  queue, entryLock, ready, compressed,     \* the compression queue, the entries
  mainAt, mainFile, resume,                \* main thread: where, on what, then
  workerAt, file, batch, todo, outer, inner  \* worker thread

luaMutex == <<waiting, holder, depth, owner>>
lifetime == <<shared, alive, interface>>
thread == <<threadState, handle>>
cache == <<queue, entryLock, ready, compressed>>
mainVars == <<mainAt, mainFile, resume>>
scope == <<file, batch, todo, outer, inner>>
workerVars == <<workerAt, scope>>
vars == <<events, luaMutex, lifetime, thread, cache, mainVars, workerVars>>

(* Where the main thread is.  "frame": running engine and Lua code;        *)
(* "noLua": the same, between two Lua states.                              *)
Released == {"unlock", "waiting", "locked", "drowsy", "asleep",
             "announce", "acquire", "withdraw", "own"}
Blocking == {"add", "serve", "remove", "stop", "spin", "release", "start"}
MainPlace == {"frame", "noLua"} \cup Released \cup Blocking

WorkerPlace == {"loop", "take", "enter", "check", "get", "announce", "acquire",
                "withdraw", "own", "scan", "strip", "hook", "disown", "unlock",
                "notify", "done", "leave", "compress", "exit", "dead"}

TypeOK ==
  /\ events \in EventSets
  /\ waiting \in 0 .. 2
  /\ holder \in Thread \cup {Nobody}
  /\ depth \in Nat
  /\ owner \in Thread \cup {Nobody}
  /\ shared \in [Thread -> 0 .. 2]
  /\ alive \in BOOLEAN
  /\ interface \in BOOLEAN
  /\ threadState \in {"RUNNING", "SHOULD_SHUTDOWN", "NOTRUNNING"}
  /\ handle \in BOOLEAN
  /\ queue \subseteq Files
  /\ entryLock \in [Files -> Thread \cup {Nobody}]
  /\ ready \subseteq Files
  /\ compressed \subseteq Files
  /\ mainAt \in MainPlace
  /\ mainFile \in Files \cup {Nobody}
  /\ resume \in {"frame", "noLua", "start"}
  /\ workerAt \in WorkerPlace
  /\ file \in Files \cup {Nobody}
  /\ batch \subseteq Files
  /\ todo \subseteq Files
  /\ outer \in BOOLEAN
  /\ inner \in BOOLEAN

(* After Lua::Init: the main state exists and is locked by the main        *)
(* thread, Initialize has fed every registered file to the queue and has   *)
(* started the worker.                                                     *)
Init ==
  /\ events \in EventSets
  /\ waiting = 0 /\ holder = Main /\ depth = 1 /\ owner = Main
  /\ shared = [t \in Thread |-> 0]
  /\ alive = TRUE /\ interface = FALSE
  /\ threadState = "RUNNING" /\ handle = TRUE
  /\ queue = Files
  /\ entryLock = [f \in Files |-> Nobody]
  /\ ready = {} /\ compressed = {}
  /\ mainAt = "frame" /\ mainFile = Nobody /\ resume = "frame"
  /\ workerAt = "loop" /\ file = Nobody /\ batch = {} /\ todo = {}
  /\ outer = FALSE /\ inner = FALSE

-----------------------------------------------------------------------------
(* LuaMutex, one atomic access at a time.                                  *)

\* waiting.fetch_add(1)
Announce == waiting' = waiting + 1 /\ UNCHANGED <<holder, depth, owner>>

\* mutex.lock() of the recursive mutex
Acquire(t) ==
  /\ holder \in {Nobody, t}
  /\ holder' = t
  /\ depth' = depth + 1
  /\ UNCHANGED <<waiting, owner>>

\* Mistake: the waiter forgets to take itself off the count.
Withdraw_Never == UNCHANGED luaMutex

\* waiting.fetch_sub(1)
Withdraw == waiting' = waiting - 1 /\ UNCHANGED <<holder, depth, owner>>

\* owner.store(ThreadGetCurrentId())
Own(t) == owner' = t /\ UNCHANGED <<waiting, holder, depth>>

\* if (--recursion == 0) owner.store(0)
Disown ==
  /\ owner' = IF depth = 1 THEN Nobody ELSE owner
  /\ UNCHANGED <<waiting, holder, depth>>

\* mutex.unlock()
Unlock ==
  /\ depth' = depth - 1
  /\ holder' = IF depth = 1 THEN Nobody ELSE holder
  /\ UNCHANGED <<waiting, owner>>

(* ThreadAccessMutex: a scope counts the shared locks of its thread.  The  *)
(* exclusive sections (CreateLuaData, RemoveLuaData) are single steps of   *)
(* the main thread, so the exclusive lock is never seen held.              *)
EnterScoped(t) == shared' = [shared EXCEPT ![t] = @ + 1]
LeaveScoped(t) == shared' = [shared EXCEPT ![t] = @ - 1]
CriticalAccess == \A t \in Thread : shared[t] = 0

-----------------------------------------------------------------------------
(* The main thread: registering and serving files.                         *)

\* A Lua file is registered (again): AddFileContents waits for its entry.
RegisterFile(f) ==
  /\ "add" \in events /\ mainAt = "frame"
  /\ mainAt' = "add" /\ mainFile' = f
  /\ UNCHANGED <<events, luaMutex, lifetime, thread, cache, resume, workerVars>>

AddFileContents ==
  /\ mainAt = "add" /\ entryLock[mainFile] = Nobody
  /\ ready' = ready \ {mainFile}
  /\ compressed' = compressed \ {mainFile}
  /\ queue' = queue \cup {mainFile}
  /\ mainAt' = "frame" /\ mainFile' = Nobody
  /\ UNCHANGED <<events, luaMutex, lifetime, thread, entryLock, resume, workerVars>>

\* A client asks for a file: SendFileToClient waits for its entry.
RequestFile(f) ==
  /\ "serve" \in events /\ mainAt = "frame" /\ depth < MaxDepth
  /\ mainAt' = "serve" /\ mainFile' = f
  /\ UNCHANGED <<events, luaMutex, lifetime, thread, cache, resume, workerVars>>

(* SendFileToClient processes and compresses on the main thread what the   *)
(* worker has not done yet.  StripContent then opens a StateAccess on the  *)
(* interface: its constructor compares g_Lua with a member that is still   *)
(* null and locks, its destructor compares with g_Lua itself and does not  *)
(* unlock.                                                                 *)
SendFileToClient ==
  /\ mainAt = "serve" /\ entryLock[mainFile] = Nobody
  /\ IF mainFile \notin ready /\ interface
     THEN /\ holder \in {Nobody, Main}
          /\ holder' = Main /\ owner' = Main /\ depth' = depth + 1
          /\ UNCHANGED waiting
     ELSE UNCHANGED luaMutex
  /\ ready' = ready \cup {mainFile}
  /\ compressed' = compressed \cup {mainFile}
  /\ mainAt' = "frame" /\ mainFile' = Nobody
  /\ UNCHANGED <<events, lifetime, thread, queue, entryLock, resume, workerVars>>

MarkAsTokenizeThread ==
  /\ "mark" \in events /\ mainAt = "frame"
  /\ interface' = TRUE
  /\ UNCHANGED <<events, luaMutex, shared, alive, thread, cache, mainVars, workerVars>>

-----------------------------------------------------------------------------
(* The main thread: stopping and starting the worker.                      *)

\* LevelShutdown calls LuaDataPack::Shutdown: the interface goes first.
LevelShutdown ==
  /\ "level" \in events /\ mainAt \in {"frame", "noLua"}
  /\ interface' = FALSE
  /\ mainAt' = "stop" /\ resume' = mainAt
  /\ UNCHANGED <<events, luaMutex, shared, alive, thread, cache, mainFile, workerVars>>

StopWorker ==
  /\ mainAt = "stop"
  /\ IF handle /\ threadState # "NOTRUNNING"
     THEN threadState' = "SHOULD_SHUTDOWN" /\ mainAt' = "spin"
     ELSE mainAt' = "release" /\ UNCHANGED threadState
  /\ UNCHANGED <<events, luaMutex, lifetime, handle, cache, mainFile, resume, workerVars>>

SpinUntilStopped ==
  /\ mainAt = "spin" /\ threadState = "NOTRUNNING"
  /\ mainAt' = "release"
  /\ UNCHANGED <<events, luaMutex, lifetime, thread, cache, mainFile, resume, workerVars>>

\* ReleaseThreadHandle, then every entry is visited under its lock.
ReleaseWorker ==
  /\ mainAt = "release"
  /\ \A f \in Files : entryLock[f] = Nobody
  /\ handle' = FALSE
  /\ mainAt' = resume
  /\ UNCHANGED <<events, luaMutex, lifetime, threadState, cache, mainFile, resume,
                 workerVars>>

\* Mistake: the thread is restarted without feeding the files again.
StartWorker_Unfed ==
  /\ mainAt = "start"
  /\ threadState' = "RUNNING" /\ handle' = TRUE
  /\ workerAt' = "loop"
  /\ mainAt' = "frame" /\ resume' = "frame"
  /\ file' = Nobody /\ batch' = {} /\ todo' = {} /\ outer' = FALSE /\ inner' = FALSE
  /\ UNCHANGED <<events, luaMutex, lifetime, cache, mainFile>>

(* The rest of Initialize: what the last worker left unprocessed is        *)
(* cleared and queued again, and a new thread starts.                      *)
StartWorker ==
  /\ mainAt = "start"
  /\ queue' = queue \cup (Files \ ready)
  /\ compressed' = compressed \cap ready
  /\ threadState' = "RUNNING" /\ handle' = TRUE
  /\ workerAt' = "loop"
  /\ mainAt' = "frame" /\ resume' = "frame"
  /\ file' = Nobody /\ batch' = {} /\ todo' = {} /\ outer' = FALSE /\ inner' = FALSE
  /\ UNCHANGED <<events, luaMutex, lifetime, entryLock, ready, mainFile>>

-----------------------------------------------------------------------------
(* The main thread: the end and the beginning of the main Lua state.       *)

\* hook_CLuaInterface_Shutdown or ManualShutdown, up to RemoveLuaData.
ShutdownLua ==
  /\ "teardown" \in events /\ mainAt = "frame"
  /\ mainAt' = "remove"
  /\ UNCHANGED <<events, luaMutex, lifetime, thread, cache, mainFile, resume, workerVars>>

\* Mistake: the state is deleted without the exclusive lock.
RemoveLuaData_Shared ==
  /\ mainAt = "remove"
  /\ alive' = FALSE /\ interface' = FALSE
  /\ waiting' = 0 /\ holder' = Nobody /\ depth' = 0 /\ owner' = Nobody
  /\ mainAt' = "noLua"
  /\ UNCHANGED <<events, shared, thread, cache, mainFile, resume, workerVars>>

\* The exclusive lock, then the StateData with its mutex and references goes.
RemoveLuaData ==
  /\ mainAt = "remove" /\ CriticalAccess
  /\ alive' = FALSE /\ interface' = FALSE
  /\ waiting' = 0 /\ holder' = Nobody /\ depth' = 0 /\ owner' = Nobody
  /\ mainAt' = "noLua"
  /\ UNCHANGED <<events, shared, thread, cache, mainFile, resume, workerVars>>

\* Lua::Init: CreateLuaData locks the new mutex, LuaInit calls Initialize,
\* which begins with Shutdown.
CreateLuaData ==
  /\ mainAt = "noLua" /\ CriticalAccess
  /\ alive' = TRUE /\ interface' = FALSE
  /\ holder' = Main /\ depth' = 1 /\ owner' = Main
  /\ mainAt' = "stop" /\ resume' = "start"
  /\ UNCHANGED <<events, waiting, shared, thread, cache, mainFile, workerVars>>

-----------------------------------------------------------------------------
(* The main thread: Lua::ThinkMainInterface at the end of a frame.         *)

ThinkMainInterface ==
  /\ mainAt = "frame" /\ waiting # 0
  /\ Disown
  /\ EnterScoped(Main)
  /\ mainAt' = "unlock"
  /\ UNCHANGED <<events, alive, interface, thread, cache, mainFile, resume, workerVars>>

MainUnlock ==
  /\ mainAt = "unlock" /\ Unlock
  /\ mainAt' = "waiting"
  /\ UNCHANGED <<events, lifetime, thread, cache, mainFile, resume, workerVars>>

\* Mistake: lockWhenDone does not ask who is still waiting.
CheckWaiting_Skipped ==
  /\ mainAt = "waiting"
  /\ mainAt' = "locked"
  /\ UNCHANGED <<events, luaMutex, lifetime, thread, cache, mainFile, resume, workerVars>>

\* The predicate of lockWhenDone: two loads, the second only after the first.
CheckWaiting ==
  /\ mainAt = "waiting"
  /\ mainAt' = IF waiting = 0 THEN "locked" ELSE "drowsy"
  /\ UNCHANGED <<events, luaMutex, lifetime, thread, cache, mainFile, resume, workerVars>>

CheckLocked ==
  /\ mainAt = "locked"
  /\ mainAt' = IF owner = Nobody THEN "announce" ELSE "drowsy"
  /\ UNCHANGED <<events, luaMutex, lifetime, thread, cache, mainFile, resume, workerVars>>

\* cv.wait blocks; a notification that came before is gone.
FallAsleep ==
  /\ mainAt = "drowsy"
  /\ mainAt' = "asleep"
  /\ UNCHANGED <<events, luaMutex, lifetime, thread, cache, mainFile, resume, workerVars>>

\* A condition variable may wake without being notified; it need not.
WakeSpuriously ==
  /\ mainAt = "asleep"
  /\ mainAt' = "waiting"
  /\ UNCHANGED <<events, luaMutex, lifetime, thread, cache, mainFile, resume, workerVars>>

MainAnnounce ==
  /\ mainAt = "announce" /\ Announce
  /\ mainAt' = "acquire"
  /\ UNCHANGED <<events, lifetime, thread, cache, mainFile, resume, workerVars>>

\* Mistake: lockWhenDone returns without having locked.
MainAcquire_Unlocked ==
  /\ mainAt = "acquire" /\ mainAt' = "withdraw"
  /\ UNCHANGED <<events, luaMutex, lifetime, thread, cache, mainFile, resume, workerVars>>

MainAcquire ==
  /\ mainAt = "acquire" /\ Acquire(Main)
  /\ mainAt' = "withdraw"
  /\ UNCHANGED <<events, lifetime, thread, cache, mainFile, resume, workerVars>>

MainWithdraw ==
  /\ mainAt = "withdraw" /\ Withdraw
  /\ mainAt' = "own"
  /\ UNCHANGED <<events, lifetime, thread, cache, mainFile, resume, workerVars>>

MainOwn ==
  /\ mainAt = "own" /\ Own(Main)
  /\ LeaveScoped(Main)
  /\ mainAt' = "frame"
  /\ UNCHANGED <<events, alive, interface, thread, cache, mainFile, resume, workerVars>>

-----------------------------------------------------------------------------
(* The worker thread.                                                      *)

\* while (m_pWorkerThreadState.load() == STATE_RUNNING)
WorkerLoop ==
  /\ workerAt = "loop"
  /\ workerAt' = IF threadState = "RUNNING" THEN "take" ELSE "exit"
  /\ UNCHANGED <<events, luaMutex, lifetime, thread, cache, mainVars, scope>>

TakeBatch ==
  /\ workerAt = "take"
  /\ workerAt' = IF queue = {} THEN "loop" ELSE "enter"
  /\ batch' = queue /\ todo' = queue /\ queue' = {}
  /\ UNCHANGED <<events, luaMutex, lifetime, thread, entryLock, ready, compressed,
                 mainVars, file, outer, inner>>

EnterScope ==
  /\ workerAt = "enter"
  /\ EnterScoped(Worker)
  /\ workerAt' = "check"
  /\ UNCHANGED <<events, luaMutex, alive, interface, thread, cache, mainVars, scope>>

CheckRunning ==
  /\ workerAt = "check"
  /\ IF threadState = "RUNNING"
     THEN workerAt' = "get" /\ UNCHANGED shared
     ELSE workerAt' = "exit" /\ LeaveScoped(Worker)
  /\ UNCHANGED <<events, luaMutex, alive, interface, thread, cache, mainVars, scope>>

\* pInterface.GetLua(): without an interface the StateAccess does nothing.
GetInterface ==
  /\ workerAt = "get"
  /\ outer' = interface
  /\ workerAt' = IF interface THEN "announce" ELSE "scan"
  /\ UNCHANGED <<events, luaMutex, lifetime, thread, cache, mainVars, file, batch,
                 todo, inner>>

WorkerAnnounce ==
  /\ workerAt = "announce" /\ Announce
  /\ workerAt' = "acquire"
  /\ UNCHANGED <<events, lifetime, thread, cache, mainVars, scope>>

WorkerAcquire ==
  /\ workerAt = "acquire" /\ Acquire(Worker)
  /\ workerAt' = "withdraw"
  /\ UNCHANGED <<events, lifetime, thread, cache, mainVars, scope>>

WorkerWithdraw ==
  /\ workerAt = "withdraw" /\ Withdraw
  /\ workerAt' = "own"
  /\ UNCHANGED <<events, lifetime, thread, cache, mainVars, scope>>

WorkerOwn ==
  /\ workerAt = "own" /\ Own(Worker)
  /\ workerAt' = IF inner THEN "hook" ELSE "scan"
  /\ UNCHANGED <<events, lifetime, thread, cache, mainVars, scope>>

(* First pass, one entry: skipped when its content is ready, otherwise     *)
(* processed with the entry locked.                                        *)
LockEntry(f) ==
  /\ workerAt = "scan" /\ threadState = "RUNNING" /\ f \in todo
  /\ entryLock[f] = Nobody
  /\ todo' = todo \ {f}
  /\ IF f \in ready
     THEN UNCHANGED <<entryLock, workerAt, file>>
     ELSE entryLock' = [entryLock EXCEPT ![f] = Worker] /\ workerAt' = "strip" /\ file' = f
  /\ UNCHANGED <<events, luaMutex, lifetime, thread, queue, ready, compressed, mainVars,
                 batch, outer, inner>>

EndFirstPass ==
  /\ workerAt = "scan" /\ (todo = {} \/ threadState # "RUNNING")
  /\ workerAt' = IF outer THEN "disown" ELSE "leave"
  /\ UNCHANGED <<events, luaMutex, lifetime, thread, cache, mainVars, scope>>

\* StripContent reads the interface again, inside a scope of its own.
StripContent ==
  /\ workerAt = "strip"
  /\ EnterScoped(Worker)
  /\ inner' = interface
  /\ workerAt' = IF interface THEN "announce" ELSE "done"
  /\ UNCHANGED <<events, luaMutex, alive, interface, thread, cache, mainVars, file, batch,
                 todo, outer>>

\* PushHook accepts the call only from the owner; HolyLib:OnTokenizeContent runs.
CallTokenizeHook ==
  /\ workerAt = "hook"
  /\ workerAt' = "disown"
  /\ UNCHANGED <<events, luaMutex, lifetime, thread, cache, mainVars, scope>>

WorkerDisown ==
  /\ workerAt = "disown" /\ Disown
  /\ workerAt' = "unlock"
  /\ UNCHANGED <<events, lifetime, thread, cache, mainVars, scope>>

WorkerUnlock ==
  /\ workerAt = "unlock" /\ Unlock
  /\ workerAt' = "notify"
  /\ UNCHANGED <<events, lifetime, thread, cache, mainVars, scope>>

\* cv.notify_all(), without cvMutex: only a thread already asleep hears it.
WorkerNotify ==
  /\ workerAt = "notify"
  /\ mainAt' = IF mainAt = "asleep" THEN "waiting" ELSE mainAt
  /\ workerAt' = IF inner THEN "done" ELSE "leave"
  /\ UNCHANGED <<events, luaMutex, lifetime, thread, cache, mainFile, resume, scope>>

\* Mistake: the entry stays locked after it was processed.
FinishContent_Locked ==
  /\ workerAt = "done"
  /\ LeaveScoped(Worker)
  /\ ready' = ready \cup {file}
  /\ inner' = FALSE /\ file' = Nobody
  /\ workerAt' = "scan"
  /\ UNCHANGED <<events, luaMutex, alive, interface, thread, queue, entryLock, compressed,
                 mainVars, batch, todo, outer>>

\* The rest of ProcessContent, and the entry is unlocked.
FinishContent ==
  /\ workerAt = "done"
  /\ LeaveScoped(Worker)
  /\ ready' = ready \cup {file}
  /\ entryLock' = [entryLock EXCEPT ![file] = Nobody]
  /\ inner' = FALSE /\ file' = Nobody
  /\ workerAt' = "scan"
  /\ UNCHANGED <<events, luaMutex, alive, interface, thread, queue, compressed, mainVars,
                 batch, todo, outer>>

LeaveScope ==
  /\ workerAt = "leave"
  /\ LeaveScoped(Worker)
  /\ outer' = FALSE /\ todo' = batch
  /\ workerAt' = "compress"
  /\ UNCHANGED <<events, luaMutex, alive, interface, thread, cache, mainVars, file,
                 batch, inner>>

\* Second pass: entries whose content is ready are compressed, one by one.
CompressEntry(f) ==
  /\ workerAt = "compress" /\ threadState = "RUNNING" /\ f \in todo
  /\ entryLock[f] = Nobody
  /\ todo' = todo \ {f}
  /\ compressed' = IF f \in ready THEN compressed \cup {f} ELSE compressed
  /\ UNCHANGED <<events, luaMutex, lifetime, thread, queue, entryLock, ready, mainVars,
                 workerAt, file, batch, outer, inner>>

EndSecondPass ==
  /\ workerAt = "compress" /\ (todo = {} \/ threadState # "RUNNING")
  /\ batch' = {} /\ todo' = {}
  /\ workerAt' = "loop"
  /\ UNCHANGED <<events, luaMutex, lifetime, thread, cache, mainVars, file, outer, inner>>

ExitThread ==
  /\ workerAt = "exit"
  /\ threadState' = "NOTRUNNING"
  /\ workerAt' = "dead"
  /\ UNCHANGED <<events, luaMutex, lifetime, handle, cache, mainVars, scope>>

-----------------------------------------------------------------------------
MainEvent ==
  \/ \E f \in Files : RegisterFile(f) \/ RequestFile(f)
  \/ MarkAsTokenizeThread \/ LevelShutdown \/ ShutdownLua \/ CreateLuaData

MainStep ==
  \/ AddFileContents \/ SendFileToClient
  \/ StopWorker \/ SpinUntilStopped \/ ReleaseWorker \/ StartWorker \/ RemoveLuaData
  \/ MainUnlock \/ CheckWaiting \/ CheckLocked \/ FallAsleep
  \/ MainAnnounce \/ MainAcquire \/ MainWithdraw \/ MainOwn

WorkerStep ==
  \/ WorkerLoop \/ TakeBatch \/ EnterScope \/ CheckRunning \/ GetInterface
  \/ WorkerAnnounce \/ WorkerAcquire \/ WorkerWithdraw \/ WorkerOwn
  \/ \E f \in Files : LockEntry(f) \/ CompressEntry(f)
  \/ EndFirstPass \/ StripContent \/ CallTokenizeHook
  \/ WorkerDisown \/ WorkerUnlock \/ WorkerNotify
  \/ FinishContent \/ LeaveScope \/ EndSecondPass \/ ExitThread

Next == MainEvent \/ ThinkMainInterface \/ WakeSpuriously \/ MainStep \/ WorkerStep

Spec == Init /\ [][Next]_vars

(* A thread that can take its next step takes it.  Every server frame ends *)
(* in ThinkMainInterface, however often the engine's other calls come in   *)
(* between: it runs if it is possible again and again.  No fairness on the *)
(* engine's own events nor on spurious wake-ups.                           *)
Fairness ==
  /\ WF_vars(MainStep)
  /\ WF_vars(WorkerStep)
  /\ SF_vars(ThinkMainInterface)

FairSpec == Spec /\ Fairness

-----------------------------------------------------------------------------
(* Safety.                                                                 *)

MainInLua == alive /\ mainAt \notin Released
WorkerInLua ==
  \/ workerAt = "hook"
  \/ outer /\ workerAt \in {"scan", "strip", "done"}

(* The Lua state is not thread-safe: the worker never runs Lua, nor works  *)
(* under its StateAccess, while the main thread is anywhere outside        *)
(* ThinkMainInterface.                                                     *)
OneThreadInLua == ~(MainInLua /\ WorkerInLua)

(* The StateData outlives every StateAccess on it: from GetLua to the      *)
(* unlock, the state whose mutex the worker uses exists (the memory        *)
(* corruption lua.h warns of).                                             *)
StateOutlivesAccess == outer \/ inner => alive

-----------------------------------------------------------------------------
(* Liveness.                                                               *)

(* A marked Lua state together with anything that makes the main thread    *)
(* wait for the worker: they can block each other (ShutdownCompletes,      *)
(* FrameResumes).  The other properties leave those behaviours out.        *)
MayBlock == "mark" \in events /\ events # {"mark"}

(* A worker that waits for the mutex gets it: lockWhenDone does not take   *)
(* the mutex back before every thread that waited has had it, although     *)
(* nothing else is fair.                                                   *)
WaiterServed == MayBlock \/ (workerAt = "acquire" ~> workerAt # "acquire")

(* Every registered file ends up processed once the engine leaves the      *)
(* worker running and asks for nothing more, whatever came before.  It is  *)
(* also compressed, except what a stopped worker had processed and not yet *)
(* compressed: that waits for a client to ask for it.                      *)
EverythingCompressed ==
  MayBlock \/ (<>[](threadState = "RUNNING" /\ mainAt \in {"frame"} \cup Released)
    => <>[](ready = Files /\ ("level" \in events \/ compressed = Files)))

(* Shutting the worker down ends: the spinning main thread sees it stop.   *)
ShutdownCompletes == mainAt = "spin" ~> mainAt # "spin"

(* The main thread is never left waiting for the worker: to stop, to let   *)
(* go of an entry of the cache, or of the Lua state it is tearing down.    *)
MainProceeds ==
  MayBlock \/ (/\ ShutdownCompletes
               /\ mainAt \in {"add", "serve"} ~> mainAt = "frame"
               /\ mainAt = "remove" ~> mainAt # "remove")

(* The main thread locks again once the others are done: a frame that      *)
(* released the mutex comes to its end.                                    *)
FrameResumes == mainAt \in Released ~> mainAt = "frame"

=============================================================================
