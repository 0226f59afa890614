----------------------- MODULE LuaThreadAccess_proofs -----------------------
(***************************************************************************)
(* Proofs about LuaThreadAccess for any set of files: who holds the        *)
(* LuaMutex and how often, and that the Lua state a StateAccess was opened *)
(* on is not deleted under it.                                             *)
(*                                                                         *)
(* The argument.  What the worker holds is a function of where it is and   *)
(* of which of its two StateAccess objects are open (OuterHeld, InnerHeld),*)
(* and so are the scopes of the lifetime lock it is inside (Scopes).  The  *)
(* main thread holds the mutex everywhere but between the unlock and the   *)
(* lock of ThinkMainInterface, if the state exists.  A leaked level of the *)
(* recursion only makes it hold the mutex longer.  The state is deleted    *)
(* only when no thread is inside a scope.                                  *)
(***************************************************************************)
EXTENDS LuaThreadAccess, TLAPS

\* The worker is locking or unlocking one of its StateAccess objects.
Locking == {"announce", "acquire", "withdraw", "own"}
Unlocking == {"disown", "unlock", "notify"}

\* The scopes of the lifetime lock the worker is inside.
Scopes ==
  IF workerAt \in {"loop", "take", "enter", "compress", "exit", "dead"} THEN 0
  ELSE IF inner \/ workerAt \in {"hook", "done"} THEN 2 ELSE 1

\* Which StateAccess of the worker holds the mutex now.
OuterHeld == outer /\ (inner \/ workerAt \in {"withdraw", "own", "scan", "strip", "done",
                                              "disown", "unlock"})
InnerHeld == inner /\ workerAt \in {"withdraw", "own", "hook", "disown", "unlock"}
WorkerHolds == (IF OuterHeld THEN 1 ELSE 0) + (IF InnerHeld THEN 1 ELSE 0)

\* Where the main thread is without the mutex, unless a level of it leaked.
MainAway == {"waiting", "locked", "drowsy", "asleep", "announce", "acquire"}

\* Threads counted as waiting.
One(b) == IF b THEN 1 ELSE 0
Waiters == One(mainAt \in {"acquire", "withdraw"}) + One(workerAt \in {"acquire", "withdraw"})

\* The worker's control state: which accesses are open where.
WorkerPlaces ==
  /\ workerAt \in Locking \cup Unlocking => outer \/ inner
  /\ workerAt = "hook" => inner
  /\ inner => workerAt \in Locking \cup Unlocking \cup {"hook", "done"}
  /\ outer => workerAt \in Locking \cup Unlocking \cup {"hook", "done", "scan", "strip", "leave"}
  /\ threadState = "NOTRUNNING" => workerAt = "dead"
  /\ ~handle => workerAt = "dead"
  /\ mainAt \in {"release", "start"} => workerAt = "dead"
  /\ inner \/ workerAt \in {"strip", "done"} => file \in Files

\* The main thread's: the state exists wherever it is used.
MainPlaces ==
  /\ alive \/ mainAt = "noLua" \/ (mainAt \in {"stop", "spin", "release"} /\ resume = "noLua")
  /\ interface => alive
  /\ outer \/ inner => alive
  /\ mainAt \in {"add", "serve"} => mainFile \in Files

\* The counts that the threads read and write one at a time.
Counts ==
  /\ waiting = Waiters
  /\ shared[Worker] = Scopes
  /\ shared[Main] = One(mainAt \in Released)

\* The mutex itself.
MutexHeld ==
  /\ WorkerHolds > 0 => holder = Worker /\ depth = WorkerHolds
  /\ alive /\ mainAt \notin MainAway => holder = Main
  /\ holder = Worker => WorkerHolds > 0
  /\ holder = Main => depth > 0
  /\ holder = Nobody => depth = 0

AccessInv == TypeOK /\ WorkerPlaces /\ MainPlaces /\ Counts /\ MutexHeld

USE DEF Main, Worker, Nobody, Thread, One

LEMMA AccessInit == Init => AccessInv
<1> SUFFICES ASSUME Init PROVE AccessInv
  OBVIOUS
<1>1. TypeOK
  <2>1. /\ shared \in [Thread -> 0 .. 2] /\ entryLock \in [Files -> Thread \cup {Nobody}]
        /\ events \in EventSets
    BY DEF Init
  <2> QED
    BY <2>1 DEF Init, TypeOK, MainPlace, WorkerPlace
<1>2. WorkerPlaces /\ MainPlaces
  BY DEF Init, WorkerPlaces, MainPlaces, Locking, Unlocking
<1>3. Counts /\ MutexHeld
  BY DEF Init, Counts, MutexHeld, Scopes, OuterHeld, InnerHeld, WorkerHolds, MainAway, Waiters,
     Released
<1> QED
  BY <1>1, <1>2, <1>3 DEF AccessInv

LEMMA AccessMain ==
  ASSUME AccessInv, MainStep \/ MainEvent \/ ThinkMainInterface \/ WakeSpuriously
  PROVE  AccessInv'
<1> USE DEF AccessInv, TypeOK, WorkerPlaces, MainPlaces, Counts, MutexHeld, Locking, Unlocking,
      Scopes, OuterHeld, InnerHeld, WorkerHolds, MainAway, Waiters, MainPlace, Released,
      Blocking, WorkerPlace, luaMutex, lifetime, thread, cache, mainVars, scope, workerVars
<1>1. ASSUME NEW f \in Files, RegisterFile(f) PROVE AccessInv'
  BY <1>1 DEF RegisterFile
<1>2. ASSUME NEW f \in Files, RequestFile(f) PROVE AccessInv'
  BY <1>2 DEF RequestFile
<1>3. CASE MarkAsTokenizeThread
  BY <1>3 DEF MarkAsTokenizeThread
<1>4. CASE LevelShutdown
  <2> HIDE DEF AccessInv, WorkerPlaces, MainPlaces, Counts, MutexHeld
  <2>1. TypeOK'
    <3>1. mainAt \in {"frame", "noLua"} /\ resume' = mainAt /\ mainAt' = "stop"
      BY <1>4 DEF LevelShutdown
    <3>2. resume' \in {"frame", "noLua", "start"} /\ mainAt' \in MainPlace /\ interface' \in BOOLEAN
      BY <1>4, <3>1 DEF LevelShutdown
    <3> QED
      BY <1>4, <3>2 DEF LevelShutdown, AccessInv
  <2> USE DEF AccessInv, WorkerPlaces, MainPlaces, Counts, MutexHeld
  <2>2. WorkerPlaces'
    BY <1>4 DEF LevelShutdown
  <2>3. MainPlaces'
    BY <1>4 DEF LevelShutdown
  <2>4. Counts'
    BY <1>4 DEF LevelShutdown
  <2>5. MutexHeld'
    BY <1>4 DEF LevelShutdown
  <2> QED
    BY <2>1, <2>2, <2>3, <2>4, <2>5
<1>5. CASE ShutdownLua
  BY <1>5 DEF ShutdownLua
<1>0. ASSUME CriticalAccess PROVE ~outer /\ ~inner /\ shared[Worker] = 0 /\ shared[Main] = 0
  BY <1>0 DEF CriticalAccess
<1>6. CASE CreateLuaData
  <2>1. TypeOK'
    <3> HIDE DEF AccessInv, WorkerPlaces, MainPlaces, Counts, MutexHeld, WorkerPlace
    <3>1. TypeOK
      BY DEF AccessInv
    <3> QED
      BY <1>6, <3>1 DEF CreateLuaData
  <2>2. WorkerPlaces' /\ MainPlaces' /\ Counts' /\ MutexHeld'
    BY <1>0, <1>6 DEF CreateLuaData
  <2> QED
    BY <2>1, <2>2
<1>7. CASE AddFileContents
  BY <1>7 DEF AddFileContents
<1>8. CASE SendFileToClient
  BY <1>8 DEF SendFileToClient
<1>9. CASE StopWorker
  BY <1>9 DEF StopWorker
<1>10. CASE SpinUntilStopped
  BY <1>10 DEF SpinUntilStopped
<1>11. CASE ReleaseWorker
  <2>1. mainAt' \in {"frame", "noLua", "start"} /\ mainAt' = resume
    BY <1>11 DEF ReleaseWorker
  <2>2. TypeOK'
    <3>1. mainAt' \in MainPlace /\ handle' \in BOOLEAN
      BY <1>11, <2>1 DEF ReleaseWorker
    <3> HIDE DEF WorkerPlaces, MainPlaces, Counts, MutexHeld, MainPlace, WorkerPlace
    <3> QED
      BY <1>11, <3>1 DEF ReleaseWorker
  <2>3. WorkerPlaces' /\ MainPlaces' /\ Counts' /\ MutexHeld'
    BY <1>11, <2>1 DEF ReleaseWorker
  <2> QED
    BY <2>2, <2>3
<1>12. CASE StartWorker
  BY <1>12 DEF StartWorker
<1>13. CASE RemoveLuaData
  <2>1. TypeOK'
    <3> HIDE DEF AccessInv, WorkerPlaces, MainPlaces, Counts, MutexHeld, WorkerPlace
    <3>1. TypeOK
      BY DEF AccessInv
    <3>2. waiting' \in 0 .. 2 /\ depth' \in Nat
      BY <1>13 DEF RemoveLuaData
    <3>3. /\ holder' \in Thread \cup {Nobody} /\ owner' \in Thread \cup {Nobody}
          /\ alive' \in BOOLEAN /\ interface' \in BOOLEAN
      BY <1>13 DEF RemoveLuaData
    <3>4. mainAt' \in MainPlace
      BY <1>13 DEF RemoveLuaData
    <3>5. UNCHANGED <<events, shared, thread, cache, mainFile, resume, workerVars>>
      BY <1>13 DEF RemoveLuaData
    <3> HIDE DEF MainPlace
    <3> QED
      BY <3>1, <3>2, <3>3, <3>4, <3>5
  <2>2. WorkerPlaces' /\ MainPlaces' /\ Counts' /\ MutexHeld'
    BY <1>0, <1>13 DEF RemoveLuaData
  <2> QED
    BY <2>1, <2>2
<1>14. CASE ThinkMainInterface
  BY <1>14 DEF ThinkMainInterface, Disown, EnterScoped
<1>15. CASE MainUnlock
  BY <1>15 DEF MainUnlock, Unlock
<1>16. CASE CheckWaiting \/ CheckLocked \/ FallAsleep \/ WakeSpuriously
  BY <1>16 DEF CheckWaiting, CheckLocked, FallAsleep, WakeSpuriously
<1>17. CASE MainAnnounce
  BY <1>17 DEF MainAnnounce, Announce
<1>18. CASE MainAcquire
  BY <1>18 DEF MainAcquire, Acquire
<1>19. CASE MainWithdraw
  BY <1>19 DEF MainWithdraw, Withdraw
<1>20. CASE MainOwn
  <2>1. TypeOK'
    <3> HIDE DEF WorkerPlaces, MutexHeld, WorkerPlace
    <3>1. shared[Main] = 1 /\ shared' \in [Thread -> 0 .. 2]
      BY <1>20 DEF MainOwn, LeaveScoped
    <3> HIDE DEF MainPlaces, Counts
    <3> QED
      BY <1>20, <3>1 DEF MainOwn, Own
  <2>2. WorkerPlaces' /\ MainPlaces'
    BY <1>20 DEF MainOwn, Own, LeaveScoped
  <2>3. Counts'
    BY <1>20 DEF MainOwn, Own, LeaveScoped
  <2>4. MutexHeld'
    <3>1. /\ mainAt = "own" /\ UNCHANGED <<alive, holder, depth, outer, inner, workerAt>>
      BY <1>20 DEF MainOwn, Own, workerVars
    <3>2. UNCHANGED WorkerHolds
      <4> HIDE DEF AccessInv, TypeOK, WorkerPlaces, MainPlaces, Counts, MutexHeld
      <4> QED
        BY <3>1, Zenon
    <3> HIDE DEF TypeOK, WorkerHolds, WorkerPlaces, MainPlaces, Counts
    <3> QED
      BY <3>1, <3>2 DEF MainAway
  <2> QED
    BY <2>1, <2>2, <2>3, <2>4
<1> QED
  BY <1>1, <1>2, <1>3, <1>4, <1>5, <1>6, <1>7, <1>8, <1>9, <1>10, <1>11, <1>12, <1>13,
     <1>14, <1>15, <1>16, <1>17, <1>18, <1>19, <1>20 DEF MainStep, MainEvent

LEMMA AccessWorker == AccessInv /\ WorkerStep => AccessInv'
<1> SUFFICES ASSUME AccessInv, WorkerStep PROVE AccessInv'
  OBVIOUS
<1> USE DEF AccessInv, TypeOK, WorkerPlaces, MainPlaces, Counts, MutexHeld, Locking, Unlocking,
      Scopes, OuterHeld, InnerHeld, WorkerHolds, MainAway, Waiters, MainPlace, Released,
      Blocking, WorkerPlace, luaMutex, lifetime, thread, cache, mainVars, scope, workerVars
<1>1. CASE WorkerLoop \/ TakeBatch
  BY <1>1 DEF WorkerLoop, TakeBatch
<1>2. CASE EnterScope
  BY <1>2 DEF EnterScope, EnterScoped
<1>3. CASE CheckRunning
  BY <1>3 DEF CheckRunning, LeaveScoped
<1>4. CASE GetInterface
  BY <1>4 DEF GetInterface
<1>5. CASE WorkerAnnounce
  BY <1>5 DEF WorkerAnnounce, Announce
<1>6. CASE WorkerAcquire
  <2>1. TypeOK'
    BY <1>6 DEF WorkerAcquire, Acquire
  <2>2. WorkerPlaces' /\ MainPlaces'
    BY <1>6 DEF WorkerAcquire, Acquire
  <2>3. Counts'
    BY <1>6 DEF WorkerAcquire, Acquire
  <2>4. MutexHeld'
    BY <1>6 DEF WorkerAcquire, Acquire
  <2> QED
    BY <2>1, <2>2, <2>3, <2>4
<1>7. CASE WorkerWithdraw
  BY <1>7 DEF WorkerWithdraw, Withdraw
<1>8. CASE WorkerOwn
  BY <1>8 DEF WorkerOwn, Own
<1>9. ASSUME NEW f \in Files, LockEntry(f) PROVE AccessInv'
  BY <1>9 DEF LockEntry
<1>10. ASSUME NEW f \in Files, CompressEntry(f) PROVE AccessInv'
  BY <1>10 DEF CompressEntry
<1>11. CASE EndFirstPass \/ EndSecondPass
  BY <1>11 DEF EndFirstPass, EndSecondPass
<1>12. CASE StripContent
  BY <1>12 DEF StripContent, EnterScoped
<1>13. CASE CallTokenizeHook
  BY <1>13 DEF CallTokenizeHook
<1>14. CASE WorkerDisown
  BY <1>14 DEF WorkerDisown, Disown
<1>15. CASE WorkerUnlock
  BY <1>15 DEF WorkerUnlock, Unlock
<1>16. CASE WorkerNotify
  BY <1>16 DEF WorkerNotify
<1>17. CASE FinishContent
  <2>1. TypeOK'
    <3>1. shared[Worker] = 2 /\ file \in Files
      BY <1>17 DEF FinishContent
    <3>2. shared' \in [Thread -> 0 .. 2]
      BY <1>17, <3>1 DEF FinishContent, LeaveScoped
    <3>3. entryLock' \in [Files -> Thread \cup {Nobody}] /\ ready' \subseteq Files
      BY <1>17, <3>1 DEF FinishContent
    <3>4. workerAt' \in WorkerPlace /\ inner' \in BOOLEAN /\ file' \in Files \cup {Nobody}
      BY <1>17 DEF FinishContent
    <3> HIDE DEF WorkerPlaces, MainPlaces, Counts, MutexHeld, MainPlace, WorkerPlace
    <3> QED
      BY <1>17, <3>2, <3>3, <3>4 DEF FinishContent
  <2>2. WorkerPlaces' /\ MainPlaces'
    BY <1>17 DEF FinishContent, LeaveScoped
  <2>3. Counts'
    BY <1>17 DEF FinishContent, LeaveScoped
  <2>4. MutexHeld'
    BY <1>17 DEF FinishContent, LeaveScoped
  <2> QED
    BY <2>1, <2>2, <2>3, <2>4
<1>18. CASE LeaveScope
  <2>1. TypeOK'
    <3>1. shared[Worker] = 1 /\ shared' \in [Thread -> 0 .. 2]
      BY <1>18 DEF LeaveScope, LeaveScoped
    <3>2. workerAt' \in WorkerPlace /\ outer' \in BOOLEAN /\ todo' \subseteq Files
      BY <1>18 DEF LeaveScope
    <3> HIDE DEF WorkerPlaces, MainPlaces, Counts, MutexHeld, MainPlace, WorkerPlace
    <3> QED
      BY <1>18, <3>1, <3>2 DEF LeaveScope
  <2>2. WorkerPlaces' /\ MainPlaces'
    BY <1>18 DEF LeaveScope, LeaveScoped
  <2>3. Counts'
    BY <1>18 DEF LeaveScope, LeaveScoped
  <2>4. MutexHeld'
    BY <1>18 DEF LeaveScope, LeaveScoped
  <2> QED
    BY <2>1, <2>2, <2>3, <2>4
<1>19. CASE ExitThread
  BY <1>19 DEF ExitThread
<1> QED
  BY <1>1, <1>2, <1>3, <1>4, <1>5, <1>6, <1>7, <1>8, <1>9, <1>10, <1>11, <1>12, <1>13, <1>14,
     <1>15, <1>16, <1>17, <1>18, <1>19 DEF WorkerStep

LEMMA AccessStep == AccessInv /\ [Next]_vars => AccessInv'
<1>1. AccessInv /\ UNCHANGED vars => AccessInv'
  BY DEF AccessInv, TypeOK, WorkerPlaces, MainPlaces, Counts, MutexHeld, Scopes, OuterHeld,
     InnerHeld, WorkerHolds, Waiters, vars, luaMutex, lifetime, thread, cache, mainVars, scope,
     workerVars
<1> QED
  BY <1>1, AccessMain, AccessWorker DEF Next

LEMMA AccessAlways == Spec => []AccessInv
  BY AccessInit, AccessStep, PTL DEF Spec

(* The variables of the locks, the entries and both threads keep their     *)
(* types: no count of waiting threads or of scopes underflows, and the     *)
(* mutex is never unlocked by a thread that does not hold it.              *)
THEOREM TypeCorrect == Spec => []TypeOK
<1>1. AccessInv => TypeOK
  BY DEF AccessInv
<1> QED
  BY <1>1, AccessAlways, PTL

(* The worker never runs Lua, nor works under its StateAccess, while the   *)
(* main thread is anywhere outside ThinkMainInterface, for any number of   *)
(* files and any depth of the recursion that SendFileToClient leaks.       *)
THEOREM LuaIsSingleThreaded == Spec => []OneThreadInLua
<1>1. AccessInv => OneThreadInLua
  <2> SUFFICES ASSUME AccessInv, MainInLua, WorkerInLua PROVE FALSE
    BY DEF OneThreadInLua
  <2>1. holder = Main
    BY DEF AccessInv, MutexHeld, MainInLua, MainAway, Released
  <2>2. WorkerHolds > 0
    BY DEF AccessInv, WorkerPlaces, WorkerInLua, WorkerHolds, OuterHeld, InnerHeld, Locking,
       Unlocking
  <2> QED
    BY <2>1, <2>2 DEF AccessInv, MutexHeld
<1> QED
  BY <1>1, AccessAlways, PTL

(* From GetLua to the unlock, the state whose mutex the worker uses is not *)
(* deleted by hook_CLuaInterface_Shutdown.                                 *)
THEOREM StateIsKept == Spec => []StateOutlivesAccess
<1>1. AccessInv => StateOutlivesAccess
  BY DEF AccessInv, MainPlaces, StateOutlivesAccess
<1> QED
  BY <1>1, AccessAlways, PTL
=============================================================================
