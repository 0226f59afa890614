--------------------- MODULE RegistrationRefresh_proofs ---------------------
(***************************************************************************)
(* Proofs about RegistrationRefresh for any set of files, any budget and   *)
(* any number of changes of the switch.                                    *)
(***************************************************************************)
EXTENDS RegistrationRefresh, Subsequences_proofs

(* The gate's owner.  A frame that opens a gate also requests a sweep, and *)
(* only a frame with a bound data pack consumes the request, by starting   *)
(* the sweep; a completed sweep opens the gate unless another transition   *)
(* was seen meanwhile.                                                     *)
GateInv ==
  /\ GateHasOwner
  /\ switch \in [seen : BOOLEAN, canonical : BOOLEAN, bootstrap : BOOLEAN, pending : BOOLEAN]
  /\ enabled \in BOOLEAN
  /\ "active" \in DOMAIN sweep /\ sweep.active \in BOOLEAN
  /\ sweep.active => bound

LEMMA SweepGoesOn ==
  ASSUME NEW s, NEW es, "active" \in DOMAIN s
  PROVE  /\ "active" \in DOMAIN Walked(s, es) /\ Walked(s, es).active = s.active
         /\ "active" \in DOMAIN Hashed(s, es) /\ Hashed(s, es).active = s.active
<1>1. "active" \in DOMAIN Walked(s, es) /\ Walked(s, es).active = s.active
  BY DEF Walked
<1>2. "active" \in DOMAIN Hashed(s, es) /\ Hashed(s, es).active = s.active
  BY DEF Hashed
<1> QED
  BY <1>1, <1>2

LEMMA GateThink == GateInv /\ Think => GateInv'
<1> SUFFICES ASSUME GateInv, Think PROVE GateInv'
  OBVIOUS
<1> DEFINE s == IF bound /\ SweepNow.active THEN SweepNow ELSE NoSweep
           walked == IF s.active THEN Walked(s, Refreshed(s)) ELSE sweep
           after == IF s.active THEN Hashed(walked, Refreshed(s)) ELSE sweep
           completes == s.active /\ CanCompleteRegistrationRefresh(after)
<1>1. /\ sweep' = IF completes THEN NoSweep ELSE after
      /\ switch' = IF completes THEN CompleteRegistrationRefresh(SwitchNow) ELSE SwitchNow
      /\ UNCHANGED <<bound, enabled>>
  BY DEF Think, engine
<1>2. /\ "active" \in DOMAIN NoSweep /\ NoSweep.active = FALSE
      /\ \A n : "active" \in DOMAIN Begin(n) /\ Begin(n).active = TRUE
  BY DEF NoSweep, Begin
<1>3. "active" \in DOMAIN SweepNow /\ SweepNow.active \in BOOLEAN
  BY <1>2 DEF SweepNow, GateInv
<1>4. "active" \in DOMAIN s /\ s.active \in BOOLEAN /\ (s.active => bound)
  BY <1>2, <1>3
<1>5. /\ "active" \in DOMAIN after /\ after.active \in BOOLEAN
      /\ s.active => after.active
      /\ after.active => bound
  <2> HIDE DEF s
  <2> QED
    BY <1>4, SweepGoesOn DEF GateInv
<1>6. ~s.active => after = sweep
  OBVIOUS
<1>7. /\ SwitchSeen \in [seen : BOOLEAN, canonical : BOOLEAN, bootstrap : BOOLEAN, pending : BOOLEAN]
      /\ SwitchSeen.pending => SwitchSeen.bootstrap \/ switch.pending
      /\ switch.bootstrap => SwitchSeen.bootstrap
  BY DEF SwitchSeen, GateInv
<1>8. /\ bound => SwitchNow = [SwitchSeen EXCEPT !.bootstrap = FALSE]
      /\ ~bound => SwitchNow = SwitchSeen
      /\ SwitchNow \in [seen : BOOLEAN, canonical : BOOLEAN, bootstrap : BOOLEAN, pending : BOOLEAN]
      /\ SwitchNow.pending = SwitchSeen.pending
  BY <1>7 DEF SwitchNow
<1>9. SwitchNow.pending /\ ~SwitchNow.bootstrap => s.active
  <2> SUFFICES ASSUME SwitchNow.pending, ~SwitchNow.bootstrap PROVE s.active
    OBVIOUS
  <2>1. CASE SwitchSeen.bootstrap
    BY <2>1, <1>2, <1>7, <1>8 DEF SweepNow
  <2>2. CASE ~SwitchSeen.bootstrap
    BY <2>2, <1>7, <1>8 DEF SweepNow, GateInv, GateHasOwner
  <2> QED
    BY <2>1, <2>2
<1> HIDE DEF s, after, completes
<1>10. CASE completes
  BY <1>1, <1>2, <1>8, <1>10 DEF CompleteRegistrationRefresh, GateInv, GateHasOwner
<1>11. CASE ~completes
  BY <1>1, <1>5, <1>8, <1>9, <1>11 DEF GateInv, GateHasOwner
<1> QED
  BY <1>10, <1>11

(* What the rest of the module's steps do to the gate: nothing, or, at the *)
(* end of a level, everything at once.                                     *)
LEMMA GateRest ==
  ASSUME GateInv, UNCHANGED <<switch, sweep>>, enabled' \in BOOLEAN, bound => bound'
  PROVE  GateInv'
  BY DEF GateInv, GateHasOwner

LEMMA GateLevelShutdown == GateInv /\ LevelShutdown => GateInv'
  BY DEF GateInv, GateHasOwner, LevelShutdown, NoSweep, engine

LEMMA GateStep == GateInv /\ [Next]_refreshVars => GateInv'
<1> SUFFICES ASSUME GateInv, [Next]_refreshVars PROVE GateInv'
  OBVIOUS
<1>1. CASE Think
  BY <1>1, GateThink
<1>2. CASE LevelShutdown
  BY <1>2, GateLevelShutdown
<1>3. CASE Flip \/ WorkerJoined \/ Initialize \/ UNCHANGED refreshVars
  <2>1. UNCHANGED <<switch, sweep, bound>> /\ enabled' \in BOOLEAN
    BY <1>3 DEF Flip, WorkerJoined, Initialize, refreshVars, engine, GateInv
  <2> QED
    BY <2>1, GateRest
<1>4. CASE WorkerStep
  <2>1. UNCHANGED <<switch, sweep, bound>> /\ enabled' \in BOOLEAN
    BY <1>4 DEF WorkerStep, WorkerSleep, WorkerTake, WorkerProcess, WorkerHash, WorkerNext,
       WorkerStop, workerFrame, engine, GateInv
  <2> QED
    BY <2>1, GateRest
<1>5. ASSUME NEW f \in File, CacheFile(f) PROVE GateInv'
  BY <1>5, GateRest DEF CacheFile, GateInv
<1>6. ASSUME NEW f \in File, NEW c \in Content, AddOrUpdateFile(f, c) PROVE GateInv'
  BY <1>6, GateRest DEF AddOrUpdateFile, GateInv
<1> QED
  BY <1>1, <1>2, <1>3, <1>4, <1>5, <1>6 DEF Next

(* The gate that keeps baselines waiting always has an owner: a sweep that *)
(* runs, or one that the next frame with a bound data pack will start.     *)
(* RegistrationRefreshPending is never true with nothing left to clear it. *)
THEOREM GateIsOwned == Spec => []GateHasOwner
<1>1. Init => GateInv
  BY DEF Init, GateInv, GateHasOwner, NoSweep
<1>2. GateInv => GateHasOwner
  BY DEF GateInv
<1> QED
  BY <1>1, <1>2, GateStep, PTL DEF Spec

-----------------------------------------------------------------------------
(* The published identities.  An entry counts as published from the moment *)
(* its identity is in the string table until its content or its mode is    *)
(* replaced, whichever thread does it.                                     *)
EntryType == [source : Content \cup {None}, mode : {"none", "plain", "canonical"},
              processed : BOOLEAN, hashReady : BOOLEAN, published : BOOLEAN]

CacheType ==
  /\ enabled \in BOOLEAN
  /\ source \in [File -> Content] /\ cached \subseteq File
  /\ IsInjective(table) /\ table \in Seq(File)
  /\ entry \in [Id -> EntryType]
  /\ DOMAIN user = Id
  /\ main \in {"playing", "stopping", "ended"}

Served ==
  \A id \in Registered :
    user[id][1] # "none" /\ entry[id].published => user[id] = Body(table[id], entry[id])

ServedInv == CacheType /\ Served

(* Every registered file has an entry: there are as many IDs as files.     *)
LEMMA RegisteredHaveEntries ==
  ASSUME NEW names \in Seq(File), IsInjective(names)
  PROVE  Len(names) \in Nat /\ DOMAIN names = 1 .. Len(names) /\ 1 .. Len(names) \subseteq Id
<1>1. names \in Injection(1 .. Len(names), File)
  BY DEF Injection
<1>2. IsFiniteSet(1 .. Len(names)) /\ Cardinality(1 .. Len(names)) = Len(names)
  <2>1. Len(names) \in Nat /\ Len(names) \in Int /\ 1 \in Int
    OBVIOUS
  <2>2. /\ IsFiniteSet(1 .. Len(names))
        /\ Cardinality(1 .. Len(names)) = IF 1 > Len(names) THEN 0 ELSE Len(names) - 1 + 1
    BY <2>1, FS_Interval
  <2> QED
    BY <2>1, <2>2
<1>3. Cardinality(File) \in Nat
  BY FS_CardinalityType, ConstantsAssumption
<1>4. Len(names) <= Cardinality(File)
  BY <1>1, <1>2, FS_Injection, ConstantsAssumption
<1> QED
  BY <1>3, <1>4 DEF Id

(* A file that is not in the table yet gets the next ID.                   *)
LEMMA NextId ==
  ASSUME NEW names \in Seq(File), IsInjective(names), NEW f \in File, f \notin Range(names)
  PROVE  /\ Append(names, f) \in Seq(File) /\ IsInjective(Append(names, f))
         /\ Len(Append(names, f)) = Len(names) + 1
         /\ Append(names, f)[Len(names) + 1] = f
         /\ \A i \in 1 .. Len(names) : Append(names, f)[i] = names[i]
<1>1. /\ Append(names, f) \in Seq(File) /\ Len(Append(names, f)) = Len(names) + 1
      /\ Append(names, f)[Len(names) + 1] = f
      /\ \A i \in 1 .. Len(names) : Append(names, f)[i] = names[i]
      /\ DOMAIN names = 1 .. Len(names) /\ Len(names) \in Nat
      /\ DOMAIN Append(names, f) = 1 .. Len(names) + 1
  OBVIOUS
<1>2. IsInjective(Append(names, f))
  BY <1>1 DEF IsInjective, Range
<1> QED
  BY <1>1, <1>2

(* What is fed is a well-formed entry that was published.                  *)
LEMMA EntryFed ==
  ASSUME NEW e \in EntryType, NEW c \in Content \cup {None}, enabled \in BOOLEAN
  PROVE  /\ AddFileContents(e, c) \in EntryType
         /\ PublishRegistrationHash(AddFileContents(e, c)) \in EntryType
         /\ ~SameRegistration(e, c) => ~AddFileContents(e, c).published
         /\ SameRegistration(e, c) =>
              AddFileContents(e, c).source = e.source /\ AddFileContents(e, c).mode = e.mode
<1>1. EmptyEntry \in EntryType
  BY DEF EmptyEntry, EntryType
<1>2. Mode(enabled) \in {"none", "plain", "canonical"}
  BY DEF Mode
<1>3. AddFileContents(e, c) \in EntryType
  BY <1>1, <1>2 DEF AddFileContents, EntryType
<1>4. PublishRegistrationHash(AddFileContents(e, c)) \in EntryType
  BY <1>3 DEF PublishRegistrationHash, EntryType
<1> QED
  BY <1>1, <1>3, <1>4 DEF AddFileContents, EntryType, EmptyEntry

(* The body depends on the source and the mode of an entry, and no step    *)
(* but those that publish makes an entry published.                        *)
LEMMA ServedKept ==
  ASSUME ServedInv, UNCHANGED <<table, user>>, entry' \in [Id -> EntryType],
         \A id \in Id : entry'[id].published => /\ entry[id].published
                                               /\ entry'[id].source = entry[id].source
                                               /\ entry'[id].mode = entry[id].mode
  PROVE  Served'
<1> SUFFICES ASSUME NEW id \in Registered, user[id][1] # "none", entry'[id].published
             PROVE  user[id] = Body(table[id], entry'[id])
  BY DEF Served, Registered
<1>1. id \in Id
  BY RegisteredHaveEntries DEF ServedInv, CacheType, Registered
<1>2. entry[id].published /\ entry'[id].source = entry[id].source /\ entry'[id].mode = entry[id].mode
  BY <1>1
<1>3. user[id] = Body(table[id], entry[id])
  BY <1>2 DEF ServedInv, Served
<1> QED
  BY <1>2, <1>3 DEF Body

LEMMA ServedWorker == ServedInv /\ WorkerStep => ServedInv'
<1> SUFFICES ASSUME ServedInv, WorkerStep PROVE ServedInv'
  OBVIOUS
<1>1. UNCHANGED <<enabled, main, source, cached, table, user>>
  BY DEF WorkerStep, WorkerSleep, WorkerTake, WorkerProcess, WorkerHash, WorkerNext, WorkerStop,
     workerFrame, engine
<1>2. /\ entry' \in [Id -> EntryType]
      /\ \A id \in Id : entry'[id].published => /\ entry[id].published
                                                /\ entry'[id].source = entry[id].source
                                                /\ entry'[id].mode = entry[id].mode
  <2>1. CASE UNCHANGED entry
    BY <2>1 DEF ServedInv, CacheType
  <2>2. ASSUME NEW id \in Id, WorkerProcess(id) PROVE <1>2
    <3>1. CASE entry[id].processed
      BY <2>1, <2>2, <3>1 DEF WorkerProcess
    <3>2. CASE ~entry[id].processed
      <4>1. /\ entry \in [Id -> EntryType]
            /\ entry' = [entry EXCEPT ![id] = [entry[id] EXCEPT !.processed = TRUE,
                                                              !.published = FALSE]]
        BY <2>2, <3>2 DEF WorkerProcess, ServedInv, CacheType
      <4>2. /\ [entry[id] EXCEPT !.processed = TRUE, !.published = FALSE] \in EntryType
            /\ ~[entry[id] EXCEPT !.processed = TRUE, !.published = FALSE].published
        BY <4>1 DEF EntryType
      <4> QED
        BY <4>1, <4>2
    <3> QED
      BY <3>1, <3>2
  <2>3. ASSUME NEW id \in Id, WorkerHash(id) PROVE <1>2
    BY <2>3 DEF WorkerHash, EnsureSourceHash, ServedInv, CacheType, EntryType
  <2> QED
    BY <2>1, <2>2, <2>3 DEF WorkerStep, WorkerSleep, WorkerTake, WorkerNext, WorkerStop
<1>3. CacheType'
  BY <1>1, <1>2 DEF ServedInv, CacheType
<1> QED
  BY <1>1, <1>2, <1>3, ServedKept DEF ServedInv

LEMMA ServedAdd ==
  ASSUME ServedInv, NEW f \in File, NEW c \in Content, AddOrUpdateFile(f, c)
  PROVE  ServedInv'
<1> DEFINE id == CHOOSE i \in DOMAIN table' : table'[i] = f
           e == AddFileContents(entry[id], c)
<1>1. /\ table \in Seq(File) /\ IsInjective(table)
      /\ table' = IF f \in Range(table) THEN table ELSE Append(table, f)
      /\ DOMAIN table = 1 .. Len(table) /\ Len(table) \in Nat
  BY DEF ServedInv, CacheType, AddOrUpdateFile
<1>2. /\ table' \in Seq(File) /\ IsInjective(table') /\ f \in Range(table')
      /\ \A i \in Registered : i \in DOMAIN table' /\ table'[i] = table[i]
      /\ \A i \in DOMAIN table' : table'[i] # f => i \in Registered
  BY <1>1, NextId DEF Range, Registered
<1>3. DOMAIN table' = 1 .. Len(table') /\ DOMAIN table' \subseteq Id
  BY <1>2, RegisteredHaveEntries
<1>4. id \in DOMAIN table' /\ id \in Id /\ table'[id] = f
  BY <1>2, <1>3 DEF Range
<1>5. \A i \in DOMAIN table' : i # id => i \in Registered /\ table'[i] = table[i]
  BY <1>2, <1>4 DEF IsInjective
<1> HIDE DEF id
<1>6. /\ entry[id] \in EntryType /\ e \in EntryType
      /\ ~SameRegistration(entry[id], c) => ~e.published
  BY <1>4, EntryFed DEF ServedInv, CacheType
<1>7. /\ entry' = [entry EXCEPT ![id] = e]
      /\ IF SameRegistration(entry[id], c)
         THEN user' = [user EXCEPT ![id] = Body(f, e)] ELSE user' = user
      /\ UNCHANGED <<enabled, main>>
      /\ source' = [source EXCEPT ![f] = c] /\ cached' = cached \cup {f}
  BY DEF AddOrUpdateFile, id
<1> HIDE DEF e
<1>8. CacheType'
  <2>1. entry' \in [Id -> EntryType] /\ DOMAIN user' = Id
    BY <1>4, <1>6, <1>7 DEF ServedInv, CacheType
  <2>2. source' \in [File -> Content] /\ cached' \subseteq File
    BY <1>7 DEF ServedInv, CacheType
  <2> QED
    BY <1>2, <1>7, <2>1, <2>2 DEF ServedInv, CacheType
<1>9. Served'
  <2> SUFFICES ASSUME NEW i \in DOMAIN table', user'[i][1] # "none", entry'[i].published
               PROVE  user'[i] = Body(table'[i], entry'[i])
    BY <1>3 DEF Served, Registered
  <2>1. CASE i = id
    BY <1>4, <1>6, <1>7, <2>1 DEF ServedInv, CacheType
  <2>2. CASE i # id
    <3>1. i \in Registered /\ table'[i] = table[i] /\ i \in Id
      BY <1>3, <1>5, <2>2
    <3>2. user'[i] = user[i] /\ entry'[i] = entry[i]
      BY <1>7, <2>2, <3>1 DEF ServedInv, CacheType
    <3> QED
      BY <3>1, <3>2 DEF ServedInv, Served
  <2> QED
    BY <2>1, <2>2
<1> QED
  BY <1>8, <1>9 DEF ServedInv

(* One frame of Think, named part by part.                                  *)
Working == IF bound /\ SweepNow.active THEN SweepNow ELSE NoSweep
Feeding == Fed(Working) \cup (IF FeedsInit(Working) THEN {InitId} ELSE {})
Names == IF FeedsInit(Working) /\ InitFile \notin Range(table) THEN Append(table, InitFile)
         ELSE table
AfterWalk == IF Working.active THEN Walked(Working, Refreshed(Working)) ELSE sweep
AfterFrame == IF Working.active THEN Hashed(AfterWalk, Refreshed(Working)) ELSE sweep
Completes == Working.active /\ CanCompleteRegistrationRefresh(AfterFrame)

LEMMA ThinkDoes ==
  ASSUME Think
  PROVE  /\ table' = Names /\ main = "playing"
         /\ entry' = [id \in Id |->
                        [Refreshed(Working)[id] EXCEPT !.published = @ \/ id \in publishQueue]]
         /\ user' = [id \in Id |-> IF id \in (Feeding \cup publishQueue) \cap DOMAIN Names
                                   THEN Body(Names[id], Refreshed(Working)[id]) ELSE user[id]]
         /\ publishQueue' = {}
         /\ compressQueue' = compressQueue \cup
              {id \in Feeding : ~SameRegistration(entry[id], Refreshed(Working)[id].source)}
         /\ sweep' = IF Completes THEN NoSweep ELSE AfterFrame
         /\ switch' = IF Completes THEN CompleteRegistrationRefresh(SwitchNow) ELSE SwitchNow
         /\ frameFlips' = 0 /\ UNCHANGED <<enabled, main, source, cached, bound, worker>>
  BY DEF Think, Working, Feeding, Names, AfterWalk, AfterFrame, Completes

(* The init file's own lookup registers it if it was not.                  *)
LEMMA NamesOf ==
  ASSUME CacheType
  PROVE  /\ Names \in Seq(File) /\ IsInjective(Names)
         /\ DOMAIN Names = 1 .. Len(Names) /\ DOMAIN Names \subseteq Id /\ Len(table) <= Len(Names)
         /\ \A id \in DOMAIN Names \ Registered : FeedsInit(Working) /\ id = InitId
         /\ \A id \in Registered : id \in DOMAIN Names /\ Names[id] = table[id]
         /\ FeedsInit(Working) => InitId \in DOMAIN Names /\ Names[InitId] = InitFile
<1>1. /\ table \in Seq(File) /\ IsInjective(table)
      /\ DOMAIN table = 1 .. Len(table) /\ Len(table) \in Nat
  BY DEF CacheType
<1>2. /\ Names \in Seq(File) /\ IsInjective(Names) /\ Len(table) <= Len(Names)
      /\ \A id \in DOMAIN Names \ Registered : FeedsInit(Working) /\ id = InitId
      /\ \A id \in Registered : id \in DOMAIN Names /\ Names[id] = table[id]
      /\ FeedsInit(Working) => InitId \in DOMAIN Names /\ Names[InitId] = InitFile
  <2>1. CASE FeedsInit(Working) /\ InitFile \notin Range(table)
    <3>1. Names = Append(table, InitFile) /\ InitId = Len(table) + 1
      BY <2>1 DEF InitId, Names
    <3>2. DOMAIN Append(table, InitFile) = 1 .. Len(table) + 1
      BY <1>1
    <3> QED
      BY <1>1, <2>1, <3>1, <3>2, NextId, ConstantsAssumption DEF Registered
  <2>2. CASE ~(FeedsInit(Working) /\ InitFile \notin Range(table))
    <3>1. Names = table
      BY <2>2 DEF Names
    <3>2. InitFile \in Range(table) => InitId \in Registered /\ table[InitId] = InitFile
      BY <1>1 DEF InitId, Range, Registered
    <3> QED
      BY <1>1, <2>2, <3>1, <3>2 DEF Registered
  <2> QED
    BY <2>1, <2>2
<1>3. DOMAIN Names = 1 .. Len(Names) /\ DOMAIN Names \subseteq Id
  BY <1>2, RegisteredHaveEntries
<1> QED
  BY <1>2, <1>3

(* What a frame feeds has the mode the switch asks for; the rest is as it  *)
(* was.                                                                    *)
LEMMA FedEntries ==
  ASSUME CacheType
  PROVE  /\ Refreshed(Working) \in [Id -> EntryType]
         /\ \A id \in Id :
              IF id \in Feeding THEN Refreshed(Working)[id].mode = Mode(enabled)
              ELSE Refreshed(Working)[id] = entry[id]
<1>1. /\ \A id \in Id : entry[id] \in EntryType
      /\ enabled \in BOOLEAN
  BY DEF CacheType
<1>2. ASSUME NEW id \in Fed(Working), id \in Id PROVE SourceOf(id) \in Content \cup {None}
  BY <1>1, <1>2 DEF SourceOf, CacheType, EntryType
<1>3. FeedsInit(Working) => source[InitFile] \in Content
  BY DEF FeedsInit, CacheType
<1>4. ASSUME NEW e \in EntryType, NEW c
      PROVE  PublishRegistrationHash(AddFileContents(e, c)).mode = Mode(enabled)
  BY DEF PublishRegistrationHash, AddFileContents, SameRegistration, EmptyEntry, EntryType
<1>5. ASSUME NEW id \in Id
      PROVE  /\ Refreshed(Working)[id] \in EntryType
             /\ IF id \in Feeding THEN Refreshed(Working)[id].mode = Mode(enabled)
                ELSE Refreshed(Working)[id] = entry[id]
  <2>1. CASE id \in Fed(Working)
    <3>1. Refreshed(Working)[id] =
            PublishRegistrationHash(AddFileContents(entry[id], SourceOf(id)))
      BY <2>1 DEF Refreshed
    <3> QED
      BY <1>1, <1>2, <1>4, <2>1, <3>1, EntryFed DEF Feeding
  <2>2. CASE id \notin Fed(Working) /\ id = InitId /\ FeedsInit(Working)
    <3>1. Refreshed(Working)[id] =
            PublishRegistrationHash(AddFileContents(entry[id], source[InitFile]))
      BY <2>2 DEF Refreshed
    <3> QED
      BY <1>1, <1>3, <1>4, <2>2, <3>1, EntryFed DEF Feeding
  <2>3. CASE id \notin Feeding
    BY <1>1, <2>3 DEF Refreshed, Feeding
  <2> QED
    BY <2>1, <2>2, <2>3 DEF Feeding
<1>6. Refreshed(Working) = [id \in Id |-> Refreshed(Working)[id]]
  BY DEF Refreshed
<1> QED
  BY <1>5, <1>6

(* What a frame writes for one ID: every ID it feeds or publishes gets the *)
(* identity of the entry it then has.                                      *)
LEMMA EntryThink ==
  ASSUME CacheType, Think, NEW id \in Id
  PROVE  /\ entry'[id] \in EntryType
         /\ entry'[id].source = Refreshed(Working)[id].source
         /\ entry'[id].mode = Refreshed(Working)[id].mode
         /\ entry'[id].published <=> Refreshed(Working)[id].published \/ id \in publishQueue
<1>1. /\ Refreshed(Working)[id] \in EntryType
      /\ entry'[id] = [Refreshed(Working)[id] EXCEPT !.published = @ \/ id \in publishQueue]
  BY ThinkDoes, FedEntries
<1> QED
  BY <1>1 DEF EntryType

LEMMA ServedThink == ServedInv /\ Think => ServedInv'
<1> SUFFICES ASSUME ServedInv, Think PROVE ServedInv'
  OBVIOUS
<1> DEFINE fed == Refreshed(Working)
<1>1. /\ table' = Names /\ UNCHANGED <<enabled, main, source, cached>>
      /\ user' = [id \in Id |-> IF id \in (Feeding \cup publishQueue) \cap DOMAIN Names
                                THEN Body(Names[id], fed[id]) ELSE user[id]]
  BY ThinkDoes
<1>2. /\ Names \in Seq(File) /\ IsInjective(Names)
      /\ DOMAIN Names = 1 .. Len(Names) /\ DOMAIN Names \subseteq Id
      /\ \A id \in DOMAIN Names : id \notin Registered => id \in Feeding
      /\ \A id \in Registered : Names[id] = table[id]
  BY NamesOf DEF ServedInv, Feeding
<1>3. \A id \in Id : id \notin Feeding => fed[id] = entry[id]
  BY FedEntries DEF ServedInv
<1>4. \A id \in Id : /\ entry'[id] \in EntryType
                     /\ entry'[id].source = fed[id].source /\ entry'[id].mode = fed[id].mode
                     /\ entry'[id].published <=> fed[id].published \/ id \in publishQueue
  BY EntryThink DEF ServedInv
<1> HIDE DEF fed
<1>5. CacheType'
  <2>1. \E g : entry' = [id \in Id |-> g[id]]
    BY ThinkDoes
  <2>2. entry' \in [Id -> EntryType] /\ DOMAIN user' = Id
    BY <1>1, <1>4, <2>1
  <2> QED
    BY <1>1, <1>2, <2>2 DEF ServedInv, CacheType
<1>6. Served'
  <2> SUFFICES ASSUME NEW id \in DOMAIN Names, user'[id][1] # "none", entry'[id].published
               PROVE  user'[id] = Body(Names[id], entry'[id])
    BY <1>1, <1>2 DEF Served, Registered
  <2>1. id \in Id /\ Body(Names[id], entry'[id]) = Body(Names[id], fed[id])
    BY <1>2, <1>4 DEF Body
  <2>2. CASE id \in Feeding \cup publishQueue
    BY <1>1, <2>1, <2>2
  <2>3. CASE id \notin Feeding \cup publishQueue
    <3>1. id \in Registered /\ Names[id] = table[id]
      BY <1>2, <2>3
    <3>2. fed[id] = entry[id] /\ user'[id] = user[id] /\ entry[id].published
      BY <1>1, <1>3, <1>4, <2>1, <2>3
    <3> QED
      BY <2>1, <3>1, <3>2 DEF ServedInv, Served
  <2> QED
    BY <2>2, <2>3
<1> QED
  BY <1>5, <1>6 DEF ServedInv

LEMMA ServedStep == ServedInv /\ [Next]_refreshVars => ServedInv'
<1> SUFFICES ASSUME ServedInv, [Next]_refreshVars PROVE ServedInv'
  OBVIOUS
<1>1. CASE Think
  BY <1>1, ServedThink
<1>2. CASE WorkerStep
  BY <1>2, ServedWorker
<1>3. ASSUME NEW f \in File, NEW c \in Content, AddOrUpdateFile(f, c) PROVE ServedInv'
  BY <1>3, ServedAdd
<1>4. CASE Flip \/ LevelShutdown \/ WorkerJoined \/ UNCHANGED refreshVars
  <2>1. /\ UNCHANGED <<source, cached, table, user, entry>>
        /\ enabled' \in BOOLEAN /\ main' \in {"playing", "stopping", "ended"}
    BY <1>4 DEF Flip, LevelShutdown, WorkerJoined, refreshVars, engine, ServedInv, CacheType
  <2>2. CacheType'
    BY <2>1 DEF ServedInv, CacheType
  <2>3. entry' \in [Id -> EntryType]
    BY <2>1 DEF ServedInv, CacheType
  <2> QED
    BY <2>1, <2>2, <2>3, ServedKept DEF ServedInv
<1>5. ASSUME NEW f \in File, CacheFile(f) PROVE ServedInv'
  <2>1. UNCHANGED <<enabled, main, source, table, user, entry>> /\ cached' \subseteq File
    BY <1>5 DEF CacheFile, ServedInv, CacheType
  <2>2. CacheType' /\ entry' \in [Id -> EntryType]
    BY <2>1 DEF ServedInv, CacheType
  <2> QED
    BY <2>1, <2>2, ServedKept DEF ServedInv
<1>6. CASE Initialize
  <2>1. /\ UNCHANGED <<enabled, source, entry>> /\ table' = <<>> /\ cached' = {}
        /\ user' = [id \in Id |-> <<"none", None>>] /\ main' = "playing"
    BY <1>6 DEF Initialize
  <2>2. CacheType'
    BY <2>1 DEF ServedInv, CacheType, IsInjective
  <2>3. Served'
    BY <2>1 DEF Served, Registered
  <2> QED
    BY <2>2, <2>3 DEF ServedInv
<1> QED
  BY <1>1, <1>2, <1>3, <1>4, <1>5, <1>6 DEF Next

LEMMA ServedInit == Init => ServedInv
<1> SUFFICES ASSUME Init PROVE ServedInv
  OBVIOUS
<1>1. EmptyEntry \in EntryType /\ entry = [id \in Id |-> EmptyEntry]
  BY DEF Init, EmptyEntry, EntryType
<1>2. table \in Seq(File) /\ IsInjective(table)
  <2>1. CASE table = <<>>
    BY <2>1 DEF IsInjective
  <2>2. ASSUME NEW f \in File, table = <<f>> PROVE <1>2
    BY <2>2 DEF IsInjective
  <2> QED
    BY <2>1, <2>2 DEF Init
<1>3. CacheType
  <2>1. source \in [File -> Content]
    BY ConstantsAssumption DEF Init
  <2>2. entry \in [Id -> EntryType] /\ DOMAIN user = Id
    BY <1>1 DEF Init
  <2> QED
    BY <1>2, <2>1, <2>2 DEF Init, CacheType
<1>4. Served
  BY <1>1, <1>2, RegisteredHaveEntries DEF Init, Served, Registered, EmptyEntry
<1> QED
  BY <1>3, <1>4 DEF ServedInv

(* The identity in the string table is that of the body the entry would be *)
(* served with, whatever the worker, the sweep, updates of a file and ends *)
(* of a level do to the entry in between.                                  *)
THEOREM PublishedIdentityIsServed == Spec => []PublishedIsServed
<1>1. ServedInv => PublishedIsServed
  BY DEF ServedInv, Served, PublishedIsServed
<1> QED
  BY <1>1, ServedInit, ServedStep, PTL DEF Spec

-----------------------------------------------------------------------------
(* The walk.  While a sweep is active and no change of the switch has been *)
(* noticed since it began, a registered ID is either what the switch asks  *)
(* for or still ahead of the walk: in the rest of the pass, or on a list.  *)
SweepType ==
  [active : BOOLEAN, capture : BOOLEAN,
   next : 0 .. Cardinality(File) + 1, target : 0 .. Cardinality(File),
   initRefreshed : BOOLEAN, passDone : BOOLEAN,
   todo : Seq(Id), retry : Seq(Id), hashTodo : Seq(Id), hashRetry : Seq(Id)]

\* A round that is over has moved what it left to the next one.
Tidy(s) == s.todo = <<>> \/ ~s.passDone => s.retry = <<>>

Walks(s) ==
  /\ s \in SweepType /\ s.active /\ Tidy(s)
  /\ s.target <= Len(table) /\ 1 <= s.next /\ s.next <= s.target + 1
  /\ s.todo \in Seq(1 .. s.target) /\ s.retry \in Seq(1 .. s.target)

Ahead(s) == (IF s.passDone THEN Range(s.retry) ELSE s.next .. s.target) \cup Range(s.todo)

LEMMA FilesCounted == Cardinality(File) \in Nat /\ Id = 1 .. Cardinality(File)
BY FS_CardinalityType, ConstantsAssumption DEF Id

(* The two parts of a list that is worked on for n steps.                   *)
LEMMA FirstAndRest ==
  ASSUME NEW X, NEW q \in Seq(X), NEW n \in 0 .. Len(q)
  PROVE  /\ SubSeq(q, 1, n) \in Seq(X) /\ Len(SubSeq(q, 1, n)) = n
         /\ \A i \in 1 .. n : SubSeq(q, 1, n)[i] = q[i]
         /\ SubSeq(q, n + 1, Len(q)) \in Seq(X) /\ Len(SubSeq(q, n + 1, Len(q))) = Len(q) - n
         /\ \A i \in 1 .. Len(q) - n : SubSeq(q, n + 1, Len(q))[i] = q[n + i]
<1> DEFINE m == Len(q)
           first == SubSeq(q, 1, n)
           rest == SubSeq(q, n + 1, m)
<1>1. m \in Nat /\ n \in Nat /\ n <= m /\ \A i \in 1 .. m : q[i] \in X
  OBVIOUS
<1> HIDE DEF m
<1>2. /\ first \in Seq(X) /\ Len(first) = n
      /\ \A i \in 1 .. n : first[i] = q[i]
  <2>1. \A i \in 1 .. n : q[i] \in X
    BY <1>1
  <2> QED
    BY <1>1, <2>1, SubSeqProperties
<1>3. /\ rest \in Seq(X) /\ Len(rest) = m - n
      /\ \A i \in 1 .. m - n : rest[i] = q[n + i]
  <2>1. n + 1 \in Int /\ m \in Int /\ \A i \in n + 1 .. m : q[i] \in X
    BY <1>1
  <2>2. /\ rest \in Seq(X)
        /\ Len(rest) = IF n + 1 <= m THEN m - (n + 1) + 1 ELSE 0
        /\ \A i \in 1 .. m - (n + 1) + 1 : rest[i] = q[n + 1 + i - 1]
    BY <2>1, SubSeqProperties
  <2> HIDE DEF rest
  <2> QED
    BY <1>1, <2>2
<1> HIDE DEF first, rest
<1> QED
  BY <1>2, <1>3 DEF m, first, rest

(* The IDs of one frame: the next of the pass, or the first of the list.   *)
LEMMA SliceOf ==
  ASSUME CacheType, NEW s, Walks(s)
  PROVE  /\ Slice(s) \in Seq(1 .. s.target)
         /\ ~s.passDone => /\ s.next + Len(Slice(s)) <= s.target + 1
                           /\ Range(Slice(s)) = s.next .. s.next + Len(Slice(s)) - 1
         /\ s.passDone => /\ Len(Slice(s)) \in 0 .. Len(s.todo)
                          /\ Slice(s) = SubSeq(s.todo, 1, Len(Slice(s)))
<1>1. /\ s.next \in Nat /\ s.target \in Nat /\ s.todo \in Seq(1 .. s.target) /\ s.active
      /\ s.passDone \in BOOLEAN /\ 1 <= s.next /\ s.next <= s.target + 1
      /\ s.target <= Cardinality(File) /\ Budget \in Nat /\ Budget # 0
  BY FilesCounted, ConstantsAssumption DEF Walks, SweepType
<1>2. CASE ~s.passDone
  <2> DEFINE n == Least(Budget, s.target - s.next + 1)
  <2>1. Slice(s) = [i \in 1 .. n |-> s.next + i - 1]
    BY <1>1, <1>2 DEF Slice
  <2>2. n \in Nat /\ s.next + n <= s.target + 1
    BY <1>1 DEF Least
  <2> HIDE DEF n
  <2>3. \A i \in 1 .. n : s.next + i - 1 \in 1 .. s.target
    BY <1>1, <2>2
  <2>4. Slice(s) \in [1 .. n -> 1 .. s.target]
    BY <2>1, <2>3
  <2>5. Slice(s) \in Seq(1 .. s.target) /\ Len(Slice(s)) = n
    <3> DEFINE S == 1 .. s.target
    <3>1. Slice(s) \in [1 .. n -> S] /\ n \in Nat
      BY <2>2, <2>4
    <3> HIDE DEF S
    <3>2. Slice(s) \in Seq(S) /\ Len(Slice(s)) = n
      BY <3>1
    <3> QED
      BY <3>2 DEF S
  <2>6. Range(Slice(s)) = s.next .. s.next + n - 1
    <3>1. ASSUME NEW x \in s.next .. s.next + n - 1 PROVE x \in Range(Slice(s))
      <4> DEFINE i == x - s.next + 1
      <4>1. s.next \in Nat /\ n \in Nat /\ x \in s.next .. s.next + n - 1
        BY <1>1, <2>2
      <4>2. i \in 1 .. n /\ s.next + i - 1 = x
        BY <4>1
      <4> QED
        BY <2>1, <4>2 DEF Range
    <3>2. ASSUME NEW x \in Range(Slice(s)) PROVE x \in s.next .. s.next + n - 1
      <4>1. PICK i \in 1 .. n : x = s.next + i - 1
        BY <2>1 DEF Range
      <4> QED
        BY <1>1, <2>2, <4>1
    <3> QED
      BY <3>1, <3>2
  <2> QED
    BY <1>2, <2>2, <2>5, <2>6
<1>3. CASE s.passDone
  <2> DEFINE n == Least(Budget, Len(s.todo))
  <2>1. Slice(s) = SubSeq(s.todo, 1, n)
    BY <1>1, <1>3 DEF Slice
  <2>2. Len(s.todo) \in Nat /\ n \in 0 .. Len(s.todo)
    BY <1>1 DEF Least
  <2> HIDE DEF n
  <2>3. SubSeq(s.todo, 1, n) \in Seq(1 .. s.target) /\ Len(SubSeq(s.todo, 1, n)) = n
    <3> DEFINE S == 1 .. s.target
    <3>1. s.todo \in Seq(S)
      BY <1>1
    <3> HIDE DEF S
    <3>2. SubSeq(s.todo, 1, n) \in Seq(S) /\ Len(SubSeq(s.todo, 1, n)) = n
      BY <2>2, <3>1, FirstAndRest
    <3> QED
      BY <3>2 DEF S
  <2> QED
    BY <1>3, <2>1, <2>2, <2>3
<1> QED
  BY <1>1, <1>2, <1>3

(* One round over the first n IDs of a list: those not done stay on one of *)
(* the two lists.                                                          *)
LEMMA RoundOf ==
  ASSUME NEW X \in SUBSET Id, NEW todo \in Seq(X), NEW retry \in Seq(X), NEW n \in 0 .. Len(todo), NEW done
  PROVE  LET r == Round(todo, retry, n, done)
         IN  /\ r.todo \in Seq(X) /\ r.retry \in Seq(X)
             /\ r.todo = <<>> => r.retry = <<>>
             /\ (Range(todo) \cup Range(retry)) \ done \subseteq Range(r.todo) \cup Range(r.retry)
<1> DEFINE left == SubSeq(todo, n + 1, Len(todo))
           first == SubSeq(todo, 1, n)
           kept == Those(first, Id \ done)
           again == retry \o kept
           r == Round(todo, retry, n, done)
<1>1. r = IF left = <<>> THEN [todo |-> again, retry |-> <<>>] ELSE [todo |-> left, retry |-> again]
  BY DEF Round
<1>2. Len(todo) \in Nat /\ n \in Nat /\ n <= Len(todo) /\ DOMAIN todo = 1 .. Len(todo)
  OBVIOUS
<1>3. /\ first \in Seq(X) /\ DOMAIN first = 1 .. n
      /\ \A i \in 1 .. n : first[i] = todo[i]
  BY FirstAndRest
<1>4. /\ left \in Seq(X) /\ DOMAIN left = 1 .. Len(todo) - n
      /\ \A i \in 1 .. Len(todo) - n : left[i] = todo[n + i]
  BY FirstAndRest
<1> HIDE DEF left, first
<1>5. kept \in Seq(X) /\ Range(kept) = Range(first) \cap (Id \ done)
  BY <1>3, ThoseOf
<1> HIDE DEF kept
<1>6. again \in Seq(X) /\ Range(again) = Range(retry) \cup Range(kept)
  BY <1>5, RangeConcatenation
<1> HIDE DEF again, r
<1>7. Range(todo) \subseteq Range(first) \cup Range(left)
  <2> SUFFICES ASSUME NEW i \in 1 .. Len(todo) PROVE todo[i] \in Range(first) \cup Range(left)
    BY <1>2 DEF Range
  <2>1. CASE i <= n
    BY <1>2, <1>3, <2>1 DEF Range
  <2>2. CASE i > n
    <3>1. i - n \in 1 .. Len(todo) - n /\ n + (i - n) = i
      BY <1>2, <2>2
    <3> QED
      BY <1>4, <3>1 DEF Range
  <2> QED
    BY <1>2, <2>1, <2>2
<1>8. Range(todo) \subseteq Id
  BY RangeOfSeq
<1>9. Range(<<>>) = {}
  BY DEF Range
<1>10. (Range(todo) \cup Range(retry)) \ done \subseteq Range(left) \cup Range(again)
  BY <1>5, <1>6, <1>7, <1>8
<1>11. /\ r.todo \in Seq(X) /\ r.retry \in Seq(X)
       /\ r.todo = <<>> => r.retry = <<>>
       /\ Range(left) \cup Range(again) \subseteq Range(r.todo) \cup Range(r.retry)
  <2>1. CASE left = <<>>
    <3>1. r.todo = again /\ r.retry = <<>>
      BY <1>1, <2>1
    <3>2. <<>> \in Seq(X)
      OBVIOUS
    <3> QED
      BY <1>6, <1>9, <2>1, <3>1, <3>2
  <2>2. CASE left # <<>>
    <3>1. r.todo = left /\ r.retry = again
      BY <1>1, <2>2
    <3> QED
      BY <1>4, <1>6, <2>2, <3>1
  <2> QED
    BY <2>1, <2>2
<1> QED
  BY <1>10, <1>11 DEF r

(* The walk of a frame: an ID that was ahead is fed, or still ahead.       *)
LEMMA WalkedOf ==
  ASSUME CacheType, NEW s, Walks(s), NEW es
  PROVE  LET w == Walked(s, es)
         IN  /\ Walks(w) /\ w.initRefreshed = (InitFed(s) \/ FeedsInit(s))
             /\ Ahead(s) \ Fed(s) \subseteq Ahead(w)
<1> DEFINE w == Walked(s, es)
           n == Len(Slice(s))
           unhashed == IF s.capture THEN {id \in Fed(s) : ~es[id].hashReady} ELSE {}
           round == Round(s.todo, s.retry, n, Fed(s))
           hashTodo == s.hashTodo \o Those(Slice(s), unhashed)
           fresh == s.todo \o Those(Slice(s), Id \ Fed(s))
           over == PassDone(s)
           init == InitFed(s) \/ FeedsInit(s)
<1>1. s \in SweepType /\ s.active /\ Tidy(s)
  BY DEF Walks
<1>2. /\ s.next \in Nat /\ s.target \in Nat /\ s.passDone \in BOOLEAN
      /\ s.todo \in Seq(1 .. s.target) /\ s.retry \in Seq(1 .. s.target)
      /\ s.hashTodo \in Seq(Id) /\ 1 .. s.target \in SUBSET Id
      /\ s.target <= Len(table) /\ 1 <= s.next /\ s.next <= s.target + 1
      /\ s.target <= Cardinality(File) /\ Cardinality(File) \in Nat
  BY FilesCounted DEF Walks, SweepType
<1>3. /\ Slice(s) \in Seq(1 .. s.target) /\ n \in Nat
      /\ ~s.passDone => /\ s.next + n <= s.target + 1
                        /\ Range(Slice(s)) = s.next .. s.next + n - 1
      /\ s.passDone => n \in 0 .. Len(s.todo) /\ Slice(s) = SubSeq(s.todo, 1, n)
  BY SliceOf
<1>4. hashTodo \in Seq(Id)
  <2>1. Those(Slice(s), unhashed) \in Seq(Id)
    BY <1>2, <1>3, ThoseOf, SeqMonotonic
  <2> QED
    BY <1>2, <2>1
<1>5. over \in BOOLEAN /\ init \in BOOLEAN /\ (s.passDone => over)
  BY <1>1, <1>2 DEF PassDone, InitFed, FeedsInit, SweepType
<1>6. init = (InitFed(s) \/ FeedsInit(s))
  OBVIOUS
<1>7. CASE ~s.passDone
  <2>1. w = [s EXCEPT !.next = s.next + n, !.todo = fresh, !.passDone = over,
                      !.initRefreshed = init, !.hashTodo = hashTodo]
    BY <1>1, <1>7 DEF Walked, SweepType
  <2>2. over <=> s.next + n > s.target
    BY <1>7 DEF PassDone
  <2>3. /\ fresh \in Seq(1 .. s.target)
        /\ Range(fresh) = Range(s.todo) \cup (Range(Slice(s)) \cap (Id \ Fed(s)))
    <3> DEFINE kept == Those(Slice(s), Id \ Fed(s))
    <3>1. kept \in Seq(1 .. s.target) /\ Range(kept) = Range(Slice(s)) \cap (Id \ Fed(s))
      BY <1>3, ThoseOf
    <3> HIDE DEF kept
    <3>2. /\ s.todo \o kept \in Seq(1 .. s.target)
          /\ Range(s.todo \o kept) = Range(s.todo) \cup Range(kept)
      BY <1>2, <3>1, RangeConcatenation
    <3> QED
      BY <3>1, <3>2 DEF kept
  <2> HIDE DEF fresh, over, init, hashTodo, w, n
  <2>4. s.next + n \in 0 .. Cardinality(File) + 1
    <3>1. /\ s.next \in Nat /\ n \in Nat /\ s.target \in Nat /\ Cardinality(File) \in Nat
          /\ s.next + n <= s.target + 1 /\ s.target <= Cardinality(File)
      BY <1>2, <1>3, <1>7
    <3> QED
      BY <3>1
  <2>5. /\ w \in SweepType /\ w.active /\ w.next = s.next + n /\ w.target = s.target
        /\ w.passDone = over /\ w.todo = fresh /\ w.retry = <<>> /\ w.initRefreshed = init
    <3>1. fresh \in Seq(Id)
      BY <1>2, <2>3, SeqMonotonic
    <3> QED
      BY <1>1, <1>4, <1>5, <1>7, <2>1, <2>4, <3>1 DEF SweepType, Tidy
  <2>6. Walks(w)
    BY <1>2, <1>3, <1>7, <2>3, <2>5 DEF Walks, Tidy
  <2>7. Ahead(s) \ Fed(s) \subseteq Ahead(w)
    <3> SUFFICES ASSUME NEW x \in (s.next .. s.target) \cup Range(s.todo), x \notin Fed(s)
                 PROVE  x \in Ahead(w)
      BY <1>7 DEF Ahead
    <3>1. CASE x \in Range(fresh)
      BY <2>5, <3>1 DEF Ahead
    <3>2. CASE x \notin Range(fresh)
      <4>1. x \in s.next .. s.target /\ x \notin Range(s.todo)
        BY <2>3, <3>2
      <4>2. x \in Id
        BY <1>2, <4>1, FilesCounted
      <4>3. x \notin s.next .. s.next + n - 1
        BY <1>3, <1>7, <2>3, <3>2, <4>2
      <4>4. x \in s.next + n .. s.target /\ ~(s.next + n > s.target)
        <5>1. s.next \in Nat /\ n \in Nat /\ s.target \in Nat
          BY <1>2, <1>3
        <5> QED
          BY <4>1, <4>3, <5>1
      <4> QED
        BY <2>2, <2>5, <4>4 DEF Ahead
    <3> QED
      BY <3>1, <3>2
  <2> QED
    BY <1>6, <2>5, <2>6, <2>7 DEF w
<1>8. CASE s.passDone
  <2>1. w = [s EXCEPT !.todo = round.todo, !.retry = round.retry, !.passDone = over,
                      !.initRefreshed = init, !.hashTodo = hashTodo]
    BY <1>1, <1>8 DEF Walked, SweepType
  <2>2. /\ round.todo \in Seq(1 .. s.target) /\ round.retry \in Seq(1 .. s.target)
        /\ round.todo = <<>> => round.retry = <<>>
        /\ (Range(s.todo) \cup Range(s.retry)) \ Fed(s)
             \subseteq Range(round.todo) \cup Range(round.retry)
    BY <1>2, <1>3, <1>8, RoundOf
  <2> HIDE DEF round, over, init, hashTodo, w, n
  <2>3. /\ w \in SweepType /\ w.active /\ w.next = s.next /\ w.target = s.target
        /\ w.passDone /\ w.todo = round.todo /\ w.retry = round.retry /\ w.initRefreshed = init
    <3>1. round.todo \in Seq(Id) /\ round.retry \in Seq(Id)
      BY <1>2, <2>2, SeqMonotonic
    <3> QED
      BY <1>1, <1>4, <1>5, <1>8, <2>1, <3>1 DEF SweepType
  <2>4. Walks(w)
    BY <1>2, <2>2, <2>3 DEF Walks, Tidy
  <2>5. Ahead(s) \ Fed(s) \subseteq Ahead(w)
    BY <1>8, <2>2, <2>3 DEF Ahead
  <2> QED
    BY <1>6, <2>3, <2>4, <2>5 DEF w
<1> QED
  BY <1>2, <1>7, <1>8

(* The look at the hashes changes nothing of the walk.                     *)
LEMMA HashedOf ==
  ASSUME NEW s, Walks(s), NEW es
  PROVE  LET h == Hashed(s, es)
         IN  /\ Walks(h) /\ h.initRefreshed = s.initRefreshed /\ Ahead(h) = Ahead(s)
             /\ h.todo = s.todo /\ h.passDone = s.passDone
<1> DEFINE h == Hashed(s, es)
           n == Least(Budget, Len(s.hashTodo))
           round == Round(s.hashTodo, s.hashRetry, n, {id \in Id : es[id].hashReady})
<1>1. s \in SweepType /\ s.hashTodo \in Seq(Id) /\ s.hashRetry \in Seq(Id)
  BY DEF Walks, SweepType
<1>2. n \in 0 .. Len(s.hashTodo)
  <2>1. Len(s.hashTodo) \in Nat /\ Budget \in Nat
    BY <1>1, ConstantsAssumption
  <2> QED
    BY <2>1 DEF Least
<1>3. round.todo \in Seq(Id) /\ round.retry \in Seq(Id)
  <2> HIDE DEF n
  <2> QED
    BY <1>1, <1>2, RoundOf
<1>4. h = s \/ h = [s EXCEPT !.hashTodo = round.todo, !.hashRetry = round.retry]
  BY DEF Hashed
<1> HIDE DEF round, h
<1>5. /\ h \in SweepType /\ h.active = s.active /\ h.next = s.next /\ h.target = s.target
      /\ h.todo = s.todo /\ h.retry = s.retry /\ h.passDone = s.passDone
      /\ h.initRefreshed = s.initRefreshed
  BY <1>1, <1>3, <1>4 DEF SweepType
<1>6. Walks(h) /\ Ahead(h) = Ahead(s)
  BY <1>5 DEF Walks, Tidy, Ahead
<1> QED
  BY <1>5, <1>6 DEF h

(* The sweep between frames, and the identities of unregistered files.     *)
WalkInv ==
  /\ GateInv /\ ServedInv
  /\ bound \in BOOLEAN /\ sweep \in SweepType
  /\ sweep.active => Walks(sweep) /\ main = "playing"
  /\ \A id \in Id \ Registered : user[id] = <<"none", None>>

LEMMA NoSweepType == NoSweep \in SweepType /\ NoSweep.active = FALSE
<1>1. 0 \in 0 .. Cardinality(File) + 1 /\ 0 \in 0 .. Cardinality(File)
  BY FilesCounted
<1>2. <<>> \in Seq(Id)
  OBVIOUS
<1> QED
  BY <1>1, <1>2 DEF NoSweep, SweepType

(* A sweep that begins has every registered ID ahead of it.                *)
LEMMA Beginning ==
  ASSUME CacheType
  PROVE  LET b == Begin(Len(table))
         IN  Walks(b) /\ ~b.initRefreshed /\ Ahead(b) = Registered
<1> DEFINE b == Begin(Len(table))
           S == 1 .. Len(table)
<1>1. Len(table) \in Nat /\ S \subseteq Id /\ enabled \in BOOLEAN
  BY RegisteredHaveEntries DEF CacheType
<1>2. Cardinality(File) \in Nat /\ Len(table) <= Cardinality(File)
  <2>1. CASE Len(table) = 0
    BY <2>1, FilesCounted
  <2>2. CASE Len(table) # 0
    <3>1. Len(table) \in Id
      BY <1>1, <2>2
    <3> QED
      BY <3>1, FilesCounted
  <2> QED
    BY <2>1, <2>2
<1>3. /\ b.active = TRUE /\ b.capture = enabled /\ b.next = 1 /\ b.target = Len(table)
      /\ b.initRefreshed = FALSE /\ b.passDone = FALSE /\ b.todo = <<>> /\ b.retry = <<>>
  BY DEF Begin, NoSweep
<1>4. b \in SweepType
  <2>1. 1 \in 0 .. Cardinality(File) + 1 /\ Len(table) \in 0 .. Cardinality(File)
    BY <1>1, <1>2
  <2>2. <<>> \in Seq(Id)
    OBVIOUS
  <2> QED
    BY <1>1, <2>1, <2>2 DEF Begin, NoSweep, SweepType
<1> HIDE DEF b
<1>5. b.todo \in Seq(S) /\ b.retry \in Seq(S)
  <2> HIDE DEF S
  <2> QED
    BY <1>3
<1>6. Range(<<>>) = {}
  BY DEF Range
<1>7. Walks(b) /\ Ahead(b) = Registered
  BY <1>1, <1>3, <1>4, <1>5, <1>6 DEF Walks, Tidy, Ahead, Registered
<1> QED
  BY <1>3, <1>7 DEF b

(* The sweep a frame works on: the one it found, a new one, or none.       *)
LEMMA WorkingIs ==
  ASSUME WalkInv, main = "playing"
  PROVE  /\ Working.active => /\ bound /\ Walks(Working)
                              /\ IF SwitchSeen.bootstrap THEN Working = Begin(Len(table))
                                 ELSE Working = sweep
         /\ ~Working.active => /\ Feeding = {} /\ ~FeedsInit(Working)
                               /\ ~sweep.active /\ (bound => ~SwitchSeen.bootstrap)
<1> DEFINE b == Begin(Len(table))
<1>1. Walks(b) /\ b.active
  BY Beginning DEF WalkInv, ServedInv, Walks
<1>2. NoSweep.active = FALSE
  BY NoSweepType
<1>3. Working.active => /\ bound /\ Walks(Working)
                        /\ IF SwitchSeen.bootstrap THEN Working = Begin(Len(table))
                           ELSE Working = sweep
  BY <1>1, <1>2 DEF Working, SweepNow, WalkInv, GateInv
<1>4. ~Working.active => ~sweep.active /\ (bound => ~SwitchSeen.bootstrap)
  BY <1>1, <1>2 DEF Working, SweepNow, WalkInv, GateInv
<1>5. ~Working.active => Feeding = {} /\ ~FeedsInit(Working)
  BY DEF Feeding, Fed, Slice, FeedsInit, Range
<1> QED
  BY <1>3, <1>4, <1>5

(* What a frame leaves of the walk.                                        *)
LEMMA AfterThink ==
  ASSUME WalkInv, main = "playing", Working.active
  PROVE  /\ Walks(AfterFrame)
         /\ AfterFrame.initRefreshed = (InitFed(Working) \/ FeedsInit(Working))
         /\ Ahead(Working) \ Feeding \subseteq Ahead(AfterFrame)
         /\ Completes => AfterFrame.initRefreshed /\ Ahead(AfterFrame) = {}
<1>1. Walks(Working) /\ CacheType
  BY WorkingIs DEF WalkInv, ServedInv
<1>2. /\ Walks(AfterWalk)
      /\ AfterWalk.initRefreshed = (InitFed(Working) \/ FeedsInit(Working))
      /\ Ahead(Working) \ Fed(Working) \subseteq Ahead(AfterWalk)
  BY <1>1, WalkedOf DEF AfterWalk
<1>3. /\ Walks(AfterFrame) /\ AfterFrame.initRefreshed = AfterWalk.initRefreshed
      /\ Ahead(AfterFrame) = Ahead(AfterWalk)
  BY <1>2, HashedOf DEF AfterFrame
<1>4. Fed(Working) \subseteq Feeding
  BY DEF Feeding
<1>5. Completes => AfterFrame.initRefreshed /\ Ahead(AfterFrame) = {}
  BY <1>3 DEF Completes, CanCompleteRegistrationRefresh, Walks, Tidy, Ahead, Range
<1> QED
  BY <1>2, <1>3, <1>4, <1>5

LEMMA WalkThink == WalkInv /\ Think => WalkInv'
<1> SUFFICES ASSUME WalkInv, Think PROVE WalkInv'
  OBVIOUS
<1>1. /\ table' = Names /\ main = "playing" /\ UNCHANGED <<enabled, main, source, cached, bound>>
      /\ user' = [id \in Id |-> IF id \in (Feeding \cup publishQueue) \cap DOMAIN Names
                                THEN Body(Names[id], Refreshed(Working)[id]) ELSE user[id]]
      /\ sweep' = IF Completes THEN NoSweep ELSE AfterFrame
  BY ThinkDoes
<1>2. CacheType
  BY DEF WalkInv, ServedInv
<1>3. /\ Names \in Seq(File) /\ IsInjective(Names) /\ DOMAIN Names = 1 .. Len(Names)
      /\ Len(table) <= Len(Names) /\ \A id \in Registered : id \in DOMAIN Names
  BY <1>2, NamesOf
<1>4. ServedInv'
  BY ServedThink DEF WalkInv
<1>5. GateInv'
  BY GateThink DEF WalkInv
<1>6. sweep' \in SweepType /\ (sweep'.active => Walks(sweep)' /\ main' = "playing")
  <2>1. CASE Completes
    BY <1>1, <2>1, NoSweepType
  <2>2. CASE ~Completes /\ Working.active
    <3>1. Walks(AfterFrame) /\ sweep' = AfterFrame
      BY <1>1, <2>2, AfterThink
    <3>2. Len(table) \in Nat /\ Len(table') \in Nat
      BY <1>1, <1>2, <1>3 DEF CacheType
    <3>3. Len(table) <= Len(table') /\ AfterFrame.target \in Nat
      BY <1>1, <1>3, <3>1, FilesCounted DEF Walks, SweepType
    <3>4. AfterFrame.target <= Len(table')
      BY <3>1, <3>2, <3>3 DEF Walks
    <3> QED
      BY <1>1, <3>1, <3>4 DEF Walks, Tidy
  <2>3. CASE ~Working.active
    <3>1. sweep' = sweep
      BY <1>1, <2>3 DEF Completes, AfterFrame
    <3> QED
      BY <1>1, <2>3, <3>1, WorkingIs DEF WalkInv
  <2> QED
    BY <2>1, <2>2, <2>3
<1>7. \A id \in Id \ Registered' : user'[id] = <<"none", None>>
  BY <1>1, <1>3 DEF WalkInv, Registered
<1> QED
  BY <1>1, <1>4, <1>5, <1>6, <1>7 DEF WalkInv

(* Between frames the table only grows, by files without an identity.      *)
LEMMA WalkRest ==
  ASSUME WalkInv, GateInv', ServedInv', UNCHANGED <<sweep, main>>, bound' \in BOOLEAN,
         Len(table) <= Len(table'),
         \A id \in Id \ Registered' : user'[id] = user[id]
  PROVE  WalkInv'
<1>1. Len(table) \in Nat /\ Len(table') \in Nat
  BY DEF WalkInv, ServedInv, CacheType
<1>2. sweep.active => Walks(sweep)'
  BY <1>1, FilesCounted DEF WalkInv, Walks, SweepType, Tidy
<1>3. Registered \subseteq Registered'
  BY <1>1 DEF Registered
<1> QED
  BY <1>2, <1>3 DEF WalkInv

LEMMA WalkAdd ==
  ASSUME WalkInv, GateInv', ServedInv', NEW f \in File, NEW c \in Content, AddOrUpdateFile(f, c)
  PROVE  WalkInv'
<1> DEFINE id == CHOOSE i \in DOMAIN table' : table'[i] = f
<1>1. table \in Seq(File) /\ IsInjective(table) /\ table' \in Seq(File) /\ IsInjective(table')
  BY DEF WalkInv, ServedInv, CacheType
<1>2. /\ table' = IF f \in Range(table) THEN table ELSE Append(table, f)
      /\ UNCHANGED <<sweep, main>> /\ bound' = TRUE
      /\ \E b : user' = user \/ user' = [user EXCEPT ![id] = b]
  BY DEF AddOrUpdateFile
<1>3. f \in Range(table') /\ Len(table) <= Len(table')
  BY <1>1, <1>2, NextId DEF Range
<1>4. id \in DOMAIN table' /\ DOMAIN table' = Registered'
  BY <1>1, <1>3 DEF Range, Registered
<1> HIDE DEF id
<1>5. \A i \in Id \ Registered' : user'[i] = user[i]
  <2>1. DOMAIN user = Id
    BY DEF WalkInv, ServedInv, CacheType
  <2> QED
    BY <1>2, <1>4, <2>1
<1> QED
  BY <1>2, <1>3, <1>5, WalkRest

LEMMA WalkStep == WalkInv /\ [Next]_refreshVars => WalkInv'
<1> SUFFICES ASSUME WalkInv, [Next]_refreshVars PROVE WalkInv'
  OBVIOUS
<1>1. GateInv' /\ ServedInv'
  BY GateStep, ServedStep DEF WalkInv
<1>2. CASE Think
  BY <1>2, WalkThink
<1>3. ASSUME NEW f \in File, NEW c \in Content, AddOrUpdateFile(f, c) PROVE WalkInv'
  BY <1>1, <1>3, WalkAdd
<1>4. CASE Flip \/ WorkerStep \/ UNCHANGED refreshVars
  <2>1. UNCHANGED <<sweep, main, bound, table, user>>
    BY <1>4 DEF Flip, WorkerStep, WorkerSleep, WorkerTake, WorkerProcess, WorkerHash, WorkerNext,
       WorkerStop, workerFrame, engine, refreshVars
  <2>2. Len(table) \in Nat
    BY DEF WalkInv, ServedInv, CacheType
  <2> QED
    BY <1>1, <2>1, <2>2, WalkRest DEF WalkInv
<1>5. ASSUME NEW f \in File, CacheFile(f) PROVE WalkInv'
  <2>1. UNCHANGED <<sweep, main, bound, table, user>>
    BY <1>5 DEF CacheFile
  <2>2. Len(table) \in Nat
    BY DEF WalkInv, ServedInv, CacheType
  <2> QED
    BY <1>1, <2>1, <2>2, WalkRest DEF WalkInv
<1>6. CASE LevelShutdown \/ WorkerJoined
  <2>1. UNCHANGED <<bound, table, user>> /\ sweep' \in SweepType /\ sweep'.active = FALSE
    BY <1>6, NoSweepType DEF LevelShutdown, WorkerJoined, engine, WalkInv, SweepType
  <2> QED
    BY <1>1, <2>1 DEF WalkInv, Registered
<1>7. CASE Initialize
  <2>1. /\ UNCHANGED <<bound, sweep>> /\ main = "ended"
        /\ user' = [id \in Id |-> <<"none", None>>]
    BY <1>7 DEF Initialize
  <2> QED
    BY <1>1, <2>1 DEF WalkInv
<1> QED
  BY <1>2, <1>3, <1>4, <1>5, <1>6, <1>7 DEF Next

LEMMA WalkInit == Init => WalkInv
<1> SUFFICES ASSUME Init PROVE WalkInv
  OBVIOUS
<1>1. GateInv
  BY DEF Init, GateInv, GateHasOwner, NoSweep
<1>2. ServedInv
  BY ServedInit
<1>3. /\ bound = FALSE /\ sweep = NoSweep
      /\ user = [id \in Id |-> <<"none", None>>]
  BY DEF Init
<1> QED
  BY <1>1, <1>2, <1>3, NoSweepType DEF WalkInv

-----------------------------------------------------------------------------
(* The queues and the batch hold IDs of files.                             *)
WorkInv ==
  /\ compressQueue \subseteq Id /\ publishQueue \subseteq Id
  /\ worker \in [state : {"RUNNING", "SHOULD_SHUTDOWN", "NOTRUNNING"},
                 at : {"none", "loop", "sleep", "process", "hash"},
                 batch : SUBSET Id, todo : SUBSET Id]
  /\ worker.todo \subseteq worker.batch

LEMMA FeedsFiles ==
  ASSUME WalkInv, main = "playing"
  PROVE  Feeding \subseteq Id /\ Fed(Working) \subseteq Registered
<1>1. CacheType
  BY DEF WalkInv, ServedInv
<1>2. FeedsInit(Working) => InitId \in Id
  BY <1>1, NamesOf
<1>3. CASE ~Working.active
  BY <1>3, WorkingIs DEF Feeding
<1>4. CASE Working.active
  <2>1. /\ Walks(Working) /\ Working.target <= Cardinality(File) /\ Working.target \in Nat
        /\ Working.target <= Len(table) /\ Len(table) \in Nat
    BY <1>1, <1>4, WorkingIs, FilesCounted DEF Walks, SweepType, CacheType
  <2>2. 1 .. Working.target \subseteq Id /\ 1 .. Working.target \subseteq Registered
    BY <2>1, FilesCounted DEF Registered
  <2>3. Slice(Working) \in Seq(1 .. Working.target)
    BY <1>1, <2>1, SliceOf
  <2>4. Range(Slice(Working)) \subseteq 1 .. Working.target
    BY <2>3, RangeOfSeq
  <2> QED
    BY <1>2, <2>2, <2>4 DEF Feeding, Fed
<1> QED
  BY <1>3, <1>4

LEMMA WorkStep == WalkInv /\ WorkInv /\ [Next]_refreshVars => WorkInv'
<1> SUFFICES ASSUME WalkInv, WorkInv, [Next]_refreshVars PROVE WorkInv'
  OBVIOUS
<1>1. CASE Think
  BY <1>1, ThinkDoes, FeedsFiles DEF WorkInv
<1>2. ASSUME NEW f \in File, NEW c \in Content, AddOrUpdateFile(f, c) PROVE WorkInv'
  <2> DEFINE id == CHOOSE i \in DOMAIN table' : table'[i] = f
  <2>1. /\ UNCHANGED <<publishQueue, worker>>
        /\ compressQueue' = compressQueue \/ compressQueue' = compressQueue \cup {id}
    BY <1>2 DEF AddOrUpdateFile
  <2>2. table' = IF f \in Range(table) THEN table ELSE Append(table, f)
    BY <1>2 DEF AddOrUpdateFile
  <2>3. /\ table \in Seq(File) /\ IsInjective(table)
        /\ table' \in Seq(File) /\ IsInjective(table')
    BY <1>2, ServedAdd DEF WalkInv, ServedInv, CacheType
  <2>4. f \in Range(table')
    BY <2>2, <2>3, NextId DEF Range
  <2>5. DOMAIN table' \subseteq Id
    BY <2>3, RegisteredHaveEntries
  <2>6. id \in Id
    BY <2>4, <2>5 DEF Range
  <2> HIDE DEF id
  <2> QED
    BY <2>1, <2>6 DEF WorkInv
<1>3. CASE Flip \/ WorkerJoined \/ UNCHANGED refreshVars
  BY <1>3 DEF Flip, WorkerJoined, refreshVars, WorkInv
<1>4. ASSUME NEW f \in File, CacheFile(f) PROVE WorkInv'
  BY <1>4 DEF CacheFile, WorkInv
<1>5. CASE LevelShutdown
  BY <1>5 DEF LevelShutdown, WorkInv
<1>6. CASE Initialize
  BY <1>6 DEF Initialize, WorkInv, NoWorker
<1>7. CASE WorkerSleep \/ WorkerTake \/ WorkerNext \/ WorkerStop
  <2>1. CASE WorkerSleep
    BY <2>1 DEF WorkerSleep, WorkInv
  <2>2. CASE WorkerTake
    BY <2>2 DEF WorkerTake, WorkInv
  <2>3. CASE WorkerNext
    BY <2>3 DEF WorkerNext, WorkInv
  <2>4. CASE WorkerStop
    BY <2>4 DEF WorkerStop, WorkInv, NoWorker
  <2> QED
    BY <1>7, <2>1, <2>2, <2>3, <2>4
<1>8. ASSUME NEW id \in Id, WorkerProcess(id) PROVE WorkInv'
  BY <1>8 DEF WorkerProcess, WorkInv
<1>9. ASSUME NEW id \in Id, WorkerHash(id) PROVE WorkInv'
  BY <1>9 DEF WorkerHash, WorkInv
<1> QED
  BY <1>1, <1>2, <1>3, <1>4, <1>5, <1>6, <1>7, <1>8, <1>9 DEF Next, WorkerStep

LEMMA WalksRight == Spec => [](WalkInv /\ WorkInv)
<1>1. Init => WalkInv /\ WorkInv
  <2>1. Init => WorkInv
    BY DEF Init, WorkInv, NoWorker
  <2> QED
    BY <2>1, WalkInit
<1>2. WalkInv /\ WorkInv /\ [Next]_refreshVars => (WalkInv /\ WorkInv)'
  BY WalkStep, WorkStep
<1> QED
  BY <1>1, <1>2, PTL DEF Spec

(* Every step, whichever thread takes it, leaves the sweep, the table, the *)
(* cache and the worker's batch well formed: the walk never passes the end *)
(* of the IDs it was begun with, and its lists hold none but those.        *)
THEOREM TypeCorrect == Spec => []TypeOK
<1>1. WalkInv /\ WorkInv => TypeOK
  <2> SUFFICES ASSUME WalkInv, WorkInv PROVE TypeOK
    OBVIOUS
  <2>1. DOMAIN sweep = DOMAIN NoSweep
    BY NoSweepType DEF WalkInv, SweepType
  <2>2. /\ sweep.next \in 0 .. Cardinality(File) + 1 /\ sweep.target \in 0 .. Cardinality(File)
        /\ \A q \in {sweep.todo, sweep.retry, sweep.hashTodo, sweep.hashRetry} : q \in Seq(Id)
    BY DEF WalkInv, SweepType
  <2>3. /\ worker.state \in {"RUNNING", "SHOULD_SHUTDOWN", "NOTRUNNING"}
        /\ worker.at \in {"none", "loop", "sleep", "process", "hash"}
        /\ worker.todo \subseteq worker.batch /\ worker.batch \subseteq Id
    BY DEF WorkInv
  <2> QED
    BY <2>1, <2>2, <2>3 DEF TypeOK, WalkInv, WorkInv, GateInv, ServedInv, CacheType, EntryType
<1> QED
  BY <1>1, WalksRight, PTL

-----------------------------------------------------------------------------
(* No mixed table.  The switch is a level, and LuaPack::Think compares it  *)
(* with what it saw a frame ago: a change and its undoing between two      *)
(* frames, or a change while a level loads, leave nothing to see.  So the  *)
(* theorems of this section take at most one change per frame, and none    *)
(* before the first; RegistrationRefresh_loading shows the other case.     *)
OneChangeSeen == FlipsPerFrame <= 1 /\ ~FlipWhileLoading

Kinds(on) == {"none"} \cup (IF on THEN {"stub", "bootstrap"} ELSE {"plain"})
Fits(id) == entry[id].mode \in {"none", Mode(enabled)} /\ user[id][1] \in Kinds(enabled)
Seen == enabled = switch.seen /\ enabled = switch.canonical /\ ~switch.bootstrap
InitPublished ==
  \E id \in Registered :
    table[id] = InitFile /\ entry[id].mode = "canonical" /\ user[id][1] = "bootstrap"

\* Once a change is seen, every ID fits it or is ahead of the walk.
Swept ==
  /\ \A id \in Registered : Fits(id) \/ (sweep.active /\ id \in Ahead(sweep))
  /\ enabled /\ (switch.pending => sweep.initRefreshed) => InitPublished

MixInv ==
  /\ WalkInv /\ frameFlips \in Nat
  /\ switch.bootstrap \/ sweep.active => switch.pending
  /\ main # "playing" => ~switch.seen /\ ~switch.canonical /\ ~switch.pending
  /\ main = "playing" /\ enabled # switch.seen => frameFlips >= FlipsPerFrame
  /\ main = "playing" /\ Seen => Swept

LEMMA BodyFits ==
  ASSUME NEW f, NEW e, NEW on \in BOOLEAN, e.mode \in {"none", Mode(on)}
  PROVE  /\ Body(f, e)[1] \in Kinds(on)
         /\ on /\ f = InitFile /\ e.mode = "canonical" => Body(f, e)[1] = "bootstrap"
BY DEF Body, Mode, Kinds

(* The worker's steps, and a file that enters the cache.                   *)
LEMMA MixRest ==
  ASSUME MixInv, WalkInv', UNCHANGED <<enabled, switch, sweep, main, frameFlips, table, user>>,
         \A id \in Id : entry'[id].mode = entry[id].mode
  PROVE  MixInv'
<1>1. Registered \subseteq Id /\ UNCHANGED Registered
  BY RegisteredHaveEntries DEF MixInv, WalkInv, ServedInv, CacheType, Registered
<1>2. \A id \in Registered : Fits(id)' <=> Fits(id)
  BY <1>1 DEF Fits
<1>3. InitPublished => InitPublished'
  BY <1>1 DEF InitPublished
<1>4. (Seen' <=> Seen) /\ Ahead(sweep)' = Ahead(sweep)
  BY DEF Seen, Ahead
<1>5. Swept => Swept'
  BY <1>1, <1>2, <1>3, <1>4 DEF Swept
<1> QED
  BY <1>4, <1>5 DEF MixInv

LEMMA WorkerKeepsModes ==
  ASSUME CacheType, WorkerStep, NEW id \in Id
  PROVE  entry'[id].mode = entry[id].mode
<1>1. entry \in [Id -> EntryType]
  BY DEF CacheType
<1>2. ASSUME NEW i \in Id, WorkerProcess(i) PROVE entry'[id].mode = entry[id].mode
  BY <1>1, <1>2 DEF WorkerProcess, EntryType
<1>3. ASSUME NEW i \in Id, WorkerHash(i) PROVE entry'[id].mode = entry[id].mode
  BY <1>1, <1>3 DEF WorkerHash, EnsureSourceHash, EntryType
<1> QED
  BY <1>2, <1>3 DEF WorkerStep, WorkerSleep, WorkerTake, WorkerNext, WorkerStop

(* A file that is added or updated takes the mode of the switch.           *)
LEMMA MixAdd ==
  ASSUME MixInv, WalkInv', NEW f \in File, NEW c \in Content, AddOrUpdateFile(f, c)
  PROVE  MixInv'
<1> DEFINE id == CHOOSE i \in DOMAIN table' : table'[i] = f
           e == AddFileContents(entry[id], c)
<1>1. /\ table \in Seq(File) /\ IsInjective(table) /\ entry \in [Id -> EntryType]
      /\ DOMAIN user = Id /\ enabled \in BOOLEAN
      /\ table' \in Seq(File) /\ IsInjective(table')
      /\ \A i \in Id \ Registered : user[i] = <<"none", None>>
  BY DEF MixInv, WalkInv, ServedInv, CacheType
<1>2. /\ table' = IF f \in Range(table) THEN table ELSE Append(table, f)
      /\ UNCHANGED <<enabled, switch, sweep, main, frameFlips>>
      /\ entry' = [entry EXCEPT ![id] = e]
      /\ IF SameRegistration(entry[id], c)
         THEN user' = [user EXCEPT ![id] = Body(f, e)] ELSE user' = user
  BY DEF AddOrUpdateFile
<1>3. /\ f \in Range(table')
      /\ \A i \in Registered : i \in DOMAIN table' /\ table'[i] = table[i]
      /\ \A i \in DOMAIN table' : table'[i] # f => i \in Registered
  BY <1>1, <1>2, NextId DEF Range, Registered
<1>4. /\ DOMAIN table' = Registered' /\ Registered' \subseteq Id
      /\ Registered \subseteq Registered'
  BY <1>1, <1>3, RegisteredHaveEntries DEF Registered
<1>5. id \in Registered' /\ id \in Id /\ table'[id] = f
  BY <1>3, <1>4 DEF Range
<1>6. \A i \in Registered' : i # id => i \in Registered /\ table'[i] = table[i]
  BY <1>1, <1>3, <1>4, <1>5 DEF IsInjective
<1> HIDE DEF id
<1>7. e.mode = Mode(enabled)
  BY <1>1, <1>5 DEF AddFileContents, SameRegistration, EmptyEntry, EntryType
<1>8. /\ Body(f, e)[1] \in Kinds(enabled)
      /\ enabled /\ f = InitFile => Body(f, e)[1] = "bootstrap" /\ e.mode = "canonical"
  BY <1>1, <1>7, BodyFits DEF Mode
<1> HIDE DEF e
<1>9. /\ entry'[id] = e /\ (user'[id] = user[id] \/ user'[id] = Body(f, e))
      /\ \A i \in Id : i # id => entry'[i] = entry[i] /\ user'[i] = user[i]
  BY <1>1, <1>2, <1>5
<1>10. \A i \in Registered' :
         Fits(i)' \/ (i \in Registered /\ ~Fits(i))
  <2> SUFFICES ASSUME NEW i \in Registered', i \in Registered => Fits(i) PROVE Fits(i)'
    OBVIOUS
  <2>1. user[i][1] \in Kinds(enabled)
    BY <1>1, <1>4 DEF Fits, Kinds
  <2>2. CASE i = id
    BY <1>2, <1>7, <1>8, <1>9, <2>1, <2>2 DEF Fits
  <2>3. CASE i # id
    BY <1>2, <1>4, <1>6, <1>9, <2>3 DEF Fits
  <2> QED
    BY <2>2, <2>3
<1>11. enabled /\ InitPublished => InitPublished'
  <2> SUFFICES ASSUME enabled, NEW i \in Registered, table[i] = InitFile,
                      entry[i].mode = "canonical", user[i][1] = "bootstrap"
               PROVE  InitPublished'
    BY DEF InitPublished
  <2>1. i \in Registered' /\ table'[i] = InitFile /\ i \in Id
    BY <1>3, <1>4
  <2>2. CASE i = id
    BY <1>5, <1>8, <1>9, <2>1, <2>2 DEF InitPublished
  <2>3. CASE i # id
    BY <1>9, <2>1, <2>3 DEF InitPublished
  <2> QED
    BY <2>2, <2>3
<1>12. (Seen' <=> Seen) /\ Ahead(sweep)' = Ahead(sweep)
  BY <1>2 DEF Seen, Ahead
<1>13. Swept => Swept'
  BY <1>2, <1>10, <1>11, <1>12 DEF Swept
<1> QED
  BY <1>2, <1>12, <1>13 DEF MixInv

(* A frame makes what it feeds fit, and what fits still does after it.     *)
LEMMA IdThink ==
  ASSUME WalkInv, Think, NEW id \in Registered'
  PROVE  /\ id \in Feeding => Fits(id)'
         /\ id \notin Feeding => id \in Registered /\ (Fits(id) => Fits(id)')
         /\ enabled /\ Names[id] = InitFile
              /\ (id \in Feeding \/ (entry[id].mode = "canonical" /\ user[id][1] = "bootstrap"))
              => InitPublished'
<1> DEFINE fed == Refreshed(Working)
<1>1. CacheType
  BY DEF WalkInv, ServedInv
<1>2. /\ table' = Names /\ enabled' = enabled
      /\ user' = [i \in Id |-> IF i \in (Feeding \cup publishQueue) \cap DOMAIN Names
                               THEN Body(Names[i], fed[i]) ELSE user[i]]
  BY ThinkDoes
<1>3. DOMAIN Names = Registered' /\ Registered' \subseteq Id /\ (id \notin Feeding => id \in Registered)
  BY <1>1, <1>2, NamesOf DEF Registered, Feeding
<1>4. /\ entry'[id].mode = fed[id].mode
      /\ IF id \in Feeding THEN fed[id].mode = Mode(enabled) ELSE fed[id] = entry[id]
  BY <1>1, <1>3, EntryThink, FedEntries
<1>5. /\ user'[id] = user[id] \/ user'[id] = Body(Names[id], fed[id])
      /\ id \in Feeding => user'[id] = Body(Names[id], fed[id])
  BY <1>2, <1>3
<1>6. enabled \in BOOLEAN
  BY <1>1 DEF CacheType
<1> HIDE DEF fed
<1>7. fed[id].mode \in {"none", Mode(enabled)} =>
        /\ Body(Names[id], fed[id])[1] \in Kinds(enabled)
        /\ enabled /\ Names[id] = InitFile /\ fed[id].mode = "canonical"
             => Body(Names[id], fed[id])[1] = "bootstrap"
  BY <1>6, BodyFits
<1>8. id \in Feeding => Fits(id)'
  BY <1>2, <1>4, <1>5, <1>7 DEF Fits
<1>9. id \notin Feeding => (Fits(id) => Fits(id)')
  BY <1>2, <1>4, <1>5, <1>7 DEF Fits
<1>10. ASSUME enabled, Names[id] = InitFile,
              id \in Feeding \/ (entry[id].mode = "canonical" /\ user[id][1] = "bootstrap")
       PROVE  InitPublished'
  <2>1. fed[id].mode = "canonical"
    BY <1>4, <1>10 DEF Mode
  <2>2. user'[id][1] = "bootstrap"
    BY <1>5, <1>7, <1>10, <2>1 DEF Mode
  <2> QED
    BY <1>2, <1>4, <1>10, <2>1, <2>2 DEF InitPublished
<1> QED
  BY <1>3, <1>8, <1>9, <1>10

(* The flags of the switch after a frame.                                  *)
LEMMA SwitchThink ==
  ASSUME MixInv, Think
  PROVE  /\ switch'.seen = enabled /\ switch'.canonical = enabled
         /\ switch'.bootstrap = (~bound /\ SwitchSeen.bootstrap)
         /\ Completes => switch'.pending = switch'.bootstrap
         /\ ~Completes => switch'.pending = SwitchSeen.pending
         /\ SwitchSeen.bootstrap => SwitchSeen.pending
         /\ sweep.active => SwitchSeen.pending
         /\ ~SwitchSeen.bootstrap => Seen /\ SwitchSeen.pending = switch.pending
<1>1. switch' = IF Completes THEN CompleteRegistrationRefresh(SwitchNow) ELSE SwitchNow
  BY ThinkDoes
<1>2. /\ enabled \in BOOLEAN /\ bound \in BOOLEAN
      /\ switch \in [seen : BOOLEAN, canonical : BOOLEAN, bootstrap : BOOLEAN, pending : BOOLEAN]
      /\ switch.bootstrap \/ sweep.active => switch.pending
  BY DEF MixInv, WalkInv, GateInv
<1>3. /\ SwitchSeen.seen = enabled /\ SwitchSeen.canonical = enabled
      /\ SwitchSeen.bootstrap \in BOOLEAN /\ SwitchSeen.pending \in BOOLEAN
      /\ SwitchSeen.bootstrap => SwitchSeen.pending
      /\ sweep.active => SwitchSeen.pending
      /\ ~SwitchSeen.bootstrap => Seen /\ SwitchSeen.pending = switch.pending
  BY <1>2 DEF SwitchSeen, Seen
<1>4. /\ SwitchNow.seen = enabled /\ SwitchNow.canonical = enabled
      /\ SwitchNow.bootstrap = (~bound /\ SwitchSeen.bootstrap)
      /\ SwitchNow.pending = SwitchSeen.pending
      /\ CompleteRegistrationRefresh(SwitchNow) = [SwitchNow EXCEPT !.pending = SwitchNow.bootstrap]
      /\ DOMAIN SwitchNow = {"seen", "canonical", "bootstrap", "pending"}
  BY <1>2, <1>3 DEF SwitchNow, SwitchSeen, CompleteRegistrationRefresh
<1> QED
  BY <1>1, <1>3, <1>4

LEMMA MixThink ==
  ASSUME MixInv, Think
  PROVE  MixInv'
<1>1. /\ WalkInv /\ CacheType /\ WalkInv' /\ main = "playing" /\ bound \in BOOLEAN
      /\ table' = Names /\ frameFlips' = 0 /\ UNCHANGED <<enabled, main>>
      /\ sweep' = IF Completes THEN NoSweep ELSE AfterFrame
  BY WalkThink, ThinkDoes DEF MixInv, WalkInv, ServedInv
<1>2. /\ switch'.seen = enabled /\ switch'.canonical = enabled
      /\ switch'.bootstrap = (~bound /\ SwitchSeen.bootstrap)
      /\ Completes => switch'.pending = switch'.bootstrap
      /\ ~Completes => switch'.pending = SwitchSeen.pending
      /\ SwitchSeen.bootstrap => SwitchSeen.pending
      /\ sweep.active => SwitchSeen.pending
      /\ ~SwitchSeen.bootstrap => Seen /\ SwitchSeen.pending = switch.pending
  BY SwitchThink
<1>3. Working.active => /\ bound /\ Walks(Working)
                        /\ IF SwitchSeen.bootstrap THEN Working = Begin(Len(table))
                           ELSE Working = sweep /\ sweep.active
  BY <1>1, WorkingIs
<1>4. ~Working.active => /\ Feeding = {} /\ ~sweep.active /\ ~Completes /\ sweep' = sweep
                         /\ (bound => ~SwitchSeen.bootstrap)
  BY <1>1, WorkingIs DEF Completes, AfterFrame
<1>5. Working.active =>
        /\ AfterFrame.active
        /\ AfterFrame.initRefreshed = (InitFed(Working) \/ FeedsInit(Working))
        /\ Ahead(Working) \ Feeding \subseteq Ahead(AfterFrame)
        /\ Completes => AfterFrame.initRefreshed /\ Ahead(AfterFrame) = {}
  BY <1>1, AfterThink DEF Walks
<1>6. NoSweep.active = FALSE
  BY NoSweepType
<1>7. switch'.bootstrap \/ sweep'.active => switch'.pending
  BY <1>1, <1>2, <1>3, <1>4, <1>6
<1>8. SwitchSeen.bootstrap => ~Begin(Len(table)).initRefreshed /\ Ahead(Begin(Len(table))) = Registered
  BY <1>1, Beginning
<1>9. ASSUME Seen' PROVE Swept'
  <2>1. Working.active \/ ~SwitchSeen.bootstrap
    BY <1>2, <1>4, <1>9 DEF Seen
  <2>2. ~SwitchSeen.bootstrap => Swept
    BY <1>1, <1>2 DEF MixInv
  <2>3. ASSUME NEW id \in Registered', ~Fits(id)' PROVE sweep'.active /\ id \in Ahead(sweep')
    <3>1. id \notin Feeding /\ id \in Registered /\ ~Fits(id)
      BY <1>1, <2>3, IdThink
    <3>2. Working.active /\ id \in Ahead(Working)
      BY <1>3, <1>4, <1>8, <2>1, <2>2, <3>1 DEF Swept
    <3>3. id \in Ahead(AfterFrame) /\ ~Completes
      BY <1>5, <3>1, <3>2
    <3> QED
      BY <1>1, <1>5, <3>2, <3>3
  <2>4. ASSUME enabled, switch'.pending => sweep'.initRefreshed PROVE InitPublished'
    <3>1. \A id \in Registered : id \in Registered' /\ Names[id] = table[id]
      BY <1>1, NamesOf DEF Registered
    <3>2. ASSUME ~SwitchSeen.bootstrap, switch.pending => sweep.initRefreshed PROVE InitPublished'
      <4>1. PICK id \in Registered : /\ table[id] = InitFile /\ entry[id].mode = "canonical"
                                     /\ user[id][1] = "bootstrap"
        BY <2>2, <2>4, <3>2 DEF Swept, InitPublished
      <4> QED
        BY <1>1, <2>4, <3>1, <4>1, IdThink
    <3>3. CASE ~Working.active
      BY <1>2, <1>4, <2>1, <2>4, <3>2, <3>3
    <3>4. CASE Working.active
      <4>1. InitFed(Working) \/ FeedsInit(Working)
        BY <1>1, <1>2, <1>3, <1>5, <2>4, <3>4
      <4>2. CASE FeedsInit(Working)
        <5>1. InitId \in Registered' /\ Names[InitId] = InitFile /\ InitId \in Feeding
          BY <1>1, <4>2, NamesOf DEF Registered, Feeding
        <5> QED
          BY <1>1, <2>4, <5>1, IdThink
      <4>3. ASSUME NEW id \in Fed(Working), table[id] = InitFile PROVE InitPublished'
        <5>1. id \in Registered' /\ Names[id] = InitFile /\ id \in Feeding
          BY <1>1, <3>1, <4>3, FeedsFiles DEF Feeding
        <5> QED
          BY <1>1, <2>4, <5>1, IdThink
      <4>4. CASE Working.initRefreshed
        BY <1>3, <1>8, <3>2, <3>4, <4>4
      <4> QED
        BY <4>1, <4>2, <4>3, <4>4 DEF InitFed
    <3> QED
      BY <3>3, <3>4
  <2> QED
    BY <1>1, <2>3, <2>4 DEF Swept
<1> QED
  BY <1>1, <1>2, <1>7, <1>9 DEF MixInv

LEMMA MixFlip ==
  ASSUME MixInv, OneChangeSeen, Flip
  PROVE  MixInv'
<1>1. /\ enabled' = ~enabled /\ frameFlips' = frameFlips + 1 /\ frameFlips < FlipsPerFrame
      /\ main = "playing" /\ UNCHANGED <<switch, sweep, main>>
  BY DEF Flip
<1>2. WalkInv'
  BY WalkStep DEF MixInv, Next
<1>3. /\ enabled = switch.seen /\ frameFlips' >= FlipsPerFrame /\ enabled \in BOOLEAN
      /\ frameFlips' \in Nat
  BY <1>1, ConstantsAssumption DEF MixInv, OneChangeSeen, WalkInv, GateInv
<1>4. ~Seen'
  BY <1>1, <1>3 DEF Seen
<1> QED
  BY <1>1, <1>2, <1>3, <1>4 DEF MixInv

LEMMA MixStep == OneChangeSeen /\ MixInv /\ [Next]_refreshVars => MixInv'
<1> SUFFICES ASSUME OneChangeSeen, MixInv, [Next]_refreshVars PROVE MixInv'
  OBVIOUS
<1>1. WalkInv' /\ CacheType
  BY WalkStep DEF MixInv, WalkInv, ServedInv
<1>2. CASE Think
  BY <1>2, MixThink
<1>3. CASE Flip
  BY <1>3, MixFlip
<1>4. ASSUME NEW f \in File, NEW c \in Content, AddOrUpdateFile(f, c) PROVE MixInv'
  BY <1>1, <1>4, MixAdd
<1>5. CASE WorkerStep
  <2>1. UNCHANGED <<enabled, switch, sweep, main, frameFlips, table, user>>
    BY <1>5 DEF WorkerStep, WorkerSleep, WorkerTake, WorkerProcess, WorkerHash, WorkerNext,
       WorkerStop, workerFrame, events, engine
  <2> QED
    BY <1>1, <1>5, <2>1, WorkerKeepsModes, MixRest
<1>6. ASSUME NEW f \in File, CacheFile(f) PROVE MixInv'
  <2>1. UNCHANGED <<enabled, switch, sweep, main, frameFlips, table, user, entry>>
    BY <1>6 DEF CacheFile, events
  <2> QED
    BY <1>1, <2>1, MixRest
<1>7. CASE UNCHANGED refreshVars
  <2>1. UNCHANGED <<enabled, switch, sweep, main, frameFlips, table, user, entry>>
    BY <1>7 DEF refreshVars, events, engine
  <2> QED
    BY <1>1, <2>1, MixRest
<1>8. CASE LevelShutdown
  BY <1>1, <1>8 DEF LevelShutdown, NoSweep, MixInv
<1>9. CASE WorkerJoined
  <2>1. main = "stopping" /\ main' = "ended" /\ UNCHANGED <<switch, sweep, frameFlips>>
    BY <1>9 DEF WorkerJoined, events
  <2> QED
    BY <1>1, <2>1 DEF MixInv
<1>10. CASE Initialize
  <2>1. /\ main = "ended" /\ frameFlips' = FlipsPerFrame /\ table' = <<>>
        /\ UNCHANGED <<enabled, switch, sweep>>
    BY <1>10 DEF Initialize, OneChangeSeen
  <2>2. frameFlips' \in Nat /\ frameFlips' >= FlipsPerFrame
    BY <2>1, ConstantsAssumption
  <2>3. Seen' => ~enabled /\ Registered' = {}
    BY <2>1 DEF Seen, MixInv, Registered
  <2>4. Seen' => Swept'
    BY <2>1, <2>3 DEF Swept
  <2> QED
    BY <1>1, <2>1, <2>2, <2>4 DEF MixInv
<1> QED
  BY <1>2, <1>3, <1>4, <1>5, <1>6, <1>7, <1>8, <1>9, <1>10 DEF Next

LEMMA MixInit == Init => MixInv
<1> SUFFICES ASSUME Init PROVE MixInv
  OBVIOUS
<1>1. WalkInv
  BY WalkInit
<1>2. /\ switch = [seen |-> enabled, canonical |-> FALSE, bootstrap |-> FALSE, pending |-> FALSE]
      /\ sweep = NoSweep /\ frameFlips = 0 /\ main = "playing" /\ enabled \in BOOLEAN
      /\ entry = [id \in Id |-> EmptyEntry] /\ user = [id \in Id |-> <<"none", None>>]
  BY DEF Init
<1>3. Registered \subseteq Id
  BY <1>1, RegisteredHaveEntries DEF WalkInv, ServedInv, CacheType, Registered
<1>4. Seen => Swept
  BY <1>2, <1>3 DEF Seen, Swept, Fits, Kinds, EmptyEntry
<1> QED
  BY <1>1, <1>2, <1>4, NoSweepType DEF MixInv

LEMMA NothingMixed == OneChangeSeen /\ Spec => []MixInv
<1>1. OneChangeSeen => OneChangeSeen'
  BY DEF OneChangeSeen
<1> QED
  BY <1>1, MixInit, MixStep, PTL DEF Spec

(* No baseline is built from a mixed string table: once the gate is open,  *)
(* every published identity belongs to the switch's position, whatever the *)
(* sweep's budget, the updates of files while it runs, the IDs it had to   *)
(* leave for later, and the levels that end in the middle of it.           *)
THEOREM TableIsNeverMixed == OneChangeSeen /\ Spec => []NoMixedTable
<1>1. MixInv => NoMixedTable
  <2> SUFFICES ASSUME MixInv, main = "playing", ~RegistrationRefreshPending,
                      NEW id \in Registered
               PROVE  user[id][1] \in Kinds(enabled)
    BY DEF NoMixedTable, Kinds
  <2>1. Seen /\ ~sweep.active
    BY DEF MixInv, Seen, RegistrationRefreshPending
  <2> QED
    BY <2>1 DEF MixInv, Swept, Fits
<1> QED
  BY <1>1, NothingMixed, PTL

(* The bootstrap is in the string table before any baseline is built: the  *)
(* gate does not open on an enabled switch until the init file was fed.    *)
THEOREM BootstrapIsPublished == OneChangeSeen /\ Spec => []BootstrapPublished
<1>1. MixInv => BootstrapPublished
  <2> SUFFICES ASSUME MixInv, main = "playing", enabled, ~RegistrationRefreshPending
               PROVE  InitPublished
    BY DEF BootstrapPublished, InitPublished
  <2>1. Seen /\ ~switch.pending
    BY DEF MixInv, Seen, RegistrationRefreshPending
  <2> QED
    BY <2>1 DEF MixInv, Swept
<1> QED
  BY <1>1, NothingMixed, PTL
=============================================================================
