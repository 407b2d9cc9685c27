----------------------------- MODULE CachesProofs -----------------------------
(***************************************************************************)
(* What is proved of TaskScheduler holds of the tasks of the caches, of    *)
(* any number of downloads, of tasks that clear and of flushes: each step  *)
(* of Caches is one of the scheduler or leaves it alone.                   *)
(***************************************************************************)
EXTENDS Caches, FiniteSetTheorems, TLAPS

P == INSTANCE TaskSchedulerProofs WITH Periodic <- Flushes

\* The scheduler of the proofs is the one the caches use.
LEMMA SameInit == T!Init => P!Init
BY DEF T!Init, P!Init, T!Fresh, P!Fresh

LEMMA SameTaskStep ==
  ASSUME NEW t \in Tasks,
         \/ T!BeginStart(t) \/ T!MakeQueue(t) \/ T!StartFails(t) \/ T!CreateTimer(t)
         \/ T!Register(t) \/ T!Fire(t) \/ T!Forget(t) \/ T!Finish(t)
  PROVE  P!Next
<1> USE DEF P!Next
<1>1. CASE T!BeginStart(t)
  BY <1>1 DEF T!BeginStart, P!BeginStart
<1>2. CASE T!MakeQueue(t)
  BY <1>2 DEF T!MakeQueue, P!MakeQueue
<1>3. CASE T!StartFails(t)
  BY <1>3 DEF T!StartFails, P!StartFails
<1>4. CASE T!CreateTimer(t)
  BY <1>4 DEF T!CreateTimer, P!CreateTimer
<1>5. CASE T!Register(t)
  BY <1>5 DEF T!Register, P!Register
<1>6. CASE T!Fire(t)
  BY <1>6 DEF T!Fire, P!Fire, T!Loaded, P!Loaded
<1>7. CASE T!Forget(t)
  BY <1>7 DEF T!Forget, P!Forget, T!Loaded, P!Loaded
<1>8. CASE T!Finish(t)
  BY <1>8 DEF T!Finish, P!Finish, T!Loaded, P!Loaded, T!Free, P!Free
<1> QED
  BY <1>1, <1>2, <1>3, <1>4, <1>5, <1>6, <1>7, <1>8

LEMMA SameTeardownStep ==
  T!BeginDrain \/ T!Drained \/ T!FreeRest \/ T!Exit \/ T!Load => P!Next
BY DEF P!Next, T!BeginDrain, P!BeginDrain, T!Drained, P!Drained, T!FreeRest, P!FreeRest,
       T!Exit, P!Exit, T!Load, P!Load, T!Free, P!Free, T!Busy, P!Busy, T!Fresh, P!Fresh

LEMMA StepScheduler == [Next]_vars => [P!Next]_(P!vars)
<1> SUFFICES ASSUME Next PROVE P!Next \/ UNCHANGED schedVars
  BY DEF vars, schedVars, P!vars
<1>1. ASSUME NEW t \in Flushes, StartFlushing(t) PROVE P!Next
  BY <1>1, SameTaskStep DEF StartFlushing, Tasks
<1>2. CASE Attach
  BY <1>2, SameTaskStep DEF Attach, Tasks
<1>3. CASE BeginEnum
  BY <1>3 DEF BeginEnum
<1>4. CASE Enumerate
  <2>1. CASE OpenFile \/ ReadFile \/ PushTokens
    BY <2>1 DEF OpenFile, ReadFile, PushTokens
  <2>2. ASSUME NEW t \in Downloads,
               StartUpdate(t) \/ UpdateStarted(t) \/ Miss(t) \/ MissStarted(t)
        PROVE  P!Next \/ UNCHANGED schedVars
    BY <2>2, SameTaskStep DEF StartUpdate, UpdateStarted, Miss, MissStarted, Tasks
  <2>3. ASSUME NEW t \in Clears, ScheduleClear(t) \/ ClearScheduled(t)
        PROVE  P!Next \/ UNCHANGED schedVars
    BY <2>3, SameTaskStep DEF ScheduleClear, ClearScheduled, Tasks
  <2> QED
    BY <1>4, <2>1, <2>2, <2>3 DEF Enumerate
<1>5. ASSUME NEW t \in Tasks, Starting(t) \/ Fire(t) \/ Forget(t) PROVE P!Next
  BY <1>5, SameTaskStep DEF Starting, Fire, Forget
<1>6. ASSUME NEW t \in Flushes, Finish(t) PROVE P!Next
  BY <1>6, SameTaskStep DEF Finish, Tasks
<1>7. ASSUME NEW t \in Downloads, Download(t) PROVE UNCHANGED schedVars
  BY <1>7 DEF Download, Fetch, CreateFile, WriteFile, DeleteFile, ReplaceFile, GoTo
<1>8. ASSUME NEW t \in Downloads, EraseName(t) PROVE P!Next
  BY <1>8, SameTaskStep DEF EraseName, Return, Tasks
<1>9. ASSUME NEW t \in Clears, ClearTokens(t) PROVE P!Next
  BY <1>9, SameTaskStep DEF ClearTokens, Return, Tasks
<1>10. CASE Outdate
  BY <1>10 DEF Outdate
<1>11. CASE Unload \/ Uninitialize \/ Exit \/ Load
  BY <1>11, SameTeardownStep DEF Unload, Uninitialize, Exit, Load
<1> QED
  BY <1>1, <1>2, <1>3, <1>4, <1>5, <1>6, <1>7, <1>8, <1>9, <1>10, <1>11 DEF Next

LEMMA Schedules == Spec => P!SafeSpec
<1>1. Init => P!Init
  BY SameInit DEF Init
<1> QED
  BY <1>1, StepScheduler, PTL DEF Spec, P!SafeSpec

\* The data of a download, of a task that clears or of a flush is deleted
\* once, whatever enumerations, downloads and the end of the DLL run into each
\* other, unless its callback overtook line 138 of TaskScheduler.h.
THEOREM TaskDataDeletedOnce == Spec => []DeletedOnce
<1>1. P!DeletedOnce => DeletedOnce
  BY DEF P!DeletedOnce, DeletedOnce, T!DeletedOnce
<1> QED
  BY <1>1, Schedules, P!DataDeletedOnce, PTL

\* No task is left when the DLL is unloaded, so none runs in code that is gone
\* (dllmain.cpp:28-43), unless the handle of a timer queue was overwritten.
THEOREM NoTaskLeft == Spec => []TeardownComplete
<1>1. P!TeardownComplete => TeardownComplete
  BY DEF P!TeardownComplete, TeardownComplete, T!TeardownComplete, P!Fresh, T!Fresh
<1> QED
  BY <1>1, Schedules, P!NothingLeftBehind, PTL

-----------------------------------------------------------------------------
(***************************************************************************)
(* The two flags and the file.  A task is under way from StartNewTask on   *)
(* until its timer is gone.                                                *)
(***************************************************************************)
UnderWay(t) == stage[t] # "idle" \/ timer[t] # "none"

\* FinalConstruct starts one task at a time, and only of the kind it is at.
OneStarts ==
    /\ \A t \in Clears : stage[t] # "idle" => enum = "scheduling"
    /\ \A t \in Downloads : stage[t] # "idle" => enum \in {"updating", "inserted"}
    /\ \A t, u \in Downloads : stage[t] # "idle" /\ stage[u] # "idle" => t = u
    /\ enum # "idle" => life = "up"

\* The flag stands for one task that clears, or for one that did not start.
FlagOfClear ==
  life = "up" =>
    /\ \A t, u \in Clears : UnderWay(t) /\ UnderWay(u) => t = u
    /\ scheduled <=> "clear" \in lost \/ \E t \in Clears : UnderWay(t)
    /\ "clear" \in lost => enum # "scheduling" /\ \A t \in Clears : ~UnderWay(t)
    /\ tokens => scheduled \/ enum = "pushed"

\* A task that needs s_cacheMutex or downloadMutex to end cannot do so before
\* its start has returned and given the mutex back.
MutexHeld ==
  \A t \in Clears \cup (IF enum = "inserted" THEN Downloads ELSE {}) :
    stage[t] = "timed" => timer[t] # "none"

\* A function is at its beginning until its callback runs.
StepsRun ==
  /\ \A t \in Downloads : step[t] # "fetch" => timer[t] = "running"
  /\ \A t \in Clears \cup Flushes : step[t] = "run"

\* While there is no whole file, one download at most is under way, and the
\* name says so; only then is the file written in place.  ReplaceFileW may leave
\* the caches without a file while other downloads are under way.
OneWrites ==
  "file" \notin lost =>
    /\ Whole => \A t \in Downloads : step[t] \notin {"create", "write", "delete"}
    /\ enum \in {"outdated", "updating"} => Whole
    /\ ~Whole =>
         /\ \A t, u \in Downloads : UnderWay(t) /\ UnderWay(u) => t = u
         /\ life = "up" /\ (\E t \in Downloads : UnderWay(t)) => downloading

CInv == /\ P!IInv /\ TypeOK /\ OneStarts /\ FlagOfClear
        /\ MutexHeld /\ NameIsAnswered /\ StepsRun /\ OneWrites

LEMMA InitCInv == Init => CInv
<1> SUFFICES ASSUME Init PROVE CInv
  OBVIOUS
<1>1. P!IInv
  BY SameInit, P!InitIInv DEF Init
<1>2. TypeOK
  <2>1. T!TypeOK
    BY <1>1 DEF P!IInv, P!TypeOK, T!TypeOK
  <2>2. step \in [Tasks -> {"run", "fetch", "create", "write", "delete", "replace", "erase"}]
    BY DEF Init, FirstStep
  <2> QED
    BY <2>1, <2>2 DEF Init, TypeOK
<1> QED
  BY <1>1, <1>2, TasksDiffer
  DEF CInv, Init, T!Init, T!Fresh, OneStarts, FlagOfClear, MutexHeld, NameIsAnswered, StepsRun,
      OneWrites, UnderWay, Whole, FirstStep, Tasks

LEMMA NextCInv == CInv /\ [Next]_vars => CInv'
<1> SUFFICES ASSUME CInv, [Next]_vars PROVE CInv'
  OBVIOUS
<1>1. P!IInv'
  BY StepScheduler, P!NextIInv DEF CInv
<1>2. T!TypeOK'
  BY <1>1 DEF P!IInv, P!TypeOK, T!TypeOK
<1> DEFINE Rest == /\ TypeOK /\ OneStarts /\ FlagOfClear
                   /\ MutexHeld /\ NameIsAnswered /\ StepsRun /\ OneWrites
<1> SUFFICES Rest'
  BY <1>1 DEF CInv
<1>3. /\ T!TypeOK /\ P!CreatedOnce /\ P!StartedWhenUp
  BY DEF CInv, TypeOK, P!IInv
<1>4. Rest
  BY DEF CInv
<1> USE TasksDiffer, <1>2, <1>3, <1>4
    DEF T!TypeOK, P!CreatedOnce, P!StartedWhenUp, TypeOK, OneStarts, FlagOfClear, MutexHeld,
        NameIsAnswered, StepsRun, OneWrites, UnderWay, Whole, Tasks, schedVars, cacheVars, fileVars,
        Up, T!Loaded
<1>5. CASE BeginEnum
  BY <1>5 DEF BeginEnum
<1>6. CASE OpenFile
  BY <1>6 DEF OpenFile
<1>7. CASE ReadFile
  BY <1>7 DEF ReadFile
<1>8. CASE PushTokens
  <2>1. TypeOK'
    BY <1>8 DEF PushTokens
  <2>2. OneStarts'
    BY <1>8 DEF PushTokens
  <2>3. FlagOfClear'
    BY <1>8 DEF PushTokens
  <2>4. MutexHeld'
    BY <1>8 DEF PushTokens
  <2>5. NameIsAnswered'
    BY <1>8 DEF PushTokens
  <2>6. StepsRun'
    BY <1>8 DEF PushTokens
  <2>7. OneWrites'
    BY <1>8 DEF PushTokens
  <2> QED
    BY <2>1, <2>2, <2>3, <2>4, <2>5, <2>6, <2>7
<1>9. ASSUME NEW t \in Downloads, StartUpdate(t) PROVE Rest'
  BY <1>9 DEF StartUpdate, T!BeginStart
<1>10. ASSUME NEW t \in Downloads, UpdateStarted(t) PROVE Rest'
  BY <1>10 DEF UpdateStarted, T!Register, T!StartFails
<1>11. ASSUME NEW t \in Downloads, Miss(t) PROVE Rest'
  <2>1. TypeOK'
    BY <1>11 DEF Miss, T!BeginStart
  <2>2. OneStarts'
    BY <1>11 DEF Miss, T!BeginStart
  <2>3. FlagOfClear'
    BY <1>11 DEF Miss, T!BeginStart
  <2>4. MutexHeld'
    BY <1>11 DEF Miss, T!BeginStart
  <2>5. NameIsAnswered'
    BY <1>11 DEF Miss, T!BeginStart
  <2>6. StepsRun'
    BY <1>11 DEF Miss, T!BeginStart
  <2>7. OneWrites'
    BY <1>11 DEF Miss, T!BeginStart
  <2> QED
    BY <2>1, <2>2, <2>3, <2>4, <2>5, <2>6, <2>7
<1>12. ASSUME NEW t \in Downloads, MissStarted(t) PROVE Rest'
  <2>1. TypeOK'
    BY <1>12 DEF MissStarted, T!Register, T!StartFails
  <2>2. OneStarts'
    BY <1>12 DEF MissStarted, T!Register, T!StartFails
  <2>3. FlagOfClear'
    BY <1>12 DEF MissStarted, T!Register, T!StartFails
  <2>4. MutexHeld'
    BY <1>12 DEF MissStarted, T!Register, T!StartFails
  <2>5. NameIsAnswered'
    BY <1>12 DEF MissStarted, T!Register, T!StartFails
  <2>6. StepsRun'
    BY <1>12 DEF MissStarted, T!Register, T!StartFails
  <2>7. OneWrites'
    BY <1>12 DEF MissStarted, T!Register, T!StartFails
  <2> QED
    BY <2>1, <2>2, <2>3, <2>4, <2>5, <2>6, <2>7
<1>13. ASSUME NEW t \in Clears, ScheduleClear(t) PROVE Rest'
  <2>1. TypeOK'
    BY <1>13 DEF ScheduleClear, T!BeginStart
  <2>2. OneStarts'
    BY <1>13 DEF ScheduleClear, T!BeginStart
  <2>3. FlagOfClear'
    BY <1>13 DEF ScheduleClear, T!BeginStart
  <2>4. MutexHeld'
    BY <1>13 DEF ScheduleClear, T!BeginStart
  <2>5. NameIsAnswered'
    BY <1>13 DEF ScheduleClear, T!BeginStart
  <2>6. StepsRun'
    BY <1>13 DEF ScheduleClear, T!BeginStart
  <2>7. OneWrites'
    BY <1>13 DEF ScheduleClear, T!BeginStart
  <2> QED
    BY <2>1, <2>2, <2>3, <2>4, <2>5, <2>6, <2>7
<1>14. ASSUME NEW t \in Clears, ClearScheduled(t) PROVE Rest'
  <2>1. TypeOK'
    BY <1>14 DEF ClearScheduled, T!Register, T!StartFails
  <2>2. OneStarts'
    BY <1>14 DEF ClearScheduled, T!Register, T!StartFails
  <2>3. FlagOfClear'
    <3>1. CASE T!Register(t)
      BY <1>14, <3>1 DEF ClearScheduled, T!Register, T!StartFails
    <3>2. CASE T!StartFails(t)
      <4>1. \A u \in Clears : UnderWay(u) => u = t
        BY <1>14, <3>2 DEF ClearScheduled, T!StartFails
      <4>2. \A u \in Clears : ~UnderWay(u)'
        BY <1>14, <3>2, <4>1 DEF ClearScheduled, T!StartFails
      <4>3. lost' = lost \cup {"clear"} /\ enum' = "idle" /\ UNCHANGED <<tokens, scheduled, life>>
        BY <1>14, <3>2 DEF ClearScheduled, T!Register, T!StartFails
      <4>4. life = "up" /\ UnderWay(t) /\ enum = "scheduling"
        BY <1>14, <3>2 DEF ClearScheduled, T!StartFails
      <4>5. scheduled
        BY <4>4
      <4> QED
        BY <4>2, <4>3, <4>5
    <3> QED
      BY <1>14, <3>1, <3>2 DEF ClearScheduled
  <2>4. MutexHeld'
    BY <1>14 DEF ClearScheduled, T!Register, T!StartFails
  <2>5. NameIsAnswered'
    BY <1>14 DEF ClearScheduled, T!Register, T!StartFails
  <2>6. StepsRun'
    BY <1>14 DEF ClearScheduled, T!Register, T!StartFails
  <2>7. OneWrites'
    BY <1>14 DEF ClearScheduled, T!Register, T!StartFails
  <2> QED
    BY <2>1, <2>2, <2>3, <2>4, <2>5, <2>6, <2>7
<1>15. ASSUME NEW t \in Flushes, StartFlushing(t) PROVE Rest'
  BY <1>15 DEF StartFlushing, T!BeginStart
<1>16. CASE Attach
  BY <1>16 DEF Attach, T!Register
<1>17. ASSUME NEW t \in Tasks, Starting(t) PROVE Rest'
  BY <1>17 DEF Starting, T!MakeQueue, T!CreateTimer
<1>18. ASSUME NEW t \in Tasks, Fire(t) PROVE Rest'
  BY <1>18 DEF Fire, T!Fire
<1>19. ASSUME NEW t \in Tasks, Forget(t) PROVE Rest'
  BY <1>19 DEF Forget, T!Forget
<1>20. ASSUME NEW t \in Flushes, Finish(t) PROVE Rest'
  BY <1>20 DEF Finish, T!Finish, T!Free
<1>21. ASSUME NEW t \in Downloads, Download(t) PROVE Rest'
  <2>1. TypeOK'
    <3>1. \E s \in {"fetch", "create", "write", "delete", "replace", "erase"} :
            step' = [step EXCEPT ![t] = s]
      BY <1>21 DEF Download, Fetch, CreateFile, WriteFile, DeleteFile, ReplaceFile, GoTo
    <3>2. /\ file' \in {"missing", "torn", "old", "fresh"} /\ writer' \subseteq Downloads
          /\ lost' \in {lost, lost \cup {"file"}}
          /\ UNCHANGED <<schedVars, attached, enum, got, tokens, scheduled, downloading>>
      BY <1>21 DEF Download, Fetch, CreateFile, WriteFile, DeleteFile, ReplaceFile, GoTo
    <3> QED
      BY <3>1, <3>2
  <2>2. OneStarts'
    BY <1>21 DEF Download, Fetch, CreateFile, WriteFile, DeleteFile, ReplaceFile, GoTo, At
  <2>3. FlagOfClear'
    BY <1>21 DEF Download, Fetch, CreateFile, WriteFile, DeleteFile, ReplaceFile, GoTo, At
  <2>4. MutexHeld'
    BY <1>21 DEF Download, Fetch, CreateFile, WriteFile, DeleteFile, ReplaceFile, GoTo, At
  <2>5. NameIsAnswered'
    BY <1>21 DEF Download, Fetch, CreateFile, WriteFile, DeleteFile, ReplaceFile, GoTo, At
  <2>6. StepsRun'
    BY <1>21 DEF Download, Fetch, CreateFile, WriteFile, DeleteFile, ReplaceFile, GoTo, At
  <2>7. OneWrites'
    BY <1>21 DEF Download, Fetch, CreateFile, WriteFile, DeleteFile, ReplaceFile, GoTo, At
  <2> QED
    BY <2>1, <2>2, <2>3, <2>4, <2>5, <2>6, <2>7
<1>22. ASSUME NEW t \in Downloads, EraseName(t) PROVE Rest'
  <2>1. TypeOK'
    BY <1>22 DEF EraseName, Return, At, T!Finish, T!Free, FirstStep
  <2>2. OneStarts'
    BY <1>22 DEF EraseName, Return, At, T!Finish, T!Free, FirstStep
  <2>3. FlagOfClear'
    BY <1>22 DEF EraseName, Return, At, T!Finish, T!Free, FirstStep
  <2>4. MutexHeld'
    BY <1>22 DEF EraseName, Return, At, T!Finish, T!Free, FirstStep
  <2>5. NameIsAnswered'
    BY <1>22 DEF EraseName, Return, At, T!Finish, T!Free, FirstStep
  <2>6. StepsRun'
    BY <1>22 DEF EraseName, Return, At, T!Finish, T!Free, FirstStep
  <2>7. OneWrites'
    <3>1. /\ UNCHANGED <<file, enum, stage, life>> /\ downloading' = FALSE
          /\ step' = [step EXCEPT ![t] = "fetch"] /\ timer' = [timer EXCEPT ![t] = "none"]
      BY <1>22 DEF EraseName, Return, At, T!Finish, T!Free, FirstStep
    <3>2. CASE "file" \in lost'
      BY <3>2
    <3>3. CASE "file" \notin lost
      BY <1>22, <3>1, <3>3 DEF EraseName, At
    <3>4. CASE "file" \in lost /\ "file" \notin lost'
      <4>1. LastOne(t)
        BY <1>22, <3>4 DEF EraseName
      <4>2. \A u \in Downloads \ {t} : ~UnderWay(u)' /\ step'[u] = "fetch"
        BY <3>1, <4>1 DEF LastOne
      <4>3. stage[t] = "idle"
        BY <1>22, <4>1 DEF LastOne, EraseName
      <4>4. ~UnderWay(t)'
        BY <3>1, <4>3
      <4>5. step'[t] = "fetch"
        BY <3>1
      <4> QED
        BY <3>1, <4>1, <4>2, <4>4, <4>5 DEF LastOne
    <3> QED
      BY <3>2, <3>3, <3>4
  <2> QED
    BY <2>1, <2>2, <2>3, <2>4, <2>5, <2>6, <2>7
<1>23. ASSUME NEW t \in Clears, ClearTokens(t) PROVE Rest'
  <2>1. TypeOK'
    BY <1>23 DEF ClearTokens, Return, At, T!Finish, T!Free, FirstStep
  <2>2. OneStarts'
    BY <1>23 DEF ClearTokens, Return, At, T!Finish, T!Free, FirstStep
  <2>3. FlagOfClear'
    BY <1>23 DEF ClearTokens, Return, At, T!Finish, T!Free, FirstStep
  <2>4. MutexHeld'
    BY <1>23 DEF ClearTokens, Return, At, T!Finish, T!Free, FirstStep
  <2>5. NameIsAnswered'
    BY <1>23 DEF ClearTokens, Return, At, T!Finish, T!Free, FirstStep
  <2>6. StepsRun'
    BY <1>23 DEF ClearTokens, Return, At, T!Finish, T!Free, FirstStep
  <2>7. OneWrites'
    BY <1>23 DEF ClearTokens, Return, At, T!Finish, T!Free, FirstStep
  <2> QED
    BY <2>1, <2>2, <2>3, <2>4, <2>5, <2>6, <2>7
<1>24. CASE Outdate
  BY <1>24 DEF Outdate
<1>25. CASE Unload
  BY <1>25 DEF Unload, T!BeginDrain
<1>26. CASE Uninitialize
  BY <1>26 DEF Uninitialize, T!Drained, T!FreeRest, T!Free
<1>27. CASE Exit
  BY <1>27 DEF Exit, T!Exit, T!Fresh, ResetMemory, FirstStep
<1>28. CASE Load
  BY <1>28 DEF Load, T!Load, T!Fresh, ResetMemory, FirstStep
<1>29. CASE UNCHANGED vars
  BY <1>29 DEF vars
<1> QED
  BY <1>5, <1>6, <1>7, <1>8, <1>9, <1>10, <1>11, <1>12, <1>13, <1>14, <1>15, <1>16, <1>17, <1>18,
     <1>19, <1>20, <1>21, <1>22, <1>23, <1>24, <1>25, <1>26, <1>27, <1>28, <1>29 DEF Next, Enumerate

LEMMA CInvariance == Spec => []CInv
BY InitCInv, NextCInv, PTL DEF Spec

\* The variables of the caches and of the scheduler have their types.
THEOREM TypeCorrect == Spec => []TypeOK
<1>1. CInv => TypeOK
  BY DEF CInv
<1> QED
  BY <1>1, CInvariance, PTL

\* A name stays in the set of downloads only as long as a download is going to
\* take it out (FileCache.cpp:219-230), unless StartNewTask threw.
THEOREM NameComesOut == Spec => []NameIsAnswered
<1>1. CInv => NameIsAnswered
  BY DEF CInv
<1> QED
  BY <1>1, CInvariance, PTL

\* One task is scheduled to clear the tokens, for as many enumerations as come
\* (VoiceTokenEnumerator.cpp:202-211), unless StartNewTask threw.
THEOREM OneClearing == Spec => []ClearingScheduled
<1>1. ASSUME CInv PROVE ClearingScheduled
  <2> DEFINE coming == {t \in Clears : timer[t] # "none"}
  <2> SUFFICES ASSUME life = "up", enum = "idle", "clear" \notin lost
               PROVE  /\ Cardinality(coming) = IF scheduled THEN 1 ELSE 0
                      /\ tokens => scheduled
    BY DEF ClearingScheduled
  <2>1. \A t \in Clears : UnderWay(t) <=> t \in coming
    BY <1>1 DEF CInv, OneStarts, UnderWay
  <2>2. /\ \A t, u \in coming : t = u
        /\ scheduled <=> \E t \in coming : TRUE
        /\ tokens => scheduled
    BY <1>1, <2>1 DEF CInv, FlagOfClear
  <2> HIDE DEF coming
  <2>3. CASE coming = {}
    BY <2>2, <2>3, FS_EmptySet
  <2>4. ASSUME NEW t \in coming PROVE Cardinality(coming) = 1
    <3>1. coming = {t}
      BY <2>2, <2>4
    <3> QED
      BY <3>1, FS_Singleton
  <2> QED
    BY <2>2, <2>3, <2>4
<1> QED
  BY <1>1, CInvariance, PTL

\* Whoever replaces a complete cache file does so in one step, as a download
\* writes in place only where there was no file when it looked, and then it is
\* the only one (FileCache.cpp:86-136); but ReplaceFileW may lose the file.
THEOREM WholeStays == Spec => WholeFileStays
<1>1. CInv /\ [Next]_vars => (Whole => Whole' \/ "file" \in lost')
  <2> SUFFICES ASSUME CInv, Next, Whole, "file" \notin lost' PROVE Whole'
    BY DEF vars, fileVars, cacheVars, Whole
  <2>1. ASSUME NEW t \in Downloads, Download(t) PROVE Whole'
    <3>1. "file" \notin lost
      BY <2>1 DEF Download, Fetch, CreateFile, WriteFile, DeleteFile, ReplaceFile, cacheVars
    <3>2. step[t] \notin {"create", "write", "delete"}
      BY <3>1 DEF CInv, OneWrites
    <3> QED
      BY <2>1, <3>2
      DEF Download, Fetch, CreateFile, WriteFile, DeleteFile, ReplaceFile, At, fileVars, Whole
  <2>2. CASE UNCHANGED file
    BY <2>2 DEF Whole
  <2>3. CASE Outdate
    BY <2>3 DEF Outdate, Whole
  <2> QED
    BY <2>1, <2>2, <2>3
    DEF Next, Enumerate, StartFlushing, Attach, BeginEnum, OpenFile, ReadFile, PushTokens, StartUpdate,
        UpdateStarted, Miss, MissStarted, ScheduleClear, ClearScheduled, Starting, Fire, Forget, Finish,
        EraseName, ClearTokens, Unload, Uninitialize, Exit, Load, fileVars
<1> QED
  BY <1>1, CInvariance, PTL DEF Spec, WholeFileStays

-----------------------------------------------------------------------------
(***************************************************************************)
(* The timer queue.  The tasks of the caches and of the logger are started *)
(* one after the other, so no two threads find that there is no queue, and *)
(* the scheduler keeps the promises it makes while it has its queue.       *)
(***************************************************************************)
OneStarting ==
  /\ \A t, u \in Tasks : stage[t] # "idle" /\ stage[u] # "idle" => t = u
  /\ \A t \in Flushes : stage[t] # "idle" => ~attached
  /\ enum # "idle" => attached

NoQueueYet == \A t \in Tasks : stage[t] = "noqueue" => hTimerQueue = 0

QInv == OneStarting /\ NoQueueYet /\ P!QueueKept

LEMMA NextQInv == CInv /\ QInv /\ [Next]_vars => QInv'
<1> SUFFICES ASSUME CInv, QInv, [Next]_vars PROVE QInv'
  OBVIOUS
<1>1. /\ T!TypeOK /\ P!StartedWhenUp /\ OneStarts
      /\ life = "up" => hTimerQueue = queues
  BY DEF CInv, TypeOK, P!IInv, P!QueueExists, QInv, P!QueueKept
<1> USE TasksDiffer, OneFlush, <1>1
    DEF T!TypeOK, P!StartedWhenUp, OneStarts, QInv, OneStarting, NoQueueYet, P!QueueKept, Tasks,
        schedVars, cacheVars, Up
<1>2. CASE BeginEnum \/ OpenFile \/ ReadFile \/ PushTokens \/ Outdate
  <2>1. UNCHANGED <<schedVars, attached>>
    BY <1>2 DEF BeginEnum, OpenFile, ReadFile, PushTokens, Outdate
  <2>2. enum' # "idle" => attached
    BY <1>2 DEF BeginEnum, OpenFile, ReadFile, PushTokens, Outdate
  <2> QED
    BY <2>1, <2>2
<1>3. ASSUME NEW t \in Downloads, StartUpdate(t) \/ Miss(t) PROVE QInv'
  BY <1>3 DEF StartUpdate, Miss, T!BeginStart
<1>4. ASSUME NEW t \in Downloads, UpdateStarted(t) \/ MissStarted(t) PROVE QInv'
  BY <1>4 DEF UpdateStarted, MissStarted, T!Register, T!StartFails
<1>5. ASSUME NEW t \in Clears, ScheduleClear(t) PROVE QInv'
  BY <1>5 DEF ScheduleClear, T!BeginStart
<1>6. ASSUME NEW t \in Clears, ClearScheduled(t) PROVE QInv'
  BY <1>6 DEF ClearScheduled, T!Register, T!StartFails
<1>7. ASSUME NEW t \in Flushes, StartFlushing(t) PROVE QInv'
  BY <1>7 DEF StartFlushing, T!BeginStart
<1>8. CASE Attach
  BY <1>8 DEF Attach, T!Register
<1>9. ASSUME NEW t \in Tasks, Starting(t) PROVE QInv'
  BY <1>9 DEF Starting, T!MakeQueue, T!CreateTimer
<1>10. ASSUME NEW t \in Tasks, Fire(t) \/ Forget(t) PROVE QInv'
  BY <1>10 DEF Fire, Forget, T!Fire, T!Forget
<1>11. ASSUME NEW t \in Flushes, Finish(t) PROVE QInv'
  BY <1>11 DEF Finish, T!Finish
<1>12. ASSUME NEW t \in Downloads, Download(t) \/ EraseName(t) PROVE QInv'
  BY <1>12
  DEF Download, Fetch, CreateFile, WriteFile, DeleteFile, ReplaceFile, GoTo, EraseName, Return,
      T!Finish
<1>13. ASSUME NEW t \in Clears, ClearTokens(t) PROVE QInv'
  BY <1>13 DEF ClearTokens, Return, T!Finish
<1>14. CASE Unload \/ Uninitialize
  BY <1>14 DEF Unload, Uninitialize, T!BeginDrain, T!Drained, T!FreeRest
<1>15. CASE Exit \/ Load
  BY <1>15 DEF Exit, Load, T!Exit, T!Load, ResetMemory
<1>16. CASE UNCHANGED vars
  BY <1>16 DEF vars
<1> QED
  BY <1>2, <1>3, <1>4, <1>5, <1>6, <1>7, <1>8, <1>9, <1>10, <1>11, <1>12, <1>13, <1>14, <1>15,
     <1>16 DEF Next, Enumerate

LEMMA QInvariance == Spec => []QInv
<1>1. Init => QInv
  BY DEF Init, T!Init, QInv, OneStarting, NoQueueYet, P!QueueKept
<1> QED
  BY <1>1, NextQInv, CInvariance, PTL DEF Spec

\* The Jobs of the proofs are the ones the caches are compared with.
LEMMA SameJobs ==
  /\ P!J!Init => T!J!Init
  /\ [P!J!Next]_(P!J!vars) => [T!J!Next]_(T!J!vars)
BY DEF P!J!Init, T!J!Init, P!J!Next, T!J!Next, P!J!vars, T!J!vars, P!J!Start, T!J!Start,
       P!J!Begin, T!J!Begin, P!J!End, T!J!End, P!J!Close, T!J!Close, P!J!Kill, T!J!Kill,
       P!J!Reopen, T!J!Reopen, P!Busy, T!Busy

\* What the caches and the logger start keeps the promises of TaskScheduler.h
\* (lines 11-13) with no proviso: each task runs once, or again and again when it
\* is a flush, none begins after the teardown did, and the next load finds none.
\* (The pool's keep-alive timer, WSConnectionPool.cpp:89, is no task of Caches:
\* two threads would make two queues if it were started during the first one.)
THEOREM TasksKeepJobs == Spec => ImplementsJobs
<1>1. QInv => P!QueueKept
  BY DEF QInv
<1>2. Spec => P!J!SafeSpec
  BY <1>1, QInvariance, Schedules, P!KeepsJobs, PTL
<1>3. P!J!SafeSpec => T!J!SafeSpec
  BY SameJobs, PTL DEF P!J!SafeSpec, T!J!SafeSpec
<1> QED
  BY <1>2, <1>3 DEF ImplementsJobs
=============================================================================
