------------------------------- MODULE Caches -------------------------------
(***************************************************************************)
(* The two caches behind voice enumeration and the tasks that keep them:   *)
(* CVoiceTokenEnumerator::FinalConstruct with its list of tokens, which a  *)
(* task clears after ten seconds, and GetCachedJson with its cache file,   *)
(* which tasks download anew.  The tasks are those of TaskScheduler, and   *)
(* DllMain ends everything.                                                *)
(*                                                                         *)
(* FinalConstruct holds s_cacheMutex from beginning to end, so one         *)
(* enumeration at a time is all there is.  One cache file stands for the   *)
(* lists of Edge and of Azure, which share nothing.  The file outlives the *)
(* process; two processes at a time, which would share it but not the      *)
(* flags, are not modelled.                                                *)
(***************************************************************************)
EXTENDS Naturals, FiniteSets

CONSTANTS Downloads, Clears, Flushes   \* tasks, by what they do

\* A task has one function.
ASSUME TasksDiffer ==
  Downloads \cap Clears = {} /\ Downloads \cap Flushes = {} /\ Clears \cap Flushes = {}

\* InitializeLogger starts one task, or none when LogFlushInterval is not set.
ASSUME OneFlush == \A t, u \in Flushes : t = u

VARIABLES
  hTimerQueue, queues, stage, timer, on, alive, deleters, twice, early, forgotten, life,
  attached,      \* DllMain has initialized the logger
  enum,          \* where FinalConstruct is, "idle" when nobody holds s_cacheMutex
  got,           \* what GetCachedJson returns: "none" or a "list", the built-in one or the cached
  tokens,        \* s_cachedTokens is not empty
  scheduled,     \* s_isCacheTaskScheduled
  downloading,   \* the name is in the set of downloads
  file,          \* the cache file: "missing", "torn", "old" or "fresh"
  writer,        \* the tasks that have the file open, which nobody can share
  step,          \* per task, where its function is
  lost           \* history: "name" and "clear", the flags that were set for a task that did
                 \* not start; "file" while ReplaceFileW has lost the cache file

schedVars ==
  <<hTimerQueue, queues, stage, timer, on, alive, deleters, twice, early, forgotten, life>>
cacheVars == <<tokens, scheduled, downloading, lost>>
fileVars == <<file, writer>>
vars == <<schedVars, attached, enum, got, cacheVars, fileVars, step>>

Tasks == Downloads \cup Clears \cup Flushes

T == INSTANCE TaskScheduler WITH Periodic <- Flushes

FirstStep == [t \in Tasks |-> IF t \in Downloads THEN "fetch" ELSE "run"]

Init ==
  /\ T!Init /\ attached = FALSE /\ enum = "idle" /\ got = "none"
  /\ tokens = FALSE /\ scheduled = FALSE /\ downloading = FALSE /\ lost = {}
  /\ file = "missing" /\ writer = {} /\ step = FirstStep

\* The static variables of the DLL.
ResetMemory ==
  /\ attached' = FALSE /\ enum' = "idle" /\ got' = "none"
  /\ tokens' = FALSE /\ scheduled' = FALSE /\ downloading' = FALSE /\ lost' = {}
  /\ writer' = {} /\ step' = FirstStep

Up == life = "up" /\ attached

\* StartNewTask goes on, with Initialize and the timer.
Starting(t) ==
  /\ T!MakeQueue(t) \/ T!CreateTimer(t)
  /\ UNCHANGED <<attached, enum, got, cacheVars, fileVars, step>>

-----------------------------------------------------------------------------
(* InitializeLogger starts a task when LogFlushInterval is set.  When that  *)
(* fails all goes on as if it were not set.                                *)

StartFlushing(t) ==
  /\ ~attached /\ T!BeginStart(t)
  /\ UNCHANGED <<attached, enum, got, cacheVars, fileVars, step>>

Attach ==
  /\ ~attached /\ attached' = TRUE
  /\ IF Flushes = {} THEN life = "up" /\ UNCHANGED schedVars
     ELSE \E t \in Flushes : T!Register(t)
  /\ UNCHANGED <<enum, got, cacheVars, fileVars, step>>

-----------------------------------------------------------------------------
(* FinalConstruct and GetCachedJson.                                        *)

\* Cached tokens are handed out, which changes nothing.
BeginEnum ==
  /\ Up /\ enum = "idle" /\ ~tokens
  /\ enum' = "open"
  /\ UNCHANGED <<schedVars, attached, got, cacheVars, fileVars, step>>

\* The file is opened with FILE_SHARE_READ.
OpenFile ==
  /\ Up /\ enum = "open"
  /\ enum' = IF file # "missing" /\ writer = {} THEN "reading" ELSE "miss"
  /\ UNCHANGED <<schedVars, attached, got, cacheVars, fileVars, step>>

\* Half a list does not parse; an outdated one is used all the same.
ReadFile ==
  /\ Up /\ enum = "reading"
  /\ \/ file # "torn" /\ got' = "list" /\ enum' = IF file = "old" THEN "outdated" ELSE "listed"
     \/ enum' = "miss" /\ UNCHANGED got
  /\ UNCHANGED <<schedVars, attached, cacheVars, fileVars, step>>

StartUpdate(t) ==
  /\ enum = "outdated" /\ T!BeginStart(t) /\ enum' = "updating"
  /\ UNCHANGED <<attached, got, cacheVars, fileVars, step>>

\* An exception of StartNewTask is taken for one of the reading.
UpdateStarted(t) ==
  /\ enum = "updating"
  /\ \/ T!Register(t) /\ enum' = "listed" /\ UNCHANGED got
     \/ T!StartFails(t) /\ enum' = "miss" /\ got' = "none"
  /\ UNCHANGED <<attached, cacheVars, fileVars, step>>

\* The lock on downloadMutex is held until the task is started.
Miss(t) ==
  /\ Up /\ enum = "miss"
  /\ IF downloading
     THEN enum' = "listed" /\ got' = "list" /\ UNCHANGED <<schedVars, downloading>>
     ELSE T!BeginStart(t) /\ enum' = "inserted" /\ downloading' = TRUE /\ UNCHANGED got
  /\ UNCHANGED <<attached, tokens, scheduled, lost, fileVars, step>>

MissStarted(t) ==
  /\ enum = "inserted" /\ enum' = "listed"
  /\ \/ T!Register(t) /\ got' = "list" /\ UNCHANGED lost
     \/ T!StartFails(t) /\ got' = "none" /\ lost' = lost \cup {"name"}
  /\ UNCHANGED <<attached, tokens, scheduled, downloading, fileVars, step>>

\* There may be local voices too.
PushTokens ==
  /\ Up /\ enum = "listed" /\ enum' = "pushed"
  /\ tokens' \in {TRUE, got # "none"} /\ got' = "none"
  /\ UNCHANGED <<schedVars, attached, scheduled, downloading, lost, fileVars, step>>

ScheduleClear(t) ==
  /\ Up /\ enum = "pushed"
  /\ IF scheduled
     THEN enum' = "idle" /\ UNCHANGED <<schedVars, scheduled>>
     ELSE T!BeginStart(t) /\ scheduled' = TRUE /\ enum' = "scheduling"
  /\ UNCHANGED <<attached, got, tokens, downloading, lost, fileVars, step>>

\* When it throws, the tokens and the flag stay.
ClearScheduled(t) ==
  /\ enum = "scheduling" /\ enum' = "idle"
  /\ \/ T!Register(t) /\ UNCHANGED lost
     \/ T!StartFails(t) /\ lost' = lost \cup {"clear"}
  /\ UNCHANGED <<attached, got, tokens, scheduled, downloading, fileVars, step>>

-----------------------------------------------------------------------------
(* The tasks.                                                              *)

Fire(t) == T!Fire(t) /\ UNCHANGED <<attached, enum, got, cacheVars, fileVars, step>>

Forget(t) == T!Forget(t) /\ UNCHANGED <<attached, enum, got, cacheVars, fileVars, step>>

Finish(t) == T!Finish(t) /\ UNCHANGED <<attached, enum, got, cacheVars, fileVars, step>>

At(t, s) == T!Loaded /\ timer[t] = "running" /\ step[t] = s
GoTo(t, s) == step' = [step EXCEPT ![t] = s] /\ UNCHANGED <<schedVars, attached, enum, got>>

\* The end of a function and of its callback, which follows at once.
Return(t) == T!Finish(t) /\ step' = [step EXCEPT ![t] = FirstStep[t]] /\ UNCHANGED <<attached, enum, got>>

\* Mutant: the flag is left set.
ClearTokensOnly(t) ==
  /\ At(t, "run") /\ enum = "idle"
  /\ tokens' = FALSE
  /\ Return(t) /\ UNCHANGED <<scheduled, downloading, lost, fileVars>>

\* The task waits for s_cacheMutex.
ClearTokens(t) ==
  /\ At(t, "run") /\ enum = "idle"
  /\ tokens' = FALSE /\ scheduled' = FALSE
  /\ Return(t) /\ UNCHANGED <<downloading, lost, fileVars>>

\* Mutant: the file is written in place, whether there is one or not.
FetchInPlace(t) ==
  /\ At(t, "fetch")
  /\ GoTo(t, "create") \/ GoTo(t, "erase")
  /\ UNCHANGED <<cacheVars, fileVars>>

\* The download may fail, or not be JSON.  PathFileExistsW decides how the
\* file is replaced; the temporary file may be impossible to write.
Fetch(t) ==
  /\ At(t, "fetch")
  /\ \/ file = "missing" /\ GoTo(t, "create")
     \/ file # "missing" /\ GoTo(t, "replace")
     \/ GoTo(t, "erase")
  /\ UNCHANGED <<cacheVars, fileVars>>

NotOpen == writer = {} /\ enum # "reading"

\* CREATE_ALWAYS without sharing.
CreateFile(t) ==
  /\ At(t, "create")
  /\ \/ NotOpen /\ file' = "torn" /\ writer' = {t} /\ GoTo(t, "write")
     \/ GoTo(t, "erase") /\ UNCHANGED fileVars
  /\ UNCHANGED cacheVars

WriteFile(t) ==
  /\ At(t, "write") /\ writer' = {}
  /\ \/ file' = "fresh" /\ GoTo(t, "erase")
     \/ UNCHANGED file /\ GoTo(t, "delete")
  /\ UNCHANGED cacheVars

\* A file that somebody reads cannot be deleted or replaced.
DeleteFile(t) ==
  /\ At(t, "delete") /\ GoTo(t, "erase")
  /\ file' = IF NotOpen THEN "missing" ELSE file
  /\ UNCHANGED <<writer, cacheVars>>

\* A file that is open cannot be replaced.  Without a name for a backup,
\* ReplaceFileW may also fail with ERROR_UNABLE_TO_MOVE_REPLACEMENT: the old file
\* is gone, and the new one, still under its temporary name, is deleted.
ReplaceFile(t) ==
  /\ At(t, "replace") /\ GoTo(t, "erase")
  /\ \/ NotOpen /\ file # "missing" /\ file' = "fresh" /\ UNCHANGED lost
     \/ NotOpen /\ file # "missing" /\ file' = "missing" /\ lost' = lost \cup {"file"}
     \/ UNCHANGED <<file, lost>>
  /\ UNCHANGED <<writer, tokens, scheduled, downloading>>

\* Mutant: a download that fails keeps its name.
EraseNothing(t) ==
  /\ At(t, "erase") /\ enum # "inserted"
  /\ Return(t) /\ UNCHANGED <<cacheVars, fileVars>>

\* No other download can have looked for the file before it was lost.
LastOne(t) ==
  /\ enum \notin {"outdated", "updating"}
  /\ \A u \in Downloads \ {t} : stage[u] = "idle" /\ timer[u] = "none"

EraseName(t) ==
  /\ At(t, "erase") /\ enum # "inserted"
  /\ downloading' = FALSE /\ lost' = lost \ (IF LastOne(t) THEN {"name", "file"} ELSE {"name"})
  /\ Return(t) /\ UNCHANGED <<tokens, scheduled, fileVars>>

\* An hour passes.
Outdate ==
  /\ file = "fresh" /\ file' = "old"
  /\ UNCHANGED <<schedVars, attached, enum, got, cacheVars, writer, step>>

-----------------------------------------------------------------------------
(* DllMain, when the DLL is detached, and the next process.                *)

\* No COM object is left.
Unload ==
  /\ Up /\ enum = "idle" /\ T!BeginDrain
  /\ UNCHANGED <<attached, enum, got, cacheVars, fileVars, step>>

Uninitialize ==
  /\ T!Drained \/ T!FreeRest
  /\ UNCHANGED <<attached, enum, got, cacheVars, fileVars, step>>

\* The file stays as it was at that moment.
Exit == Up /\ T!Exit /\ ResetMemory /\ UNCHANGED file

Load == T!Load /\ ResetMemory /\ UNCHANGED file

Enumerate ==
  \/ OpenFile \/ ReadFile \/ PushTokens
  \/ \E t \in Downloads : StartUpdate(t) \/ UpdateStarted(t) \/ Miss(t) \/ MissStarted(t)
  \/ \E t \in Clears : ScheduleClear(t) \/ ClearScheduled(t)

Download(t) ==
  Fetch(t) \/ CreateFile(t) \/ WriteFile(t) \/ DeleteFile(t) \/ ReplaceFile(t)

Next ==
  \/ \E t \in Flushes : StartFlushing(t)
  \/ Attach \/ BeginEnum \/ Enumerate
  \/ \E t \in Tasks : Starting(t) \/ Fire(t) \/ Forget(t)
  \/ \E t \in Flushes : Finish(t)
  \/ \E t \in Downloads : Download(t) \/ EraseName(t)
  \/ \E t \in Clears : ClearTokens(t)
  \/ Outdate \/ Unload \/ Uninitialize \/ Exit \/ Load

\* A call of FinalConstruct goes on, timers fire, callbacks run; a mutex that
\* is free again and again is obtained.  Nobody has to enumerate.
Fairness ==
  /\ WF_vars(Enumerate) /\ WF_vars(\E t \in Tasks : Starting(t))
  /\ \A t \in Clears : WF_vars(Fire(t)) /\ WF_vars(Forget(t)) /\ SF_vars(ClearTokens(t))

Spec == Init /\ [][Next]_vars /\ Fairness

-----------------------------------------------------------------------------
TypeOK ==
  /\ T!TypeOK
  /\ attached \in BOOLEAN /\ tokens \in BOOLEAN /\ scheduled \in BOOLEAN /\ downloading \in BOOLEAN
  /\ enum \in {"idle", "open", "reading", "outdated", "updating", "miss", "inserted",
               "listed", "pushed", "scheduling"}
  /\ got \in {"none", "list"}
  /\ file \in {"missing", "torn", "old", "fresh"}
  /\ writer \subseteq Downloads
  /\ step \in [Tasks -> {"run", "fetch", "create", "write", "delete", "replace", "erase"}]
  /\ lost \subseteq {"name", "clear", "file"}

DeletedOnce == T!DeletedOnce
TeardownComplete == T!TeardownComplete
ImplementsJobs == T!J!SafeSpec

\* A name in the set of downloads is the name of one that is yet to end and
\* will take it out, or of one whose StartNewTask threw (FileCache.cpp:225-229).
NameIsAnswered ==
  life = "up" /\ downloading =>
    \/ enum = "inserted" \/ "name" \in lost
    \/ \E t \in Downloads : timer[t] # "none"

Whole == file \in {"old", "fresh"}

\* A complete cache file is only ever followed by a complete one, whatever
\* downloads run at once, fail to write, or die with the process, but for a file
\* that ReplaceFileW loses (FileCache.cpp:126): then the downloads of that time,
\* which may all see no file, write in place over each other.
WholeFileStays == [][Whole => Whole' \/ "file" \in lost']_vars

\* Between two enumerations the flag is set exactly when one task is going to
\* clear the tokens, and cached tokens have such a task, unless StartNewTask
\* has thrown (VoiceTokenEnumerator.cpp:202-211).
ClearingScheduled ==
  life = "up" /\ enum = "idle" /\ "clear" \notin lost =>
    LET coming == {t \in Clears : timer[t] # "none"} IN
    /\ Cardinality(coming) = IF scheduled THEN 1 ELSE 0
    /\ tokens => scheduled

\* Cached tokens are dropped in the end, so that changed voices are seen
\* (VoiceTokenEnumerator.cpp:92).
TokensExpire == tokens /\ life = "up" ~> ~tokens \/ life # "up" \/ "clear" \in lost
=============================================================================
