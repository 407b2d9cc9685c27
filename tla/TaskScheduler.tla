---------------------------- MODULE TaskScheduler ----------------------------
(***************************************************************************)
(* TaskScheduler.h: tasks on a Windows timer queue, and its teardown by    *)
(* DllMain (dllmain.cpp:28-43).                                            *)
(*                                                                         *)
(* A task stands for the address of its ParamData, which may be allocated  *)
(* again once it is free.  StartNewTask, the callback of the timer and     *)
(* Uninitialize run on different threads; each of the sections under       *)
(* deleterMutex is one step.                                               *)
(***************************************************************************)
EXTENDS Naturals

CONSTANTS Tasks,      \* addresses of task data
          Periodic    \* those of tasks with a period

VARIABLES
  hTimerQueue,   \* 0 is nullptr
  queues,        \* how many queues have been created since the DLL was loaded
  stage,         \* per task, where StartNewTask is: "idle", "noqueue", "ready", "timed"
  timer,         \* per task: "none", "armed", "taken" (TimerQueueProc entered), "running"
  on,            \* per task, the queue of its timer; 0 is the default queue of Windows
  alive,         \* the tasks whose data is allocated
  deleters,      \* the keys of the deleter list
  twice,         \* the tasks whose data was deleted when it was not allocated
  early,         \* history: the tasks whose callback looked for them in the list before
                 \* line 138 had put them there
  forgotten,     \* history: the queues whose handle has been overwritten
  life           \* "up", "draining", "freeing", "dying", "unloaded" or "exited"

vars == <<hTimerQueue, queues, stage, timer, on, alive, deleters, twice, early, forgotten, life>>

Fresh == [t \in Tasks |-> "none"]

Init ==
  /\ hTimerQueue = 0 /\ queues = 0 /\ stage = [t \in Tasks |-> "idle"]
  /\ timer = Fresh /\ on = [t \in Tasks |-> 0]
  /\ alive = {} /\ deleters = {} /\ twice = {} /\ early = {}
  /\ forgotten = {} /\ life = "up"

Free(S) == alive' = alive \ S /\ twice' = twice \cup (S \ alive)

-----------------------------------------------------------------------------
(* StartNewTask.                                                           *)

\* The test of Initialize is not under any lock: several threads may find no queue.
BeginStart(t) ==
  /\ life = "up" /\ stage[t] = "idle" /\ timer[t] = "none" /\ t \notin alive
  /\ stage' = [stage EXCEPT ![t] = IF hTimerQueue = 0 THEN "noqueue" ELSE "ready"]
  /\ UNCHANGED <<hTimerQueue, queues, timer, on, alive, deleters, twice, early, forgotten, life>>

MakeQueue(t) ==
  /\ life = "up" /\ stage[t] = "noqueue"
  /\ stage' = [stage EXCEPT ![t] = "ready"]
  /\ queues' = queues + 1 /\ hTimerQueue' = queues + 1
  /\ forgotten' = forgotten \cup ({hTimerQueue} \ {0})
  /\ UNCHANGED <<timer, on, alive, deleters, twice, early, life>>

\* A system call fails.  The nullptr of CreateTimerQueue is stored before it is
\* tested, over the queue that another thread may have made in between; later,
\* the exception destroys the data.
StartFails(t) ==
  /\ life = "up"
  /\ \/ /\ stage[t] = "noqueue" /\ hTimerQueue' = 0
        /\ forgotten' = forgotten \cup ({hTimerQueue} \ {0})
     \/ stage[t] = "ready" /\ UNCHANGED <<hTimerQueue, forgotten>>
  /\ stage' = [stage EXCEPT ![t] = "idle"]
  /\ UNCHANGED <<queues, timer, on, alive, deleters, twice, early, life>>

\* The data is allocated, and from here on the timer may fire.  Without a
\* queue, which another thread's failure may have taken away, the timer is one
\* of the default queue.
CreateTimer(t) ==
  /\ life = "up" /\ stage[t] = "ready"
  /\ stage' = [stage EXCEPT ![t] = "timed"]
  /\ timer' = [timer EXCEPT ![t] = "armed"] /\ on' = [on EXCEPT ![t] = hTimerQueue]
  /\ alive' = alive \cup {t} /\ early' = early \ {t}
  /\ UNCHANGED <<hTimerQueue, queues, deleters, twice, forgotten, life>>

Register(t) ==
  /\ life = "up" /\ stage[t] = "timed"
  /\ stage' = [stage EXCEPT ![t] = "idle"]
  /\ deleters' = deleters \cup {t}
  /\ UNCHANGED <<hTimerQueue, queues, timer, on, alive, twice, early, forgotten, life>>

-----------------------------------------------------------------------------
(* TimerQueueProc.  Once the DLL is unloaded there is no code to run.      *)

Loaded == life \notin {"unloaded", "exited"}

\* Mutant: every callback takes the data over.
FireOwned(t) ==
  /\ Loaded /\ timer[t] = "armed"
  /\ timer' = [timer EXCEPT ![t] = "taken"]
  /\ UNCHANGED <<hTimerQueue, queues, stage, on, alive, deleters, twice, early, forgotten, life>>

\* A callback that is to run once takes the data over.
Fire(t) ==
  /\ Loaded /\ timer[t] = "armed"
  /\ timer' = [timer EXCEPT ![t] = IF t \in Periodic THEN "running" ELSE "taken"]
  /\ UNCHANGED <<hTimerQueue, queues, stage, on, alive, deleters, twice, early, forgotten, life>>

\* Mutant: the entry stays in the deleter list.
ForgetNothing(t) ==
  /\ Loaded /\ timer[t] = "taken"
  /\ timer' = [timer EXCEPT ![t] = "running"]
  /\ UNCHANGED <<hTimerQueue, queues, stage, on, alive, deleters, twice, early, forgotten, life>>

Forget(t) ==
  /\ Loaded /\ timer[t] = "taken"
  /\ timer' = [timer EXCEPT ![t] = "running"]
  /\ deleters' = deleters \ {t}
  /\ early' = IF stage[t] = "timed" THEN early \cup {t} ELSE early
  /\ UNCHANGED <<hTimerQueue, queues, stage, on, alive, twice, forgotten, life>>

\* Mutant: the timer of a single task is created without its flag.
FinishRearmed(t) ==
  /\ Loaded /\ timer[t] = "running"
  /\ timer' = [timer EXCEPT ![t] = "armed"]
  /\ IF t \in Periodic THEN UNCHANGED <<alive, twice>> ELSE Free({t})
  /\ UNCHANGED <<hTimerQueue, queues, stage, on, deleters, early, forgotten, life>>

\* The function has returned: the data of a single task goes with its owner.
Finish(t) ==
  /\ Loaded /\ timer[t] = "running"
  /\ IF t \in Periodic
     THEN /\ timer' = [timer EXCEPT ![t] = IF life = "draining" /\ on[t] = hTimerQueue
                                           THEN "none" ELSE "armed"]
          /\ UNCHANGED <<on, alive, twice>>
     ELSE timer' = [timer EXCEPT ![t] = "none"] /\ on' = [on EXCEPT ![t] = 0] /\ Free({t})
  /\ UNCHANGED <<hTimerQueue, queues, stage, deleters, early, forgotten, life>>

-----------------------------------------------------------------------------
(* Uninitialize, at the end of the DLL or of the process.                  *)

Busy(t) == timer[t] \in {"taken", "running"}

\* Uninitialize(true): no timer of the queue fires any more; without a queue
\* there is nothing to do ...
BeginDrain ==
  /\ life = "up" /\ \A t \in Tasks : stage[t] = "idle"
  /\ life' = IF hTimerQueue = 0 THEN "unloaded" ELSE "draining"
  /\ timer' = [t \in Tasks |-> IF hTimerQueue # 0 /\ timer[t] = "armed" /\ on[t] = hTimerQueue
                               THEN "none" ELSE timer[t]]
  /\ UNCHANGED <<hTimerQueue, queues, stage, on, alive, deleters, twice, early, forgotten>>

\* Mutant: DeleteTimerQueueEx does not wait.
DrainedAtOnce ==
  /\ life = "draining"
  /\ life' = "freeing" /\ hTimerQueue' = 0
  /\ UNCHANGED <<queues, stage, timer, on, alive, deleters, twice, early, forgotten>>

\* ... and its callbacks have returned.
Drained ==
  /\ life = "draining" /\ \A t \in Tasks : ~(Busy(t) /\ on[t] = hTimerQueue)
  /\ life' = "freeing" /\ hTimerQueue' = 0
  /\ UNCHANGED <<queues, stage, timer, on, alive, deleters, twice, early, forgotten>>

\* Uninitialize(false): the process ends, its other threads are gone.
Exit ==
  /\ life = "up"
  /\ life' = IF hTimerQueue = 0 THEN "exited" ELSE "dying"
  /\ hTimerQueue' = 0 /\ timer' = Fresh /\ stage' = [t \in Tasks |-> "idle"]
  /\ UNCHANGED <<queues, on, alive, deleters, twice, early, forgotten>>

\* The list is not emptied, but nothing looks at it again.
FreeRest ==
  /\ life \in {"freeing", "dying"}
  /\ life' = IF life = "freeing" THEN "unloaded" ELSE "exited"
  /\ Free(deleters)
  /\ UNCHANGED <<hTimerQueue, queues, stage, timer, on, deleters, early, forgotten>>

\* The DLL is loaded into a process again.
Load ==
  /\ life \in {"unloaded", "exited"} /\ timer = Fresh
  /\ life' = "up" /\ hTimerQueue' = 0 /\ queues' = 0
  /\ on' = [t \in Tasks |-> 0] /\ alive' = {} /\ deleters' = {} /\ twice' = {} /\ early' = {}
  /\ forgotten' = {}
  /\ UNCHANGED <<stage, timer>>

-----------------------------------------------------------------------------
Next ==
  \/ \E t \in Tasks :
       \/ BeginStart(t) \/ MakeQueue(t) \/ StartFails(t) \/ CreateTimer(t) \/ Register(t)
       \/ Fire(t) \/ Forget(t) \/ Finish(t)
  \/ BeginDrain \/ Drained \/ Exit \/ FreeRest \/ Load

SafeSpec == Init /\ [][Next]_vars

J == INSTANCE Jobs WITH
  job <- [t \in Tasks |-> IF timer[t] = "armed" THEN "pending"
                         ELSE IF Busy(t) THEN "running" ELSE "none"],
  open <- life = "up"

TypeOK ==
  /\ hTimerQueue \in 0 .. queues /\ queues \in Nat
  /\ stage \in [Tasks -> {"idle", "noqueue", "ready", "timed"}]
  /\ timer \in [Tasks -> {"none", "armed", "taken", "running"}]
  /\ on \in [Tasks -> 0 .. queues]
  /\ alive \subseteq Tasks /\ deleters \subseteq Tasks
  /\ twice \subseteq Tasks /\ early \subseteq Tasks \ Periodic
  /\ forgotten \subseteq 1 .. queues
  /\ life \in {"up", "draining", "freeing", "dying", "unloaded", "exited"}

\* The data of a task is deleted once, by its callback, by the end of
\* Uninitialize, or by nobody when the process ends; only a task whose callback
\* has looked for it before StartNewTask put it into the list is deleted by both.
DeletedOnce == twice \subseteq early

\* When the DLL is unloaded nothing of a task is left: no callback is running
\* in code that is about to go, no timer is armed, no data is allocated.  This
\* is lost with the handle of a queue: two threads that both find no queue make
\* two, or the second one fails and leaves nullptr over the queue of the first.
TeardownComplete ==
  life = "unloaded" /\ forgotten = {} => timer = Fresh /\ alive = {}
=============================================================================
