------------------------- MODULE TaskSchedulerProofs -------------------------
(***************************************************************************)
(* For every set of tasks, periodic or not: the safety properties of       *)
(* TaskScheduler.                                                          *)
(***************************************************************************)
EXTENDS TaskScheduler, TLAPS

Gone == life \in {"unloaded", "exited"}

\* What is in the list can be deleted, and so can what a callback is to delete.
ListAlive ==
  \A t \in Tasks : ~Gone /\ t \in deleters /\ t \notin early => t \in alive
OwnerAlive ==
  \A t \in Tasks : ~Gone /\ t \notin Periodic /\ timer[t] # "none" => t \in alive

\* The data belongs to the list or to the callback, not to both, unless the
\* callback was faster than line 138.
OneOwner ==
  \A t \in Tasks : t \notin Periodic /\ timer[t] = "running" /\ t \notin early => t \notin deleters
EarlyFired ==
  \A t \in Tasks : stage[t] = "timed" =>
    /\ t \notin Periodic /\ timer[t] \notin {"armed", "taken"} => t \in early
    /\ t \notin early => t \in alive
NothingTwiceYet == ~Gone => twice = {}

\* Somebody is going to delete the data of every task, unless the process ends.
SomeOwner ==
  \A t \in Tasks : ~Gone /\ life # "dying" /\ t \in alive =>
    t \in deleters \/ stage[t] = "timed" \/ (t \notin Periodic /\ timer[t] = "running")
OnceTaken == \A t \in Tasks : timer[t] = "taken" => t \notin Periodic

\* Tasks are started while the DLL is up, on a queue that exists and is the
\* only one, unless its handle has been overwritten.
StartedWhenUp == life # "up" => \A t \in Tasks : stage[t] = "idle"
QueueExists ==
  /\ forgotten = {} => queues <= 1
  /\ forgotten = {} /\ life \in {"up", "draining"} => hTimerQueue = queues
  /\ \A t \in Tasks :
       /\ forgotten = {} /\ stage[t] \in {"ready", "timed"} => hTimerQueue > 0
       /\ forgotten = {} /\ timer[t] # "none" => on[t] > 0
       /\ forgotten = {} /\ ~Gone /\ t \in alive => queues > 0
  /\ life = "draining" => hTimerQueue > 0

\* None of the timers of this queue is armed once it is being deleted, and
\* none of its callbacks is left when it is.
OneQueueDrains ==
  /\ forgotten = {} /\ life = "draining" => \A t \in Tasks : timer[t] # "armed"
  /\ forgotten = {} /\ life = "freeing" => \A t \in Tasks : timer[t] = "none"

\* A timer is created for a task that has none; the process ends without any.
CreatedOnce == \A t \in Tasks : stage[t] \in {"noqueue", "ready"} => timer[t] = "none"
NoTimerDying == life \in {"dying", "exited"} => timer = Fresh

IInv == /\ TypeOK /\ DeletedOnce /\ TeardownComplete
        /\ ListAlive /\ OwnerAlive /\ OneOwner /\ EarlyFired /\ NothingTwiceYet
        /\ SomeOwner /\ OnceTaken /\ StartedWhenUp /\ QueueExists /\ OneQueueDrains
        /\ CreatedOnce /\ NoTimerDying

LEMMA InitIInv == Init => IInv
BY DEF Init, IInv, TypeOK, DeletedOnce, TeardownComplete, ListAlive, OwnerAlive, OneOwner,
       EarlyFired, NothingTwiceYet, SomeOwner, OnceTaken, StartedWhenUp, QueueExists,
       OneQueueDrains, CreatedOnce, NoTimerDying, Fresh, Gone

\* A failure forgets the queue that is there, if there is one.
LEMMA FailureForgets ==
  ASSUME TypeOK, NEW t \in Tasks, StartFails(t)
  PROVE  /\ forgotten' \subseteq 1 .. queues
         /\ forgotten' = {} => forgotten = {} /\ hTimerQueue' = hTimerQueue
<1>1. /\ hTimerQueue \in 0 .. queues /\ queues \in Nat /\ forgotten \subseteq 1 .. queues
  BY DEF TypeOK
<1>2. \/ hTimerQueue' = 0 /\ forgotten' = forgotten \cup ({hTimerQueue} \ {0})
      \/ hTimerQueue' = hTimerQueue /\ forgotten' = forgotten
  BY DEF StartFails
<1>3. ASSUME NEW q \in forgotten' PROVE q \in 1 .. queues
  <2>1. q \in forgotten \/ (q = hTimerQueue /\ q # 0)
    BY <1>2, <1>3
  <2>2. hTimerQueue # 0 => hTimerQueue \in 1 .. queues
    BY <1>1
  <2>3. CASE q \in forgotten
    BY <1>1, <2>3
  <2>4. CASE q = hTimerQueue /\ q # 0
    BY <2>2, <2>4
  <2> QED
    BY <2>1, <2>3, <2>4
<1>4. ASSUME forgotten' = {} PROVE forgotten = {} /\ hTimerQueue' = hTimerQueue
  <2>1. hTimerQueue # 0 => hTimerQueue \in {hTimerQueue} \ {0}
    OBVIOUS
  <2> QED
    BY <1>2, <1>4, <2>1
<1> QED
  BY <1>3, <1>4

LEMMA NextIInv == IInv /\ [Next]_vars => IInv'
<1> SUFFICES ASSUME IInv, [Next]_vars PROVE IInv'
  OBVIOUS
<1> USE DEF IInv, TypeOK, DeletedOnce, TeardownComplete, ListAlive, OwnerAlive, OneOwner,
            EarlyFired, NothingTwiceYet, SomeOwner, OnceTaken, StartedWhenUp, QueueExists,
            OneQueueDrains, CreatedOnce, NoTimerDying, Fresh, Gone, Free, Loaded, Busy
<1>1. ASSUME NEW t \in Tasks, BeginStart(t) PROVE IInv'
  BY <1>1 DEF BeginStart
<1>2. ASSUME NEW t \in Tasks, MakeQueue(t) PROVE IInv'
  BY <1>2 DEF MakeQueue
<1>3. ASSUME NEW t \in Tasks, StartFails(t) PROVE IInv'
  <2>1. CASE stage[t] = "noqueue"
    <3>1. CASE hTimerQueue = 0
      BY <1>3, <2>1, <3>1, FailureForgets DEF StartFails
    <3>2. CASE hTimerQueue # 0
      <4>1. /\ forgotten' \subseteq 1 .. queues /\ forgotten' # {}
            /\ hTimerQueue' = 0 /\ stage' = [stage EXCEPT ![t] = "idle"] /\ life = "up"
            /\ UNCHANGED <<queues, timer, on, alive, deleters, twice, early, life>>
        BY <1>3, <2>1, <3>2, FailureForgets DEF StartFails
      <4>2. hTimerQueue' \in 0 .. queues' /\ TypeOK'
        BY <4>1
      <4>3. QueueExists' /\ OneQueueDrains' /\ TeardownComplete'
        BY <4>1
      <4>4. /\ DeletedOnce' /\ ListAlive' /\ OwnerAlive' /\ OneOwner' /\ NothingTwiceYet'
            /\ OnceTaken' /\ StartedWhenUp' /\ CreatedOnce' /\ NoTimerDying'
        BY <4>1
      <4>5. EarlyFired' /\ SomeOwner'
        BY <4>1, <2>1
      <4> QED
        BY <4>2, <4>3, <4>4, <4>5
    <3> QED
      BY <3>1, <3>2
  <2>2. CASE stage[t] = "ready"
    BY <1>3, <2>2 DEF StartFails
  <2> QED
    BY <1>3, <2>1, <2>2 DEF StartFails
<1>4. ASSUME NEW t \in Tasks, CreateTimer(t) PROVE IInv'
  BY <1>4 DEF CreateTimer
<1>5. ASSUME NEW t \in Tasks, Register(t) PROVE IInv'
  BY <1>5 DEF Register
<1>6. ASSUME NEW t \in Tasks, Fire(t) PROVE IInv'
  BY <1>6 DEF Fire
<1>7. ASSUME NEW t \in Tasks, Forget(t) PROVE IInv'
  BY <1>7 DEF Forget
<1>8. ASSUME NEW t \in Tasks, Finish(t) PROVE IInv'
  BY <1>8 DEF Finish
<1>9. CASE BeginDrain
  BY <1>9 DEF BeginDrain
<1>10. CASE Drained
  BY <1>10 DEF Drained
<1>11. CASE Exit
  BY <1>11 DEF Exit
<1>12. CASE FreeRest
  BY <1>12 DEF FreeRest
<1>13. CASE Load
  BY <1>13 DEF Load
<1>14. CASE UNCHANGED vars
  BY <1>14 DEF vars
<1> QED
  BY <1>1, <1>2, <1>3, <1>4, <1>5, <1>6, <1>7, <1>8, <1>9, <1>10, <1>11, <1>12, <1>13, <1>14 DEF Next

LEMMA Invariance == SafeSpec => []IInv
BY InitIInv, NextIInv, PTL DEF SafeSpec

\* The variables of TaskScheduler.h always have their types.
THEOREM TypeCorrect == SafeSpec => []TypeOK
<1>1. IInv => TypeOK
  BY DEF IInv
<1> QED
  BY <1>1, Invariance, PTL

\* The data of no task is deleted twice, however many tasks are started and
\* fire at once, and whenever Uninitialize comes, unless a callback looked for its
\* data before StartNewTask had put it into the list (TaskScheduler.h:127-139).
THEOREM DataDeletedOnce == SafeSpec => []DeletedOnce
<1>1. IInv => DeletedOnce
  BY DEF IInv
<1> QED
  BY <1>1, Invariance, PTL

\* DeleteTimerQueueEx and the list together leave nothing behind when the DLL
\* is unloaded, provided no thread overwrote the handle of a queue, with that of
\* another or with nullptr (TaskScheduler.h:22-51).
THEOREM NothingLeftBehind == SafeSpec => []TeardownComplete
<1>1. IInv => TeardownComplete
  BY DEF IInv
<1> QED
  BY <1>1, Invariance, PTL

-----------------------------------------------------------------------------
(***************************************************************************)
(* Every step of the scheduler is a step of Jobs or leaves its jobs alone, *)
(* as long as the handle of its queue is not overwritten.                  *)
(***************************************************************************)
QueueKept == forgotten = {}

LEMMA InitJobs == Init => J!Init
BY DEF Init, J!Init, Fresh, Busy

LEMMA StepJobs == IInv /\ QueueKept /\ QueueKept' /\ [Next]_vars => [J!Next]_(J!vars)
<1> SUFFICES ASSUME IInv, QueueKept, QueueKept', [Next]_vars PROVE [J!Next]_(J!vars)
  OBVIOUS
<1> USE DEF J!vars, Busy
<1>1. ASSUME NEW t \in Tasks,
             BeginStart(t) \/ MakeQueue(t) \/ StartFails(t) \/ Register(t)
      PROVE  UNCHANGED J!vars
  BY <1>1 DEF BeginStart, MakeQueue, StartFails, Register
<1>2. ASSUME NEW t \in Tasks, CreateTimer(t) PROVE J!Start(t)
  BY <1>2 DEF CreateTimer, J!Start, IInv, TypeOK, CreatedOnce
<1>3. ASSUME NEW t \in Tasks, Fire(t) PROVE J!Begin(t)
  BY <1>3 DEF Fire, J!Begin, IInv, TypeOK
<1>4. ASSUME NEW t \in Tasks, Forget(t) PROVE UNCHANGED J!vars
  BY <1>4 DEF Forget, IInv, TypeOK
<1>5. ASSUME NEW t \in Tasks, Finish(t) PROVE J!End(t)
  <2>1. timer[t] = "running" /\ timer \in [Tasks -> {"none", "armed", "taken", "running"}]
    BY <1>5 DEF Finish, IInv, TypeOK
  <2>2. life \in {"up", "draining"} /\ (life = "draining" => on[t] = hTimerQueue)
    BY <1>5, <2>1 DEF Finish, IInv, TypeOK, QueueExists, QueueKept, OneQueueDrains,
         NoTimerDying, Fresh, Loaded
  <2>3. timer' = [timer EXCEPT ![t] = IF t \in Periodic /\ life = "up" THEN "armed" ELSE "none"]
    BY <1>5, <2>2 DEF Finish
  <2>4. life' = life
    BY <1>5 DEF Finish
  <2> QED
    BY <2>1, <2>3, <2>4 DEF J!End
<1>6. CASE BeginDrain
  BY <1>6 DEF BeginDrain, J!Next, J!Close, IInv, TypeOK, QueueExists, QueueKept
<1>7. CASE Drained
  BY <1>7 DEF Drained
<1>8. CASE Exit
  BY <1>8 DEF Exit, J!Next, J!Kill, Fresh
<1>9. CASE FreeRest
  BY <1>9 DEF FreeRest
<1>10. CASE Load
  BY <1>10 DEF Load, J!Next, J!Reopen, Fresh
<1>11. CASE UNCHANGED vars
  BY <1>11 DEF vars
<1> QED
  BY <1>1, <1>2, <1>3, <1>4, <1>5, <1>6, <1>7, <1>8, <1>9, <1>10, <1>11 DEF Next, J!Next

\* While it has the handle of its timer queue TaskScheduler.h keeps what Jobs promises: a task that
\* was started and not cancelled runs, once when it is not periodic, and none
\* begins after the teardown did.
THEOREM KeepsJobs == SafeSpec /\ []QueueKept => J!SafeSpec
BY InitJobs, StepJobs, Invariance, PTL DEF SafeSpec, J!SafeSpec
=============================================================================
