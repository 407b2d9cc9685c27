--------------------------- MODULE BlockingQueue ---------------------------
(***************************************************************************)
(* BlockingQueue.h: the queue that carries audio messages from the asio    *)
(* thread to the thread of one Speak call, with the mutex, the condition   *)
(* variable and the std::stop_callback of take().                          *)
(*                                                                         *)
(* Only take() keeps the mutex across steps another thread can observe, so *)
(* every other critical section is one step guarded by ~Held.  The stop    *)
(* flag is read by take() but written outside the mutex.                   *)
(***************************************************************************)
EXTENDS Naturals, Sequences

CONSTANTS Producers,  \* threads that push, complete and fail
          Items,      \* the messages
          MaxPushes   \* bound on the number of messages pushed

ASSUME MaxPushesAssumption == MaxPushes \in Nat

VARIABLES queue,      \* m_queue
          complete,   \* m_complete
          except,     \* m_except is set
          notifying,  \* producers between the unlock and notify_one of push
          taker,      \* where the consumer is in take()
          stopper,    \* where the thread calling request_stop is
          received,   \* every value take() has returned, in order
          outcome     \* "open", or how the last take() of the consumer ended

vars == <<queue, complete, except, notifying, taker, stopper, received, outcome>>

TakerPC == {"idle", "lock", "test", "wait", "blocked", "exit", "unregister"}
StopperPC == {"idle", "lock", "notify", "done"}

Init ==
  /\ queue = <<>> /\ complete = FALSE /\ except = FALSE
  /\ notifying = {} /\ taker = "idle" /\ stopper = "idle"
  /\ received = <<>> /\ outcome = "open"

StopRequested == stopper # "idle"

\* Mutant: the unique_lock is destroyed after the stop_callback.
LockOutlivesCallback == taker \in {"test", "wait", "exit", "unregister"}

\* take() owns m_mutex: from the return of lock() or wait() to the next wait()
\* or to the destructor of the unique_lock.
Held == taker \in {"test", "wait", "exit"}

\* A notified waiter has to get the mutex back before it goes on.
Wake == IF taker = "blocked" THEN "lock" ELSE taker

-----------------------------------------------------------------------------
(* The producers.                                                          *)

\* push: the locked block.  On a complete queue it returns at once.
Push(p, v) ==
  /\ ~Held /\ p \notin notifying /\ ~complete
  /\ Len(received) + Len(queue) < MaxPushes
  /\ queue' = Append(queue, v)
  /\ notifying' = notifying \cup {p}
  /\ UNCHANGED <<complete, except, taker, stopper, received, outcome>>

\* push: notify_one, after the mutex has been released.
PushNotify(p) ==
  /\ p \in notifying
  /\ notifying' = notifying \ {p}
  /\ taker' = Wake
  /\ UNCHANGED <<queue, complete, except, stopper, received, outcome>>

\* complete: nobody is notified while there are messages left, because every
\* one of them came with a notification of its own.
Complete(p) ==
  /\ ~Held /\ p \notin notifying /\ ~complete
  /\ complete' = TRUE
  /\ taker' = IF queue = <<>> THEN Wake ELSE taker
  /\ UNCHANGED <<queue, except, notifying, stopper, received, outcome>>

\* Mutant: fail() records the exception and leaves the queue open.
FailStaysOpen(p) ==
  /\ ~Held /\ p \notin notifying /\ ~complete
  /\ except' = TRUE /\ taker' = Wake
  /\ UNCHANGED <<queue, complete, notifying, stopper, received, outcome>>

Fail(p) ==
  /\ ~Held /\ p \notin notifying /\ ~complete
  /\ complete' = TRUE /\ except' = TRUE
  /\ taker' = Wake
  /\ UNCHANGED <<queue, notifying, stopper, received, outcome>>

-----------------------------------------------------------------------------
(* take(), called again and again until it stops returning messages.       *)

\* The stop_callback is registered.  If stop was requested before, the
\* callback runs here and now, and finds nobody waiting.
BeginTake ==
  /\ taker = "idle" /\ outcome = "open"
  /\ taker' = "lock"
  /\ UNCHANGED <<queue, complete, except, notifying, stopper, received, outcome>>

Lock ==
  /\ taker = "lock" /\ taker' = "test"
  /\ UNCHANGED <<queue, complete, except, notifying, stopper, received, outcome>>

\* The condition of the while loop.
Test ==
  /\ taker = "test"
  /\ taker' = IF ~StopRequested /\ queue = <<>> /\ ~complete THEN "wait" ELSE "exit"
  /\ UNCHANGED <<queue, complete, except, notifying, stopper, received, outcome>>

\* m_cv.wait releases the mutex and blocks in one step.
Wait ==
  /\ taker = "wait" /\ taker' = "blocked"
  /\ UNCHANGED <<queue, complete, except, notifying, stopper, received, outcome>>

SpuriousWakeup ==
  /\ taker = "blocked" /\ taker' = "lock"
  /\ UNCHANGED <<queue, complete, except, notifying, stopper, received, outcome>>

\* What follows the loop; the mutex is released on the way out.
Exit ==
  /\ taker = "exit" /\ taker' = "unregister"
  /\ \/ /\ except /\ outcome' = "error"
        /\ UNCHANGED <<queue, received>>
     \/ /\ ~except /\ (StopRequested \/ queue = <<>>)
        /\ outcome' = "end"
        /\ UNCHANGED <<queue, received>>
     \/ /\ ~except /\ ~StopRequested /\ queue # <<>>
        /\ received' = Append(received, Head(queue)) /\ queue' = Tail(queue)
        /\ UNCHANGED outcome
  /\ UNCHANGED <<complete, except, notifying, stopper>>

\* The destructor of the stop_callback waits for a callback that has begun.
Unregister ==
  /\ taker = "unregister" /\ stopper \notin {"lock", "notify"}
  /\ taker' = "idle"
  /\ UNCHANGED <<queue, complete, except, notifying, stopper, received, outcome>>

-----------------------------------------------------------------------------
(* std::stop_source::request_stop, on another thread.                      *)

\* The flag is raised; a registered callback is going to run.
RequestStop ==
  /\ stopper = "idle"
  /\ stopper' = IF taker = "idle" THEN "done" ELSE "lock"
  /\ UNCHANGED <<queue, complete, except, notifying, taker, received, outcome>>

\* Mutant: the callback only notifies.
CallbackWithoutLock ==
  /\ stopper = "lock" /\ stopper' = "notify"
  /\ UNCHANGED <<queue, complete, except, notifying, taker, received, outcome>>

\* The callback locks and unlocks the mutex ...
CallbackLock ==
  /\ stopper = "lock" /\ ~Held
  /\ stopper' = "notify"
  /\ UNCHANGED <<queue, complete, except, notifying, taker, received, outcome>>

\* ... and then calls notify_all.
CallbackNotify ==
  /\ stopper = "notify" /\ stopper' = "done"
  /\ taker' = Wake
  /\ UNCHANGED <<queue, complete, except, notifying, received, outcome>>

-----------------------------------------------------------------------------
TakeStep == BeginTake \/ Lock \/ Test \/ Wait \/ Exit \/ Unregister

Next ==
  \/ \E p \in Producers : \/ \E v \in Items : Push(p, v)
                          \/ PushNotify(p) \/ Complete(p) \/ Fail(p)
  \/ TakeStep \/ SpuriousWakeup
  \/ RequestStop \/ CallbackLock \/ CallbackNotify

Spec == Init /\ [][Next]_vars

\* Threads that can run do run.  The mutex is strongly fair to the callback:
\* take() may release and retake it any number of times on spurious wake-ups.
Fairness ==
  /\ WF_vars(TakeStep)
  /\ \A p \in Producers : WF_vars(PushNotify(p))
  /\ SF_vars(CallbackLock) /\ WF_vars(CallbackNotify)

FairSpec == Spec /\ Fairness

-----------------------------------------------------------------------------
TypeOK ==
  /\ queue \in Seq(Items) /\ received \in Seq(Items)
  /\ complete \in BOOLEAN /\ except \in BOOLEAN /\ (except => complete)
  /\ notifying \subseteq Producers
  /\ taker \in TakerPC /\ stopper \in StopperPC
  /\ outcome \in {"open", "end", "error"}

\* The consumer never sleeps on something it has to see: while it is blocked,
\* a message or a final state has a notify_one still to come, and a stop
\* request has its callback still to come (the lock/unlock in the callback,
\* BlockingQueue.h:37, and the notify_all of complete and fail).
NoLostWakeup ==
  taker = "blocked" =>
    /\ (queue # <<>> \/ complete) => notifying # {}
    /\ StopRequested => stopper \in {"lock", "notify"}

\* The queue implements the channel: what it accepted is what it returned
\* followed by what it holds.  The abstract fairness makes the property say
\* too that take() returns every message, the end or the failure that is there.
Closed == IF except THEN "failed" ELSE IF complete THEN "complete" ELSE "open"

Ch == INSTANCE Channel WITH sent <- received \o queue, closed <- Closed,
                            cancelled <- StopRequested

ImplementsChannel == Ch!Spec
=============================================================================
