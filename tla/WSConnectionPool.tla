-------------------------- MODULE WSConnectionPool --------------------------
(***************************************************************************)
(* WSConnectionPool.cpp for one host: the threads of the Speak calls that  *)
(* take and put back connections, the asio thread that runs the handlers   *)
(* of websocketpp, and the keep-alive timer, around one HostInfo.          *)
(*                                                                         *)
(* info.mutex is kept across observable steps only by TakeConnection       *)
(* (between its last look at the list and the wait) and by                 *)
(* KeepConnectionsAlive; every other critical section is one step guarded  *)
(* by MutexFree.  The state of a connection, the stop flag and the handler *)
(* asio has picked up change without the mutex.                            *)
(***************************************************************************)
EXTENDS Naturals, FiniteSets

CONSTANTS Takers,     \* threads in SpeechRestAPI::DoSpeakAsync
          Conns,      \* connection objects; one is used again once it is gone
          MinCount,   \* m_minCount
          MaxCount,   \* m_maxCount
          KeepAlive,  \* the keep-alive timer is running
          NoConn

ASSUME PoolAssumption ==
  /\ MinCount \in Nat /\ MaxCount \in Nat \ {0} /\ MinCount <= MaxCount
  /\ IsFiniteSet(Conns) /\ Cardinality(Conns) > MaxCount
  /\ KeepAlive \in BOOLEAN
  /\ NoConn \notin Conns /\ Takers \cap {"none", "pool"} = {}

VARIABLES
  ws,        \* per connection: the session state of websocketpp
  where,     \* per connection: "none", "pool" (info.connections) or its taker
  hooked,    \* connections whose handlers are set
  posted,    \* connections with handle_terminate posted: "fail" or "close"
  count,     \* info.count
  lastEx,    \* info.lastException is set
  pc,        \* per taker: where it is in TakeConnection or with a connection
  outcome,   \* per taker: how TakeConnection ended
  stopper,   \* per taker: where request_stop on its token is
  asio,      \* the handler the asio thread is in, and its connection
  timer,     \* where KeepConnectionsAlive is
  victims,   \* connections it is still going to close
  expired,   \* number of connections it found too old
  crashed    \* "no", or what brought the process down

connVars == <<ws, where, hooked, posted, count>>
takerVars == <<pc, outcome, stopper>>
timerVars == <<timer, victims, expired>>
vars == <<connVars, lastEx, takerVars, asio, timerVars, crashed>>

TakerPC == {"idle", "lock", "scanned", "blocked", "woken", "unregister",
            "using", "putback"}
Idle == [at |-> "idle", conn |-> NoConn]

Init ==
  /\ ws = [c \in Conns |-> "closed"] /\ where = [c \in Conns |-> "none"]
  /\ hooked = {} /\ posted = [c \in Conns |-> "nothing"]
  /\ count = 0 /\ lastEx = FALSE
  /\ pc = [t \in Takers |-> "idle"] /\ outcome = [t \in Takers |-> "none"]
  /\ stopper = [t \in Takers |-> "done"]
  /\ asio = Idle /\ timer = "idle" /\ victims = {} /\ expired = 0
  /\ crashed = "no"

\* A wrapper is freed when it is neither in the list nor with a taker.
Alive == {c \in Conns : where[c] # "none"}
Pool == {c \in Conns : where[c] = "pool"}
OpenInPool == {c \in Pool : ws[c] = "open"}
Fresh == {c \in Conns : where[c] = "none" /\ asio.conn # c}

MutexFree == timer = "idle" /\ \A t \in Takers : pc[t] # "scanned"
StopRequested(t) == stopper[t] # "idle"
Running == crashed = "no"

\* connectionChanged.notify_all
WakeAll(f) == [t \in Takers |-> IF f[t] = "blocked" THEN "woken" ELSE f[t]]

-----------------------------------------------------------------------------
(* CreateConnection and RemoveConnection.                                  *)

Missing(target) == IF target > count THEN target - count ELSE 0

\* The sets of connections a loop of CreateConnection calls up to target can
\* leave behind: all that are missing, or fewer when a call throws.
Batches(target) ==
  {S \in SUBSET Fresh : Cardinality(S) <= Missing(target)}

\* The connection gets its handlers, is connecting, and goes into the list.
CreateAll(S) ==
  /\ ws' = [c \in Conns |-> IF c \in S THEN "connecting" ELSE ws[c]]
  /\ hooked' = hooked \cup S
  /\ posted' = [c \in Conns |-> IF c \in S THEN "nothing" ELSE posted[c]]
  /\ count' = count + Cardinality(S)

\* Mutant: the count goes down whether or not the list held the wrapper.
RemoveAlwaysCounts(c) ==
  /\ hooked' = hooked \ {c}
  /\ IF where[c] = "pool" THEN where' = [where EXCEPT ![c] = "none"]
                          ELSE UNCHANGED where
  /\ count' = count - 1

\* The handlers are reset; the wrapper is freed, and counted, only when it is
\* in the list.
Remove(c) ==
  /\ hooked' = hooked \ {c}
  /\ IF where[c] = "pool"
       THEN where' = [where EXCEPT ![c] = "none"] /\ count' = count - 1
       ELSE UNCHANGED <<where, count>>

-----------------------------------------------------------------------------
(* TakeConnection.                                                         *)

\* The stop_callback is registered; when stop was requested before, it runs
\* here.  Every Speak has a stop source of its own.
BeginTake(t) ==
  /\ Running /\ pc[t] = "idle" /\ stopper[t] \in {"idle", "done"}
  /\ outcome' = [outcome EXCEPT ![t] = "none"]
  /\ \/ /\ stopper' = [stopper EXCEPT ![t] = "idle"]
        /\ pc' = [pc EXCEPT ![t] = "lock"]
     \/ /\ MutexFree
        /\ stopper' = [stopper EXCEPT ![t] = "done"]
        /\ pc' = [WakeAll(pc) EXCEPT ![t] = "lock"]
  /\ UNCHANGED <<connVars, lastEx, asio, timerVars, crashed>>

Leave(t, how) ==
  /\ pc' = [pc EXCEPT ![t] = "unregister"]
  /\ outcome' = [outcome EXCEPT ![t] = how]

\* GetConnection finds an open connection.  The replenishing to the minimum
\* may throw; the deleter then locks the mutex this thread already holds,
\* which is undefined: it goes through, as the one of MSVC does, and the
\* connection is put back, or the process ends.
ScanFound(t) ==
  \E c \in OpenInPool : \E S \in Batches(MinCount) :
    /\ CreateAll(S)
    /\ IF Cardinality(S) = Missing(MinCount)
         THEN /\ where' = [d \in Conns |-> IF d = c THEN t
                                           ELSE IF d \in S THEN "pool" ELSE where[d]]
              /\ Leave(t, "conn") /\ UNCHANGED crashed
         ELSE /\ where' = [d \in Conns |-> IF d \in S THEN "pool" ELSE where[d]]
              /\ pc' = [WakeAll(pc) EXCEPT ![t] = "unregister"]
              /\ outcome' = [outcome EXCEPT ![t] = "failed"]
              /\ crashed' \in {"no", "relock"}

\* Mutant: one connection more than the clamp allows.
ExtraCountUnclamped == count + 1

\* std::clamp(info.count + 1, m_minCount, m_maxCount)
ExtraCount == IF count + 1 < MinCount THEN MinCount
              ELSE IF count + 1 > MaxCount THEN MaxCount ELSE count + 1

\* There is none: ask for an extra one, within the limit, and go to wait.
ScanNone(t) ==
  /\ OpenInPool = {}
  /\ \E S \in Batches(ExtraCount) :
       /\ CreateAll(S)
       /\ where' = [d \in Conns |-> IF d \in S THEN "pool" ELSE where[d]]
       /\ IF Cardinality(S) = Missing(ExtraCount)
            THEN /\ pc' = [pc EXCEPT ![t] = "scanned"]
                 /\ UNCHANGED outcome
            ELSE Leave(t, "failed")
  /\ UNCHANGED crashed

\* The first look at the stop token and at the list, under the mutex.
Enter(t) ==
  /\ Running /\ pc[t] = "lock" /\ MutexFree
  /\ \/ /\ StopRequested(t)
        /\ Leave(t, "stopped") /\ UNCHANGED <<connVars, crashed>>
     \/ ~StopRequested(t) /\ (ScanFound(t) \/ ScanNone(t))
  /\ UNCHANGED <<lastEx, stopper, asio, timerVars>>

\* connectionChanged.wait(lock), without a predicate.
Wait(t) ==
  /\ Running /\ pc[t] = "scanned"
  /\ pc' = [pc EXCEPT ![t] = "blocked"]
  /\ UNCHANGED <<connVars, lastEx, outcome, stopper, asio, timerVars, crashed>>

SpuriousWakeup(t) ==
  /\ Running /\ pc[t] = "blocked"
  /\ pc' = [pc EXCEPT ![t] = "woken"]
  /\ UNCHANGED <<connVars, lastEx, outcome, stopper, asio, timerVars, crashed>>

\* The rest of the loop after the wait, and the next round of it.
Resume(t) ==
  /\ Running /\ pc[t] = "woken" /\ MutexFree
  /\ \/ /\ StopRequested(t)
        /\ Leave(t, "stopped") /\ UNCHANGED <<connVars, crashed>>
     \/ /\ ~StopRequested(t) /\ lastEx
        /\ Leave(t, "failed") /\ UNCHANGED <<connVars, crashed>>
     \/ ~StopRequested(t) /\ ~lastEx /\ (ScanFound(t) \/ ScanNone(t))
  /\ UNCHANGED <<lastEx, stopper, asio, timerVars>>

\* The destructor of the stop_callback waits for a callback that has begun.
Return(t) ==
  /\ Running /\ pc[t] = "unregister" /\ stopper[t] \notin {"lock", "notify"}
  /\ pc' = [pc EXCEPT ![t] = IF outcome[t] = "conn" THEN "using" ELSE "idle"]
  /\ UNCHANGED <<connVars, lastEx, outcome, stopper, asio, timerVars, crashed>>

-----------------------------------------------------------------------------
(* The stop token of a taker.                                              *)

RequestStop(t) ==
  /\ Running /\ pc[t] # "idle" /\ stopper[t] = "idle"
  /\ stopper' = [stopper EXCEPT ![t] = IF pc[t] \in {"using", "putback"}
                                         THEN "done" ELSE "lock"]
  /\ UNCHANGED <<connVars, lastEx, pc, outcome, asio, timerVars, crashed>>

\* Mutant: the callback only notifies.
CallbackWithoutLock(t) ==
  /\ Running /\ stopper[t] = "lock"
  /\ stopper' = [stopper EXCEPT ![t] = "notify"]
  /\ UNCHANGED <<connVars, lastEx, pc, outcome, asio, timerVars, crashed>>

\* The callback locks and unlocks the mutex, and then notifies.
CallbackLock(t) ==
  /\ Running /\ stopper[t] = "lock" /\ MutexFree
  /\ stopper' = [stopper EXCEPT ![t] = "notify"]
  /\ UNCHANGED <<connVars, lastEx, pc, outcome, asio, timerVars, crashed>>

CallbackNotify(t) ==
  /\ Running /\ stopper[t] = "notify"
  /\ stopper' = [stopper EXCEPT ![t] = "done"]
  /\ pc' = WakeAll(pc)
  /\ UNCHANGED <<connVars, lastEx, outcome, asio, timerVars, crashed>>

-----------------------------------------------------------------------------
(* The end of a Speak: the connection goes back to the pool.               *)

\* connection::terminate: the state is closed at once, the handler is posted.
Terminate(c) ==
  /\ ws' = [ws EXCEPT ![c] = "closed"]
  /\ posted' = [posted EXCEPT ![c] = IF ws[c] = "closed" THEN @ ELSE "close"]

\* The turn has ended, or connectionCloser terminates the connection.
FinishUse(t) ==
  /\ Running /\ pc[t] = "using"
  /\ \E c \in Conns :
       /\ where[c] = t
       /\ Terminate(c) \/ UNCHANGED <<ws, posted>>
  /\ pc' = [pc EXCEPT ![t] = "putback"]
  /\ UNCHANGED <<where, hooked, count, lastEx, outcome, stopper, asio,
                 timerVars, crashed>>

\* Mutant: the waiters are not told.
PutBackSilently(t, c) ==
  /\ ws[c] = "open"
  /\ where' = [where EXCEPT ![c] = "pool"]
  /\ pc' = [pc EXCEPT ![t] = "idle"]
  /\ UNCHANGED <<ws, hooked, posted, count>>

\* Mutant: the state of the connection is not looked at.
PutBackUnchecked(t, c) ==
  /\ where' = [where EXCEPT ![c] = "pool"]
  /\ pc' = [WakeAll(pc) EXCEPT ![t] = "idle"]
  /\ UNCHANGED <<ws, hooked, posted, count>>

\* An open connection goes into the list and the waiters are told.
PutBackOpen(t, c) ==
  /\ ws[c] = "open"
  /\ where' = [where EXCEPT ![c] = "pool"]
  /\ pc' = [WakeAll(pc) EXCEPT ![t] = "idle"]
  /\ UNCHANGED <<ws, hooked, posted, count>>

\* Mutant: the dropped connection keeps its handlers.
DropWithHandlers(t, c) ==
  /\ ws[c] # "open"
  /\ count' = count - 1
  /\ where' = [where EXCEPT ![c] = "none"]
  /\ ws' = [ws EXCEPT ![c] = "closed"]
  /\ pc' = [pc EXCEPT ![t] = "idle"]
  /\ UNCHANGED <<hooked, posted>>

\* Any other is counted out, loses its handlers and is freed; the waiters are
\* not told.
Drop(t, c) ==
  /\ ws[c] # "open"
  /\ count' = count - 1
  /\ hooked' = hooked \ {c}
  /\ where' = [where EXCEPT ![c] = "none"]
  /\ ws' = [ws EXCEPT ![c] = "closed"]
  /\ pc' = [pc EXCEPT ![t] = "idle"]
  /\ UNCHANGED posted

\* PutBackConnection, the deleter of the shared_ptr.
PutBack(t) ==
  /\ Running /\ pc[t] = "putback" /\ MutexFree
  /\ \E c \in Conns : where[c] = t /\ (PutBackOpen(t, c) \/ Drop(t, c))
  /\ UNCHANGED <<lastEx, outcome, stopper, asio, timerVars, crashed>>

-----------------------------------------------------------------------------
(* The asio thread: websocketpp and the handlers set by                    *)
(* SetConnectionHandlers.  Events of connections without handlers change   *)
(* nothing and are left out.                                               *)

\* The handshake succeeds: the state is open before the handler is called.
HandshakeDone(c) ==
  /\ Running /\ asio = Idle /\ c \in Alive /\ ws[c] = "connecting"
  /\ ws' = [ws EXCEPT ![c] = "open"]
  /\ asio' = [at |-> "open", conn |-> c]
  /\ UNCHANGED <<where, hooked, posted, count, lastEx, takerVars, timerVars, crashed>>

\* It fails, or times out: terminate on a connecting session.
HandshakeFailed(c) ==
  /\ Running /\ asio = Idle /\ c \in Alive /\ ws[c] = "connecting"
  /\ ws' = [ws EXCEPT ![c] = "closed"]
  /\ posted' = [posted EXCEPT ![c] = "fail"]
  /\ UNCHANGED <<where, hooked, count, lastEx, takerVars, asio, timerVars, crashed>>

\* A close frame of the server arrives.
CloseFrame(c) ==
  /\ Running /\ asio = Idle /\ c \in Alive /\ ws[c] = "open"
  /\ ws' = [ws EXCEPT ![c] = "closing"]
  /\ UNCHANGED <<where, hooked, posted, count, lastEx, takerVars, asio, timerVars, crashed>>

\* The transport is lost, or the closing handshake ends or times out.
ConnectionLost(c) ==
  /\ Running /\ asio = Idle /\ c \in Alive /\ ws[c] \in {"open", "closing"}
  /\ Terminate(c)
  /\ UNCHANGED <<where, hooked, count, lastEx, takerVars, asio, timerVars, crashed>>

\* handle_terminate: the fail or the close handler is called if it is set.
HandleTerminate(c) ==
  /\ Running /\ asio = Idle /\ c \in hooked /\ posted[c] # "nothing"
  /\ asio' = [at |-> posted[c], conn |-> c]
  /\ posted' = [posted EXCEPT ![c] = "nothing"]
  /\ UNCHANGED <<ws, where, hooked, count, lastEx, takerVars, timerVars, crashed>>

OpenHandler ==
  /\ Running /\ asio.at = "open" /\ MutexFree
  /\ lastEx' = FALSE /\ pc' = WakeAll(pc) /\ asio' = Idle
  /\ UNCHANGED <<connVars, outcome, stopper, timerVars, crashed>>

FailHandler ==
  /\ Running /\ asio.at = "fail" /\ MutexFree
  /\ lastEx' = TRUE /\ Remove(asio.conn)
  /\ pc' = WakeAll(pc) /\ asio' = Idle
  /\ UNCHANGED <<ws, posted, outcome, stopper, timerVars, crashed>>

\* Mutant: the waiters are not told that a connection is gone.
CloseHandlerSilent ==
  /\ Running /\ asio.at = "close" /\ MutexFree
  /\ asio' = Idle
  /\ \/ /\ asio.conn \in Alive
        /\ lastEx' = FALSE /\ Remove(asio.conn)
        /\ UNCHANGED <<pc, crashed>>
     \/ /\ asio.conn \notin Alive
        /\ crashed' = "handler"
        /\ UNCHANGED <<where, hooked, count, lastEx, pc>>
  /\ UNCHANGED <<ws, posted, outcome, stopper, timerVars>>

\* on_close calls the user's handler without the mutex; by the time the mutex
\* is free, the wrapper the handler captured may have been freed.
CloseHandler ==
  /\ Running /\ asio.at = "close" /\ MutexFree
  /\ asio' = Idle
  /\ \/ /\ asio.conn \in Alive
        /\ lastEx' = FALSE /\ Remove(asio.conn) /\ pc' = WakeAll(pc)
        /\ UNCHANGED crashed
     \/ /\ asio.conn \notin Alive
        /\ crashed' = "handler"
        /\ UNCHANGED <<where, hooked, count, lastEx, pc>>
  /\ UNCHANGED <<ws, posted, outcome, stopper, timerVars>>

-----------------------------------------------------------------------------
(* KeepConnectionsAlive, on a timer thread.                                *)

SmallerOf(m, n) == IF m < n THEN m ELSE n
LargerOf(m, n) == IF m > n THEN m ELSE n

\* The open connections are pinged; some of them are too old, and as many of
\* these as the minimum allows are to be closed.
KeepAliveScan ==
  /\ Running /\ KeepAlive /\ MutexFree
  /\ \E old \in SUBSET OpenInPool :
       /\ expired' = Cardinality(old)
       /\ IF count > MinCount
            THEN \E S \in SUBSET old :
                   /\ Cardinality(S) = SmallerOf(count - MinCount, Cardinality(old))
                   /\ victims' = S
            ELSE victims' = {}
  /\ timer' = "closing"
  /\ UNCHANGED <<connVars, lastEx, takerVars, asio, crashed>>

\* close() throws when the connection is no longer open, and nothing between
\* here and the timer callback catches it.
KeepAliveClose(c) ==
  /\ Running /\ timer = "closing" /\ c \in victims
  /\ victims' = victims \ {c}
  /\ \/ /\ ws[c] = "open" /\ ws' = [ws EXCEPT ![c] = "closing"]
        /\ UNCHANGED crashed
     \/ /\ ws[c] # "open" /\ crashed' = "timer"
        /\ UNCHANGED ws
  /\ UNCHANGED <<where, hooked, posted, count, lastEx, takerVars, asio, timer, expired>>

\* New connections for the ones that are going away, within the limit.
KeepAliveReplenish ==
  /\ Running /\ timer = "closing" /\ victims = {}
  /\ LET target == SmallerOf(LargerOf(count - expired, MinCount) + expired, MaxCount)
     IN \E S \in Batches(target) :
          /\ CreateAll(S)
          /\ where' = [d \in Conns |-> IF d \in S THEN "pool" ELSE where[d]]
          /\ crashed' = IF Cardinality(S) = Missing(target) THEN "no" ELSE "timer"
  /\ timer' = "idle" /\ expired' = 0
  /\ UNCHANGED <<lastEx, takerVars, asio, victims>>

-----------------------------------------------------------------------------
TakerNext(t) ==
  \/ BeginTake(t) \/ Enter(t) \/ Wait(t) \/ SpuriousWakeup(t) \/ Resume(t)
  \/ Return(t) \/ FinishUse(t) \/ PutBack(t)
  \/ RequestStop(t) \/ CallbackLock(t) \/ CallbackNotify(t)

AsioNext ==
  \/ \E c \in Conns : \/ HandshakeDone(c) \/ HandshakeFailed(c) \/ CloseFrame(c)
                      \/ ConnectionLost(c) \/ HandleTerminate(c)
  \/ OpenHandler \/ FailHandler \/ CloseHandler

TimerNext ==
  KeepAliveScan \/ (\E c \in Conns : KeepAliveClose(c)) \/ KeepAliveReplenish

\* After a crash nothing moves.
Dead == ~Running /\ UNCHANGED vars

Next == (\E t \in Takers : TakerNext(t)) \/ AsioNext \/ TimerNext \/ Dead

Spec == Init /\ [][Next]_vars

\* What a thread, a callback or a connection has to do next; a thread has one
\* thing to do at a time.
TakerStep(t) == Enter(t) \/ Wait(t) \/ Resume(t) \/ Return(t) \/ FinishUse(t) \/ PutBack(t)
CallbackStep(t) == CallbackLock(t) \/ CallbackNotify(t)
ConnStep(c) == \/ HandshakeDone(c) \/ HandshakeFailed(c) \/ HandleTerminate(c)
               \/ ws[c] = "closing" /\ ConnectionLost(c)

\* Every thread that can run does; the mutex and the asio queue are strongly
\* fair; handshakes end within the timeouts of websocketpp; a Speak call gives
\* its connection back.  Nobody has to start a Speak, request a stop or close
\* a working connection.
Fairness ==
  /\ \A t \in Takers : SF_vars(TakerStep(t)) /\ SF_vars(CallbackStep(t))
  /\ \A c \in Conns : SF_vars(ConnStep(c))
  /\ SF_vars(OpenHandler \/ FailHandler \/ CloseHandler)
  /\ WF_vars(KeepAliveReplenish \/ \E c \in Conns : KeepAliveClose(c))

FairSpec == Spec /\ Fairness

-----------------------------------------------------------------------------
TypeOK ==
  /\ ws \in [Conns -> {"connecting", "open", "closing", "closed"}]
  /\ where \in [Conns -> {"none", "pool"} \cup Takers]
  /\ hooked \subseteq Conns
  /\ posted \in [Conns -> {"nothing", "fail", "close"}]
  /\ count \in Nat /\ lastEx \in BOOLEAN
  /\ pc \in [Takers -> TakerPC]
  /\ outcome \in [Takers -> {"none", "conn", "stopped", "failed"}]
  /\ stopper \in [Takers -> {"idle", "lock", "notify", "done"}]
  /\ asio \in [at : {"idle", "open", "fail", "close"}, conn : Conns \cup {NoConn}]
  /\ timer \in {"idle", "closing"} /\ victims \subseteq Conns /\ expired \in Nat
  /\ crashed \in {"no", "handler", "timer", "relock"}

\* info.count is the number of connections that exist for the host, in the
\* list or handed out, although it is maintained in five different places.
CountExact == count = Cardinality(Alive)

\* The pool never holds more connections to a host than its limit.
CountBounded == count <= MaxCount

\* A handler that can still be called captures a wrapper that still exists
\* ("reset handlers to prevent them being called after free").
HandlersAlive == hooked \subseteq Alive

\* Nobody sleeps past a usable connection: while a taker waits, an open
\* connection in the list is one whose open handler is about to notify.
NoSleepPastOpen ==
  \A t \in Takers : pc[t] = "blocked" /\ Running =>
    \A c \in OpenInPool : asio = [at |-> "open", conn |-> c]

\* With no more takers than connections allowed, a notification is on its way
\* to every waiting taker: from a handler that is running, or from the fate of
\* a connection in the list.
WaiterWillBeWoken ==
  \A t \in Takers : pc[t] = "blocked" /\ Running =>
    \/ asio.at # "idle"
    \/ \E c \in Pool \cap hooked : \/ ws[c] \in {"connecting", "closing"}
                                   \/ posted[c] # "nothing"

\* A stop request is never slept through, even by a taker nobody else is going
\* to wake: its callback is still to come.
StopWakesWaiter ==
  \A t \in Takers : pc[t] = "blocked" /\ StopRequested(t) =>
    stopper[t] \in {"lock", "notify"}

\* A connection that has closed while in the list is found out: it does not
\* stay there taking up one of the MaxCount places.
DeadConnectionLeaves ==
  \A c \in Conns :
    (where[c] = "pool" /\ ws[c] = "closed") ~> (where[c] # "pool" \/ ~Running)

\* A thread that waits for a connection gets one, an exception or its stop.
WaiterReturns ==
  \A t \in Takers : (pc[t] = "blocked") ~> (pc[t] # "blocked" \/ ~Running)

\* The handlers only run on wrappers that exist (WSConnectionPool.cpp:314).
NoHandlerAfterFree == crashed # "handler"

\* TakeConnection takes the first usable connection and waits only if there
\* is none (WSConnectionPool.cpp:165): it does not fail past an open one.
FailsOnlyWithoutConnection ==
  [][\A t \in Takers :
       (pc[t] = "woken" /\ pc'[t] = "unregister" /\ outcome'[t] = "failed" /\ UNCHANGED ws)
         => OpenInPool = {}]_vars
=============================================================================
