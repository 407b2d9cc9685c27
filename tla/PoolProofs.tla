----------------------------- MODULE PoolProofs -----------------------------
(***************************************************************************)
(* For every set of takers, every finite set of connections and all limits *)
(* MinCount <= MaxCount: info.count is exact and within its limit, handlers*)
(* that can still be called have their wrappers, no taker sleeps past an   *)
(* open connection, and none sleeps through its stop request.              *)
(***************************************************************************)
EXTENDS WSConnectionPool, FiniteSetTheorems, TLAPS

\* A handler that is running belongs to a connection.
AsioHasConn == asio.at # "idle" => asio.conn \in Conns

CountInv == TypeOK /\ AsioHasConn /\ CountExact /\ CountBounded /\ HandlersAlive

-----------------------------------------------------------------------------
(* Counting.                                                               *)

LEMMA AliveFinite == IsFiniteSet(Alive) /\ Cardinality(Alive) \in Nat
<1>1. Alive \in SUBSET Conns
  BY DEF Alive
<1>2. IsFiniteSet(Alive)
  BY <1>1, PoolAssumption, FS_Subset
<1> QED
  BY <1>2, FS_CardinalityType

\* A batch is disjoint from what there is, and keeps within its target.
LEMMA BatchCounts ==
  ASSUME TypeOK, CountExact, CountBounded,
         NEW target \in Nat, target <= MaxCount, NEW S \in Batches(target)
  PROVE  /\ S \subseteq Conns /\ S \cap Alive = {}
         /\ Cardinality(S) \in Nat
         /\ Cardinality(Alive \cup S) = count + Cardinality(S)
         /\ count + Cardinality(S) <= MaxCount
<1>1. S \subseteq Conns /\ S \cap Alive = {}
  BY DEF Batches, Fresh, Alive
<1>2. IsFiniteSet(S) /\ Cardinality(S) \in Nat
  BY <1>1, PoolAssumption, FS_Subset, FS_CardinalityType
<1>3. Alive \cap S = {} /\ Cardinality({}) = 0
  BY <1>1, FS_EmptySet
<1>4. Cardinality(Alive \cup S) = Cardinality(Alive) + Cardinality(S) - Cardinality(Alive \cap S)
  BY <1>2, AliveFinite, FS_Union
<1>5. Cardinality(Alive \cup S) = count + Cardinality(S)
  <2>1. Cardinality(Alive) = count /\ Cardinality(Alive) \in Nat
    BY AliveFinite DEF CountExact
  <2>2. Cardinality(Alive \cup S) = Cardinality(Alive) + Cardinality(S) - 0
    BY <1>3, <1>4
  <2> QED
    BY <1>2, <2>1, <2>2
<1>6. Cardinality(S) <= Missing(target) /\ count \in Nat /\ count <= MaxCount
  BY DEF Batches, TypeOK, CountBounded
<1>7. count + Cardinality(S) <= MaxCount
  BY <1>2, <1>6, PoolAssumption DEF Missing
<1> QED
  BY <1>1, <1>2, <1>5, <1>7

\* What creating a batch does to the connections, whoever takes one of them.
ConnTypes ==
  /\ ws \in [Conns -> {"connecting", "open", "closing", "closed"}]
  /\ where \in [Conns -> {"none", "pool"} \cup Takers]
  /\ hooked \subseteq Conns
  /\ posted \in [Conns -> {"nothing", "fail", "close"}]
  /\ count \in Nat

ConnInv == ConnTypes /\ CountExact /\ CountBounded /\ HandlersAlive

LEMMA CreatePreserves ==
  ASSUME CountInv, NEW target \in Nat, target <= MaxCount, NEW S \in Batches(target),
         CreateAll(S), where' \in [Conns -> {"none", "pool"} \cup Takers],
         Alive' = Alive \cup S
  PROVE  ConnInv'
<1>1. /\ S \subseteq Conns /\ Cardinality(S) \in Nat
      /\ Cardinality(Alive \cup S) = count + Cardinality(S)
      /\ count + Cardinality(S) <= MaxCount
  BY BatchCounts DEF CountInv
<1>2. count \in Nat
  BY DEF CountInv, TypeOK
<1>3. ConnTypes'
  BY <1>1, <1>2 DEF CountInv, TypeOK, CreateAll, ConnTypes
<1>4. CountExact' /\ CountBounded'
  BY <1>1 DEF CreateAll, CountExact, CountBounded
<1>5. HandlersAlive'
  BY DEF CountInv, HandlersAlive, CreateAll
<1> QED
  BY <1>3, <1>4, <1>5 DEF ConnInv

\* One connection fewer.
LEMMA DropPreserves ==
  ASSUME CountInv, NEW c \in Conns, where[c] # "none",
         where' = [where EXCEPT ![c] = "none"], count' = count - 1,
         hooked' = hooked \ {c}, UNCHANGED posted,
         ws' \in [Conns -> {"connecting", "open", "closing", "closed"}]
  PROVE  ConnInv'
<1>1. c \in Alive /\ Alive' = Alive \ {c}
  BY DEF Alive, CountInv, TypeOK
<1>2. Cardinality(Alive') = Cardinality(Alive) - 1
  BY <1>1, AliveFinite, FS_RemoveElement
<1>3. IsFiniteSet(Alive') /\ Cardinality(Alive') \in Nat
  BY <1>1, AliveFinite, FS_RemoveElement, FS_CardinalityType
<1>4. CountExact' /\ count' \in Nat
  BY <1>2, <1>3 DEF CountInv, CountExact
<1>5. CountBounded'
  BY <1>4, PoolAssumption DEF CountInv, CountBounded, TypeOK
<1>6. HandlersAlive'
  BY <1>1 DEF CountInv, HandlersAlive
<1>7. ConnTypes'
  BY <1>4 DEF CountInv, TypeOK, ConnTypes
<1> QED
  BY <1>4, <1>5, <1>6, <1>7 DEF ConnInv

LEMMA RemovePreserves ==
  ASSUME CountInv, NEW c \in Conns, Remove(c), UNCHANGED <<ws, posted>>
  PROVE  ConnInv'
<1>1. CASE where[c] = "pool"
  BY <1>1, DropPreserves DEF Remove, CountInv, TypeOK
<1>2. CASE where[c] # "pool"
  <2>1. Alive' = Alive /\ UNCHANGED <<where, count>> /\ hooked' = hooked \ {c}
    BY <1>2 DEF Remove, Alive
  <2> QED
    BY <2>1 DEF CountInv, ConnInv, ConnTypes, TypeOK, CountExact, CountBounded, HandlersAlive
<1> QED
  BY <1>1, <1>2

\* Where no connection is created, freed or loses its handlers.
LEMMA SamePreserves ==
  ASSUME CountInv, Alive' = Alive, UNCHANGED <<hooked, count>>,
         where' \in [Conns -> {"none", "pool"} \cup Takers],
         ws' \in [Conns -> {"connecting", "open", "closing", "closed"}],
         posted' \in [Conns -> {"nothing", "fail", "close"}]
  PROVE  ConnInv'
BY DEF CountInv, ConnInv, ConnTypes, TypeOK, CountExact, CountBounded, HandlersAlive

-----------------------------------------------------------------------------
(* The rest of the variables.                                              *)

OtherTypes ==
  /\ lastEx \in BOOLEAN
  /\ pc \in [Takers -> TakerPC]
  /\ outcome \in [Takers -> {"none", "conn", "stopped", "failed"}]
  /\ stopper \in [Takers -> {"idle", "lock", "notify", "done"}]
  /\ asio \in [at : {"idle", "open", "fail", "close"}, conn : Conns \cup {NoConn}]
  /\ timer \in {"idle", "closing"} /\ victims \subseteq Conns /\ expired \in Nat
  /\ crashed \in {"no", "handler", "timer", "relock"}
  /\ AsioHasConn

LEMMA Split == CountInv <=> ConnInv /\ OtherTypes
BY DEF CountInv, ConnInv, ConnTypes, OtherTypes, TypeOK

LEMMA Join == ConnInv' /\ OtherTypes' => CountInv'
BY DEF CountInv, ConnInv, ConnTypes, OtherTypes, TypeOK, AsioHasConn, CountExact,
       CountBounded, HandlersAlive

LEMMA InitCountInv == Init => CountInv
<1> SUFFICES ASSUME Init PROVE CountInv
  OBVIOUS
<1>1. Alive = {} /\ Cardinality({}) = 0
  BY FS_EmptySet DEF Init, Alive
<1>2. TypeOK /\ AsioHasConn
  BY DEF Init, TypeOK, AsioHasConn, Idle, TakerPC
<1>3. CountExact
  BY <1>1 DEF Init, CountExact
<1>4. CountBounded /\ HandlersAlive
  BY PoolAssumption DEF Init, CountBounded, HandlersAlive
<1> QED
  BY <1>2, <1>3, <1>4 DEF CountInv

\* The two ways a look at the list ends.
LEMMA ScanPreserves ==
  ASSUME CountInv, NEW t \in Takers, ScanFound(t) \/ ScanNone(t)
  PROVE  /\ ConnInv'
         /\ pc' \in [Takers -> TakerPC]
         /\ outcome' \in [Takers -> {"none", "conn", "stopped", "failed"}]
         /\ crashed' \in {crashed, "no", "relock"}
<1>1. MinCount \in Nat /\ MinCount <= MaxCount
  BY PoolAssumption
<1>2. ExtraCount \in Nat /\ ExtraCount <= MaxCount
  BY PoolAssumption DEF ExtraCount, CountInv, TypeOK
<1>3. /\ where \in [Conns -> {"none", "pool"} \cup Takers] /\ pc \in [Takers -> TakerPC]
      /\ outcome \in [Takers -> {"none", "conn", "stopped", "failed"}]
  BY DEF CountInv, TypeOK
<1>4. CASE ScanFound(t)
  <2>1. PICK c \in OpenInPool, S \in Batches(MinCount) :
          /\ CreateAll(S)
          /\ \/ /\ where' = [d \in Conns |-> IF d = c THEN t
                                           ELSE IF d \in S THEN "pool" ELSE where[d]]
                /\ Leave(t, "conn") /\ UNCHANGED crashed
             \/ /\ where' = [d \in Conns |-> IF d \in S THEN "pool" ELSE where[d]]
                /\ pc' = [WakeAll(pc) EXCEPT ![t] = "unregister"]
                /\ outcome' = [outcome EXCEPT ![t] = "failed"]
                /\ crashed' \in {"no", "relock"}
    BY <1>4 DEF ScanFound
  <2>2. where' \in [Conns -> {"none", "pool"} \cup Takers]
    BY <1>3, <2>1
  <2>3. S \subseteq Conns /\ c \in Alive /\ t # "none"
    BY PoolAssumption DEF Batches, Fresh, OpenInPool, Pool, Alive
  <2>4. Alive' = Alive \cup S
    BY <1>3, <2>1, <2>3 DEF Alive
  <2>5. ConnInv'
    BY <1>1, <2>1, <2>2, <2>4, CreatePreserves
  <2> QED
    BY <1>3, <2>1, <2>5 DEF Leave, WakeAll, TakerPC
<1>5. CASE ScanNone(t)
  <2>1. PICK S \in Batches(ExtraCount) :
          /\ CreateAll(S)
          /\ where' = [d \in Conns |-> IF d \in S THEN "pool" ELSE where[d]]
          /\ \/ pc' = [pc EXCEPT ![t] = "scanned"] /\ UNCHANGED outcome
             \/ Leave(t, "failed")
          /\ UNCHANGED crashed
    BY <1>5 DEF ScanNone
  <2>2. where' \in [Conns -> {"none", "pool"} \cup Takers]
    BY <1>3, <2>1
  <2>3. S \subseteq Conns
    BY DEF Batches, Fresh
  <2>4. Alive' = Alive \cup S
    BY <1>3, <2>1, <2>3 DEF Alive
  <2>5. ConnInv'
    BY <1>2, <2>1, <2>2, <2>4, CreatePreserves
  <2> QED
    BY <1>3, <2>1, <2>5 DEF Leave, TakerPC
<1> QED
  BY <1>4, <1>5

\* Actions that leave the connections and their handlers as they are.
LEMMA QuietPreserves == ASSUME CountInv, UNCHANGED connVars PROVE ConnInv'
<1>1. Alive' = Alive
  BY DEF Alive, connVars
<1> QED
  BY <1>1, SamePreserves DEF connVars, CountInv, TypeOK

\* Actions that change sessions or posted events only.
LEMMA SessionPreserves ==
  ASSUME CountInv, UNCHANGED <<where, hooked, count>>,
         ws' \in [Conns -> {"connecting", "open", "closing", "closed"}],
         posted' \in [Conns -> {"nothing", "fail", "close"}]
  PROVE  ConnInv'
<1>1. Alive' = Alive
  BY DEF Alive
<1> QED
  BY <1>1, SamePreserves DEF CountInv, TypeOK

\* A taker's step preserves the invariant.
LEMMA TakerCountInv ==
  ASSUME CountInv, NEW t \in Takers, TakerNext(t)
  PROVE  CountInv'
<1>0. ConnTypes /\ OtherTypes
  BY Split DEF ConnInv
<1> USE <1>0
<1>1. CASE BeginTake(t)
  BY <1>1, QuietPreserves, Join
  DEF BeginTake, OtherTypes, timerVars, WakeAll, TakerPC, AsioHasConn
<1>2. CASE Enter(t)
  <2>1. CASE ScanFound(t) \/ ScanNone(t)
    BY <1>2, <2>1, ScanPreserves, Join DEF Enter, OtherTypes, timerVars, AsioHasConn
  <2>2. CASE Leave(t, "stopped") /\ UNCHANGED <<connVars, crashed>>
    BY <1>2, <2>2, QuietPreserves, Join
    DEF Enter, Leave, OtherTypes, timerVars, TakerPC, AsioHasConn
  <2> QED
    BY <1>2, <2>1, <2>2 DEF Enter
<1>3. CASE Wait(t) \/ SpuriousWakeup(t) \/ Return(t)
  BY <1>3, QuietPreserves, Join
  DEF Wait, SpuriousWakeup, Return, OtherTypes, timerVars, TakerPC, AsioHasConn
<1>4. CASE Resume(t)
  <2>1. CASE ScanFound(t) \/ ScanNone(t)
    BY <1>4, <2>1, ScanPreserves, Join DEF Resume, OtherTypes, timerVars, AsioHasConn
  <2>2. CASE (Leave(t, "stopped") \/ Leave(t, "failed")) /\ UNCHANGED <<connVars, crashed>>
    BY <1>4, <2>2, QuietPreserves, Join
    DEF Resume, Leave, OtherTypes, timerVars, TakerPC, AsioHasConn
  <2> QED
    BY <1>4, <2>1, <2>2 DEF Resume
<1>5. CASE FinishUse(t)
  <2>1. /\ ws' \in [Conns -> {"connecting", "open", "closing", "closed"}]
        /\ posted' \in [Conns -> {"nothing", "fail", "close"}]
    BY <1>5 DEF FinishUse, Terminate, ConnTypes
  <2> QED
    BY <1>5, <2>1, SessionPreserves, Join
    DEF FinishUse, OtherTypes, timerVars, TakerPC, AsioHasConn
<1>6. CASE PutBack(t)
  <2>1. PICK c \in Conns : where[c] = t /\ (PutBackOpen(t, c) \/ Drop(t, c))
    BY <1>6 DEF PutBack
  <2>2. t # "none"
    BY PoolAssumption
  <2>3. CASE PutBackOpen(t, c)
    <3>1. /\ Alive' = Alive
          /\ where' \in [Conns -> {"none", "pool"} \cup Takers]
      BY <2>1, <2>2, <2>3 DEF PutBackOpen, Alive, ConnTypes
    <3>2. ConnInv'
      BY <2>3, <3>1, SamePreserves DEF PutBackOpen, ConnTypes
    <3> QED
      BY <1>6, <2>3, <3>2, Join
      DEF PutBack, PutBackOpen, WakeAll, OtherTypes, timerVars, TakerPC, AsioHasConn
  <2>4. CASE Drop(t, c)
    <3>1. ConnInv'
      BY <2>1, <2>2, <2>4, DropPreserves DEF Drop, ConnTypes
    <3> QED
      BY <1>6, <2>4, <3>1, Join
      DEF PutBack, Drop, OtherTypes, timerVars, TakerPC, AsioHasConn
  <2> QED
    BY <2>1, <2>3, <2>4
<1>7. CASE RequestStop(t) \/ CallbackLock(t) \/ CallbackNotify(t)
  BY <1>7, QuietPreserves, Join
  DEF RequestStop, CallbackLock, CallbackNotify, WakeAll, OtherTypes, timerVars, TakerPC,
      AsioHasConn
<1> QED
  BY <1>1, <1>2, <1>3, <1>4, <1>5, <1>6, <1>7 DEF TakerNext

\* A step of the asio thread does.
LEMMA AsioCountInv ==
  ASSUME CountInv, AsioNext
  PROVE  CountInv'
<1>0. ConnTypes /\ OtherTypes /\ NoConn \notin Conns
  BY Split, PoolAssumption DEF ConnInv
<1> USE <1>0
<1>1. ASSUME NEW c \in Conns, HandshakeDone(c) PROVE CountInv'
  BY <1>1, SessionPreserves, Join
  DEF HandshakeDone, ConnTypes, OtherTypes, takerVars, timerVars, AsioHasConn
<1>2. ASSUME NEW c \in Conns, HandshakeFailed(c) \/ CloseFrame(c) \/ ConnectionLost(c)
      PROVE  CountInv'
  <2>1. /\ ws' \in [Conns -> {"connecting", "open", "closing", "closed"}]
        /\ posted' \in [Conns -> {"nothing", "fail", "close"}]
    BY <1>2 DEF HandshakeFailed, CloseFrame, ConnectionLost, Terminate, ConnTypes
  <2> QED
    BY <1>2, <2>1, SessionPreserves, Join
    DEF HandshakeFailed, CloseFrame, ConnectionLost, OtherTypes, takerVars, timerVars,
        AsioHasConn
<1>3. ASSUME NEW c \in Conns, HandleTerminate(c) PROVE CountInv'
  BY <1>3, SessionPreserves, Join
  DEF HandleTerminate, ConnTypes, OtherTypes, takerVars, timerVars, AsioHasConn
<1>4. CASE OpenHandler
  BY <1>4, QuietPreserves, Join
  DEF OpenHandler, WakeAll, OtherTypes, timerVars, TakerPC, AsioHasConn, Idle
<1>5. CASE FailHandler
  <2>1. asio.conn \in Conns /\ asio'.at = "idle"
    BY <1>5 DEF FailHandler, OtherTypes, AsioHasConn, Idle
  <2>2. ConnInv'
    BY <1>5, <2>1, RemovePreserves DEF FailHandler
  <2> QED
    BY <1>5, <2>1, <2>2, Join
    DEF FailHandler, WakeAll, OtherTypes, timerVars, TakerPC, AsioHasConn, Idle
<1>6. CASE CloseHandler
  <2>1. asio.conn \in Conns /\ asio'.at = "idle"
    BY <1>6 DEF CloseHandler, OtherTypes, AsioHasConn, Idle
  <2>2. ConnInv'
    BY <1>6, <2>1, RemovePreserves, QuietPreserves DEF CloseHandler, connVars
  <2> QED
    BY <1>6, <2>1, <2>2, Join
    DEF CloseHandler, WakeAll, OtherTypes, timerVars, TakerPC, AsioHasConn, Idle
<1> QED
  BY <1>1, <1>2, <1>3, <1>4, <1>5, <1>6 DEF AsioNext

\* And so does a step of the keep-alive timer.
LEMMA TimerCountInv ==
  ASSUME CountInv, TimerNext
  PROVE  CountInv'
<1>0. ConnTypes /\ OtherTypes
  BY Split DEF ConnInv
<1> USE <1>0
<1>1. CASE KeepAliveScan
  <2>1. PICK old \in SUBSET OpenInPool :
          /\ expired' = Cardinality(old)
          /\ victims' \subseteq old
    BY <1>1 DEF KeepAliveScan
  <2>2. old \subseteq Conns
    BY DEF OpenInPool, Pool
  <2>3. Cardinality(old) \in Nat
    BY <2>2, PoolAssumption, FS_Subset, FS_CardinalityType
  <2> QED
    BY <1>1, <2>1, <2>2, <2>3, QuietPreserves, Join
    DEF KeepAliveScan, OtherTypes, takerVars, AsioHasConn
<1>2. ASSUME NEW c \in Conns, KeepAliveClose(c) PROVE CountInv'
  BY <1>2, SessionPreserves, Join
  DEF KeepAliveClose, ConnTypes, OtherTypes, takerVars, AsioHasConn
<1>3. CASE KeepAliveReplenish
  <2> DEFINE target == SmallerOf(LargerOf(count - expired, MinCount) + expired, MaxCount)
  <2>1. target \in Nat /\ target <= MaxCount
    BY PoolAssumption DEF SmallerOf, LargerOf, ConnTypes, OtherTypes
  <2>2. PICK S \in Batches(target) :
          /\ CreateAll(S)
          /\ where' = [d \in Conns |-> IF d \in S THEN "pool" ELSE where[d]]
          /\ crashed' \in {"no", "timer"}
    BY <1>3 DEF KeepAliveReplenish
  <2>3. where' \in [Conns -> {"none", "pool"} \cup Takers]
    BY <2>2 DEF ConnTypes
  <2>4. Alive' = Alive \cup S
    BY <2>2 DEF Alive, ConnTypes, Batches, Fresh
  <2>5. ConnInv'
    BY <2>1, <2>2, <2>3, <2>4, CreatePreserves
  <2> QED
    BY <1>3, <2>2, <2>5, Join DEF KeepAliveReplenish, OtherTypes, takerVars, AsioHasConn
<1> QED
  BY <1>1, <1>2, <1>3 DEF TimerNext

LEMMA StutterCountInv == ASSUME CountInv, UNCHANGED vars PROVE CountInv'
BY QuietPreserves, Split, Join
DEF vars, connVars, takerVars, timerVars, OtherTypes, AsioHasConn

LEMMA CountInvariance == Spec => []CountInv
<1>1. CountInv /\ [Next]_vars => CountInv'
  BY TakerCountInv, AsioCountInv, TimerCountInv, StutterCountInv DEF Next, Dead
<1> QED
  BY <1>1, InitCountInv, PTL DEF Spec

-----------------------------------------------------------------------------
\* Every variable keeps its type; above all info.count, an unsigned number in
\* the code, is never decremented below zero (WSConnectionPool.cpp:239, 378).
THEOREM TypeCorrect == Spec => []TypeOK
<1>1. CountInv => TypeOK
  BY DEF CountInv
<1> QED
  BY <1>1, CountInvariance, PTL

\* info.count is the number of connections that exist, through every creation,
\* drop, removal and failed creation.
THEOREM CountIsExact == Spec => []CountExact
<1>1. CountInv => CountExact
  BY DEF CountInv
<1> QED
  BY <1>1, CountInvariance, PTL

\* There are never more than m_maxCount connections to a host.
THEOREM CountIsBounded == Spec => []CountBounded
<1>1. CountInv => CountBounded
  BY DEF CountInv
<1> QED
  BY <1>1, CountInvariance, PTL

\* No handler that is still set outlives the wrapper it captures.
THEOREM HandlerSafety == Spec => []HandlersAlive
<1>1. CountInv => HandlersAlive
  BY DEF CountInv
<1> QED
  BY <1>1, CountInvariance, PTL

-----------------------------------------------------------------------------
(* Waiting.  A taker that has looked at the list in vain, and then waits,  *)
(* can miss neither an open connection nor its stop request.               *)

WaitInv ==
  \A t \in Takers : pc[t] \in {"scanned", "blocked"} /\ Running =>
    \A c \in OpenInPool : asio = [at |-> "open", conn |-> c]

StopInv ==
  \A t \in Takers : StopRequested(t) =>
    /\ pc[t] = "scanned" => stopper[t] = "lock"
    /\ pc[t] = "blocked" => stopper[t] \in {"lock", "notify"}

\* When all the waiters are woken and nobody holds the mutex, there is nobody
\* left to miss anything.
LEMMA AllAwake ==
  ASSUME TypeOK, MutexFree,
         \A t \in Takers : pc'[t] \notin {"scanned", "blocked"}
  PROVE  WaitInv' /\ StopInv'
BY DEF WaitInv, StopInv

\* After a look at the list.
LEMMA ScanWait ==
  ASSUME TypeOK, WaitInv, StopInv, MutexFree, Running, NEW t \in Takers,
         pc[t] \in {"lock", "woken"}, ~StopRequested(t),
         ScanFound(t) \/ ScanNone(t), UNCHANGED <<asio, stopper>>
  PROVE  WaitInv' /\ StopInv'
<1>1. CASE ScanFound(t)
  <2>1. PICK c \in OpenInPool, S \in Batches(MinCount) :
          /\ CreateAll(S)
          /\ \/ /\ where' = [d \in Conns |-> IF d = c THEN t
                                           ELSE IF d \in S THEN "pool" ELSE where[d]]
                /\ Leave(t, "conn") /\ UNCHANGED crashed
             \/ pc' = [WakeAll(pc) EXCEPT ![t] = "unregister"]
    BY <1>1 DEF ScanFound
  <2>2. CASE pc' = [WakeAll(pc) EXCEPT ![t] = "unregister"]
    BY <2>2, AllAwake DEF WakeAll, MutexFree, TypeOK
  <2>3. CASE /\ where' = [d \in Conns |-> IF d = c THEN t
                                        ELSE IF d \in S THEN "pool" ELSE where[d]]
             /\ Leave(t, "conn") /\ UNCHANGED crashed
    <3>1. t # "pool"
      BY PoolAssumption
    <3>2. S \subseteq Conns
      BY DEF Batches, Fresh
    <3>3. OpenInPool' \subseteq OpenInPool
      BY <2>1, <2>3, <3>1, <3>2 DEF OpenInPool, Pool, CreateAll
    <3>4. \A u \in Takers : pc'[u] \in {"scanned", "blocked"} => pc'[u] = pc[u]
      BY <2>3 DEF Leave, TypeOK
    <3> QED
      BY <2>3, <3>3, <3>4 DEF WaitInv, StopInv, StopRequested, Running
  <2> QED
    BY <2>1, <2>2, <2>3
<1>2. CASE ScanNone(t)
  <2>1. PICK S \in Batches(ExtraCount) :
          /\ CreateAll(S)
          /\ where' = [d \in Conns |-> IF d \in S THEN "pool" ELSE where[d]]
          /\ pc' = [pc EXCEPT ![t] = "scanned"] \/ Leave(t, "failed")
    BY <1>2 DEF ScanNone
  <2>2. S \subseteq Conns
    BY DEF Batches, Fresh
  <2>3. OpenInPool' = {}
    BY <1>2, <2>1, <2>2 DEF ScanNone, OpenInPool, Pool, CreateAll
  <2>4. \A u \in Takers : u # t => pc'[u] = pc[u]
    BY <2>1 DEF Leave, TypeOK
  <2>5. StopInv'
    BY <2>1, <2>4 DEF StopInv, StopRequested, Leave, TypeOK
  <2> QED
    BY <2>3, <2>5 DEF WaitInv
<1> QED
  BY <1>1, <1>2

LEMMA TakerWait ==
  ASSUME TypeOK, WaitInv, StopInv, NEW t \in Takers, TakerNext(t)
  PROVE  WaitInv' /\ StopInv'
<1>0. pc \in [Takers -> TakerPC] /\ stopper \in [Takers -> {"idle", "lock", "notify", "done"}]
  BY DEF TypeOK
<1>1. CASE BeginTake(t)
  <2>1. \A u \in Takers : /\ pc'[u] \in {"scanned", "blocked"} => pc'[u] = pc[u]
                          /\ u # t => stopper'[u] = stopper[u]
    BY <1>0, <1>1 DEF BeginTake, WakeAll
  <2>2. pc'[t] = "lock"
    BY <1>0, <1>1 DEF BeginTake, WakeAll
  <2>3. UNCHANGED <<ws, where, asio, crashed>>
    BY <1>1 DEF BeginTake, connVars
  <2> QED
    BY <2>1, <2>2, <2>3 DEF WaitInv, StopInv, StopRequested, OpenInPool, Pool, Running
<1>2. CASE Enter(t) \/ Resume(t)
  <2>1. CASE ScanFound(t) \/ ScanNone(t)
    <3>1. MutexFree /\ Running /\ pc[t] \in {"lock", "woken"} /\ UNCHANGED <<asio, stopper>>
      BY <1>2 DEF Enter, Resume
    <3>2. CASE ~StopRequested(t)
      BY <2>1, <3>1, <3>2, ScanWait
    <3>3. CASE StopRequested(t)
      <4>1. Leave(t, "stopped") /\ UNCHANGED <<connVars, crashed>>
        BY <1>2, <3>3 DEF Enter, Resume
      <4> QED
        BY <1>0, <3>1, <4>1
        DEF Leave, connVars, WaitInv, StopInv, StopRequested, OpenInPool, Pool, Running
    <3> QED
      BY <3>2, <3>3
  <2>2. CASE (Leave(t, "stopped") \/ Leave(t, "failed")) /\ UNCHANGED <<connVars, crashed>>
    <3>1. UNCHANGED <<asio, stopper>>
      BY <1>2 DEF Enter, Resume
    <3> QED
      BY <1>0, <2>2, <3>1
      DEF Leave, connVars, WaitInv, StopInv, StopRequested, OpenInPool, Pool, Running
  <2> QED
    BY <1>2, <2>1, <2>2 DEF Enter, Resume
<1>3. CASE Wait(t) \/ SpuriousWakeup(t) \/ Return(t)
  BY <1>0, <1>3
  DEF Wait, SpuriousWakeup, Return, connVars, WaitInv, StopInv, StopRequested, OpenInPool,
      Pool, Running
<1>4. CASE FinishUse(t)
  <2>1. PICK c \in Conns : where[c] = t /\ (Terminate(c) \/ UNCHANGED <<ws, posted>>)
    BY <1>4 DEF FinishUse
  <2>2. OpenInPool' \subseteq OpenInPool
    BY <1>4, <2>1 DEF FinishUse, Terminate, OpenInPool, Pool, TypeOK
  <2> QED
    BY <1>0, <1>4, <2>2 DEF FinishUse, WaitInv, StopInv, StopRequested, Running
<1>5. CASE PutBack(t)
  <2>1. PICK c \in Conns : where[c] = t /\ (PutBackOpen(t, c) \/ Drop(t, c))
    BY <1>5 DEF PutBack
  <2>2. CASE PutBackOpen(t, c)
    BY <1>0, <1>5, <2>2, AllAwake DEF PutBack, PutBackOpen, WakeAll, MutexFree
  <2>3. CASE Drop(t, c)
    <3>1. OpenInPool' \subseteq OpenInPool
      BY <2>3 DEF Drop, OpenInPool, Pool, TypeOK
    <3> QED
      BY <1>0, <1>5, <2>3, <3>1 DEF PutBack, Drop, WaitInv, StopInv, StopRequested, Running
  <2> QED
    BY <2>1, <2>2, <2>3
<1>6. CASE RequestStop(t) \/ CallbackLock(t)
  BY <1>0, <1>6
  DEF RequestStop, CallbackLock, MutexFree, connVars, WaitInv, StopInv, StopRequested,
      OpenInPool, Pool, Running
<1>7. CASE CallbackNotify(t)
  <2>1. \A u \in Takers : pc'[u] = "scanned" => pc[u] = "scanned"
    BY <1>0, <1>7 DEF CallbackNotify, WakeAll
  <2>2. \A u \in Takers : pc'[u] # "blocked"
    BY <1>0, <1>7 DEF CallbackNotify, WakeAll
  <2>3. pc[t] # "scanned"
    BY <1>7 DEF CallbackNotify, StopInv, StopRequested
  <2> QED
    BY <1>0, <1>7, <2>1, <2>2, <2>3
    DEF CallbackNotify, connVars, WaitInv, StopInv, StopRequested, OpenInPool, Pool, Running
<1> QED
  BY <1>1, <1>2, <1>3, <1>4, <1>5, <1>6, <1>7 DEF TakerNext

LEMMA AsioWait ==
  ASSUME TypeOK, WaitInv, StopInv, AsioNext
  PROVE  WaitInv' /\ StopInv'
<1>0. pc \in [Takers -> TakerPC]
  BY DEF TypeOK
<1>1. ASSUME NEW c \in Conns, HandshakeDone(c) PROVE WaitInv' /\ StopInv'
  <2>1. \A d \in OpenInPool' : d = c \/ d \in OpenInPool
    BY <1>1 DEF HandshakeDone, OpenInPool, Pool, TypeOK
  <2>2. \A d \in OpenInPool : asio # [at |-> "open", conn |-> d]
    BY <1>1 DEF HandshakeDone, Idle
  <2> QED
    BY <1>1, <2>1, <2>2 DEF HandshakeDone, takerVars, WaitInv, StopInv, StopRequested, Running
<1>2. ASSUME NEW c \in Conns, HandshakeFailed(c) \/ CloseFrame(c) \/ ConnectionLost(c)
      PROVE  WaitInv' /\ StopInv'
  <2>1. OpenInPool' \subseteq OpenInPool
    BY <1>2 DEF HandshakeFailed, CloseFrame, ConnectionLost, Terminate, OpenInPool, Pool, TypeOK
  <2> QED
    BY <1>2, <2>1
    DEF HandshakeFailed, CloseFrame, ConnectionLost, takerVars, WaitInv, StopInv,
        StopRequested, Running
<1>3. ASSUME NEW c \in Conns, HandleTerminate(c) PROVE WaitInv' /\ StopInv'
  <2>1. \A d \in OpenInPool : asio # [at |-> "open", conn |-> d]
    BY <1>3 DEF HandleTerminate, Idle
  <2> QED
    BY <1>3, <2>1
    DEF HandleTerminate, takerVars, WaitInv, StopInv, StopRequested, OpenInPool, Pool, Running
<1>4. CASE OpenHandler \/ FailHandler
  BY <1>0, <1>4, AllAwake DEF OpenHandler, FailHandler, WakeAll, MutexFree
<1>5. CASE CloseHandler
  <2>1. CASE pc' = WakeAll(pc)
    BY <1>0, <1>5, <2>1, AllAwake DEF CloseHandler, WakeAll, MutexFree
  <2>2. CASE crashed' = "handler" /\ UNCHANGED <<pc, stopper>>
    BY <2>2 DEF WaitInv, StopInv, StopRequested, Running
  <2> QED
    BY <1>5, <2>1, <2>2 DEF CloseHandler
<1> QED
  BY <1>1, <1>2, <1>3, <1>4, <1>5 DEF AsioNext

LEMMA TimerWait ==
  ASSUME TypeOK, WaitInv, StopInv, TimerNext
  PROVE  WaitInv' /\ StopInv'
<1>1. OpenInPool' \subseteq OpenInPool
  <2>1. CASE KeepAliveScan
    BY <2>1 DEF KeepAliveScan, connVars, OpenInPool, Pool
  <2>2. ASSUME NEW c \in Conns, KeepAliveClose(c) PROVE OpenInPool' \subseteq OpenInPool
    BY <2>2 DEF KeepAliveClose, OpenInPool, Pool, TypeOK
  <2>3. CASE KeepAliveReplenish
    <3>1. PICK S \in SUBSET Conns :
            CreateAll(S) /\ where' = [d \in Conns |-> IF d \in S THEN "pool" ELSE where[d]]
      BY <2>3 DEF KeepAliveReplenish, Batches, Fresh
    <3> QED
      BY <3>1 DEF CreateAll, OpenInPool, Pool
  <2> QED
    BY <2>1, <2>2, <2>3 DEF TimerNext
<1>2. UNCHANGED <<pc, stopper, asio>> /\ Running
  BY DEF TimerNext, KeepAliveScan, KeepAliveClose, KeepAliveReplenish, takerVars
<1> QED
  BY <1>1, <1>2 DEF WaitInv, StopInv, StopRequested, Running

LEMMA WaitInvariance == Spec => [](WaitInv /\ StopInv)
<1>1. Init => WaitInv /\ StopInv
  BY DEF Init, WaitInv, StopInv
<1>2. TypeOK /\ WaitInv /\ StopInv /\ [Next]_vars => (WaitInv /\ StopInv)'
  <2> SUFFICES ASSUME TypeOK, WaitInv, StopInv, [Next]_vars PROVE WaitInv' /\ StopInv'
    OBVIOUS
  <2>1. CASE UNCHANGED vars
    BY <2>1
    DEF vars, connVars, takerVars, WaitInv, StopInv, StopRequested, OpenInPool, Pool, Running
  <2> QED
    BY <2>1, TakerWait, AsioWait, TimerWait DEF Next, Dead
<1> QED
  BY <1>1, <1>2, TypeCorrect, PTL DEF Spec

\* No taker sleeps while a usable connection is in the list: whoever makes one
\* usable still has to notify.
THEOREM NoMissedConnection == Spec => []NoSleepPastOpen
<1>1. WaitInv => NoSleepPastOpen
  BY DEF WaitInv, NoSleepPastOpen
<1> QED
  BY <1>1, WaitInvariance, PTL

\* No taker sleeps through its stop request: locking and unlocking the mutex
\* before the notification (WSConnectionPool.cpp:183) is what makes it so.
THEOREM NoMissedStop == Spec => []StopWakesWaiter
<1>1. StopInv => StopWakesWaiter
  BY DEF StopInv, StopWakesWaiter
<1> QED
  BY <1>1, WaitInvariance, PTL

-----------------------------------------------------------------------------
(* With no more takers than connections allowed, a taker that finds nothing*)
(* has a notification coming.  When it can create no connection all the    *)
(* MaxCount are there, the other takers hold too few of them to hold all,  *)
(* and the one in the list is not open: it is on its way to open or to     *)
(* close, and the handler of either notifies.                              *)

Handling == asio.at \in {"fail", "close"}

\* A connection loses its handlers only when it has closed in a taker's hands.
HandlersSet == \A c \in Alive : c \in hooked \/ (ws[c] = "closed" /\ where[c] \in Takers)

\* A posted or running fail or close handler is the one of a closed session.
PostedClosed ==
  \A c \in Alive : /\ posted[c] # "nothing" => ws[c] = "closed"
                   /\ Handling /\ asio.conn = c => ws[c] = "closed"

\* A closed session in the list still has its handler to come.
ClosedTold ==
  \A c \in Pool : ws[c] = "closed" => posted[c] # "nothing" \/ (Handling /\ asio.conn = c)

Holds(t) == pc[t] \in {"using", "putback"} \/ (pc[t] = "unregister" /\ outcome[t] = "conn")

\* A taker has at most one connection, and none while it looks for one.
OneEach ==
  \A c \in Conns : where[c] \in Takers =>
    Holds(where[c]) /\ \A d \in Conns : where[d] = where[c] => c = d

FateInv == HandlersSet /\ PostedClosed /\ ClosedTold /\ OneEach

Coming ==
  \/ asio.at # "idle"
  \/ \E c \in Pool \cap hooked : \/ ws[c] \in {"connecting", "closing"}
                                 \/ posted[c] # "nothing"

WakeInv == \A t \in Takers : pc[t] \in {"scanned", "blocked"} /\ Running => Coming

TakersWithin == IsFiniteSet(Takers) /\ Cardinality(Takers) <= MaxCount

\* Creating a batch for the list says nothing new of the other connections.
LEMMA CreateFate ==
  ASSUME CountInv, FateInv, NEW S \in SUBSET Fresh, CreateAll(S),
         where' = [d \in Conns |-> IF d \in S THEN "pool" ELSE where[d]],
         UNCHANGED asio,
         \A t \in Takers : Holds(t) => Holds(t)'
  PROVE  FateInv'
<1>0. /\ S \subseteq Conns /\ S \cap Alive = {}
      /\ \A c \in S : ~(Handling /\ asio.conn = c)
      /\ "pool" \notin Takers /\ "none" \notin Takers
  BY PoolAssumption DEF Fresh, Alive, Handling
<1>1. /\ Alive' = Alive \cup S /\ Pool' = Pool \cup S
      /\ ws \in [Conns -> {"connecting", "open", "closing", "closed"}]
      /\ posted \in [Conns -> {"nothing", "fail", "close"}]
      /\ where \in [Conns -> {"none", "pool"} \cup Takers]
  BY <1>0 DEF Alive, Pool, CountInv, TypeOK
<1>2. \A c \in Conns \ S : /\ ws'[c] = ws[c] /\ posted'[c] = posted[c]
                           /\ where'[c] = where[c] /\ (c \in hooked => c \in hooked')
  BY <1>0, <1>1 DEF CreateAll
<1>3. \A c \in S : /\ ws'[c] = "connecting" /\ posted'[c] = "nothing"
                   /\ where'[c] = "pool" /\ c \in hooked'
  BY <1>0, <1>1 DEF CreateAll
<1>4. Handling' = Handling /\ Alive \subseteq Conns /\ Pool \subseteq Alive
  BY DEF Handling, Alive, Pool
<1>5. HandlersSet'
  BY <1>0, <1>1, <1>2, <1>3, <1>4 DEF FateInv, HandlersSet
<1>6. PostedClosed'
  BY <1>0, <1>1, <1>2, <1>3, <1>4 DEF FateInv, PostedClosed
<1>7. ClosedTold'
  BY <1>0, <1>1, <1>2, <1>3, <1>4 DEF FateInv, ClosedTold
<1>8. OneEach'
  BY <1>0, <1>1, <1>2, <1>3, <1>4 DEF FateInv, OneEach
<1> QED
  BY <1>5, <1>6, <1>7, <1>8 DEF FateInv

\* A taker that gets an open connection holds that one only.
LEMMA FoundFate ==
  ASSUME CountInv, FateInv, NEW t \in Takers, ~Holds(t), NEW c \in OpenInPool,
         NEW S \in SUBSET Fresh, CreateAll(S), UNCHANGED asio,
         where' = [d \in Conns |-> IF d = c THEN t ELSE IF d \in S THEN "pool" ELSE where[d]],
         Leave(t, "conn")
  PROVE  FateInv'
<1>0. /\ S \subseteq Conns /\ S \cap Alive = {}
      /\ \A d \in S : ~(Handling /\ asio.conn = d)
      /\ t # "pool" /\ t # "none" /\ "pool" \notin Takers /\ "none" \notin Takers
      /\ c \in Conns /\ c \in Alive /\ c \notin S /\ c \in Pool
  BY PoolAssumption DEF Fresh, Alive, Handling, OpenInPool, Pool
<1>1. /\ ws \in [Conns -> {"connecting", "open", "closing", "closed"}]
      /\ posted \in [Conns -> {"nothing", "fail", "close"}]
      /\ where \in [Conns -> {"none", "pool"} \cup Takers]
      /\ pc \in [Takers -> TakerPC]
      /\ outcome \in [Takers -> {"none", "conn", "stopped", "failed"}]
  BY DEF CountInv, TypeOK
<1>2. \A d \in Conns \ S : /\ ws'[d] = ws[d] /\ posted'[d] = posted[d]
                           /\ (d \in hooked => d \in hooked')
                           /\ (d # c => where'[d] = where[d])
  BY <1>0, <1>1 DEF CreateAll
<1>3. \A d \in S : /\ ws'[d] = "connecting" /\ posted'[d] = "nothing"
                   /\ where'[d] = "pool" /\ d \in hooked'
  BY <1>0, <1>1 DEF CreateAll
<1>4. /\ Handling' = Handling /\ Alive \subseteq Conns /\ Pool \subseteq Alive
      /\ Alive' = Alive \cup S /\ Pool' = (Pool \cup S) \ {c}
      /\ where'[c] = t /\ ws[c] = "open"
  BY <1>0, <1>1 DEF Handling, Alive, Pool, OpenInPool
<1>5. HandlersSet'
  BY <1>0, <1>1, <1>2, <1>3, <1>4 DEF FateInv, HandlersSet, Pool
<1>6. PostedClosed'
  BY <1>0, <1>1, <1>2, <1>3, <1>4 DEF FateInv, PostedClosed
<1>7. ClosedTold'
  BY <1>0, <1>1, <1>2, <1>3, <1>4 DEF FateInv, ClosedTold
<1>8. \A u \in Takers : (u # t => Holds(u)' = Holds(u)) /\ Holds(t)'
  BY <1>1 DEF Leave, Holds
<1>9. \A d \in Conns : where[d] # t
  BY DEF FateInv, OneEach
<1>10. OneEach'
  BY <1>0, <1>1, <1>2, <1>3, <1>8, <1>9 DEF FateInv, OneEach
<1> QED
  BY <1>5, <1>6, <1>7, <1>10 DEF FateInv

\* Steps that move no connection, and close, open or post only as sessions do.
LEMMA StillFate ==
  ASSUME CountInv, FateInv, UNCHANGED <<where, hooked>>,
         ws' \in [Conns -> {"connecting", "open", "closing", "closed"}],
         posted' \in [Conns -> {"nothing", "fail", "close"}],
         PostedClosed', ClosedTold',
         \A c \in Conns : ws[c] = "closed" => ws'[c] = "closed",
         \A t \in Takers : Holds(t) => Holds(t)'
  PROVE  FateInv'
<1>1. Alive' = Alive /\ Alive \subseteq Conns
  BY DEF Alive
<1>2. HandlersSet'
  BY <1>1 DEF FateInv, HandlersSet
<1>3. OneEach'
  BY DEF FateInv, OneEach
<1> QED
  BY <1>2, <1>3 DEF FateInv

\* Steps that leave the connections and the asio thread alone.
LEMMA QuietFate ==
  ASSUME CountInv, FateInv, UNCHANGED <<ws, where, hooked, posted, asio>>,
         \A t \in Takers : Holds(t) => Holds(t)'
  PROVE  FateInv'
<1>1. PostedClosed' /\ ClosedTold'
  BY DEF FateInv, PostedClosed, ClosedTold, Alive, Pool, Handling
<1> QED
  BY <1>1, StillFate DEF CountInv, TypeOK

\* The session of one connection is terminated.
LEMMA TerminateFate ==
  ASSUME CountInv, FateInv, NEW c \in Conns, Terminate(c),
         UNCHANGED <<where, hooked, asio>>,
         \A t \in Takers : Holds(t) => Holds(t)'
  PROVE  FateInv'
<1>1. /\ ws \in [Conns -> {"connecting", "open", "closing", "closed"}]
      /\ posted \in [Conns -> {"nothing", "fail", "close"}]
      /\ Alive' = Alive /\ Pool' = Pool /\ Handling' = Handling
      /\ Alive \subseteq Conns /\ Pool \subseteq Alive
  BY DEF CountInv, TypeOK, Alive, Pool, Handling
<1>2. /\ \A d \in Conns : d # c => ws'[d] = ws[d] /\ posted'[d] = posted[d]
      /\ ws'[c] = "closed"
      /\ ws[c] # "closed" => posted'[c] # "nothing"
      /\ ws[c] = "closed" => posted'[c] = posted[c]
      /\ ws' \in [Conns -> {"connecting", "open", "closing", "closed"}]
      /\ posted' \in [Conns -> {"nothing", "fail", "close"}]
  BY <1>1 DEF Terminate
<1>3. PostedClosed'
  BY <1>1, <1>2 DEF FateInv, PostedClosed
<1>4. ClosedTold'
  BY <1>1, <1>2 DEF FateInv, ClosedTold
<1> QED
  BY <1>1, <1>2, <1>3, <1>4, StillFate

-----------------------------------------------------------------------------
\* The taker that finds nothing while the limit is reached: the others, which
\* hold one connection each at most, cannot have all MaxCount of them.
LEMMA ListNotEmpty ==
  ASSUME CountInv, FateInv, TakersWithin, NEW t \in Takers, ~Holds(t), count = MaxCount
  PROVE  Pool # {}
<1> SUFFICES ASSUME Pool = {} PROVE FALSE
  OBVIOUS
<1> DEFINE Others == Takers \ {t}
           holder == [c \in Alive |-> where[c]]
<1>1. /\ where \in [Conns -> {"none", "pool"} \cup Takers]
      /\ Alive \subseteq Conns
      /\ \A c \in Alive : where[c] \notin {"none", "pool"}
  BY DEF CountInv, TypeOK, Alive, Pool
<1>2. \A c \in Alive : where[c] \in Others
  BY <1>1 DEF FateInv, OneEach
<1>3. holder \in [Alive -> Others]
  BY <1>2
<1>4. IsFiniteSet(Others) /\ Cardinality(Others) = Cardinality(Takers) - 1
  BY FS_RemoveElement DEF TakersWithin
<1>5. Cardinality(Takers) \in Nat /\ Cardinality(Others) \in Nat
  BY <1>4, FS_CardinalityType DEF TakersWithin
<1>6. Cardinality(Alive) = MaxCount /\ MaxCount \in Nat
  BY PoolAssumption DEF CountInv, CountExact
<1>7. Cardinality(Others) < Cardinality(Alive)
  BY <1>4, <1>5, <1>6 DEF TakersWithin
<1>8. PICK c \in Alive, d \in Alive : c # d /\ holder[c] = holder[d]
  <2> HIDE DEF Others, holder
  <2> QED
    BY <1>3, <1>4, <1>7, AliveFinite, FS_PigeonHole
<1>9. c \in Conns /\ d \in Conns /\ where[c] \in Takers /\ where[c] = where[d]
  BY <1>1, <1>2, <1>8
<1> QED
  BY <1>8, <1>9 DEF FateInv, OneEach

\* What is in the list and not open has its handler to come.
LEMMA ListComing ==
  ASSUME CountInv, FateInv, OpenInPool = {}, Pool # {}
  PROVE  Coming
<1>1. PICK c \in Pool : TRUE
  OBVIOUS
<1>2. /\ c \in Alive /\ where[c] \notin Takers /\ c \in Conns
      /\ ws[c] \in {"connecting", "closing", "closed"}
  BY PoolAssumption DEF Pool, Alive, OpenInPool, CountInv, TypeOK
<1>3. c \in hooked
  BY <1>2 DEF FateInv, HandlersSet
<1>4. CASE ws[c] = "closed"
  BY <1>3, <1>4 DEF FateInv, ClosedTold, Coming, Handling
<1> QED
  BY <1>2, <1>3, <1>4 DEF Coming

\* A look at the list in vain ends with a notification to come.
LEMMA NoneComing ==
  ASSUME CountInv, FateInv, TakersWithin, NEW t \in Takers, ~Holds(t), OpenInPool = {},
         NEW S \in Batches(ExtraCount), Cardinality(S) = Missing(ExtraCount), CreateAll(S),
         where' = [d \in Conns |-> IF d \in S THEN "pool" ELSE where[d]], UNCHANGED asio
  PROVE  Coming'
<1>0. /\ S \subseteq Conns /\ S \cap Alive = {}
      /\ where \in [Conns -> {"none", "pool"} \cup Takers]
      /\ count \in Nat /\ count <= MaxCount
      /\ MinCount \in Nat /\ MaxCount \in Nat /\ MinCount <= MaxCount
  BY PoolAssumption DEF Batches, Fresh, Alive, CountInv, TypeOK, CountBounded
<1>1. CASE S # {}
  <2>1. PICK c \in S : TRUE
    BY <1>1
  <2>2. c \in Pool' /\ c \in hooked' /\ ws'[c] = "connecting"
    BY <1>0 DEF CreateAll, Pool
  <2> QED
    BY <2>2 DEF Coming
<1>2. CASE S = {}
  <2>1. Missing(ExtraCount) = 0
    BY <1>2, FS_EmptySet
  <2>2. count = MaxCount
    BY <1>0, <2>1 DEF Missing, ExtraCount
  <2>3. Coming
    BY <2>2, ListNotEmpty, ListComing
  <2>4. ws' = ws /\ posted' = posted /\ hooked' = hooked /\ where' = where
    BY <1>0, <1>2 DEF CreateAll, CountInv, TypeOK
  <2> QED
    BY <2>3, <2>4 DEF Coming, Pool
<1> QED
  BY <1>1, <1>2

\* What is to come still is, unless the connection it comes from was touched.
LEMMA StillComing ==
  ASSUME Coming, UNCHANGED asio,
         \A c \in Pool \cap hooked :
           ws[c] \in {"connecting", "closing"} \/ posted[c] # "nothing" =>
             /\ c \in Pool' \cap hooked'
             /\ ws'[c] \in {"connecting", "closing"} \/ posted'[c] # "nothing"
  PROVE  Coming'
BY DEF Coming

LEMMA CreateComing ==
  ASSUME CountInv, Coming, NEW S \in SUBSET Fresh, CreateAll(S), UNCHANGED asio,
         where' = [d \in Conns |-> IF d \in S THEN "pool" ELSE where[d]]
  PROVE  Coming'
<1>1. S \subseteq Conns /\ S \cap Pool = {} /\ Pool \subseteq Conns
  BY DEF Fresh, Pool
<1>2. \A c \in Pool : c \in Pool' /\ ws'[c] = ws[c] /\ posted'[c] = posted[c]
  BY <1>1 DEF CreateAll, Pool
<1>3. hooked \subseteq hooked'
  BY DEF CreateAll
<1> QED
  BY <1>2, <1>3, StillComing

\* Nobody is left waiting.
LEMMA AllAwakeComing ==
  ASSUME CountInv, MutexFree, \A t \in Takers : pc'[t] \notin {"scanned", "blocked"}
  PROVE  WakeInv'
BY DEF WakeInv

LEMMA SameWaiters ==
  ASSUME WakeInv, Coming => Coming' \/ ~Running',
         Running' => Running,
         \A t \in Takers : pc'[t] \in {"scanned", "blocked"} => pc[t] \in {"scanned", "blocked"}
  PROVE  WakeInv'
BY DEF WakeInv

LEMMA TakerFate ==
  ASSUME CountInv, FateInv, NEW t \in Takers, TakerNext(t)
  PROVE  FateInv'
<1>0. /\ pc \in [Takers -> TakerPC]
      /\ outcome \in [Takers -> {"none", "conn", "stopped", "failed"}]
      /\ where \in [Conns -> {"none", "pool"} \cup Takers]
      /\ ws \in [Conns -> {"connecting", "open", "closing", "closed"}]
      /\ posted \in [Conns -> {"nothing", "fail", "close"}]
      /\ "pool" \notin Takers /\ "none" \notin Takers
  BY PoolAssumption DEF CountInv, TypeOK
<1>1. CASE BeginTake(t) \/ Wait(t) \/ SpuriousWakeup(t) \/ Return(t)
           \/ RequestStop(t) \/ CallbackLock(t) \/ CallbackNotify(t)
  <2>1. \A u \in Takers : Holds(u) => Holds(u)'
    BY <1>0, <1>1
    DEF BeginTake, Wait, SpuriousWakeup, Return, RequestStop, CallbackLock, CallbackNotify,
        WakeAll, Holds
  <2>2. UNCHANGED <<ws, where, hooked, posted, asio>>
    BY <1>1
    DEF BeginTake, Wait, SpuriousWakeup, Return, RequestStop, CallbackLock, CallbackNotify,
        connVars
  <2> QED
    BY <2>1, <2>2, QuietFate
<1>2. CASE Enter(t) \/ Resume(t)
  <2>0. UNCHANGED asio /\ ~Holds(t)
    BY <1>2 DEF Enter, Resume, Holds
  <2>1. CASE ScanFound(t)
    <3>1. PICK c \in OpenInPool, S \in Batches(MinCount) :
            /\ CreateAll(S)
            /\ \/ /\ where' = [d \in Conns |-> IF d = c THEN t
                                               ELSE IF d \in S THEN "pool" ELSE where[d]]
                  /\ Leave(t, "conn")
               \/ /\ where' = [d \in Conns |-> IF d \in S THEN "pool" ELSE where[d]]
                  /\ pc' = [WakeAll(pc) EXCEPT ![t] = "unregister"]
                  /\ outcome' = [outcome EXCEPT ![t] = "failed"]
      BY <2>1 DEF ScanFound
    <3>2. S \in SUBSET Fresh
      BY DEF Batches
    <3>3. CASE Leave(t, "conn")
               /\ where' = [d \in Conns |-> IF d = c THEN t
                                            ELSE IF d \in S THEN "pool" ELSE where[d]]
      BY <2>0, <3>1, <3>2, <3>3, FoundFate
    <3>4. CASE /\ pc' = [WakeAll(pc) EXCEPT ![t] = "unregister"]
               /\ outcome' = [outcome EXCEPT ![t] = "failed"]
               /\ where' = [d \in Conns |-> IF d \in S THEN "pool" ELSE where[d]]
      <4>1. \A u \in Takers : Holds(u) => Holds(u)'
        BY <1>0, <2>0, <3>4 DEF WakeAll, Holds
      <4> QED
        BY <2>0, <3>1, <3>2, <3>4, <4>1, CreateFate
    <3> QED
      BY <3>1, <3>3, <3>4
  <2>2. CASE ScanNone(t)
    <3>1. PICK S \in Batches(ExtraCount) :
            /\ CreateAll(S)
            /\ where' = [d \in Conns |-> IF d \in S THEN "pool" ELSE where[d]]
            /\ (pc' = [pc EXCEPT ![t] = "scanned"] /\ UNCHANGED outcome) \/ Leave(t, "failed")
      BY <2>2 DEF ScanNone
    <3>2. S \in SUBSET Fresh
      BY DEF Batches
    <3>3. \A u \in Takers : Holds(u) => Holds(u)'
      BY <1>0, <2>0, <3>1 DEF Leave, Holds
    <3> QED
      BY <2>0, <3>1, <3>2, <3>3, CreateFate
  <2>3. CASE (Leave(t, "stopped") \/ Leave(t, "failed")) /\ UNCHANGED <<connVars, crashed>>
    <3>1. \A u \in Takers : Holds(u) => Holds(u)'
      BY <1>0, <2>0, <2>3 DEF Leave, Holds
    <3> QED
      BY <2>0, <2>3, <3>1, QuietFate DEF connVars
  <2> QED
    BY <1>2, <2>1, <2>2, <2>3 DEF Enter, Resume
<1>3. CASE FinishUse(t)
  <2>1. \A u \in Takers : Holds(u) => Holds(u)'
    BY <1>0, <1>3 DEF FinishUse, Holds
  <2>2. PICK c \in Conns : Terminate(c) \/ UNCHANGED <<ws, posted>>
    BY <1>3 DEF FinishUse
  <2> QED
    BY <1>3, <2>1, <2>2, TerminateFate, QuietFate DEF FinishUse
<1>4. CASE PutBack(t)
  <2>1. PICK c \in Conns : where[c] = t /\ (PutBackOpen(t, c) \/ Drop(t, c))
    BY <1>4 DEF PutBack
  <2>2. \A u \in Takers : u # t /\ Holds(u) => Holds(u)'
    BY <1>0, <1>4, <2>1 DEF PutBack, PutBackOpen, Drop, WakeAll, Holds
  <2>3. \A d \in Conns : d # c => /\ where[d] # t /\ where'[d] = where[d]
                                  /\ ws'[d] = ws[d] /\ posted'[d] = posted[d]
                                  /\ (d \in hooked => d \in hooked')
    BY <1>0, <2>1 DEF PutBackOpen, Drop, FateInv, OneEach
  <2>4. where'[c] \in {"pool", "none"}
    BY <1>0, <2>1 DEF PutBackOpen, Drop
  <2>5. OneEach'
    BY <1>0, <2>2, <2>3, <2>4 DEF FateInv, OneEach
  <2>6. Handling' = Handling /\ asio' = asio /\ Alive \subseteq Conns /\ c \in Alive
    BY <1>0, <1>4, <2>1 DEF PutBack, Handling, Alive
  <2>7. CASE PutBackOpen(t, c)
    <3>1. ws[c] = "open" /\ c \in hooked /\ UNCHANGED <<ws, hooked, posted>>
      BY <2>6, <2>7 DEF PutBackOpen, FateInv, HandlersSet
    <3>2. Alive' = Alive /\ Pool' = Pool \cup {c}
      BY <1>0, <2>1, <2>7 DEF PutBackOpen, Alive, Pool
    <3>3. HandlersSet'
      BY <2>3, <2>6, <3>1, <3>2 DEF FateInv, HandlersSet
    <3>4. PostedClosed' /\ ClosedTold'
      BY <2>6, <3>1, <3>2 DEF FateInv, PostedClosed, ClosedTold
    <3> QED
      BY <2>5, <3>3, <3>4 DEF FateInv
  <2>8. CASE Drop(t, c)
    <3>1. Alive' = Alive \ {c} /\ Pool' = Pool /\ Pool \subseteq Conns /\ c \notin Pool
      BY <1>0, <2>1, <2>8 DEF Drop, Alive, Pool
    <3>2. HandlersSet'
      BY <2>3, <2>6, <3>1 DEF FateInv, HandlersSet
    <3>3. PostedClosed' /\ ClosedTold'
      BY <2>3, <2>6, <3>1 DEF FateInv, PostedClosed, ClosedTold
    <3> QED
      BY <2>5, <3>2, <3>3 DEF FateInv
  <2> QED
    BY <2>1, <2>7, <2>8
<1> QED
  BY <1>1, <1>2, <1>3, <1>4 DEF TakerNext

LEMMA AsioFate ==
  ASSUME CountInv, FateInv, AsioNext
  PROVE  FateInv'
<1>0. /\ pc \in [Takers -> TakerPC]
      /\ where \in [Conns -> {"none", "pool"} \cup Takers]
      /\ ws \in [Conns -> {"connecting", "open", "closing", "closed"}]
      /\ posted \in [Conns -> {"nothing", "fail", "close"}]
      /\ "pool" \notin Takers /\ "none" \notin Takers
      /\ Alive \subseteq Conns /\ Pool \subseteq Alive
  BY PoolAssumption DEF CountInv, TypeOK, Alive, Pool
<1>1. \A u \in Takers : Holds(u) => Holds(u)'
  BY <1>0
  DEF AsioNext, HandshakeDone, HandshakeFailed, CloseFrame, ConnectionLost, HandleTerminate,
      OpenHandler, FailHandler, CloseHandler, WakeAll, takerVars, Holds
<1>2. ASSUME NEW c \in Conns, HandshakeDone(c) \/ CloseFrame(c) PROVE FateInv'
  <2>1. /\ UNCHANGED <<where, hooked, posted>> /\ c \in Alive
        /\ ws[c] \in {"connecting", "open"} /\ ws'[c] \in {"open", "closing"}
        /\ \A d \in Conns : d # c => ws'[d] = ws[d]
        /\ ws' \in [Conns -> {"connecting", "open", "closing", "closed"}]
        /\ ~Handling /\ ~Handling'
    BY <1>0, <1>2 DEF HandshakeDone, CloseFrame, Handling, Idle
  <2>2. Alive' = Alive /\ Pool' = Pool
    BY <2>1 DEF Alive, Pool
  <2>3. PostedClosed'
    BY <1>0, <2>1, <2>2 DEF FateInv, PostedClosed
  <2>4. ClosedTold'
    BY <1>0, <2>1, <2>2 DEF FateInv, ClosedTold
  <2> QED
    BY <1>0, <1>1, <2>1, <2>3, <2>4, StillFate
<1>3. ASSUME NEW c \in Conns, HandshakeFailed(c) PROVE FateInv'
  <2>1. /\ UNCHANGED <<where, hooked, asio>>
        /\ ws'[c] = "closed" /\ posted'[c] = "fail"
        /\ \A d \in Conns : d # c => ws'[d] = ws[d] /\ posted'[d] = posted[d]
        /\ ws' \in [Conns -> {"connecting", "open", "closing", "closed"}]
        /\ posted' \in [Conns -> {"nothing", "fail", "close"}]
    BY <1>0, <1>3 DEF HandshakeFailed
  <2>2. Alive' = Alive /\ Pool' = Pool /\ Handling' = Handling
    BY <2>1 DEF Alive, Pool, Handling
  <2>3. PostedClosed'
    BY <1>0, <2>1, <2>2 DEF FateInv, PostedClosed
  <2>4. ClosedTold'
    BY <1>0, <2>1, <2>2 DEF FateInv, ClosedTold
  <2> QED
    BY <1>0, <1>1, <2>1, <2>3, <2>4, StillFate
<1>4. ASSUME NEW c \in Conns, ConnectionLost(c) PROVE FateInv'
  BY <1>1, <1>4, TerminateFate DEF ConnectionLost
<1>5. ASSUME NEW c \in Conns, HandleTerminate(c) PROVE FateInv'
  <2>1. /\ UNCHANGED <<ws, where, hooked>> /\ posted[c] # "nothing"
        /\ \A d \in Conns : d # c => posted'[d] = posted[d]
        /\ posted'[c] = "nothing" /\ ~Handling /\ asio'.conn = c
        /\ asio'.at = posted[c] /\ posted[c] \in {"fail", "close"}
        /\ posted' \in [Conns -> {"nothing", "fail", "close"}]
    BY <1>0, <1>5 DEF HandleTerminate, Handling, Idle
  <2>2. Alive' = Alive /\ Pool' = Pool /\ Handling'
    BY <2>1 DEF Alive, Pool, Handling
  <2>3. PostedClosed'
    BY <1>0, <2>1, <2>2 DEF FateInv, PostedClosed
  <2>4. ClosedTold'
    BY <1>0, <2>1, <2>2 DEF FateInv, ClosedTold
  <2> QED
    BY <1>0, <1>1, <2>1, <2>3, <2>4, StillFate
<1>6. CASE OpenHandler
  <2>1. UNCHANGED <<ws, where, hooked, posted>> /\ ~Handling /\ ~Handling'
    BY <1>6 DEF OpenHandler, connVars, Handling, Idle
  <2>2. Alive' = Alive /\ Pool' = Pool
    BY <2>1 DEF Alive, Pool
  <2>3. PostedClosed' /\ ClosedTold'
    BY <2>1, <2>2 DEF FateInv, PostedClosed, ClosedTold
  <2> QED
    BY <1>0, <1>1, <2>1, <2>3, StillFate
<1>7. CASE FailHandler \/ CloseHandler
  <2> DEFINE c == asio.conn
  <2>1. c \in Conns /\ Handling /\ ~Handling' /\ UNCHANGED <<ws, posted>>
    BY <1>7 DEF FailHandler, CloseHandler, Handling, Idle, CountInv, AsioHasConn
  <2>2. CASE Remove(c)
    <3>1. /\ \A d \in Conns : d # c => where'[d] = where[d] /\ (d \in hooked => d \in hooked')
          /\ where'[c] = where[c] \/ where'[c] = "none"
          /\ where'[c] # "pool"
      BY <1>0, <2>1, <2>2 DEF Remove
    <3>2. /\ Alive' \subseteq Alive /\ Pool' \subseteq Pool /\ c \notin Pool'
          /\ c \in Alive' => where[c] \in Takers /\ where'[c] = where[c]
      BY <1>0, <2>1, <3>1 DEF Alive, Pool
    <3>3. HandlersSet'
      BY <1>0, <2>1, <3>1, <3>2 DEF FateInv, HandlersSet, PostedClosed
    <3>4. PostedClosed' /\ ClosedTold'
      BY <1>0, <2>1, <3>1, <3>2 DEF FateInv, PostedClosed, ClosedTold
    <3>5. OneEach'
      BY <1>0, <1>1, <2>1, <3>1 DEF FateInv, OneEach
    <3> QED
      BY <3>3, <3>4, <3>5 DEF FateInv
  <2>3. CASE c \notin Alive /\ UNCHANGED <<where, hooked>>
    <3>1. Alive' = Alive /\ Pool' = Pool
      BY <2>3 DEF Alive, Pool
    <3>2. PostedClosed' /\ ClosedTold'
      BY <1>0, <2>1, <2>3, <3>1 DEF FateInv, PostedClosed, ClosedTold
    <3> QED
      BY <1>0, <1>1, <2>1, <2>3, <3>2, StillFate
  <2> QED
    BY <1>7, <2>2, <2>3 DEF FailHandler, CloseHandler
<1> QED
  BY <1>2, <1>3, <1>4, <1>5, <1>6, <1>7 DEF AsioNext

LEMMA TimerFate ==
  ASSUME CountInv, FateInv, TimerNext
  PROVE  FateInv'
<1>0. /\ ws \in [Conns -> {"connecting", "open", "closing", "closed"}]
      /\ posted \in [Conns -> {"nothing", "fail", "close"}]
      /\ UNCHANGED asio
      /\ \A u \in Takers : Holds(u) => Holds(u)'
  BY DEF TimerNext, KeepAliveScan, KeepAliveClose, KeepAliveReplenish, takerVars, Holds,
         CountInv, TypeOK
<1>1. CASE KeepAliveScan
  BY <1>0, <1>1, QuietFate DEF KeepAliveScan, connVars
<1>2. ASSUME NEW c \in Conns, KeepAliveClose(c) PROVE FateInv'
  <2>1. CASE UNCHANGED ws
    BY <1>0, <1>2, <2>1, QuietFate DEF KeepAliveClose
  <2>2. CASE ws[c] = "open" /\ ws' = [ws EXCEPT ![c] = "closing"]
    <3>1. /\ UNCHANGED <<where, hooked, posted>>
          /\ \A d \in Conns : d # c => ws'[d] = ws[d]
          /\ ws'[c] = "closing"
          /\ ws' \in [Conns -> {"connecting", "open", "closing", "closed"}]
      BY <1>0, <1>2, <2>2 DEF KeepAliveClose
    <3>2. Alive' = Alive /\ Pool' = Pool /\ Handling' = Handling
          /\ Alive \subseteq Conns /\ Pool \subseteq Conns
      BY <1>0, <3>1 DEF Alive, Pool, Handling
    <3>3. PostedClosed' /\ ClosedTold'
      BY <1>0, <2>2, <3>1, <3>2 DEF FateInv, PostedClosed, ClosedTold
    <3> QED
      BY <1>0, <2>2, <3>1, <3>3, StillFate
  <2> QED
    BY <1>2, <2>1, <2>2 DEF KeepAliveClose
<1>3. CASE KeepAliveReplenish
  <2>1. PICK S \in SUBSET Fresh :
          CreateAll(S) /\ where' = [d \in Conns |-> IF d \in S THEN "pool" ELSE where[d]]
    BY <1>3 DEF KeepAliveReplenish, Batches
  <2> QED
    BY <1>0, <2>1, CreateFate
<1> QED
  BY <1>1, <1>2, <1>3 DEF TimerNext

LEMMA TakerWake ==
  ASSUME CountInv, FateInv, WakeInv, TakersWithin, NEW t \in Takers, TakerNext(t)
  PROVE  WakeInv'
<1>0. /\ pc \in [Takers -> TakerPC]
      /\ where \in [Conns -> {"none", "pool"} \cup Takers]
      /\ ws \in [Conns -> {"connecting", "open", "closing", "closed"}]
      /\ posted \in [Conns -> {"nothing", "fail", "close"}]
      /\ "pool" \notin Takers /\ "none" \notin Takers
      /\ Pool \subseteq Conns /\ Pool \subseteq Alive
  BY PoolAssumption DEF CountInv, TypeOK, Alive, Pool
<1>1. CASE BeginTake(t) \/ Wait(t) \/ SpuriousWakeup(t) \/ Return(t)
           \/ RequestStop(t) \/ CallbackLock(t) \/ CallbackNotify(t)
  <2>1. \A u \in Takers : pc'[u] \in {"scanned", "blocked"} => pc[u] \in {"scanned", "blocked"}
    BY <1>0, <1>1
    DEF BeginTake, Wait, SpuriousWakeup, Return, RequestStop, CallbackLock, CallbackNotify,
        WakeAll
  <2>2. UNCHANGED <<ws, where, hooked, posted, asio, crashed>>
    BY <1>1
    DEF BeginTake, Wait, SpuriousWakeup, Return, RequestStop, CallbackLock, CallbackNotify,
        connVars
  <2>3. (Coming => Coming') /\ (Running' => Running)
    BY <2>2 DEF Coming, Pool, Running
  <2> QED
    BY <2>1, <2>3, SameWaiters
<1>2. CASE Enter(t) \/ Resume(t)
  <2>0. UNCHANGED asio /\ ~Holds(t) /\ MutexFree /\ Running
    BY <1>2 DEF Enter, Resume, Holds
  <2>1. CASE ScanFound(t)
    <3>1. PICK c \in OpenInPool, S \in Batches(MinCount) :
            /\ CreateAll(S)
            /\ \/ /\ where' = [d \in Conns |-> IF d = c THEN t
                                               ELSE IF d \in S THEN "pool" ELSE where[d]]
                  /\ Leave(t, "conn")
               \/ pc' = [WakeAll(pc) EXCEPT ![t] = "unregister"]
      BY <2>1 DEF ScanFound
    <3>2. CASE pc' = [WakeAll(pc) EXCEPT ![t] = "unregister"]
      BY <1>0, <2>0, <3>2, AllAwakeComing DEF WakeAll, MutexFree
    <3>3. CASE Leave(t, "conn")
               /\ where' = [d \in Conns |-> IF d = c THEN t
                                            ELSE IF d \in S THEN "pool" ELSE where[d]]
      <4>1. S \subseteq Conns /\ S \cap Pool = {} /\ ws[c] = "open" /\ c \in Pool
        BY DEF Batches, Fresh, Pool, OpenInPool
      <4>2. posted[c] = "nothing"
        BY <1>0, <4>1 DEF FateInv, PostedClosed
      <4>3. \A d \in Pool \ {c} : d \in Pool' /\ ws'[d] = ws[d] /\ posted'[d] = posted[d]
        BY <1>0, <3>1, <3>3, <4>1 DEF CreateAll, Pool
      <4>4. hooked \subseteq hooked'
        BY <3>1 DEF CreateAll
      <4>5. Coming => Coming'
        BY <2>0, <4>1, <4>2, <4>3, <4>4, StillComing
      <4>6. \A u \in Takers : pc'[u] \in {"scanned", "blocked"} =>
              pc[u] \in {"scanned", "blocked"}
        BY <1>0, <3>3 DEF Leave
      <4> QED
        BY <2>0, <4>5, <4>6, SameWaiters
    <3> QED
      BY <3>1, <3>2, <3>3
  <2>2. CASE ScanNone(t)
    <3>1. PICK S \in Batches(ExtraCount) :
            /\ CreateAll(S)
            /\ where' = [d \in Conns |-> IF d \in S THEN "pool" ELSE where[d]]
            /\ \/ Cardinality(S) = Missing(ExtraCount) /\ pc' = [pc EXCEPT ![t] = "scanned"]
               \/ Leave(t, "failed")
      BY <2>2 DEF ScanNone
    <3>2. S \in SUBSET Fresh /\ OpenInPool = {}
      BY <2>2 DEF Batches, ScanNone
    <3>3. CASE Leave(t, "failed")
      <4>1. \A u \in Takers : pc'[u] \in {"scanned", "blocked"} =>
              pc[u] \in {"scanned", "blocked"}
        BY <1>0, <3>3 DEF Leave
      <4>2. Coming => Coming'
        BY <2>0, <3>1, <3>2, CreateComing
      <4> QED
        BY <2>0, <4>1, <4>2, SameWaiters
    <3>4. CASE Cardinality(S) = Missing(ExtraCount)
      <4>1. Coming'
        BY <2>0, <3>1, <3>2, <3>4, NoneComing
      <4> QED
        BY <4>1 DEF WakeInv
    <3> QED
      BY <3>1, <3>3, <3>4
  <2>3. CASE (Leave(t, "stopped") \/ Leave(t, "failed")) /\ UNCHANGED <<connVars, crashed>>
    <3>1. \A u \in Takers : pc'[u] \in {"scanned", "blocked"} =>
            pc[u] \in {"scanned", "blocked"}
      BY <1>0, <2>3 DEF Leave
    <3>2. Coming => Coming'
      BY <2>0, <2>3 DEF connVars, Coming, Pool
    <3> QED
      BY <2>0, <3>1, <3>2, SameWaiters
  <2> QED
    BY <1>2, <2>1, <2>2, <2>3 DEF Enter, Resume
<1>3. CASE FinishUse(t)
  <2>1. \A u \in Takers : pc'[u] \in {"scanned", "blocked"} => pc[u] \in {"scanned", "blocked"}
    BY <1>0, <1>3 DEF FinishUse
  <2>2. PICK c \in Conns : where[c] = t /\ (Terminate(c) \/ UNCHANGED <<ws, posted>>)
    BY <1>3 DEF FinishUse
  <2>3. UNCHANGED <<where, hooked, asio, crashed>> /\ Pool' = Pool /\ c \notin Pool
    BY <1>0, <1>3, <2>2 DEF FinishUse, Pool
  <2>4. \A d \in Pool : ws'[d] = ws[d] /\ posted'[d] = posted[d]
    BY <1>0, <2>2, <2>3 DEF Terminate
  <2>5. Coming => Coming'
    BY <2>3, <2>4, StillComing
  <2> QED
    BY <2>1, <2>3, <2>5, SameWaiters DEF Running
<1>4. CASE PutBack(t)
  <2>1. PICK c \in Conns : where[c] = t /\ (PutBackOpen(t, c) \/ Drop(t, c))
    BY <1>4 DEF PutBack
  <2>2. CASE PutBackOpen(t, c)
    BY <1>0, <1>4, <2>2, AllAwakeComing DEF PutBack, PutBackOpen, WakeAll, MutexFree
  <2>3. CASE Drop(t, c)
    <3>1. \A u \in Takers : pc'[u] \in {"scanned", "blocked"} =>
            pc[u] \in {"scanned", "blocked"}
      BY <1>0, <2>3 DEF Drop
    <3>2. Pool' = Pool /\ c \notin Pool
      BY <1>0, <2>1, <2>3 DEF Drop, Pool
    <3>3. \A d \in Pool : /\ ws'[d] = ws[d] /\ posted'[d] = posted[d]
                          /\ (d \in hooked => d \in hooked')
      BY <1>0, <2>3, <3>2 DEF Drop
    <3>4. UNCHANGED <<asio, crashed>>
      BY <1>4 DEF PutBack
    <3>5. Coming => Coming'
      BY <3>2, <3>3, <3>4, StillComing
    <3> QED
      BY <3>1, <3>4, <3>5, SameWaiters DEF Running
  <2> QED
    BY <2>1, <2>2, <2>3
<1> QED
  BY <1>1, <1>2, <1>3, <1>4 DEF TakerNext

LEMMA AsioWake ==
  ASSUME CountInv, FateInv, WakeInv, AsioNext
  PROVE  WakeInv'
<1>0. /\ pc \in [Takers -> TakerPC]
      /\ ws \in [Conns -> {"connecting", "open", "closing", "closed"}]
      /\ posted \in [Conns -> {"nothing", "fail", "close"}]
      /\ Pool \subseteq Conns
  BY DEF CountInv, TypeOK, Pool
<1>1. CASE OpenHandler \/ FailHandler
  BY <1>0, <1>1, AllAwakeComing DEF OpenHandler, FailHandler, WakeAll, MutexFree
<1>2. CASE CloseHandler
  <2>1. CASE pc' = WakeAll(pc)
    BY <1>0, <1>2, <2>1, AllAwakeComing DEF CloseHandler, WakeAll, MutexFree
  <2>2. CASE crashed' = "handler"
    BY <2>2 DEF WakeInv, Running
  <2> QED
    BY <1>2, <2>1, <2>2 DEF CloseHandler
<1>3. ASSUME NEW c \in Conns, HandshakeDone(c) \/ HandleTerminate(c) PROVE WakeInv'
  <2>1. asio'.at # "idle"
    BY <1>0, <1>3 DEF HandshakeDone, HandleTerminate
  <2> QED
    BY <2>1 DEF Coming, WakeInv
<1>4. ASSUME NEW c \in Conns, HandshakeFailed(c) \/ CloseFrame(c) \/ ConnectionLost(c)
      PROVE  WakeInv'
  <2>1. UNCHANGED <<where, hooked, asio, pc, crashed>> /\ Pool' = Pool
    BY <1>4 DEF HandshakeFailed, CloseFrame, ConnectionLost, takerVars, Pool
  <2>2. /\ \A d \in Conns : d # c => ws'[d] = ws[d] /\ posted'[d] = posted[d]
        /\ ws'[c] = "closing" \/ posted'[c] # "nothing"
    BY <1>0, <1>4 DEF HandshakeFailed, CloseFrame, ConnectionLost, Terminate
  <2>3. Coming => Coming'
    BY <1>0, <2>1, <2>2, StillComing
  <2> QED
    BY <2>1, <2>3, SameWaiters DEF Running
<1> QED
  BY <1>1, <1>2, <1>3, <1>4 DEF AsioNext

LEMMA TimerWake ==
  ASSUME CountInv, FateInv, WakeInv, TimerNext
  PROVE  WakeInv'
<1>0. /\ UNCHANGED <<asio, pc>> /\ Running
      /\ ws \in [Conns -> {"connecting", "open", "closing", "closed"}]
  BY DEF TimerNext, KeepAliveScan, KeepAliveClose, KeepAliveReplenish, takerVars, CountInv,
         TypeOK
<1>1. Coming => Coming'
  <2>1. CASE KeepAliveScan
    BY <1>0, <2>1 DEF KeepAliveScan, connVars, Coming, Pool
  <2>2. ASSUME NEW c \in Conns, KeepAliveClose(c), Coming PROVE Coming'
    <3>1. UNCHANGED <<where, hooked, posted>> /\ Pool' = Pool /\ Pool \subseteq Conns
      BY <2>2 DEF KeepAliveClose, Pool
    <3>2. \A d \in Conns : ws[d] \in {"connecting", "closing"} =>
            ws'[d] \in {"connecting", "closing"}
      BY <1>0, <2>2 DEF KeepAliveClose
    <3> QED
      BY <1>0, <2>2, <3>1, <3>2, StillComing
  <2>3. CASE KeepAliveReplenish
    <3>1. PICK S \in SUBSET Fresh :
            CreateAll(S) /\ where' = [d \in Conns |-> IF d \in S THEN "pool" ELSE where[d]]
      BY <2>3 DEF KeepAliveReplenish, Batches
    <3> QED
      BY <1>0, <3>1, CreateComing
  <2> QED
    BY <2>1, <2>2, <2>3 DEF TimerNext
<1> QED
  BY <1>0, <1>1, SameWaiters

LEMMA StutterWake ==
  ASSUME CountInv, FateInv, UNCHANGED vars
  PROVE  FateInv' /\ (WakeInv => WakeInv')
<1>1. UNCHANGED <<ws, where, hooked, posted, asio, pc, outcome, crashed>>
  BY DEF vars, connVars, takerVars
<1>2. FateInv'
  BY <1>1, QuietFate DEF Holds
<1>3. WakeInv => WakeInv'
  BY <1>1 DEF WakeInv, Coming, Pool, Running
<1> QED
  BY <1>2, <1>3

LEMMA FateInvariance == Spec => []FateInv
<1>1. Init => FateInv
  BY PoolAssumption
  DEF Init, FateInv, HandlersSet, PostedClosed, ClosedTold, OneEach, Alive, Pool
<1>2. CountInv /\ FateInv /\ [Next]_vars => FateInv'
  BY TakerFate, AsioFate, TimerFate, StutterWake DEF Next, Dead
<1> QED
  BY <1>1, <1>2, CountInvariance, PTL DEF Spec

\* As long as there are no more takers than connections allowed, a taker that
\* goes to wait has a notification on its way, and keeps having one: from a
\* handler that is running, or from a connection in the list that is going to
\* open, to close or to be reported closed (WSConnectionPool.cpp:193-213, 325,
\* 341, 364).  The limit is what counts: with more takers than that, the
\* connections can all be in use, and the one that drops its connection tells
\* nobody (WSConnectionPool.cpp:237-248).
THEOREM WaitersAreWoken == TakersWithin => (Spec => []WaiterWillBeWoken)
<1> SUFFICES ASSUME TakersWithin PROVE Spec => []WaiterWillBeWoken
  OBVIOUS
<1>1. Init => WakeInv
  BY DEF Init, WakeInv
<1>2. CountInv /\ FateInv /\ WakeInv /\ [Next]_vars => WakeInv'
  BY TakerWake, AsioWake, TimerWake, StutterWake DEF Next, Dead
<1>3. WakeInv => WaiterWillBeWoken
  BY DEF WakeInv, Coming, WaiterWillBeWoken
<1> QED
  BY <1>1, <1>2, <1>3, CountInvariance, FateInvariance, PTL DEF Spec
=============================================================================
