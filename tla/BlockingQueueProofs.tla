------------------------ MODULE BlockingQueueProofs ------------------------
(***************************************************************************)
(* For every set of producers, every set of messages and every bound on    *)
(* the pushes: the safety properties of BlockingQueue, and that every step *)
(* of it is a step of Channel or leaves the channel alone.                 *)
(***************************************************************************)
EXTENDS BlockingQueue, SequenceTheorems, TLAPS

\* Between the test of the loop and m_cv.wait the mutex keeps the tested
\* condition from changing, but for a stop request, whose callback is then
\* still waiting for that mutex.
TestStillHolds ==
  taker = "wait" =>
    /\ queue = <<>> /\ ~complete
    /\ StopRequested => stopper = "lock"

\* take() is not called again once it has returned the end or a failure.
OpenInsideTake == taker \notin {"idle", "unregister"} => outcome = "open"

\* take() leaves its loop with an empty queue only when it has to.
EmptyExit ==
  taker = "exit" => queue # <<>> \/ complete \/ StopRequested

IInv == /\ TypeOK /\ NoLostWakeup
        /\ TestStillHolds /\ OpenInsideTake /\ EmptyExit

LEMMA InitIInv == Init => IInv
<1>1. <<>> \in Seq(Items)
  BY EmptySeq
<1> QED
  BY <1>1 DEF Init, IInv, TypeOK, NoLostWakeup, TestStillHolds,
       OpenInsideTake, EmptyExit, TakerPC, StopperPC, StopRequested

LEMMA NextIInv == IInv /\ [Next]_vars => IInv'
<1> SUFFICES ASSUME IInv, [Next]_vars PROVE IInv'
  OBVIOUS
<1>0. queue \in Seq(Items) /\ received \in Seq(Items)
  BY DEF IInv, TypeOK
<1> USE DEF IInv, TypeOK, NoLostWakeup, TestStillHolds,
            OpenInsideTake, EmptyExit, TakerPC, StopperPC, StopRequested, Held, Wake
<1>1. ASSUME NEW p \in Producers, NEW v \in Items, Push(p, v) PROVE IInv'
  BY <1>1 DEF Push
<1>2. ASSUME NEW p \in Producers, PushNotify(p) PROVE IInv'
  BY <1>2 DEF PushNotify
<1>3. ASSUME NEW p \in Producers, Complete(p) PROVE IInv'
  BY <1>3 DEF Complete
<1>4. ASSUME NEW p \in Producers, Fail(p) PROVE IInv'
  BY <1>4 DEF Fail
<1>5. CASE BeginTake
  BY <1>5 DEF BeginTake
<1>6. CASE Lock
  BY <1>6 DEF Lock
<1>7. CASE Test
  BY <1>7 DEF Test
<1>8. CASE Wait
  BY <1>8 DEF Wait
<1>9. CASE Exit
  <2>1. ASSUME queue # <<>>
        PROVE  /\ Tail(queue) \in Seq(Items)
               /\ Append(received, Head(queue)) \in Seq(Items)
    <3>1. Head(queue) \in Items /\ Tail(queue) \in Seq(Items)
      BY <1>0, <2>1, HeadTailProperties
    <3> QED
      BY <1>0, <3>1, AppendProperties
  <2>2. queue' \in Seq(Items) /\ received' \in Seq(Items)
    BY <1>0, <1>9, <2>1 DEF Exit
  <2> QED
    BY <1>9, <2>2 DEF Exit
<1>10. CASE Unregister
  BY <1>10 DEF Unregister
<1>11. CASE SpuriousWakeup
  BY <1>11 DEF SpuriousWakeup
<1>12. CASE RequestStop
  BY <1>12 DEF RequestStop
<1>13. CASE CallbackLock
  BY <1>13 DEF CallbackLock
<1>14. CASE CallbackNotify
  BY <1>14 DEF CallbackNotify
<1>15. CASE UNCHANGED vars
  BY <1>15 DEF vars
<1> QED
  BY <1>1, <1>2, <1>3, <1>4, <1>5, <1>6, <1>7, <1>8, <1>9, <1>10, <1>11,
     <1>12, <1>13, <1>14, <1>15 DEF Next, TakeStep

LEMMA Invariance == Spec => []IInv
BY InitIInv, NextIInv, PTL DEF Spec

\* The queue's variables always have their types.
THEOREM TypeCorrect == Spec => []TypeOK
<1>1. IInv => TypeOK
  BY DEF IInv
<1> QED
  BY <1>1, Invariance, PTL

\* BlockingQueue.h never loses a wake-up, whatever the number of producers.
THEOREM WakeupSafety == Spec => []NoLostWakeup
<1>1. IInv => NoLostWakeup
  BY DEF IInv
<1> QED
  BY <1>1, Invariance, PTL

-----------------------------------------------------------------------------
(* Refinement.                                                             *)

\* Moving the head of the queue to the end of what was received does not
\* change their concatenation.
LEMMA MoveHead ==
  ASSUME NEW s \in Seq(Items), NEW t \in Seq(Items), t # <<>>
  PROVE  /\ Append(s, Head(t)) \o Tail(t) = s \o t
         /\ Len(s) < Len(s \o t)
         /\ (s \o t)[Len(s) + 1] = Head(t)
<1>1. Len(t) \in Nat /\ Len(t) > 0 /\ Len(s) \in Nat
  BY EmptySeq, LenProperties
<1>2. Tail(t) \in Seq(Items) /\ Len(Tail(t)) = Len(t) - 1 /\ Head(t) \in Items
  BY HeadTailProperties
<1>3. \A i \in 1..Len(Tail(t)) : Tail(t)[i] = t[i + 1]
  BY HeadTailProperties
<1>4. Append(s, Head(t)) \in Seq(Items) /\ Len(Append(s, Head(t))) = Len(s) + 1
  BY <1>2, AppendProperties
<1>5. Append(s, Head(t)) \o Tail(t) \in Seq(Items) /\ s \o t \in Seq(Items)
  BY <1>2, <1>4, ConcatProperties
<1>6. Len(Append(s, Head(t)) \o Tail(t)) = Len(s) + Len(t)
      /\ Len(s \o t) = Len(s) + Len(t)
  BY <1>1, <1>2, <1>4, ConcatProperties
<1>7. ASSUME NEW i \in 1..(Len(s) + Len(t))
      PROVE  (Append(s, Head(t)) \o Tail(t))[i] = (s \o t)[i]
  BY <1>1, <1>2, <1>3, <1>4 
<1>8. Append(s, Head(t)) \o Tail(t) = s \o t
  BY <1>5, <1>6, <1>7, SeqEqual
<1> QED
  BY <1>1, <1>6, <1>8

LEMMA InitImplements == Init => Ch!Init
BY DEF Init, Ch!Init, Closed, StopRequested

LEMMA NextImplements == IInv /\ [Next]_vars => [Ch!Next]_(Ch!vars)
<1> SUFFICES ASSUME IInv, [Next]_vars PROVE [Ch!Next]_(Ch!vars)
  OBVIOUS
<1>0. /\ queue \in Seq(Items) /\ received \in Seq(Items)
      /\ complete \in BOOLEAN /\ except \in BOOLEAN /\ (except => complete)
  BY DEF IInv, TypeOK
<1> USE DEF Ch!vars, Closed, StopRequested
<1>1. ASSUME NEW p \in Producers, NEW v \in Items, Push(p, v)
      PROVE  [Ch!Next]_(Ch!vars)
  <2>1. received \o Append(queue, v) = Append(received \o queue, v)
    BY <1>0
  <2>2. Len(received \o queue) = Len(received) + Len(queue)
    BY <1>0
  <2>3. Ch!Send(v)
    BY <1>0, <1>1, <2>1, <2>2 DEF Push, Ch!Send
  <2> QED
    BY <2>3 DEF Ch!Next
<1>2. ASSUME NEW p \in Producers, PushNotify(p) PROVE UNCHANGED Ch!vars
  BY <1>2 DEF PushNotify
<1>3. ASSUME NEW p \in Producers, Complete(p) PROVE [Ch!Next]_(Ch!vars)
  <2>1. Ch!Close("complete")
    BY <1>0, <1>3 DEF Complete, Ch!Close
  <2> QED
    BY <2>1 DEF Ch!Next
<1>4. ASSUME NEW p \in Producers, Fail(p) PROVE [Ch!Next]_(Ch!vars)
  <2>1. Ch!Close("failed")
    BY <1>0, <1>4 DEF Fail, Ch!Close
  <2> QED
    BY <2>1 DEF Ch!Next
<1>5. CASE BeginTake \/ Lock \/ Test \/ Wait \/ Unregister \/ SpuriousWakeup
  BY <1>5 DEF BeginTake, Lock, Test, Wait, Unregister, SpuriousWakeup
<1>6. CASE Exit
  <2>0. outcome = "open"
    BY <1>6 DEF Exit, IInv, OpenInsideTake
  <2>1. CASE except
    <3>1. Ch!Finish
      BY <1>0, <1>6, <2>0, <2>1 DEF Exit, Ch!Finish
    <3> QED
      BY <3>1 DEF Ch!Next
  <2>2. CASE ~except /\ (StopRequested \/ queue = <<>>)
    <3>1. queue = <<>> => received \o queue = received
      BY <1>0, ConcatEmptySeq
    <3>2. queue = <<>> => complete \/ StopRequested
      BY <1>6 DEF Exit, IInv, EmptyExit
    <3>3. Ch!Finish
      BY <1>0, <1>6, <2>0, <2>2, <3>1, <3>2 DEF Exit, Ch!Finish
    <3> QED
      BY <3>3 DEF Ch!Next
  <2>3. CASE ~except /\ ~StopRequested /\ queue # <<>>
    <3>1. /\ Append(received, Head(queue)) \o Tail(queue) = received \o queue
          /\ Len(received) < Len(received \o queue)
          /\ (received \o queue)[Len(received) + 1] = Head(queue)
      BY <1>0, <2>3, MoveHead
    <3>2. /\ received' = Append(received, Head(queue)) /\ queue' = Tail(queue)
          /\ UNCHANGED <<complete, except, stopper, outcome>>
      BY <1>6, <2>3 DEF Exit
    <3>3. Ch!Receive
      BY <1>0, <2>0, <2>3, <3>1, <3>2 DEF Ch!Receive
    <3> QED
      BY <3>3 DEF Ch!Next
  <2> QED
    BY <2>1, <2>2, <2>3
<1>7. CASE RequestStop
  <2>1. Ch!Cancel
    BY <1>7 DEF RequestStop, Ch!Cancel
  <2> QED
    BY <2>1 DEF Ch!Next
<1>8. CASE CallbackLock \/ CallbackNotify
  BY <1>8 DEF CallbackLock, CallbackNotify
<1>9. CASE UNCHANGED vars
  BY <1>9 DEF vars
<1> QED
  BY <1>1, <1>2, <1>3, <1>4, <1>5, <1>6, <1>7, <1>8, <1>9 DEF Next, TakeStep

\* Every behaviour of the queue is, through the mapping, a behaviour of the
\* channel: order, no loss, no value after the end, failure and cancellation.
THEOREM SafeRefinement == Spec => Ch!SafeSpec
BY InitImplements, NextImplements, Invariance, PTL DEF Spec, Ch!SafeSpec
=============================================================================
