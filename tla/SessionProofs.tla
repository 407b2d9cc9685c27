---------------------------- MODULE SessionProofs ----------------------------
(***************************************************************************)
(* Proofs about SpeakSession, for any number of audio messages.  The       *)
(* invariant follows the connection from hand to hand, and the queue from  *)
(* whoever ends it to the result of the Speak.                             *)
(***************************************************************************)
EXTENDS SpeakSession, SequenceTheorems, TLAPS

\* The first n audio messages of the turn.
FirstOf(n) == [i \in 1 .. n |-> i]

\* Until the request is sent nothing else can have happened to the
\* connection but its loss.
BeforeTurn ==
  spk \in {"taken", "hooking", "hooked"} =>
    conn = "held" /\ turn = "none" /\ asio \in {"idle", "closing"} /\ alive /\ result = "none"

\* Whoever releases the connection has it; nobody else does.
Custody ==
  /\ conn = "dying" => spk = "release"
  /\ asio = "reset" => turn = "ended" /\ (Defined => conn \in {"held", "dying"})
  /\ asio = "putback" => turn = "ended" /\ conn \in {"null", "gone"}
  /\ Defined => (where = "session" <=> conn \in {"held", "dying"} \/ asio = "putback")

\* What connectionCloser leaves to the deleter is closed.
Closed ==
  /\ spk = "release" /\ conn \in {"held", "dying"} /\ Defined => ws = "closed"
  /\ posted => ws = "closed"
  /\ asio = "closing" => ws = "closed" /\ ~posted

\* Who has completed the queue, and that he is the last to use it.
Completion ==
  /\ allData <=> turn = "ended"
  /\ turn = "ended" /\ Defined => hooks = {} \/ asio \in {"reset", "putback"}
  /\ asio = "closing" => closed # "complete" /\ (rejected => closed # "open")
  /\ closed = "complete" =>
       turn = "ended" \/ (ws = "closed" /\ ~posted /\ ~rejected)

\* How the Speak came to its result.
Result ==
  /\ result = "none" <=> spk \in {"taken", "hooking", "hooked", "loop"}
  /\ ~alive => result # "none"
  /\ result = "end" => cancelled \/ (closed = "complete" /\ received = sent)

Delivered == undefined # "queue" /\ closed # "failed" => sent = FirstOf(emitted)

IInv ==
  /\ TypeOK /\ BeforeTurn /\ Custody /\ Closed /\ Completion /\ Result /\ Delivered
  /\ NothingLeftOver /\ QueueOutlivesHandlers

LEMMA InitIInv == Init => IInv
<1> SUFFICES ASSUME Init PROVE IInv
  OBVIOUS
<1>1. FirstOf(0) = <<>>
  BY DEF FirstOf
<1>2. TypeOK
  <2>1. sent \in Seq(Chunks) /\ received \in Seq(Chunks)
    BY DEF Init, Q!Init
  <2>2. /\ cancelled \in BOOLEAN /\ alive \in BOOLEAN /\ allData \in BOOLEAN
        /\ posted \in BOOLEAN /\ rejected \in BOOLEAN
    BY DEF Init, Q!Init
  <2> QED
    BY MaxPushesAssumption, <2>1, <2>2 DEF Init, Q!Init, TypeOK
<1>3. Delivered
  BY <1>1 DEF Init, Q!Init, Delivered
<1> QED
  BY <1>2, <1>3 DEF Init, Q!Init, IInv, BeforeTurn, Custody, Closed, Completion, Result,
    NothingLeftOver, QueueOutlivesHandlers, Defined

\* The next audio message, behind the first n.
LEMMA OneMore ==
  ASSUME NEW n \in Nat
  PROVE  /\ Append(FirstOf(n), n + 1) = FirstOf(n + 1)
         /\ Len(FirstOf(n)) = n
BY DEF FirstOf

LEMMA NextIInv == IInv /\ [Next]_vars => IInv'
<1> SUFFICES ASSUME IInv, [Next]_vars PROVE IInv'
  OBVIOUS
<1> USE MaxPushesAssumption
    DEF IInv, TypeOK, BeforeTurn, Custody, Closed, Completion, Result, Delivered,
        NothingLeftOver, QueueOutlivesHandlers, Defined, Chunks,
        queueVars, localVars, connVars, serverVars
<1>1. CASE SetMessageHandler
  BY <1>1 DEF SetMessageHandler
<1>2. CASE SetCloseHandler
  BY <1>2 DEF SetCloseHandler
<1>3. CASE SendRequest
  BY <1>3 DEF SendRequest
<1>4. CASE TakeAudio
  BY <1>4 DEF TakeAudio, Q!Receive
<1>5. CASE TakeEnd
  BY <1>5 DEF TakeEnd, Q!Finish
<1>6. CASE DestroyQueue
  <2>1. TypeOK'
    <3>1. (sent \in Seq(Chunks))' /\ (received \in Seq(Chunks))'
      BY <1>6 DEF DestroyQueue
    <3>2. /\ (cancelled \in BOOLEAN)' /\ (alive \in BOOLEAN)' /\ (allData \in BOOLEAN)'
          /\ (posted \in BOOLEAN)' /\ (rejected \in BOOLEAN)'
      BY <1>6 DEF DestroyQueue
    <3> QED
      BY <1>6, <3>1, <3>2 DEF DestroyQueue
  <2>2. BeforeTurn'
    BY <1>6 DEF DestroyQueue
  <2>3. Custody'
    BY <1>6 DEF DestroyQueue
  <2>4. Closed'
    BY <1>6 DEF DestroyQueue
  <2>5. Completion'
    BY <1>6 DEF DestroyQueue
  <2>6. Result'
    BY <1>6 DEF DestroyQueue
  <2>7. Delivered'
    BY <1>6 DEF DestroyQueue
  <2>8. NothingLeftOver'
    BY <1>6 DEF DestroyQueue
  <2>9. QueueOutlivesHandlers'
    BY <1>6 DEF DestroyQueue
  <2> QED
    BY <2>1, <2>2, <2>3, <2>4, <2>5, <2>6, <2>7, <2>8, <2>9
<1>7. CASE TestConn
  BY <1>7 DEF TestConn
<1>8. CASE CloseConn
  <2>1. TypeOK'
    <3>1. (sent \in Seq(Chunks))' /\ (received \in Seq(Chunks))'
      BY <1>8 DEF CloseConn, Terminate
    <3>2. /\ (cancelled \in BOOLEAN)' /\ (alive \in BOOLEAN)' /\ (allData \in BOOLEAN)'
          /\ (posted \in BOOLEAN)' /\ (rejected \in BOOLEAN)'
      BY <1>8 DEF CloseConn, Terminate
    <3> QED
      BY <1>8, <3>1, <3>2 DEF CloseConn, Terminate
  <2>2. BeforeTurn'
    BY <1>8 DEF CloseConn, Terminate
  <2>3. Custody'
    BY <1>8 DEF CloseConn, Terminate
  <2>4. Closed'
    BY <1>8 DEF CloseConn, Terminate
  <2>5. Completion'
    BY <1>8 DEF CloseConn, Terminate
  <2>6. Result'
    BY <1>8 DEF CloseConn, Terminate
  <2>7. Delivered'
    BY <1>8 DEF CloseConn, Terminate
  <2>8. NothingLeftOver'
    BY <1>8 DEF CloseConn, Terminate
  <2>9. QueueOutlivesHandlers'
    BY <1>8 DEF CloseConn, Terminate
  <2> QED
    BY <2>1, <2>2, <2>3, <2>4, <2>5, <2>6, <2>7, <2>8, <2>9
<1>9. CASE BeginRelease
  BY <1>9 DEF BeginRelease
<1>10. CASE EndRelease
  BY <1>10 DEF EndRelease, PutBack
<1>11. CASE Stop
  BY <1>11 DEF Stop, Q!Cancel
<1>12. CASE ResetConn
  BY <1>12 DEF ResetConn
<1>13. CASE PutBackByAsio
  BY <1>13 DEF PutBackByAsio, PutBack
<1>14. CASE CloseEvent
  <2>1. TypeOK'
    <3>1. (sent \in Seq(Chunks))' /\ (received \in Seq(Chunks))'
      BY <1>14 DEF CloseEvent, DeadQueue, Q!Close
    <3>2. /\ (cancelled \in BOOLEAN)' /\ (alive \in BOOLEAN)' /\ (allData \in BOOLEAN)'
          /\ (posted \in BOOLEAN)' /\ (rejected \in BOOLEAN)'
      BY <1>14 DEF CloseEvent, DeadQueue, Q!Close
    <3> QED
      BY <1>14, <3>1, <3>2 DEF CloseEvent, DeadQueue, Q!Close
  <2>2. BeforeTurn'
    BY <1>14 DEF CloseEvent, DeadQueue, Q!Close
  <2>3. Custody'
    BY <1>14 DEF CloseEvent, DeadQueue, Q!Close
  <2>4. Closed'
    BY <1>14 DEF CloseEvent, DeadQueue, Q!Close
  <2>5. Completion'
    BY <1>14 DEF CloseEvent, DeadQueue, Q!Close
  <2>6. Result'
    BY <1>14 DEF CloseEvent, DeadQueue, Q!Close
  <2>7. Delivered'
    BY <1>14 DEF CloseEvent, DeadQueue, Q!Close
  <2>8. NothingLeftOver'
    BY <1>14 DEF CloseEvent, DeadQueue, Q!Close
  <2>9. QueueOutlivesHandlers'
    BY <1>14 DEF CloseEvent, DeadQueue, Q!Close
  <2> QED
    BY <2>1, <2>2, <2>3, <2>4, <2>5, <2>6, <2>7, <2>8, <2>9
<1>15. CASE CloseComplete
  BY <1>15 DEF CloseComplete, DeadQueue, Q!Close
<1>16. CASE AudioMessage
  <2>1. emitted \in Nat /\ emitted' \in Chunks /\ received \in Seq(Chunks) /\ alive \in BOOLEAN
    BY <1>16 DEF AudioMessage
  <2>2. CASE alive /\ Q!Send(emitted') /\ UNCHANGED undefined
    <3>1. sent = FirstOf(emitted) /\ sent' = Append(sent, emitted + 1) /\ emitted' = emitted + 1
      BY <1>16, <2>2 DEF AudioMessage, Receiving, Q!Send
    <3>2. sent' = FirstOf(emitted')
      BY <2>1, <3>1, OneMore
    <3>3. sent' \in Seq(Chunks)
      BY <2>1, <3>1
    <3> QED
      BY <1>16, <2>1, <2>2, <3>2, <3>3 DEF AudioMessage, Receiving, Q!Send
  <2>3. CASE alive /\ closed # "open" /\ UNCHANGED <<queueVars, undefined>>
    BY <1>16, <2>1, <2>3 DEF AudioMessage, Receiving
  <2>4. CASE DeadQueue
    BY <1>16, <2>1, <2>4 DEF AudioMessage, Receiving, DeadQueue
  <2> QED
    BY <1>16, <2>2, <2>3, <2>4 DEF AudioMessage
<1>17. CASE BadMetadata
  BY <1>17 DEF BadMetadata, Receiving, DeadQueue, Q!Close
<1>18. CASE TurnEnd
  BY <1>18 DEF TurnEnd, Receiving, DeadQueue, Q!Close
<1>19. ASSUME NEW invalidPayload \in BOOLEAN, ConnectionLost(invalidPayload) PROVE IInv'
  BY <1>19 DEF ConnectionLost, Terminate
<1>20. CASE UNCHANGED vars
  BY <1>20 DEF vars
<1> QED
  BY <1>1, <1>2, <1>3, <1>4, <1>5, <1>6, <1>7, <1>8, <1>9, <1>10, <1>11, <1>12, <1>13, <1>14, <1>15, <1>16, <1>17, <1>18, <1>19, <1>20 DEF Next, SpeakerNext, AsioStep

LEMMA Invariance == Spec => []IInv
BY InitIInv, NextIInv, PTL DEF Spec

\* The locals and the connection of DoSpeakAsync keep their types; handlers
\* are set only while the session has the connection.
THEOREM TypeCorrect == Spec => []TypeOK
<1>1. IInv => TypeOK
  BY DEF IInv
<1> QED
  BY <1>1, Invariance, PTL

\* However a Speak ends, the connection it gives back has no turn running
\* that the next one would hear (SpeechRestAPI.cpp:82-88).
THEOREM CleanConnection == Spec => []NothingLeftOver
<1>1. IInv => NothingLeftOver
  BY DEF IInv
<1> QED
  BY <1>1, Invariance, PTL

\* Whichever thread lets go of the connection last, the pool hears of it
\* (SpeechRestAPI.cpp:79-81 and 313).
THEOREM ConnectionComesBack == Spec => []ConnectionReturned
<1>1. IInv => ConnectionReturned
  BY DEF IInv, TypeOK, Custody, ConnectionReturned
<1> QED
  BY <1>1, Invariance, PTL

\* The handlers use the queue after its destruction only in a Speak that was
\* stopped or has failed (SpeechRestAPI.cpp:90-95).
THEOREM QueueIsThere == Spec => []QueueOutlivesHandlers
<1>1. IInv => QueueOutlivesHandlers
  BY DEF IInv
<1> QED
  BY <1>1, Invariance, PTL

\* A rejection is never taken for the end (SpeechRestAPI.cpp:223-229).
THEOREM RejectionKnown == Spec => []RejectionReported
<1>1. IInv => RejectionReported
  BY DEF IInv, TypeOK, Completion, Result, RejectionReported
<1> QED
  BY <1>1, Invariance, PTL

\* A Speak that ends well has played all the audio messages in order, for any
\* number of them.
THEOREM AllAudioPlayed == Spec => []EverythingPlayed
<1>1. ASSUME IInv PROVE EverythingPlayed
  <2> SUFFICES ASSUME spk = "done", result = "end", turn = "ended", ~cancelled
               PROVE  received = [i \in 1 .. emitted |-> i]
    BY DEF EverythingPlayed
  <2>1. closed = "complete" /\ received = sent
    BY <1>1 DEF IInv, Result
  <2>2. undefined # "queue"
    BY <1>1 DEF IInv, QueueOutlivesHandlers
  <2> QED
    BY <1>1, <2>1, <2>2 DEF IInv, Delivered, FirstOf
<1> QED
  BY <1>1, Invariance, PTL
=============================================================================
