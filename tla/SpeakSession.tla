---------------------------- MODULE SpeakSession ----------------------------
(***************************************************************************)
(* SpeechRestAPI.cpp: one Speak call with the connection it has taken.     *)
(* DoSpeakAsync runs on a thread of its own; the asio thread calls         *)
(* OnMessage and OnClose, which refer to two of its local variables, the   *)
(* shared pointer conn and the queue; Stop comes from a third thread.      *)
(*                                                                         *)
(* The queue is the abstract Channel that BlockingQueue implements.  A     *)
(* handler runs with the mutex of the WSConnection wrapper, so setting the *)
(* handlers waits for asio = "idle".  Both sides use conn without a lock,  *)
(* and the handlers may run after the queue is gone: undefined tells when  *)
(* that has happened, and nothing is said of what follows.                 *)
(***************************************************************************)
EXTENDS Naturals, Sequences

CONSTANT MaxPushes   \* bound on the number of audio messages of the turn

ASSUME MaxPushesAssumption == MaxPushes \in Nat

Chunks == 1 .. MaxPushes

VARIABLES
  sent, received, closed, cancelled, outcome,  \* the queue and the stop flag
  spk,        \* where DoSpeakAsync is
  result,     \* what its future will hold: "none", "end" or "error"
  conn,       \* the local: "held", "null", "dying" (its destructor runs), "gone"
  alive,      \* the local queue has not been destroyed
  allData,    \* m_allDataReceived
  hooks,      \* which handlers of the wrapper are set
  asio,       \* where the asio thread is in OnMessage or OnClose
  ws,         \* the session state of the connection
  posted,     \* handle_terminate is posted for it
  rejected,   \* the remote close code is invalid_payload
  where,      \* "session", "pool" or "dropped"
  turn,       \* the turn at the server: "none", "running" or "ended"
  emitted,    \* audio messages of the turn that have arrived
  undefined   \* "no", or the local a handler misused

queueVars == <<sent, received, closed, cancelled, outcome>>
localVars == <<result, conn, alive, allData>>
connVars == <<hooks, ws, posted, rejected, where>>
serverVars == <<turn, emitted>>
vars == <<queueVars, spk, localVars, connVars, asio, serverVars, undefined>>

Q == INSTANCE Channel WITH Items <- Chunks

Init ==
  /\ Q!Init
  /\ spk = "taken" /\ result = "none" /\ conn = "held" /\ alive = TRUE /\ allData = FALSE
  /\ hooks = {} /\ asio = "idle"
  /\ ws = "open" /\ posted = FALSE /\ rejected = FALSE /\ where = "session"
  /\ turn = "none" /\ emitted = 0 /\ undefined = "no"

Defined == undefined = "no"

\* connection::terminate
Terminate == ws' = "closed" /\ posted' = (posted \/ ws = "open")

\* Mutant: the user's handlers stay.
PutBackWithHandlers ==
  /\ where' = IF ws = "open" THEN "pool" ELSE "dropped"
  /\ UNCHANGED <<hooks, ws, posted, rejected>>

\* PutBackConnection: the user's handlers are reset, and only an open
\* connection goes back to the list.
PutBack ==
  /\ hooks' = {}
  /\ where' = IF ws = "open" THEN "pool" ELSE "dropped"
  /\ UNCHANGED <<ws, posted, rejected>>

-----------------------------------------------------------------------------
(* DoSpeakAsync.                                                           *)

SetMessageHandler ==
  /\ Defined /\ spk = "taken" /\ asio = "idle"
  /\ hooks' = hooks \cup {"message"} /\ spk' = "hooking"
  /\ UNCHANGED <<queueVars, localVars, ws, posted, rejected, where, asio, serverVars, undefined>>

SetCloseHandler ==
  /\ Defined /\ spk = "hooking" /\ asio = "idle"
  /\ hooks' = hooks \cup {"close"} /\ spk' = "hooked"
  /\ UNCHANGED <<queueVars, localVars, ws, posted, rejected, where, asio, serverVars, undefined>>

\* The error codes of send are not looked at; making the request may throw.
SendRequest ==
  /\ Defined /\ spk = "hooked"
  /\ allData' = FALSE
  /\ \/ /\ turn' = IF ws = "open" THEN "running" ELSE turn
        /\ spk' = "loop" /\ UNCHANGED result
     \/ spk' = "unwind" /\ result' = "error" /\ UNCHANGED turn
  /\ UNCHANGED <<queueVars, conn, alive, connVars, asio, emitted, undefined>>

\* Mp3ProcessLoop: a message is taken and converted, which may throw.
TakeAudio ==
  /\ Defined /\ spk = "loop" /\ Q!Receive
  /\ UNCHANGED <<spk, result>> \/ (spk' = "unwind" /\ result' = "error")
  /\ UNCHANGED <<conn, alive, allData, connVars, asio, serverVars, undefined>>

\* Mutant: the loop looks at m_allDataReceived.
TakeEndOnAllData ==
  /\ Defined /\ spk = "loop" /\ spk' = "unwind"
  /\ \/ Q!Finish /\ result' = outcome'
     \/ allData /\ result' = "end" /\ UNCHANGED queueVars
  /\ UNCHANGED <<conn, alive, allData, connVars, asio, serverVars, undefined>>

TakeEnd ==
  /\ Defined /\ spk = "loop" /\ spk' = "unwind"
  /\ Q!Finish /\ result' = outcome'
  /\ UNCHANGED <<conn, alive, allData, connVars, asio, serverVars, undefined>>

\* Leaving the function: the queue is destroyed first ...
DestroyQueue ==
  /\ Defined /\ spk = "unwind" /\ spk' = "closer"
  /\ alive' = FALSE
  /\ UNCHANGED <<queueVars, result, conn, allData, connVars, asio, serverVars, undefined>>

\* Mutant: there is no connectionCloser.
NoCloser ==
  /\ Defined /\ spk = "closer" /\ spk' = "release"
  /\ UNCHANGED <<queueVars, localVars, connVars, asio, serverVars, undefined>>

\* ... then connectionCloser looks at conn ...
TestConn ==
  /\ Defined /\ spk = "closer"
  /\ spk' = IF conn = "held" THEN "closing" ELSE "release"
  /\ UNCHANGED <<queueVars, localVars, connVars, asio, serverVars, undefined>>

\* ... and terminates the connection, if conn still points to it ...
CloseConn ==
  /\ Defined /\ spk = "closing" /\ spk' = "release"
  /\ \/ conn = "held" /\ Terminate /\ UNCHANGED undefined
     \/ conn = "null" /\ undefined' = "conn" /\ UNCHANGED <<ws, posted>>
  /\ UNCHANGED <<queueVars, localVars, hooks, rejected, where, asio, serverVars>>

\* ... and at last conn goes, with the connection unless it was reset.
BeginRelease ==
  /\ Defined /\ spk = "release" /\ conn \in {"held", "null"}
  /\ IF conn = "held" THEN conn' = "dying" /\ UNCHANGED spk
                      ELSE conn' = "gone" /\ spk' = "done"
  /\ UNCHANGED <<queueVars, result, alive, allData, connVars, asio, serverVars, undefined>>

\* Mutant: the deleter of the shared pointer does not put anything back.
EndReleaseDeletes ==
  /\ Defined /\ spk = "release" /\ conn = "dying" /\ asio = "idle"
  /\ conn' = "gone" /\ spk' = "done"
  /\ UNCHANGED <<queueVars, result, alive, allData, connVars, asio, serverVars, undefined>>

\* PutBackConnection waits for a handler that is running.
EndRelease ==
  /\ Defined /\ spk = "release" /\ conn = "dying" /\ asio = "idle"
  /\ PutBack /\ conn' = "gone" /\ spk' = "done"
  /\ UNCHANGED <<queueVars, result, alive, allData, asio, serverVars, undefined>>

\* Stop, or the destructor of SpeechRestAPI.
Stop ==
  /\ Defined /\ Q!Cancel
  /\ UNCHANGED <<spk, localVars, connVars, asio, serverVars, undefined>>

-----------------------------------------------------------------------------
(* OnMessage, on the asio thread.                                          *)

Receiving ==
  /\ Defined /\ asio = "idle" /\ ws = "open" /\ turn = "running" /\ "message" \in hooks

\* A handler that uses the queue after DestroyQueue.
DeadQueue == ~alive /\ undefined' = "queue" /\ UNCHANGED queueVars

\* An audio message; once the queue is complete it is dropped.
AudioMessage ==
  /\ Receiving /\ emitted < MaxPushes
  /\ emitted' = emitted + 1
  /\ \/ alive /\ Q!Send(emitted') /\ UNCHANGED undefined
     \/ alive /\ closed # "open" /\ UNCHANGED <<queueVars, undefined>>
     \/ DeadQueue
  /\ UNCHANGED <<spk, localVars, connVars, asio, turn>>

\* Metadata that is not what the code expects: the exception fails the queue.
BadMetadata ==
  /\ Receiving
  /\ \/ alive /\ Q!Close("failed") /\ UNCHANGED undefined
     \/ DeadQueue
  /\ UNCHANGED <<spk, localVars, connVars, asio, serverVars>>

\* Mutant: the queue is not completed.
TurnEndIncomplete ==
  /\ Receiving
  /\ turn' = "ended" /\ allData' = TRUE /\ asio' = "reset"
  /\ UNCHANGED <<queueVars, undefined, spk, result, conn, alive, connVars, emitted>>

\* Mutant: conn is not reset.
TurnEndKeepsConn ==
  /\ Receiving
  /\ turn' = "ended" /\ allData' = TRUE
  /\ \/ alive /\ Q!Close("complete") /\ UNCHANGED undefined
     \/ alive /\ closed # "open" /\ UNCHANGED <<queueVars, undefined>>
     \/ DeadQueue
  /\ UNCHANGED <<spk, result, conn, alive, connVars, asio, emitted>>

\* turn.end: m_allDataReceived, then queue.complete() ...
TurnEnd ==
  /\ Receiving
  /\ turn' = "ended" /\ allData' = TRUE /\ asio' = "reset"
  /\ \/ alive /\ Q!Close("complete") /\ UNCHANGED undefined
     \/ alive /\ closed # "open" /\ UNCHANGED <<queueVars, undefined>>
     \/ DeadQueue
  /\ UNCHANGED <<spk, result, conn, alive, connVars, emitted>>

\* ... then conn.reset(), whatever DoSpeakAsync is doing with conn ...
ResetConn ==
  /\ Defined /\ asio = "reset"
  /\ \/ conn = "held" /\ conn' = "null" /\ asio' = "putback" /\ UNCHANGED undefined
     \/ conn = "dying" /\ undefined' = "conn" /\ UNCHANGED <<conn, asio>>
  /\ UNCHANGED <<queueVars, spk, result, alive, allData, connVars, serverVars>>

\* ... whose deleter puts the connection back.
PutBackByAsio ==
  /\ Defined /\ asio = "putback" /\ asio' = "idle" /\ PutBack
  /\ UNCHANGED <<queueVars, spk, localVars, serverVars, undefined>>

-----------------------------------------------------------------------------
(* OnClose, on the asio thread.                                            *)

\* The server closes the connection, or it is lost.
ConnectionLost(invalidPayload) ==
  /\ Defined /\ asio = "idle" /\ ws = "open" /\ where = "session"
  /\ invalidPayload => turn = "running"
  /\ Terminate /\ rejected' = invalidPayload
  /\ UNCHANGED <<queueVars, spk, localVars, hooks, where, asio, serverVars, undefined>>

\* Mutant: a rejected request only completes the queue.
CloseEventCompletes ==
  /\ Defined /\ asio = "idle" /\ posted /\ posted' = FALSE
  /\ \/ "close" \notin hooks /\ UNCHANGED <<queueVars, undefined>>
     \/ "close" \in hooks /\ DeadQueue
     \/ "close" \in hooks /\ alive /\ Q!Close("complete") /\ UNCHANGED undefined
     \/ "close" \in hooks /\ alive /\ closed # "open" /\ UNCHANGED <<queueVars, undefined>>
  /\ UNCHANGED <<spk, localVars, hooks, ws, rejected, where, asio, serverVars>>

\* The close handler, if it is still set: a request the server rejected fails
\* the queue; any other end completes it.
CloseEvent ==
  /\ Defined /\ asio = "idle" /\ posted /\ posted' = FALSE
  /\ \/ "close" \notin hooks /\ UNCHANGED <<queueVars, asio, undefined>>
     \/ "close" \in hooks /\ DeadQueue /\ UNCHANGED asio
     \/ /\ "close" \in hooks /\ alive /\ asio' = "closing"
        /\ IF rejected /\ closed = "open" THEN Q!Close("failed") ELSE UNCHANGED queueVars
        /\ UNCHANGED undefined
  /\ UNCHANGED <<spk, localVars, hooks, ws, rejected, where, serverVars>>

\* The call of complete() at the end of OnClose.
CloseComplete ==
  /\ Defined /\ asio = "closing" /\ asio' = "idle"
  /\ \/ alive /\ Q!Close("complete") /\ UNCHANGED undefined
     \/ alive /\ closed # "open" /\ UNCHANGED <<queueVars, undefined>>
     \/ DeadQueue
  /\ UNCHANGED <<spk, localVars, connVars, serverVars>>

-----------------------------------------------------------------------------
SpeakerNext ==
  \/ SetMessageHandler \/ SetCloseHandler \/ SendRequest \/ TakeAudio \/ TakeEnd
  \/ DestroyQueue \/ TestConn \/ CloseConn \/ BeginRelease \/ EndRelease

\* What the asio thread has begun, or has been given to do.
AsioStep == ResetConn \/ PutBackByAsio \/ CloseEvent \/ CloseComplete

Next ==
  \/ SpeakerNext \/ Stop \/ AsioStep
  \/ AudioMessage \/ BadMetadata \/ TurnEnd
  \/ \E invalidPayload \in BOOLEAN : ConnectionLost(invalidPayload)

Spec == Init /\ [][Next]_vars

\* Both threads run; the server need not send anything.
FairSpec == Spec /\ WF_vars(SpeakerNext) /\ WF_vars(AsioStep)

-----------------------------------------------------------------------------
\* conn is gone exactly when DoSpeakAsync has returned, and handlers are set
\* only while the session has the connection.
TypeOK ==
  /\ sent \in Seq(Chunks) /\ received \in Seq(Chunks)
  /\ closed \in {"open", "complete", "failed"} /\ cancelled \in BOOLEAN
  /\ outcome \in {"open", "end", "error"}
  /\ spk \in {"taken", "hooking", "hooked", "loop", "unwind", "closer", "closing",
              "release", "done"}
  /\ result \in {"none", "end", "error"}
  /\ conn \in {"held", "null", "dying", "gone"} /\ (conn = "gone" <=> spk = "done")
  /\ alive \in BOOLEAN /\ allData \in BOOLEAN
  /\ hooks \subseteq {"message", "close"}
  /\ asio \in {"idle", "reset", "putback", "closing"}
  /\ ws \in {"open", "closed"} /\ posted \in BOOLEAN /\ rejected \in BOOLEAN
  /\ where \in {"session", "pool", "dropped"} /\ (hooks # {} => where = "session")
  /\ turn \in {"none", "running", "ended"} /\ emitted \in 0 .. MaxPushes
  /\ undefined \in {"no", "queue", "conn"}

\* A Speak that was neither stopped nor failed has played every audio message
\* of its turn, in order, although turn.end overtakes what is in the queue
\* (SpeechRestAPI.cpp:99).
EverythingPlayed ==
  spk = "done" /\ result = "end" /\ turn = "ended" /\ ~cancelled =>
    received = [i \in 1 .. emitted |-> i]

\* A connection in the pool has no turn still running: the next Speak hears
\* nothing of this one, however this one ended.
NothingLeftOver == where = "pool" => turn # "running"

\* No connection is lost to the pool: when the Speak is over, the pool has it
\* back or has dropped it, whichever thread released it.
ConnectionReturned ==
  spk = "done" /\ asio = "idle" /\ Defined => where # "session"

\* The handlers refer to the queue without owning it.  While nobody stops the
\* Speak and nothing throws, they never use it after it is destroyed.
QueueOutlivesHandlers == undefined = "queue" => cancelled \/ result = "error"

\* A request the server has rejected is reported by the future, and not taken
\* for the end of the audio, although OnClose also completes the queue.
RejectionReported ==
  spk = "done" /\ rejected /\ ~allData /\ ~cancelled => result = "error"

\* DoSpeakAsync returns once it is stopped, the turn has ended or OnClose has
\* completed the queue; the thread in Speak waits for it (TTSEngine.cpp:193).
EndReachesSpeaker ==
  cancelled \/ turn = "ended" \/ closed # "open" ~> spk = "done" \/ ~Defined

\* connectionCloser closes the connection only if not all data has been
\* received; else conn has been reset by OnMessage (SpeechRestAPI.cpp:84).
CloserOnlyAfterIncomplete == [][ spk = "closing" /\ spk' = "release" => ~allData ]_vars
=============================================================================
