------------------------------ MODULE Channel ------------------------------
(***************************************************************************)
(* What BlockingQueue.h promises its two sides: a one-way channel that     *)
(* passes data, and one final success or failure state, to another thread  *)
(* (BlockingQueue.h:6).  No mutex, no condition variable, no callback.     *)
(***************************************************************************)
EXTENDS Naturals, Sequences

CONSTANTS Items,      \* the values that can be passed
          MaxPushes   \* bound on the number of values passed

VARIABLES sent,       \* every value accepted so far, in order
          received,   \* every value handed to the receiver, in order
          closed,     \* "open", "complete" or "failed"
          cancelled,  \* the receiver has been asked to stop
          outcome     \* "open" until the receiver is told "end" or "error"

vars == <<sent, received, closed, cancelled, outcome>>

Init ==
  /\ sent = <<>> /\ received = <<>>
  /\ closed = "open" /\ cancelled = FALSE /\ outcome = "open"

\* A closed channel accepts nothing more.
Send(v) ==
  /\ closed = "open" /\ Len(sent) < MaxPushes
  /\ sent' = Append(sent, v)
  /\ UNCHANGED <<received, closed, cancelled, outcome>>

\* The first of complete and fail decides; later ones change nothing.
Close(how) ==
  /\ closed = "open"
  /\ closed' = how
  /\ UNCHANGED <<sent, received, cancelled, outcome>>

Cancel ==
  /\ ~cancelled /\ cancelled' = TRUE
  /\ UNCHANGED <<sent, received, closed, outcome>>

\* Values come out in the order they went in; a failure overtakes them.
Receive ==
  /\ outcome = "open" /\ closed # "failed" /\ ~cancelled
  /\ Len(received) < Len(sent)
  /\ received' = Append(received, sent[Len(received) + 1])
  /\ UNCHANGED <<sent, closed, cancelled, outcome>>

\* The receiver learns of the end only when there is nothing left to
\* receive or it was cancelled, and of a failure only when there was one.
Finish ==
  /\ outcome = "open"
  /\ \/ closed = "failed" /\ outcome' = "error"
     \/ /\ closed # "failed" /\ outcome' = "end"
        /\ cancelled \/ (closed = "complete" /\ received = sent)
  /\ UNCHANGED <<sent, received, closed, cancelled>>

Next ==
  \/ \E v \in Items : Send(v)
  \/ \E how \in {"complete", "failed"} : Close(how)
  \/ Cancel \/ Receive \/ Finish

SafeSpec == Init /\ [][Next]_vars

\* The receiver is never left waiting for something that is already there.
Spec == SafeSpec /\ WF_vars(Receive) /\ WF_vars(Finish)
=============================================================================
