------------------------------ MODULE AudioPath ------------------------------
(***************************************************************************)
(* The way of decoded audio and of its events to the SAPI site:            *)
(* SpeechRestAPI::ProcessWaveData on the thread of the Speak call,         *)
(* OnMessage adding events on the asio thread, and                         *)
(* CTTSEngine::OnAudioData with its optimization of silence.               *)
(*                                                                         *)
(* Positions and lengths are in wave blocks; the position of an event is   *)
(* its tick offset converted to bytes and rounded down to a block.  All    *)
(* chunks have one length.  For the online voices the site stays set as    *)
(* long as the Speak call runs.                                            *)
(***************************************************************************)
EXTENDS Integers, Sequences, FiniteSets

CONSTANTS
  ChunkCount, ChunkLen,  \* the decoded audio
  Events, NoEvent,       \* the events of the turn, and none of them
  EventAt(_),            \* the position of an event
  HoldLimit,             \* one second of silence
  Interested,            \* WordBoundaryCallback is set
  Optimize,              \* m_onlineDelayOptimization
  MaxFailures            \* bound on the number of writes that fail

ASSUME AudioAssumption ==
  /\ {ChunkCount, ChunkLen, HoldLimit} \subseteq Nat \ {0} /\ ChunkLen <= HoldLimit
  /\ MaxFailures \in Nat /\ {Interested, Optimize} \subseteq BOOLEAN
  /\ NoEvent \notin Events /\ \A e \in Events : EventAt(e) \in Nat

VARIABLES
  quiet,       \* the blocks that are silence; it never changes
  pc,          \* where ProcessWaveData is
  chunk,       \* number of chunks begun
  pos, left,   \* waveData (as a position) and waveSize
  counter,     \* m_waveBytesWritten
  waited,      \* hasWaited
  current,     \* the event taken from the queue
  pending,     \* m_events
  arrived,     \* per event: the value of chunk when it arrived, or -1
  calledAt,    \* per event: m_waveBytesWritten at its callback, or -1
  lastSilent,  \* m_lastSilentBytes
  site,        \* what has been written: a position, or Zero
  failures,    \* number of failed writes
  overrun      \* a Write was given a length that wrapped around

waveVars == <<pc, chunk, pos, left, counter, waited, current>>
eventVars == <<pending, arrived, calledAt>>
siteVars == <<lastSilent, site, failures, overrun>>
vars == <<quiet, waveVars, eventVars, siteVars>>

Zero == -1
Total == ChunkCount * ChunkLen
Span(from, len) == from .. (from + len - 1)
Blocks(from, len) == [i \in 1 .. len |-> from + i - 1]
Zeros(len) == [i \in 1 .. len |-> Zero]

\* Speak() has set m_lastSilentBytes to 0.
Init ==
  /\ quiet \in SUBSET Span(0, Total)
  /\ pc = "idle" /\ chunk = 0 /\ pos = 0 /\ left = 0 /\ counter = 0
  /\ waited = FALSE /\ current = NoEvent
  /\ pending = {} /\ arrived = [e \in Events |-> -1] /\ calledAt = [e \in Events |-> -1]
  /\ lastSilent = 0 /\ site = <<>> /\ failures = 0 /\ overrun = FALSE

-----------------------------------------------------------------------------
(* CTTSEngine::OnAudioData.                                                *)

\* GetTrailingSilenceLengthMono
TrailingSilence(from, len) ==
  CHOOSE n \in 0 .. len :
    /\ Span(from + len - n, n) \subseteq quiet
    /\ n < len => (from + len - n - 1) \notin quiet

\* The chunk is held back, as nothing has been said since.
Hold(len, written) ==
  lastSilent' = lastSilent + len /\ written = len /\ UNCHANGED <<site, failures, overrun>>

\* The length of a Write, a ULONG, wraps around.
WrapAround(len, written) ==
  overrun' = TRUE /\ written = len /\ UNCHANGED <<site, failures>>

\* A Write writes all or nothing; a failure of the first one is not looked at.
Writes(silence, data, len, written) ==
  \E fail \in SUBSET {"silence", "data"} :
    /\ failures' = failures + Cardinality(fail) /\ failures' <= MaxFailures
    /\ site' = site \o (IF "silence" \in fail THEN <<>> ELSE silence)
                    \o (IF "data" \in fail THEN <<>> ELSE data)
    /\ written = IF "data" \in fail THEN 0 ELSE len
    /\ UNCHANGED overrun

\* Mutant: silence that was held back is forgotten.
ForgetSilence(from, len, held, written) ==
  /\ lastSilent' = held
  /\ IF held > len THEN WrapAround(len, written)
                   ELSE Writes(<<>>, Blocks(from, len - held), len, written)

\* The silence held back, when there is sound again, and then the chunk
\* without the last held blocks.
Write(from, len, held, written) ==
  LET silence == IF TrailingSilence(from, len) < len THEN Zeros(lastSilent) ELSE <<>>
  IN /\ lastSilent' = held
     /\ IF held > len THEN WrapAround(len, written)
                      ELSE Writes(silence, Blocks(from, len - held), len, written)

\* What OnAudioData does with a chunk, and the length it returns.
OnAudioData(from, len, written) ==
  LET silent == TrailingSilence(from, len)
  IN IF Optimize /\ silent = len /\ lastSilent < HoldLimit
       THEN Hold(len, written)
       ELSE Write(from, len, IF Optimize /\ silent < len THEN silent ELSE lastSilent, written)

-----------------------------------------------------------------------------
(* SpeechRestAPI::ProcessWaveData.                                         *)

\* Called with the next piece of decoded audio.
BeginChunk ==
  /\ ~overrun /\ pc = "idle" /\ chunk < ChunkCount
  /\ pc' = "look" /\ chunk' = chunk + 1
  /\ pos' = chunk * ChunkLen /\ left' = ChunkLen /\ waited' = FALSE
  /\ UNCHANGED <<quiet, counter, current, eventVars, siteVars>>

\* m_events.top() is one of the earliest events.
Earliest == {e \in pending : \A f \in pending : EventAt(e) <= EventAt(f)}

\* Events that are due before the end of this chunk.
Due == {e \in Earliest : EventAt(e) < counter + left}

\* Sleep(10), once, in the hope of more events.
Sleep10 ==
  /\ ~overrun /\ pc = "look" /\ Due = {} /\ Interested /\ ~waited
  /\ waited' = TRUE
  /\ UNCHANGED <<quiet, pc, chunk, pos, left, counter, current, eventVars, siteVars>>

NoMoreEvents ==
  /\ ~overrun /\ pc = "look" /\ Due = {} /\ (waited \/ ~Interested)
  /\ pc' = "rest"
  /\ UNCHANGED <<quiet, chunk, pos, left, counter, waited, current, eventVars, siteVars>>

TakeEvent ==
  /\ ~overrun /\ pc = "look"
  /\ \E e \in Due : current' = e /\ pending' = pending \ {e}
  /\ pc' = "event"
  /\ UNCHANGED <<quiet, chunk, pos, left, counter, waited, arrived, calledAt, siteVars>>

\* waveSizeBefore
SizeBefore(e) == IF EventAt(e) >= counter THEN EventAt(e) - counter ELSE 0

\* Mutant: the pointer stays when part of the chunk has been written.
AdvanceNoPointer(n) == counter' = counter + n /\ left' = left - n /\ UNCHANGED pos

\* The audio goes on behind what has been written.
Advance(n) == counter' = counter + n /\ pos' = pos + n /\ left' = left - n

\* The audio in front of the event, as far as it can be written, and then
\* the callback of the event, at the given time.
SendEventAt(time, next) ==
  /\ ~overrun /\ pc = "event" /\ pc' = next /\ current' = NoEvent
  /\ IF SizeBefore(current) # 0
       THEN \E n \in {0, SizeBefore(current)} :
              OnAudioData(pos, SizeBefore(current), n) /\ Advance(n)
       ELSE UNCHANGED <<pos, left, counter, siteVars>>
  /\ calledAt' = [calledAt EXCEPT ![current] = time]
  /\ UNCHANGED <<quiet, chunk, waited, pending, arrived>>

\* Mutants: the event is sent before the audio; one event per chunk.
SendEventFirst == SendEventAt(counter, "look")
SendEventOnce == SendEventAt(counter', "rest")

SendEvent == SendEventAt(counter', "look")

\* Mutant: the counter goes by what was written.
WriteRestCounted ==
  /\ ~overrun /\ pc = "rest" /\ pc' = "idle" /\ left' = 0
  /\ \E n \in {0, left} : OnAudioData(pos, left, n) /\ counter' = counter + n
  /\ UNCHANGED <<quiet, chunk, pos, waited, current, eventVars>>

\* The rest of the chunk; what cannot be written now is lost, but counted.
WriteRest ==
  /\ ~overrun /\ pc = "rest" /\ pc' = "idle" /\ left' = 0
  /\ IF left # 0 THEN \E n \in {0, left} : OnAudioData(pos, left, n)
                 ELSE UNCHANGED siteVars
  /\ counter' = counter + left /\ pos' = pos + left
  /\ UNCHANGED <<quiet, chunk, waited, current, eventVars>>

\* OnMessage, audio.metadata, under m_eventsMutex: at any time.
EventArrives(e) ==
  /\ ~overrun /\ arrived[e] = -1
  /\ arrived' = [arrived EXCEPT ![e] = chunk] /\ pending' = pending \cup {e}
  /\ UNCHANGED <<quiet, waveVars, calledAt, siteVars>>

-----------------------------------------------------------------------------
\* What happens after a Write of a wrapped length is not modelled.
Next ==
  \/ BeginChunk \/ Sleep10 \/ NoMoreEvents \/ TakeEvent \/ SendEvent \/ WriteRest
  \/ \E e \in Events : EventArrives(e)

Spec == Init /\ [][Next]_vars

-----------------------------------------------------------------------------
\* Between two chunks m_waveBytesWritten counts the chunks, written or not.
TypeOK ==
  /\ quiet \subseteq Span(0, Total)
  /\ pc \in {"idle", "look", "event", "rest"} /\ chunk \in 0 .. ChunkCount
  /\ pos \in 0 .. Total /\ left \in 0 .. ChunkLen /\ counter \in 0 .. Total
  /\ waited \in BOOLEAN /\ current \in Events \cup {NoEvent}
  /\ pending \subseteq Events
  /\ arrived \in [Events -> -1 .. ChunkCount] /\ calledAt \in [Events -> -1 .. Total]
  /\ lastSilent \in Nat /\ site \in Seq(Int)
  /\ failures \in 0 .. MaxFailures /\ overrun \in BOOLEAN
  /\ pc = "idle" => counter = chunk * ChunkLen

\* The event was in the queue before the chunk it belongs to was begun.
Timely(e) == arrived[e] # -1 /\ arrived[e] * ChunkLen <= EventAt(e)

\* "dispatch the event at the correct audio time" (SpeechRestAPI.h:40): while
\* writing works, no event comes before its audio, and one that did not arrive
\* too late comes exactly at it, however late others are.
EventsOnTime ==
  failures = 0 => \A e \in Events : calledAt[e] # -1 =>
    /\ calledAt[e] >= EventAt(e)
    /\ Timely(e) => calledAt[e] = EventAt(e)

\* No timely event stays behind in the queue when its chunk has been played,
\* whatever arrives, sleeps or fails in between.
TimelyEventsSent ==
  pc = "idle" => \A e \in Events :
    Timely(e) /\ EventAt(e) < counter => calledAt[e] # -1

\* No sound is played twice or out of order, even where a write failed and
\* was tried again.
SoundOnce ==
  \A i, j \in 1 .. Len(site) :
    i < j /\ site[i] # Zero /\ site[j] # Zero => site[i] < site[j]

\* While writing works, the site is behind the decoded audio by exactly the
\* silence that is held back, so the offsets of events fit the audio.
SilenceAccounted ==
  failures = 0 /\ ~overrun => Len(site) + lastSilent = pos

\* "Hold the silence data for no more than a second" (TTSEngine.cpp:504): what
\* follows the second is written, within the bounds of the chunk.
NoOverrun == ~overrun
=============================================================================
