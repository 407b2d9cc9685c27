--------------------------- MODULE SpeakLoopProofs ---------------------------
(***************************************************************************)
(* For every session, however many calls it makes and whatever it speaks:  *)
(* a synthesis runs only for the call that waits for it or for the         *)
(* cancellation that the next call waits for; the indices into what        *)
(* BuildSSML made stay in their lists; the SSML is one that a service      *)
(* accepts, if the application puts no say-as of its own into the text and *)
(* closes its tags in the case it opened them in; the bookmarks are told   *)
(* in order and all of them; and a word or sentence is told with its range *)
(* in the text, if it is found where it was spoken.                        *)
(***************************************************************************)
EXTENDS SpeakLoop, SpeechTextProofs

Stages == {"none", "asked", "going", "ended"}
Shapes ==
    /\ call \in Nat /\ site \in {0, call} /\ inside \in BOOLEAN /\ abort \in BOOLEAN
    /\ cancelling \in {"none", "spinning", "stopping", "done"}
    /\ syn \in [call : Nat, stage : Stages, pos : Nat, failed : BOOLEAN, stop : BOOLEAN]

\* A site is set only between the setup of a call and its end.
SiteInCall ==
    /\ site # 0 => pc \in {"silent", "starting", "polling", "decide", "joining", "leaving"}
    /\ pc # "idle" => call > 0

\* A cancellation belongs to a call that has left its synthesis alone.
CancelledLater ==
    pc \in {"setup", "silent", "starting", "polling", "decide", "joining"} => cancelling = "none"

\* Whoever waits for a synthesis that runs, and whose it is.
Awaited ==
    /\ Running => \/ pc \in {"polling", "decide", "joining"}
                  \/ cancelling \in {"spinning", "stopping"}
    /\ Running /\ pc \in {"polling", "decide", "joining", "leaving"} => syn.call = call
    /\ pc = "decide" /\ ~abort => syn.stage = "ended"

\* A callback keeps its synthesis from ending and its call from leaving.
AtWork ==
    inside => /\ syn.stage = "going" /\ site # 0
              /\ pc \in {"polling", "decide", "joining", "leaving"}

\* FinalRelease has waited.
ReleasedLast == pc = "released" => cancelling \in {"none", "done"}

IInv == Shapes /\ SiteInCall /\ CancelledLater /\ Awaited /\ AtWork /\ ReleasedLast

LEMMA InitIInv == Init => IInv
<1> SUFFICES ASSUME Init PROVE IInv
  OBVIOUS
<1>1. inside \in BOOLEAN /\ abort \in BOOLEAN /\ syn.failed \in BOOLEAN /\ syn.stop \in BOOLEAN
  BY DEF Init, NoSynthesis
<1> QED
  BY <1>1 DEF Init, NoSynthesis, IInv, Shapes, Stages, SiteInCall, CancelledLater, Awaited, AtWork,
    ReleasedLast, Running

LEMMA NextIInv == IInv /\ [Next]_vars => IInv'
<1> SUFFICES ASSUME IInv, [Next]_vars PROVE IInv'
  OBVIOUS
<1> USE DEF IInv, Shapes, Stages, SiteInCall, CancelledLater, Awaited, AtWork, ReleasedLast, Running
<1>1. CASE Call
  <2>1. (abort \in BOOLEAN)' /\ (inside \in BOOLEAN)'
    BY <1>1 DEF Call
  <2> QED
    BY <1>1, <2>1 DEF Call
<1>2. CASE Abort
  BY <1>2 DEF Abort
<1>3. CASE Release
  BY <1>3 DEF Release
<1>4. CASE Setup
  BY <1>4 DEF Setup
<1>5. CASE Cancelled
  BY <1>5 DEF Cancelled
<1>6. CASE AbortedWaiting
  BY <1>6 DEF AbortedWaiting
<1>7. CASE TellSilent
  BY <1>7 DEF TellSilent
<1>8. CASE StartSynthesis
  BY <1>8 DEF StartSynthesis, NoSynthesis
<1>9. CASE PollEnds
  BY <1>9 DEF PollEnds
<1>10. CASE StopSpeaking
  BY <1>10 DEF StopSpeaking
<1>11. CASE Join
  BY <1>11 DEF Join
<1>12. CASE Complete
  BY <1>12 DEF Complete
<1>13. CASE Leave
  BY <1>13 DEF Leave
<1>14. CASE Released
  BY <1>14 DEF Released
<1>15. CASE CancelStarted
  BY <1>15 DEF CancelStarted
<1>16. CASE CancelDone
  BY <1>16 DEF CancelDone
<1>17. CASE SynthesisStarts
  BY <1>17 DEF SynthesisStarts
<1>18. CASE SynthesisRefused
  BY <1>18 DEF SynthesisRefused
<1>19. CASE Unheard
  BY <1>19 DEF Unheard, Due
<1>20. CASE Enter
  BY <1>20 DEF Enter, Due
<1>21. CASE TellBoundary
  <2>1. /\ inside /\ inside' = FALSE /\ syn' = [syn EXCEPT !.pos = @ + 1]
        /\ UNCHANGED <<session, call, pc, abort, site, handlers, text, started, cancelling>>
    BY <1>21 DEF TellBoundary
  <2>2. (inside \in BOOLEAN)'
    BY <2>1
  <2> QED
    BY <2>1, <2>2
<1>22. CASE TellBookmark
  <2>1. /\ inside /\ inside' = FALSE /\ syn' = [syn EXCEPT !.pos = @ + 1]
        /\ UNCHANGED <<session, call, pc, abort, site, handlers, text, started, cancelling>>
    BY <1>22 DEF TellBookmark
  <2>2. (inside \in BOOLEAN)'
    BY <2>1
  <2> QED
    BY <2>1, <2>2
<1>23. CASE SynthesisEnds
  BY <1>23 DEF SynthesisEnds
<1>24. CASE UNCHANGED vars
  BY <1>24 DEF vars
<1> QED
  BY <1>1, <1>2, <1>3, <1>4, <1>5, <1>6, <1>7, <1>8, <1>9, <1>10, <1>11, <1>12, <1>13, <1>14, <1>15, <1>16, <1>17, <1>18, <1>19, <1>20, <1>21, <1>22, <1>23, <1>24 DEF Next, Engine, Canceller, Synthesis

-----------------------------------------------------------------------------
(***************************************************************************)
(* What a call works on.                                                   *)
(***************************************************************************)
TextTyped(t) ==
    /\ Len(t.mappings) \in Nat /\ (t.mappings = <<>> <=> Len(t.mappings) = 0)
    /\ Len(t.bookmarks) \in Nat /\ Len(t.script) \in Nat

Typed ==
    /\ session \in Sessions /\ call \in 0 .. Len(session.docs)
    /\ pc \in {"idle", "waiting", "setup", "silent", "starting", "polling", "decide",
               "joining", "leaving", "releasing", "released"}
    /\ handlers \in [Events -> 0 .. 1]
    /\ TextTyped(text)
    /\ Running => syn.pos <= Len(script) + 1
    /\ syn.pos >= 1
    /\ inside => syn.pos <= Len(script)
    /\ DOMAIN index = {"mapping", "bookmark", "word", "sentence"}
    /\ index.mapping \in 1 .. Max({1, Len(text.mappings)})
    /\ index.bookmark \in 1 .. Len(text.bookmarks) + 1

LEMMA SessionType ==
  ASSUME NEW s \in Sessions
  PROVE  /\ (s.voice # "sdk") \in BOOLEAN /\ (s.voice = "edge") \in BOOLEAN /\ Len(s.docs) \in Nat
         /\ \A i \in 1 .. Len(s.docs) : s.docs[i].text \in Seq(Fragments)
<1> DEFINE Docs == [text : Seq(TextFrags), events : SUBSET {"start", "end", "word", "sentence", "bookmark"}]
<1>1. s.docs \in Seq(Docs)
  BY SessionsTyped
<1>2. \A d \in Docs : d.text \in Seq(Fragments)
  BY TextFragments
<1> HIDE DEF Docs
<1> QED
  BY <1>1, <1>2

LEMMA LenNone == Len(<<>>) = 0
OBVIOUS

LEMMA MaxOne == \A n \in Nat : Max({1, n}) \in Nat /\ Max({1, n}) >= 1
<1> TAKE n \in Nat
<1>1. {1, n} \subseteq 0 .. n + 1 /\ {1, n} # {} /\ n + 1 \in Nat
  OBVIOUS
<1>2. Max({1, n}) \in {1, n} /\ \A y \in {1, n} : y <= Max({1, n})
  BY <1>1, Largest
<1> QED
  BY <1>2

\* A sequence renamed is one of the same length.
LEMMA LenSame ==
  ASSUME NEW T, NEW s \in Seq(T), NEW E(_)
  PROVE  Len([i \in DOMAIN s |-> E(i)]) \in Nat
<1>1. PICK n \in Nat : n = Len(s) /\ DOMAIN s = 1 .. n
  OBVIOUS
<1> DEFINE U == {E(i) : i \in 1 .. n}
           t == [i \in 1 .. n |-> E(i)]
<1>2. \A i \in 1 .. n : E(i) \in U
  OBVIOUS
<1>3. t \in Seq(U)
  <2> HIDE DEF U
  <2> QED
    BY <1>2
<1> HIDE DEF t, U
<1>4. Len(t) \in Nat
  BY <1>3
<1> QED
  BY <1>1, <1>4 DEF t

LEMMA PreparedIs ==
  ASSUME NEW s \in Sessions, NEW doc \in Seq(Fragments)
  PROVE  /\ TextTyped(Prepared(s, doc))
         /\ Prepared(s, doc).ssml = BuildSSML(doc, s.voice # "sdk", s.voice = "edge").ssml
<1>1. PICK b \in Builders : b = BuildSSML(doc, s.voice # "sdk", s.voice = "edge")
  BY SessionType, BuildSSMLType
<1> DEFINE q == Quotes(doc)
           events == Script(b.ssml, q, s.split)
           renamed == [i \in DOMAIN events |-> [what  |-> events[i].what,
                                               first |-> events[i].first,
                                               last  |-> events[i].last,
                                               said  |-> Spoken(b.ssml, doc, events[i])]]
           list == IF b.hasText THEN renamed ELSE <<>>
<1>2. Prepared(s, doc) = [ssml |-> b.ssml, mappings |-> b.mappings, bookmarks |-> b.bookmarks,
                          hasText |-> b.hasText, quotes |-> q, script |-> list]
  BY <1>1 DEF Prepared
<1>3. Len(list) \in Nat
  <2>1. b.ssml \in Seq(Cells)
    BY DEF Builders
  <2>2. PICK T : events \in Seq(T)
    BY <2>1, ScriptType
  <2>3. Len(renamed) \in Nat
    <3> HIDE DEF events, q
    <3> QED
      BY <2>2, LenSame
  <2> HIDE DEF renamed
  <2> QED
    BY <2>3, LenNone
<1> HIDE DEF list, q
<1>4. /\ Len(b.mappings) \in Nat /\ (b.mappings = <<>> <=> Len(b.mappings) = 0)
      /\ Len(b.bookmarks) \in Nat
  <2> DEFINE M == [sapi : Int, ssml : Int]
  <2>1. b.mappings \in Seq(M) /\ b.bookmarks \in Seq(Int)
    BY DEF Builders
  <2> HIDE DEF M
  <2> QED
    BY <2>1
<1> QED
  BY <1>1, <1>2, <1>3, <1>4 DEF TextTyped

LEMMA InitTyped == Init => Typed
<1> SUFFICES ASSUME Init PROVE Typed
  OBVIOUS
<1>1. session \in Sessions /\ Len(session.docs) \in Nat
  BY SessionType DEF Init
<1>2. Max({1, 0}) \in Nat /\ Max({1, 0}) >= 1
  BY MaxOne
<1>3. TextTyped(text) /\ Len(text.mappings) = 0 /\ Len(text.bookmarks) = 0
  BY LenNone DEF Init, NoText, TextTyped
<1>4. index.mapping \in 1 .. Max({1, Len(text.mappings)})
  BY <1>2, <1>3 DEF Init
<1> QED
  BY <1>1, <1>3, <1>4 DEF Init, Typed, NoSynthesis, Running

\* A word or a sentence told: the index into the mappings is that of
\* MapTextOffset, and the one into the bookmarks moves by those told.
LEMMA Boundary ==
  ASSUME IInv, Typed, TellBoundary
  PROVE  \E here, past, m, l :
           /\ here.call = syn.call /\ here.what = Next1.what
           /\ past \subseteq index.bookmark .. Len(text.bookmarks) /\ (~edge => past = {})
           /\ m \in 1 .. Max({1, Len(text.mappings)})
           /\ told' = told \o [k \in 1 .. handlers[Next1.what] |-> here]
                           \o [k \in 1 .. Cardinality(past) |-> Bookmark(index.bookmark + k - 1)]
           /\ index' = [index EXCEPT !.mapping = m, !.bookmark = @ + Cardinality(past), ![Next1.what] = l]
<1> DEFINE plain == Len(Next1.said)
           long  == Next1.last - Next1.first + 1
           found == Find(Next1.said, index[Next1.what])
           from  == IF online THEN ULong(found.pos) ELSE Next1.first - 1
           length == IF session.plain THEN plain ELSE long
           range == MapTextOffset(text.mappings, index.mapping, from, length)
           here  == [call |-> syn.call, what |-> Next1.what, item |-> syn.pos,
                     offset |-> range.offset, length |-> range.length,
                     found |-> ~online \/ found.pos # NotFound]
           past  == IF edge /\ Next1.what = "word"
                    THEN {i \in index.bookmark .. Len(text.bookmarks) :
                            \A j \in index.bookmark .. i :
                               ULong(range.offset + range.length) > text.bookmarks[j]}
                    ELSE {}
           last  == IF online THEN found.last ELSE index[Next1.what]
<1>1. here.call = syn.call /\ here.what = Next1.what
  OBVIOUS
<1>2. past \subseteq index.bookmark .. Len(text.bookmarks) /\ (~edge => past = {})
  OBVIOUS
<1>3. told' = told \o [k \in 1 .. handlers[Next1.what] |-> here]
                   \o [k \in 1 .. Cardinality(past) |-> Bookmark(index.bookmark + k - 1)]
  BY DEF TellBoundary
<1>4. index' = [index EXCEPT !.mapping = range.index, !.bookmark = @ + Cardinality(past), ![Next1.what] = last]
  BY DEF TellBoundary
<1>5. range.index \in 1 .. Max({1, Len(text.mappings)})
  <2> HIDE DEF from, length
  <2> QED
    BY MapTextOffsetIndex DEF Typed, TextTyped
<1> HIDE DEF range, here, past, last
<1> QED
  BY <1>1, <1>2, <1>3, <1>4, <1>5

\* There are no more bookmarks left to tell than that.
LEMMA PastCounted ==
  ASSUME NEW i \in Nat, NEW n \in Nat, i <= n + 1, NEW past, past \subseteq i .. n
  PROVE  Cardinality(past) \in Nat /\ i + Cardinality(past) <= n + 1
<1>1. IsFiniteSet(i .. n) /\ Cardinality(i .. n) = IF i > n THEN 0 ELSE n - i + 1
  BY FS_Interval
<1>2. IsFiniteSet(past) /\ Cardinality(past) <= Cardinality(i .. n)
  BY <1>1, FS_Subset
<1>3. Cardinality(past) \in Nat
  BY <1>2, FS_CardinalityType
<1> QED
  BY <1>1, <1>2, <1>3

LEMMA NextTyped == IInv /\ Typed /\ [Next]_vars => Typed'
<1> SUFFICES ASSUME IInv, Typed, [Next]_vars PROVE Typed'
  OBVIOUS
<1>1. CASE Call
  <2>1. Len(session.docs) \in Nat
    BY SessionType DEF Typed
  <2> QED
    BY <1>1, <2>1 DEF Call, Typed, TextTyped, Running, script
<1>2. CASE Setup
  <2> DEFINE Rest(e) == CASE e = "bookmark" -> Masks4
                          [] e = "word"     -> Masks5 \/ (edge /\ Masks4)
                          [] e = "sentence" -> Masks7
             SDK(e)  == IF e = "bookmark" THEN Masks4 ELSE Masks7
  <2>1. \/ handlers' = [e \in Events |-> IF Rest(e) THEN 1 ELSE handlers[e]]
        \/ handlers' = [e \in Events |-> IF SDK(e) THEN 1 ELSE 0]
    BY <1>2 DEF Setup, SetupRestAPIEvents, SetupSynthesizerEvents
  <2> HIDE DEF Rest, SDK
  <2>2. handlers' \in [Events -> 0 .. 1]
    BY <2>1 DEF Typed
  <2>3. ~Running /\ ~inside
    BY <1>2 DEF Setup, IInv, Awaited, AtWork, CancelledLater, Running
  <2>4. session.docs[call].text \in Seq(Fragments)
    <3>1. call \in 1 .. Len(session.docs)
      BY <1>2, SessionType DEF Setup, Typed, IInv, Shapes, SiteInCall
    <3> QED
      BY <3>1, SessionType DEF Typed
  <2>5. TextTyped(text')
    BY <1>2, <2>4, PreparedIs DEF Setup, Typed
  <2>6. index'.mapping \in 1 .. Max({1, Len(text'.mappings)}) /\ index'.bookmark \in 1 .. Len(text'.bookmarks) + 1
        /\ DOMAIN index' = {"mapping", "bookmark", "word", "sentence"}
    BY <1>2, <2>5, MaxOne DEF Setup, TextTyped
  <2>7. /\ pc' \in {"starting", "silent"} /\ UNCHANGED <<session, call, syn, inside>>
    BY <1>2 DEF Setup
  <2> QED
    BY <2>2, <2>3, <2>5, <2>6, <2>7 DEF Typed, TextTyped, Running, script
<1>3. CASE StartSynthesis
  BY <1>3 DEF StartSynthesis, NoSynthesis, Typed, TextTyped, Running, IInv, AtWork, script
<1>4. CASE Unheard
  <2>1. syn.pos \in Nat /\ syn.pos <= Len(script) /\ Len(script) \in Nat
    BY <1>4 DEF Unheard, Due, IInv, Shapes, Typed, TextTyped, script
  <2>2. syn'.pos = syn.pos + 1
    BY <1>4 DEF Unheard, IInv, Shapes
  <2> QED
    BY <1>4, <2>1, <2>2 DEF Unheard, Due, Typed, TextTyped, Running, script
<1>5. CASE Enter
  BY <1>5 DEF Enter, Due, Typed, TextTyped, Running, script
<1>6. CASE TellBookmark
  <2>1. syn.pos \in Nat /\ syn.pos <= Len(script) /\ Len(script) \in Nat
    BY <1>6 DEF TellBookmark, IInv, Shapes, Typed, TextTyped, script
  <2>2. syn'.pos = syn.pos + 1 /\ inside' = FALSE
        /\ UNCHANGED <<session, call, pc, handlers, text, index>>
    BY <1>6 DEF TellBookmark, IInv, Shapes
  <2> QED
    BY <2>1, <2>2 DEF Typed, TextTyped, Running, script
<1>7. CASE TellBoundary
  <2>1. syn.pos \in Nat /\ syn.pos <= Len(script) /\ Len(script) \in Nat
    BY <1>7 DEF TellBoundary, IInv, Shapes, Typed, TextTyped, script
  <2>2. syn'.pos = syn.pos + 1 /\ inside' = FALSE
        /\ UNCHANGED <<session, call, pc, handlers, text>>
    BY <1>7 DEF TellBoundary, IInv, Shapes
  <2>3. PICK past, m, l :
          /\ past \subseteq index.bookmark .. Len(text.bookmarks)
          /\ m \in 1 .. Max({1, Len(text.mappings)})
          /\ index' = [index EXCEPT !.mapping = m, !.bookmark = @ + Cardinality(past), ![Next1.what] = l]
    BY <1>7, Boundary
  <2>4. PICK n \in Nat : n = index.bookmark + Cardinality(past) /\ n \in 1 .. Len(text.bookmarks) + 1
    <3>1. PICK i \in Nat, k \in Nat : i = index.bookmark /\ k = Len(text.bookmarks) /\ i >= 1 /\ i <= k + 1
      BY DEF Typed, TextTyped
    <3>2. Cardinality(past) \in Nat /\ i + Cardinality(past) <= k + 1
      BY <2>3, <3>1, PastCounted
    <3> QED
      BY <3>1, <3>2
  <2>5. Next1.what \in {"word", "sentence"}
    BY <1>7 DEF TellBoundary
  <2>6. /\ DOMAIN index' = DOMAIN index /\ index'.mapping = m /\ index'.bookmark = n
    <3>1. index' = [index EXCEPT !.mapping = m, !.bookmark = n, ![Next1.what] = l]
      <4>1. DOMAIN index = {"mapping", "bookmark", "word", "sentence"}
        BY DEF Typed
      <4> QED
        BY <2>3, <2>4, <4>1
    <3>2. CASE Next1.what = "word"
      BY <3>1, <3>2 DEF Typed
    <3>3. CASE Next1.what = "sentence"
      BY <3>1, <3>3 DEF Typed
    <3> QED
      BY <2>5, <3>2, <3>3
  <2> QED
    BY <2>1, <2>2, <2>3, <2>4, <2>6 DEF Typed, TextTyped, Running, script
<1>8. CASE CancelStarted \/ SynthesisStarts \/ SynthesisRefused \/ SynthesisEnds
  <2>1. /\ syn'.pos = syn.pos /\ syn'.stage \in {syn.stage, "going", "ended"}
        /\ syn'.stage = "going" => Running
        /\ UNCHANGED <<session, call, pc, handlers, text, inside, index>>
    BY <1>8 DEF CancelStarted, SynthesisStarts, SynthesisRefused, SynthesisEnds, IInv, Shapes, Running
  <2> QED
    BY <2>1 DEF Typed, TextTyped, Running, script
<1>9. CASE StopSpeaking
  <2>1. /\ syn'.pos = syn.pos /\ syn'.stage = syn.stage /\ pc' \in {"joining", "leaving"}
        /\ UNCHANGED <<session, call, handlers, text, inside, index>>
    BY <1>9 DEF StopSpeaking, IInv, Shapes
  <2> QED
    BY <2>1 DEF Typed, TextTyped, Running, script
<1>10. CASE \/ Abort \/ Release \/ Cancelled \/ AbortedWaiting \/ TellSilent \/ PollEnds \/ Join
            \/ Complete \/ Leave \/ Released \/ CancelDone \/ UNCHANGED vars
  <2>1. /\ UNCHANGED <<session, call, handlers, text, syn, inside, index>>
        /\ pc' \in {pc, "releasing", "setup", "idle", "leaving", "decide", "released"}
    BY <1>10 DEF Abort, Release, Cancelled, AbortedWaiting, TellSilent, PollEnds, Join,
                 Complete, Leave, Released, CancelDone, vars
  <2> QED
    BY <2>1 DEF Typed, TextTyped, Running, script
<1> QED
  BY <1>1, <1>2, <1>3, <1>4, <1>5, <1>6, <1>7, <1>8, <1>9, <1>10 DEF Next, Engine, Canceller, Synthesis

\* Only Setup changes what is spoken.
LEMMA TextKept == [Next]_vars => Setup \/ UNCHANGED <<text, session, handlers>>
<1> SUFFICES ASSUME [Next]_vars PROVE Setup \/ UNCHANGED <<text, session, handlers>>
  OBVIOUS
<1>1. CASE Call \/ Abort \/ Release \/ CancelStarted \/ CancelDone
  BY <1>1 DEF Call, Abort, Release, CancelStarted, CancelDone
<1>2. CASE Cancelled \/ AbortedWaiting \/ StartSynthesis \/ PollEnds \/ StopSpeaking \/ Join \/ Leave \/ Released
  BY <1>2 DEF Cancelled, AbortedWaiting, StartSynthesis, PollEnds, StopSpeaking, Join, Leave, Released
<1>3. CASE SynthesisStarts \/ SynthesisRefused \/ Unheard \/ Enter \/ SynthesisEnds
  BY <1>3 DEF SynthesisStarts, SynthesisRefused, Unheard, Enter, SynthesisEnds
<1>4. CASE TellSilent \/ Complete \/ TellBookmark \/ TellBoundary
  BY <1>4 DEF TellSilent, Complete, TellBookmark, TellBoundary
<1>5. CASE UNCHANGED vars
  BY <1>5 DEF vars
<1> QED
  BY <1>1, <1>2, <1>3, <1>4, <1>5 DEF Next, Engine, Canceller, Synthesis

-----------------------------------------------------------------------------
\* A sequence of events of one call.
Own(events, c) == \E S : events \in Seq(S) /\ \A e \in S : e.call = c
TellsOwn == Own(told, call)

LEMMA OwnNone == \A c : Own(<<>>, c)
<1> TAKE c
<1> DEFINE S == {[call |-> c]}
<1>1. <<>> \in Seq(S)
  OBVIOUS
<1>2. \A e \in S : e.call = c
  OBVIOUS
<1> HIDE DEF S
<1> QED
  BY <1>1, <1>2 DEF Own

LEMMA OwnBoth ==
  ASSUME NEW c, NEW s, NEW t, Own(s, c), Own(t, c)
  PROVE  Own(s \o t, c)
<1>1. PICK S : s \in Seq(S) /\ \A e \in S : e.call = c
  BY DEF Own
<1>2. PICK U : t \in Seq(U) /\ \A e \in U : e.call = c
  BY DEF Own
<1>3. s \in Seq(S \cup U) /\ t \in Seq(S \cup U)
  BY <1>1, <1>2
<1>4. s \o t \in Seq(S \cup U)
  BY <1>3
<1> QED
  BY <1>1, <1>2, <1>4 DEF Own

LEMMA OwnSame ==
  ASSUME NEW c, NEW e, e.call = c, NEW n \in Nat
  PROVE  Own([k \in 1 .. n |-> e], c)
<1> DEFINE s == [k \in 1 .. n |-> e]
<1>1. s \in Seq({e})
  OBVIOUS
<1>2. \A x \in {e} : x.call = c
  OBVIOUS
<1> HIDE DEF s
<1>3. Own(s, c)
  BY <1>1, <1>2 DEF Own
<1> QED
  BY <1>3 DEF s

\* From the i-th on, any number of them.
LEMMA OwnBookmarks ==
  ASSUME NEW i \in Nat, NEW n \in Int
  PROVE  Own([k \in 1 .. n |-> Bookmark(i + k - 1)], call)
<1> DEFINE S == {Bookmark(i + k - 1) : k \in 1 .. n}
           b == [k \in 1 .. n |-> Bookmark(i + k - 1)]
<1>1. \A e \in S : e.call = call
  BY DEF Bookmark
<1>2. b \in Seq(S)
  <2>1. CASE n \in Nat
    <3>1. \A k \in 1 .. n : Bookmark(i + k - 1) \in S
      OBVIOUS
    <3> HIDE DEF S
    <3> QED
      BY <2>1, <3>1
  <2>2. CASE n \notin Nat
    <3>1. 1 .. n = 1 .. 0
      BY <2>2
    <3>2. b = <<>>
      BY <3>1
    <3> HIDE DEF S, b
    <3> QED
      BY <3>2
  <2> QED
    BY <2>1, <2>2
<1> HIDE DEF S, b
<1>3. Own(b, call)
  BY <1>1, <1>2 DEF Own
<1> QED
  BY <1>3 DEF b

LEMMA InitTellsOwn == Init => TellsOwn
BY OwnNone DEF Init, TellsOwn

LEMMA NextTellsOwn == IInv /\ Typed /\ TellsOwn /\ [Next]_vars => TellsOwn'
<1> SUFFICES ASSUME IInv, Typed, TellsOwn, [Next]_vars PROVE TellsOwn'
  OBVIOUS
<1> USE DEF TellsOwn
<1>0. Own(told \o RemainingBookmarks, call)
  <2> DEFINE n == Len(text.bookmarks) - index.bookmark + 1
  <2>1. n \in Int /\ index.bookmark \in Nat
    BY DEF Typed, TextTyped
  <2> HIDE DEF n
  <2>2. Own([i \in 1 .. n |-> Bookmark(index.bookmark + i - 1)], call)
    BY <2>1, OwnBookmarks
  <2>3. Own(RemainingBookmarks, call)
    BY <2>2 DEF RemainingBookmarks, n
  <2> QED
    BY <2>3, OwnBoth
<1>1. CASE Call
  BY <1>1, OwnNone DEF Call
<1>3. CASE TellSilent
  BY <1>0, <1>3 DEF TellSilent
<1>4. CASE Complete
  BY <1>0, <1>4 DEF Complete
<1>5. ASSUME inside PROVE syn.call = call
  BY <1>5 DEF IInv, AtWork, Awaited, Running
<1>6. CASE TellBookmark
  <2> DEFINE n == Cardinality({p \in 1 .. syn.pos : script[p].what = "bookmark"})
             e == [Bookmark(n) EXCEPT !.call = syn.call]
             m == handlers["bookmark"]
  <2>1. e.call = call
    BY <1>5, <1>6 DEF TellBookmark, Bookmark
  <2>2. m \in Nat
    BY DEF Events, Typed
  <2>3. told' = told \o [k \in 1 .. m |-> e] /\ UNCHANGED call
    BY <1>6 DEF TellBookmark
  <2> HIDE DEF e, m
  <2>4. Own([k \in 1 .. m |-> e], call)
    BY <2>1, <2>2, OwnSame
  <2> QED
    BY <2>3, <2>4, OwnBoth
<1>7. CASE TellBoundary
  <2>1. PICK here, past :
          /\ here.call = syn.call /\ past \subseteq index.bookmark .. Len(text.bookmarks)
          /\ told' = told \o [k \in 1 .. handlers[Next1.what] |-> here]
                          \o [k \in 1 .. Cardinality(past) |-> Bookmark(index.bookmark + k - 1)]
    BY <1>7, Boundary
  <2>2. Cardinality(past) \in Nat /\ index.bookmark \in Nat
    <3>1. PICK i \in Nat, k \in Nat : i = index.bookmark /\ k = Len(text.bookmarks) /\ i <= k + 1
      BY DEF Typed, TextTyped
    <3> QED
      BY <2>1, <3>1, PastCounted
  <2>3. inside /\ Next1.what \in {"word", "sentence"} /\ UNCHANGED call
    BY <1>7 DEF TellBoundary
  <2>4. Own([k \in 1 .. handlers[Next1.what] |-> here], call)
    <3>1. handlers[Next1.what] \in Nat
      BY <2>3 DEF Events, Typed
    <3> QED
      BY <1>5, <2>1, <2>3, <3>1, OwnSame
  <2>5. Own([k \in 1 .. Cardinality(past) |-> Bookmark(index.bookmark + k - 1)], call)
    <3> DEFINE n == Cardinality(past)
    <3>1. n \in Int
      BY <2>2
    <3> HIDE DEF n
    <3>2. Own([k \in 1 .. n |-> Bookmark(index.bookmark + k - 1)], call)
      BY <2>2, <3>1, OwnBookmarks
    <3> QED
      BY <3>2 DEF n
  <2> QED
    BY <2>1, <2>3, <2>4, <2>5, OwnBoth
<1>8. CASE UNCHANGED <<call, told>>
  BY <1>8
<1>9. \/ Call \/ TellSilent \/ Complete \/ TellBookmark \/ TellBoundary
      \/ UNCHANGED <<call, told>>
  <2>1. CASE Abort \/ Release \/ Setup \/ CancelStarted \/ CancelDone
    BY <2>1 DEF Abort, Release, Setup, CancelStarted, CancelDone
  <2>2. CASE Cancelled \/ AbortedWaiting \/ StartSynthesis \/ PollEnds \/ StopSpeaking \/ Join \/ Leave \/ Released
    BY <2>2 DEF Cancelled, AbortedWaiting, StartSynthesis, PollEnds, StopSpeaking, Join, Leave, Released
  <2>3. CASE SynthesisStarts \/ SynthesisRefused \/ Unheard \/ Enter \/ SynthesisEnds
    BY <2>3 DEF SynthesisStarts, SynthesisRefused, Unheard, Enter, SynthesisEnds
  <2>4. CASE UNCHANGED vars
    BY <2>4 DEF vars
  <2> QED
    BY <2>1, <2>2, <2>3, <2>4 DEF Next, Engine, Canceller, Synthesis
<1> QED
  BY <1>1, <1>3, <1>4, <1>6, <1>7, <1>8, <1>9

-----------------------------------------------------------------------------
(***************************************************************************)
(* The SSML.  An application that puts a say-as into its text by itself    *)
(* answers for what is inside, and so does one that closes a tag in        *)
(* another case than it opened it; of every other document BuildSSML makes *)
(* SSML in which every tag is closed again.                                *)
(***************************************************************************)
NoSayAsOfItsOwn == \A s \in Sessions : \A i \in 1 .. Len(s.docs) : NoSayAsTag(s.docs[i].text)

Readable ==
    pc = "starting" /\ (edge \/ SpelledAlike(session.docs[call].text)) =>
    \E n \in Nat : Holds(text.ssml, <<>>, edge, FALSE, n) /\ (edge => n <= 2)

LEMMA InitReadable == Init => Readable
BY DEF Init, Readable

\* A call that starts its synthesis has just been set up.
LEMMA StartingSetUp == [Next]_vars => Setup \/ pc' # "starting" \/ UNCHANGED <<pc, text, session, call>>
<1> SUFFICES ASSUME [Next]_vars, pc' = "starting" PROVE Setup \/ UNCHANGED <<pc, text, session, call>>
  OBVIOUS
<1>1. CASE Call \/ Cancelled \/ AbortedWaiting \/ StartSynthesis \/ PollEnds \/ Join \/ Leave
  BY <1>1 DEF Call, Cancelled, AbortedWaiting, StartSynthesis, PollEnds, Join, Leave
<1>2. CASE StopSpeaking \/ TellSilent \/ Release \/ Released
  BY <1>2 DEF StopSpeaking, TellSilent, Release, Released
<1>3. CASE Abort \/ CancelStarted \/ CancelDone \/ SynthesisStarts \/ SynthesisRefused \/ Unheard
  BY <1>3 DEF Abort, CancelStarted, CancelDone, SynthesisStarts, SynthesisRefused, Unheard
<1>4. CASE Enter \/ TellBookmark \/ TellBoundary \/ SynthesisEnds \/ Complete
  BY <1>4 DEF Enter, TellBookmark, TellBoundary, SynthesisEnds, Complete
<1>5. CASE UNCHANGED vars
  BY <1>5 DEF vars
<1> QED
  BY <1>1, <1>2, <1>3, <1>4, <1>5 DEF Next, Engine, Canceller, Synthesis

LEMMA NextReadable == NoSayAsOfItsOwn /\ IInv /\ Typed /\ Readable /\ [Next]_vars => Readable'
<1> SUFFICES ASSUME NoSayAsOfItsOwn, IInv, Typed, Readable, [Next]_vars PROVE Readable'
  OBVIOUS
<1>1. CASE Setup
  <2>1. call \in 1 .. Len(session.docs) /\ session \in Sessions
    BY <1>1, SessionType DEF Setup, Typed, IInv, Shapes, SiteInCall
  <2>2. PICK doc \in Seq(Fragments) : doc = session.docs[call].text /\ NoSayAsTag(doc)
    BY <2>1, SessionType DEF NoSayAsOfItsOwn
  <2>3. text'.ssml = BuildSSML(doc, session.voice # "sdk", session.voice = "edge").ssml
    BY <1>1, <2>1, <2>2, PreparedIs DEF Setup
  <2>4. PICK c \in Builders : c = BuildSSML(doc, session.voice # "sdk", session.voice = "edge")
    BY <2>1, <2>2, SessionType, BuildSSMLType
  <2>5. UNCHANGED <<session, call>>
    BY <1>1 DEF Setup
  <2>6. SUFFICES ASSUME session.voice = "edge" \/ SpelledAlike(doc)
                 PROVE  \E n \in Nat : Holds(text'.ssml, <<>>, edge', FALSE, n) /\ (edge' => n <= 2)
    BY <2>2, <2>5 DEF Readable, edge
  <2>7. /\ Holds(c.ssml, <<>>, session.voice = "edge", FALSE, c.prosodyCount)
        /\ session.voice = "edge" => c.prosodyCount <= 2
    BY <2>1, <2>2, <2>4, <2>6, SessionType, BuildSSMLHolds
  <2>8. /\ c.ssml \in Seq(Cells) /\ OpenTags(c.ssml) = <<>> /\ SayAsAlone(c.ssml, FALSE)
        /\ session.voice = "edge" => EdgeOnly(c.ssml, c.prosodyCount)
    BY <2>7 DEF Holds, Sound
  <2>9. edge' => session.voice = "edge"
    BY <2>5 DEF edge
  <2>10. text'.ssml = c.ssml
    BY <2>3, <2>4
  <2>11. Holds(text'.ssml, <<>>, edge', FALSE, c.prosodyCount)
    BY <2>8, <2>9, <2>10 DEF Holds, Sound
  <2>12. edge' => c.prosodyCount <= 2
    BY <2>7, <2>9
  <2>13. c.prosodyCount \in Nat
    BY DEF Builders
  <2> QED
    BY <2>11, <2>12, <2>13
<1>2. CASE pc' # "starting"
  BY <1>2 DEF Readable
<1>3. CASE UNCHANGED <<pc, text, session, call>>
  BY <1>3 DEF Readable, edge
<1> QED
  BY <1>1, <1>2, <1>3, StartingSetUp

LEMMA ReadableAccepted == Readable => SsmlAccepted
<1> SUFFICES ASSUME Readable, pc = "starting", edge \/ SpelledAlike(session.docs[call].text)
             PROVE  SsmlAccepted
  BY DEF SsmlAccepted
<1>1. PICK n \in Nat : Holds(text.ssml, <<>>, edge, FALSE, n) /\ (edge => n <= 2)
  BY DEF Readable
<1>2. PICK s \in Seq(Cells) : s = text.ssml /\ OpenTags(s) = <<>> /\ SayAsAlone(s, FALSE) /\ (edge => EdgeOnly(s, n))
  BY <1>1 DEF Holds, Sound
<1>3. Nested(s)
  BY <1>2 DEF Nested
<1>4. \A i \in DOMAIN s : s[i].tag = SayAs =>
         s[Min({k \in i + 1 .. Len(s) : s[k].tag # NoTag})].tag = EndSayAs
  BY <1>2, SayAsRead
<1>5. DOMAIN s = 1 .. Len(s)
  OBVIOUS
<1>6. ASSUME edge
      PROVE  /\ \A i \in DOMAIN s : s[i].tag.name \in {"none", "speak", "voice", "prosody"}
             /\ Cardinality({i \in DOMAIN s : s[i].tag = [dir |-> "open", name |-> "prosody"]}) <= 2
  BY <1>1, <1>2, <1>5, <1>6 DEF EdgeOnly, EdgeTags, ProsodyTags, Prosody
<1> QED
  BY <1>2, <1>3, <1>4, <1>6 DEF SsmlAccepted, SayAs, EndSayAs

-----------------------------------------------------------------------------
(***************************************************************************)
(* The bookmarks.  Events in which the first n bookmarks are, in order.    *)
(***************************************************************************)
Placed(events, n) ==
    \E S : /\ events \in Seq(S)
           /\ \A p, q \in MarkEvents(events) : p < q => events[p].item < events[q].item
           /\ {events[p].item : p \in MarkEvents(events)} = 1 .. n

LEMMA PlacedNone == Placed(<<>>, 0)
<1>1. <<>> \in Seq({}) /\ Len(<<>>) = 0
  OBVIOUS
<1>2. MarkEvents(<<>>) = {}
  BY <1>1 DEF MarkEvents
<1>3. {<<>>[p].item : p \in {}} = 1 .. 0
  OBVIOUS
<1> QED
  BY <1>1, <1>2, <1>3 DEF Placed

\* Those of v, and behind them those of w.
LEMMA PlacedBoth ==
  ASSUME NEW n \in Nat, NEW m \in Nat, NEW v, Placed(v, n), NEW U, NEW w \in Seq(U),
         \A p, q \in MarkEvents(w) : p < q => w[p].item < w[q].item,
         {w[p].item : p \in MarkEvents(w)} = n + 1 .. n + m
  PROVE  Placed(v \o w, n + m)
<1>1. PICK S : /\ v \in Seq(S)
               /\ \A p, q \in MarkEvents(v) : p < q => v[p].item < v[q].item
               /\ {v[p].item : p \in MarkEvents(v)} = 1 .. n
  BY DEF Placed
<1>2. PICK T : T = S \cup U
  OBVIOUS
<1>3. v \in Seq(T) /\ w \in Seq(T)
  BY <1>1, <1>2, SeqSubset
<1>4. PICK k \in Nat, l \in Nat : k = Len(v) /\ l = Len(w)
  BY <1>3
<1>a. v \o w \in Seq(T) /\ Len(v \o w) = k + l
  BY <1>3, <1>4
<1>5. PICK a \in Seq(T) : a = v \o w /\ Len(a) = k + l
  BY <1>a
<1>6. \A i \in 1 .. k : a[i] = v[i]
  BY <1>3, <1>4, <1>5
<1>7. \A i \in 1 .. l : a[k + i] = w[i]
  BY <1>3, <1>4, <1>5
<1>8. \A p \in MarkEvents(v) : p \in 1 .. k /\ p \in MarkEvents(a) /\ a[p].item = v[p].item
  BY <1>4, <1>5, <1>6 DEF MarkEvents
<1>9. \A p \in MarkEvents(w) : k + p \in MarkEvents(a) /\ a[k + p].item = w[p].item
  BY <1>4, <1>5, <1>7 DEF MarkEvents
<1>10. ASSUME NEW p \in MarkEvents(a)
       PROVE  \/ p \in MarkEvents(v) /\ a[p].item = v[p].item
              \/ p - k \in MarkEvents(w) /\ a[p].item = w[p - k].item
  <2>1. p \in 1 .. k + l /\ a[p].what = "bookmark"
    BY <1>5 DEF MarkEvents
  <2>2. CASE p <= k
    BY <1>4, <1>6, <2>1, <2>2 DEF MarkEvents
  <2>3. CASE p > k
    <3>1. p - k \in 1 .. l /\ k + (p - k) = p
      BY <2>1, <2>3
    <3>2. a[p] = w[p - k]
      BY <1>7, <3>1
    <3> QED
      BY <1>4, <2>1, <3>1, <3>2 DEF MarkEvents
  <2> QED
    BY <2>1, <2>2, <2>3
<1>11. \A p \in MarkEvents(v) : p \in 1 .. k /\ v[p].item \in 1 .. n
  BY <1>1, <1>8
<1>12. \A p \in MarkEvents(w) : p \in 1 .. l /\ w[p].item \in n + 1 .. n + m
  BY <1>4 DEF MarkEvents
<1>13. ASSUME NEW p \in MarkEvents(a), NEW q \in MarkEvents(a), p < q PROVE a[p].item < a[q].item
  <2>0. p \in Int /\ q \in Int
    BY DEF MarkEvents
  <2>1. CASE p \in MarkEvents(v) /\ a[p].item = v[p].item /\ q \in MarkEvents(v) /\ a[q].item = v[q].item
    BY <1>1, <1>13, <2>1
  <2>2. CASE p \in MarkEvents(v) /\ a[p].item = v[p].item /\ q - k \in MarkEvents(w) /\ a[q].item = w[q - k].item
    <3>1. v[p].item \in 1 .. n /\ w[q - k].item \in n + 1 .. n + m
      BY <1>11, <1>12, <2>2
    <3> QED
      BY <2>2, <3>1
  <2>3. CASE p - k \in MarkEvents(w) /\ a[p].item = w[p - k].item /\ q \in MarkEvents(v)
    <3>1. p - k >= 1 /\ q <= k
      BY <1>11, <1>12, <2>3
    <3> QED
      BY <1>13, <2>0, <3>1
  <2>4. CASE p - k \in MarkEvents(w) /\ a[p].item = w[p - k].item /\ q - k \in MarkEvents(w) /\ a[q].item = w[q - k].item
    <3>1. p - k < q - k
      BY <1>13, <2>0
    <3> QED
      BY <2>4, <3>1
  <2> QED
    BY <1>10, <2>1, <2>2, <2>3, <2>4
<1>14. \A x : x \in {a[p].item : p \in MarkEvents(a)} <=> x \in 1 .. n + m
  <2> TAKE x
  <2>1. ASSUME x \in {a[p].item : p \in MarkEvents(a)} PROVE x \in 1 .. n + m
    <3>1. PICK p \in MarkEvents(a) : x = a[p].item
      BY <2>1
    <3>2. x \in 1 .. n \/ x \in n + 1 .. n + m
      BY <1>10, <1>11, <1>12, <3>1
    <3> QED
      BY <3>2
  <2>2. ASSUME x \in 1 .. n + m PROVE x \in {a[p].item : p \in MarkEvents(a)}
    <3>1. CASE x \in 1 .. n
      <4>1. PICK p \in MarkEvents(v) : x = v[p].item
        BY <1>1, <3>1
      <4> QED
        BY <1>8, <4>1
    <3>2. CASE x \in n + 1 .. n + m
      <4>1. PICK p \in MarkEvents(w) : x = w[p].item
        BY <3>2
      <4> QED
        BY <1>9, <4>1
    <3> QED
      BY <2>2, <3>1, <3>2
  <2> QED
    BY <2>1, <2>2
<1>15. {a[p].item : p \in MarkEvents(a)} = 1 .. n + m
  BY <1>14
<1>16. Placed(a, n + m)
  BY <1>13, <1>15 DEF Placed
<1> QED
  BY <1>5, <1>16

LEMMA PlacedMore ==
  ASSUME NEW n \in Nat, NEW m \in Nat, NEW v, Placed(v, n), NEW U, NEW w \in Seq(U), Len(w) = m,
         \A k \in 1 .. m : w[k].what = "bookmark" /\ w[k].item = n + k
  PROVE  Placed(v \o w, n + m)
<1>1. MarkEvents(w) = 1 .. m
  BY DEF MarkEvents
<1>2. \A p, q \in 1 .. m : p < q => w[p].item < w[q].item
  OBVIOUS
<1>3. \A x \in n + 1 .. n + m : x - n \in 1 .. m /\ x = n + (x - n)
  OBVIOUS
<1>4. {w[p].item : p \in 1 .. m} = n + 1 .. n + m
  <2>1. \A p \in 1 .. m : w[p].item \in n + 1 .. n + m
    OBVIOUS
  <2>2. \A x \in n + 1 .. n + m : x = w[x - n].item
    BY <1>3
  <2> QED
    BY <1>3, <2>1, <2>2
<1> QED
  BY <1>1, <1>2, <1>4, PlacedBoth

LEMMA PlacedOther ==
  ASSUME NEW n \in Nat, NEW v, Placed(v, n), NEW U, NEW w \in Seq(U),
         \A k \in 1 .. Len(w) : w[k].what # "bookmark"
  PROVE  Placed(v \o w, n)
<1>1. MarkEvents(w) = {}
  BY DEF MarkEvents
<1>2. {w[p].item : p \in {}} = n + 1 .. n + 0 /\ n + 0 = n
  OBVIOUS
<1>3. Placed(v \o w, n + 0)
  BY <1>1, <1>2, PlacedBoth
<1> QED
  BY <1>2, <1>3

\* The bookmarks from the (n + 1)-st on, any number of them.
LEMMA PlacedBookmarks ==
  ASSUME NEW n \in Nat, NEW v, Placed(v, n), NEW m \in Nat, NEW i, i = n + 1
  PROVE  Placed(v \o [k \in 1 .. m |-> Bookmark(i + k - 1)], n + m)
<1> DEFINE w == [k \in 1 .. m |-> Bookmark(i + k - 1)]
           U == {Bookmark(i + k - 1) : k \in 1 .. m}
<1>1. w \in Seq(U) /\ Len(w) = m
  <2>1. \A k \in 1 .. m : Bookmark(i + k - 1) \in U
    OBVIOUS
  <2> HIDE DEF U
  <2> QED
    BY <2>1
<1>2. \A k \in 1 .. m : w[k].what = "bookmark" /\ w[k].item = n + k
  BY DEF Bookmark
<1> HIDE DEF w, U
<1>3. Placed(v \o w, n + m)
  BY <1>1, <1>2, PlacedMore
<1> QED
  BY <1>3 DEF w

\* An event that is no bookmark, any number of times.
LEMMA PlacedSame ==
  ASSUME NEW n \in Nat, NEW v, Placed(v, n), NEW m \in Nat, NEW e, e.what # "bookmark"
  PROVE  Placed(v \o [k \in 1 .. m |-> e], n)
<1> DEFINE w == [k \in 1 .. m |-> e]
<1>1. w \in Seq({e}) /\ Len(w) = m /\ \A k \in 1 .. m : w[k] = e
  OBVIOUS
<1> HIDE DEF w
<1>2. Placed(v \o w, n)
  BY <1>1, PlacedOther
<1> QED
  BY <1>2 DEF w

\* It is what a site is told of.
LEMMA PlacedReported ==
  ASSUME NEW n, Placed(told, n)
  PROVE  /\ \A p, q \in Places("bookmark") : p < q => told[p].item < told[q].item
         /\ Reported = 1 .. n
<1>1. PICK S : told \in Seq(S)
  BY DEF Placed
<1>2. Places("bookmark") = MarkEvents(told)
  <2>1. DOMAIN told = 1 .. Len(told)
    BY <1>1
  <2> QED
    BY <2>1 DEF Places, MarkEvents
<1> QED
  BY <1>2 DEF Placed, Reported

\* The events of a text that are bookmarks: all of its list for the Speech
\* SDK and azure, which an empty text has none of; none for an Edge voice.
NoBookmarkOfItsOwn == \A s \in Sessions : \A i \in 1 .. Len(s.docs) : NoBookmarkTag(s.docs[i].text)

Marks ==
    /\ IsFiniteSet(MarkEvents(script)) /\ (edge => MarkEvents(script) = {})
    /\ ~edge => /\ Cardinality(MarkEvents(script)) <= Len(text.bookmarks)
                /\ text.hasText => Cardinality(MarkEvents(script)) = Len(text.bookmarks)

LEMMA MarksSame ==
  ASSUME NEW T, NEW s \in Seq(T), NEW t, t = [i \in DOMAIN s |-> t[i]],
         \A i \in 1 .. Len(s) : t[i].what = s[i].what
  PROVE  MarkEvents(t) = MarkEvents(s)
<1>1. PICK n \in Nat : n = Len(s) /\ DOMAIN s = 1 .. n
  OBVIOUS
<1> DEFINE U == {t[i] : i \in 1 .. n}
<1>2. \A i \in 1 .. n : t[i] \in U
  OBVIOUS
<1>3. t = [i \in 1 .. n |-> t[i]]
  BY <1>1
<1> HIDE DEF U
<1>4. t \in Seq(U) /\ Len(t) = n
  <2>1. t \in [1 .. n -> U]
    BY <1>2, <1>3
  <2> QED
    BY <2>1
<1> QED
  BY <1>1, <1>4 DEF MarkEvents

LEMMA PreparedMarks ==
  ASSUME NEW s \in Sessions, NEW doc \in Seq(Fragments), NoBookmarkTag(doc)
  PROVE  LET t == Prepared(s, doc)
         IN  /\ IsFiniteSet(MarkEvents(t.script)) /\ Len(t.bookmarks) \in Nat
             /\ s.voice = "edge" => MarkEvents(t.script) = {}
             /\ s.voice # "edge" =>
                  /\ Cardinality(MarkEvents(t.script)) <= Len(t.bookmarks)
                  /\ t.hasText => Cardinality(MarkEvents(t.script)) = Len(t.bookmarks)
<1>1. PICK b \in Builders : b = BuildSSML(doc, s.voice # "sdk", s.voice = "edge")
  BY SessionType, BuildSSMLType
<1> DEFINE q == Quotes(doc)
           events == Script(b.ssml, q, s.split)
           E(i) == [what  |-> events[i].what, first |-> events[i].first,
                    last  |-> events[i].last, said  |-> Spoken(b.ssml, doc, events[i])]
           renamed == [i \in DOMAIN events |-> E(i)]
           list == IF b.hasText THEN renamed ELSE <<>>
<1>2. Prepared(s, doc) = [ssml |-> b.ssml, mappings |-> b.mappings, bookmarks |-> b.bookmarks,
                          hasText |-> b.hasText, quotes |-> q, script |-> list]
  BY <1>1 DEF Prepared
<1>3. b.ssml \in Seq(Cells) /\ b.bookmarks \in Seq(Int)
  BY DEF Builders
<1>a. Len(b.bookmarks) \in Nat
  BY <1>3
<1>4. PICK M : /\ M = MarkEvents(events) /\ IsFiniteSet(M) /\ (s.voice = "edge" => M = {})
               /\ (s.voice # "edge" => Cardinality(M) = Len(b.bookmarks))
  <2>1. IsFiniteSet(MarkEvents(events))
    <3> HIDE DEF q
    <3> QED
      BY <1>3, ScriptMarks
  <2>2. (s.voice # "sdk") \in BOOLEAN /\ (s.voice = "edge") \in BOOLEAN
    BY SessionType
  <2>3. s.voice = "edge" => MarkEvents(events) = {}
    <3> HIDE DEF q
    <3> QED
      BY <1>1, <2>2, BookmarksInScript
  <2>4. ASSUME s.voice # "edge" PROVE Cardinality(MarkEvents(events)) = Len(b.bookmarks)
    <3> HIDE DEF q
    <3>1. EventsMarked(BuildSSML(doc, s.voice # "sdk", s.voice = "edge"), q, s.split)
      BY <2>2, <2>4, BookmarksInScript
    <3>2. EventsMarked(b, q, s.split)
      BY <1>1, <3>1
    <3> QED
      BY <3>2 DEF EventsMarked
  <2> HIDE DEF events
  <2> QED
    BY <2>1, <2>3, <2>4
<1>5. MarkEvents(renamed) = M
  <2>1. PICK T : events \in Seq(T)
    BY <1>3, ScriptType
  <2>2. \A i \in 1 .. Len(events) : E(i).what = events[i].what
    OBVIOUS
  <2> HIDE DEF events, E
  <2>3. \A i \in DOMAIN events : renamed[i] = E(i)
    OBVIOUS
  <2>4. renamed = [i \in DOMAIN events |-> renamed[i]]
    OBVIOUS
  <2>5. \A i \in 1 .. Len(events) : renamed[i].what = events[i].what
    BY <2>1, <2>2, <2>3
  <2> HIDE DEF renamed
  <2> QED
    BY <1>4, <2>1, <2>4, <2>5, MarksSame
<1>6. MarkEvents(<<>>) = {} /\ IsFiniteSet({}) /\ Cardinality({}) = 0
  <2>1. 1 .. Len(<<>>) = {}
    BY LenNone
  <2> QED
    BY <2>1, FS_EmptySet DEF MarkEvents
<1>7. IF b.hasText THEN MarkEvents(list) = M ELSE MarkEvents(list) = {}
  <2> HIDE DEF renamed
  <2> QED
    BY <1>5, <1>6
<1> HIDE DEF list, q
<1>8. PICK t : /\ t = Prepared(s, doc) /\ t.bookmarks = b.bookmarks /\ t.hasText = b.hasText
               /\ MarkEvents(t.script) = MarkEvents(list)
  BY <1>2
<1>9. CASE b.hasText
  BY <1>a, <1>4, <1>7, <1>8, <1>9
<1>10. CASE ~b.hasText
  <2>1. MarkEvents(t.script) = {} /\ ~t.hasText /\ Cardinality({}) = 0 /\ IsFiniteSet({})
    BY <1>6, <1>7, <1>8, <1>10
  <2>2. 0 <= Len(t.bookmarks) /\ Len(t.bookmarks) \in Nat
    BY <1>a, <1>8
  <2> QED
    BY <1>8, <2>1, <2>2
<1> QED
  BY <1>9, <1>10

LEMMA InitMarks == Init => Marks
<1> SUFFICES ASSUME Init PROVE Marks
  OBVIOUS
<1>1. script = <<>> /\ text.bookmarks = <<>>
  BY DEF Init, NoText, script
<1>2. MarkEvents(<<>>) = {} /\ IsFiniteSet({}) /\ Cardinality({}) = 0
  <2>1. 1 .. Len(<<>>) = {}
    BY LenNone
  <2> QED
    BY <2>1, FS_EmptySet DEF MarkEvents
<1>3. MarkEvents(script) = {} /\ Cardinality(MarkEvents(script)) = 0 /\ Len(text.bookmarks) = 0
  BY <1>1, <1>2, LenNone
<1>4. Cardinality(MarkEvents(script)) <= Len(text.bookmarks)
  BY <1>3
<1> QED
  BY <1>2, <1>3, <1>4 DEF Marks

LEMMA NextMarks == NoBookmarkOfItsOwn /\ IInv /\ Typed /\ Marks /\ [Next]_vars => Marks'
<1> SUFFICES ASSUME NoBookmarkOfItsOwn, IInv, Typed, Marks, [Next]_vars PROVE Marks'
  OBVIOUS
<1>1. CASE Setup
  <2>1. call \in 1 .. Len(session.docs) /\ session \in Sessions
    BY <1>1, SessionType DEF Setup, Typed, IInv, Shapes, SiteInCall
  <2>2. PICK doc \in Seq(Fragments) : doc = session.docs[call].text /\ NoBookmarkTag(doc)
    BY <2>1, SessionType DEF NoBookmarkOfItsOwn
  <2>3. PICK t : t = Prepared(session, doc)
    OBVIOUS
  <2>4. /\ IsFiniteSet(MarkEvents(t.script)) /\ Len(t.bookmarks) \in Nat
        /\ session.voice = "edge" => MarkEvents(t.script) = {}
        /\ session.voice # "edge" =>
             /\ Cardinality(MarkEvents(t.script)) <= Len(t.bookmarks)
             /\ t.hasText => Cardinality(MarkEvents(t.script)) = Len(t.bookmarks)
    BY <2>1, <2>2, <2>3, PreparedMarks
  <2>5. text' = t /\ session' = session
    BY <1>1, <2>2, <2>3 DEF Setup
  <2>6. script' = t.script /\ text'.bookmarks = t.bookmarks /\ text'.hasText = t.hasText
    BY <2>5 DEF script
  <2>7. edge' <=> session.voice = "edge"
    BY <2>5 DEF edge
  <2>8. CASE session.voice = "edge"
    BY <2>4, <2>6, <2>7, <2>8 DEF Marks
  <2>9. CASE session.voice # "edge"
    <3>1. ~edge'
      BY <2>7, <2>9
    <3>2. Cardinality(MarkEvents(script')) <= Len(text'.bookmarks)
      BY <2>4, <2>6, <2>9
    <3>3. text'.hasText => Cardinality(MarkEvents(script')) = Len(text'.bookmarks)
      BY <2>4, <2>6, <2>9
    <3> QED
      BY <2>4, <2>6, <3>1, <3>2, <3>3 DEF Marks
  <2> QED
    BY <2>8, <2>9
<1>2. CASE UNCHANGED <<text, session>>
  BY <1>2 DEF Marks, script, edge
<1> QED
  BY <1>1, <1>2, TextKept

\* Where a call is, and what that tells of its text and its synthesis.
Paths ==
    /\ pc \in {"waiting", "setup", "silent", "starting"} => told = <<>>
    /\ pc \in {"silent", "starting"} => index.bookmark = 1
    /\ pc \in {"silent", "starting", "polling", "decide", "joining", "leaving"} => site # 0
    /\ pc = "silent" => ~text.hasText
    /\ pc \in {"starting", "polling", "decide", "joining"} => text.hasText
    /\ pc = "joining" => abort
    /\ pc \in {"polling", "decide"} => ~syn.stop
    /\ online => cancelling = "none"
    /\ pc \in {"leaving", "idle"} /\ ~abort => cancelling = "none"

LEMMA InitPaths == Init => Paths
BY DEF Init, Paths

LEMMA NextPaths == IInv /\ Typed /\ Paths /\ [Next]_vars => Paths'
<1> SUFFICES ASSUME IInv, Typed, Paths, [Next]_vars PROVE Paths'
  OBVIOUS
<1> USE DEF Paths
<1>1. CASE Call
  BY <1>1 DEF Call, online, IInv, Shapes
<1>2. CASE Abort
  BY <1>2 DEF Abort, online
<1>3. CASE Release
  BY <1>3 DEF Release, online
<1>4. CASE Setup
  <2>1. /\ site' = call /\ pc' = IF text'.hasText THEN "starting" ELSE "silent"
        /\ index'.bookmark = 1 /\ UNCHANGED <<told, abort, syn, cancelling, session>> /\ pc = "setup"
    BY <1>4 DEF Setup
  <2>2. call # 0 /\ cancelling = "none"
    BY <1>4 DEF Setup, IInv, Shapes, SiteInCall, CancelledLater
  <2> QED
    BY <2>1, <2>2 DEF online
<1>5. CASE Cancelled
  BY <1>5 DEF Cancelled, online
<1>6. CASE AbortedWaiting
  BY <1>6 DEF AbortedWaiting, online
<1>7. CASE TellSilent
  BY <1>7 DEF TellSilent, online, IInv, CancelledLater
<1>8. CASE StartSynthesis
  BY <1>8 DEF StartSynthesis, online, NoSynthesis
<1>9. CASE PollEnds
  BY <1>9 DEF PollEnds, online
<1>10. CASE StopSpeaking
  BY <1>10 DEF StopSpeaking, online
<1>11. CASE Join
  BY <1>11 DEF Join, online
<1>12. CASE Complete
  BY <1>12 DEF Complete, online, IInv, CancelledLater
<1>13. CASE Leave
  BY <1>13 DEF Leave, online
<1>14. CASE Released
  BY <1>14 DEF Released, online
<1>15. CASE CancelStarted
  BY <1>15 DEF CancelStarted, online, IInv, CancelledLater
<1>16. CASE CancelDone
  BY <1>16 DEF CancelDone, online, IInv, CancelledLater
<1>17. CASE SynthesisStarts \/ SynthesisRefused \/ Unheard \/ Enter \/ SynthesisEnds
  <2>1. /\ UNCHANGED <<session, pc, told, index, site, text, abort, cancelling>> /\ syn'.stop = syn.stop
    BY <1>17 DEF SynthesisStarts, SynthesisRefused, Unheard, Enter, SynthesisEnds, IInv, Shapes
  <2> QED
    BY <2>1 DEF online
<1>18. CASE TellBoundary \/ TellBookmark
  <2>1. /\ inside /\ UNCHANGED <<session, pc, site, text, abort, cancelling>> /\ syn'.stop = syn.stop
    BY <1>18 DEF TellBoundary, TellBookmark, IInv, Shapes
  <2>2. pc \notin {"waiting", "setup", "silent", "starting"}
    BY <2>1 DEF IInv, AtWork
  <2> QED
    BY <2>1, <2>2 DEF online
<1>19. CASE UNCHANGED vars
  BY <1>19 DEF vars, online
<1> QED
  BY <1>1, <1>2, <1>3, <1>4, <1>5, <1>6, <1>7, <1>8, <1>9, <1>10, <1>11, <1>12, <1>13, <1>14, <1>15, <1>16, <1>17, <1>18, <1>19 DEF Next, Engine, Canceller, Synthesis

\* The bookmarks told so far.  An Edge voice has told those in front of
\* m_bookmarkIndex; the others those of the events before the next one, if
\* there is a callback for them.
Heard == {p \in 1 .. syn.pos - 1 : script[p].what = "bookmark"}
SoFar == IF handlers["bookmark"] = 1 THEN Cardinality(Heard) ELSE 0
EdgeTold ==
    edge /\ pc \in {"starting", "polling", "decide", "joining"} => Placed(told, index.bookmark - 1)
OtherTold == ~edge /\ site # 0 /\ Running => Placed(told, SoFar)

\* The Speech SDK tells all of them, and then a call is over.
SdkTold ==
    ~online /\ pc \in {"polling", "decide"} /\ syn.stage = "ended" /\ ~syn.failed /\ handlers["bookmark"] > 0
    => Placed(told, Len(text.bookmarks))
AllTold ==
    /\ pc \in {"leaving", "idle"} /\ call > 0 /\ ~abort
    /\ text.hasText => ~syn.failed /\ (edge \/ (~online /\ handlers["bookmark"] > 0))
    => Placed(told, Len(text.bookmarks))
SomeTold == \E n \in 0 .. Len(text.bookmarks) : Placed(told, n)

Telling == EdgeTold /\ OtherTold /\ SdkTold /\ AllTold /\ SomeTold

LEMMA PlacedRemaining ==
  ASSUME Typed, Placed(told, index.bookmark - 1)
  PROVE  Placed(told \o RemainingBookmarks, Len(text.bookmarks))
<1>1. PICK i \in Nat, k \in Nat : i = index.bookmark /\ k = Len(text.bookmarks) /\ i >= 1 /\ i <= k + 1
  BY DEF Typed, TextTyped
<1>a. \A a, z \in Nat : a >= 1 /\ a <= z + 1 =>
        a - 1 \in Nat /\ z - a + 1 \in Nat /\ a = (a - 1) + 1 /\ (a - 1) + (z - a + 1) = z
  OBVIOUS
<1>2. i - 1 \in Nat /\ k - i + 1 \in Nat /\ i = (i - 1) + 1 /\ (i - 1) + (k - i + 1) = k
  BY <1>1, <1>a
<1>3. PICK n \in Nat, m \in Nat : n = i - 1 /\ m = k - i + 1
  BY <1>2
<1>4. Placed(told \o [j \in 1 .. m |-> Bookmark(i + j - 1)], n + m)
  BY <1>1, <1>2, <1>3, PlacedBookmarks
<1>5. RemainingBookmarks = [j \in 1 .. m |-> Bookmark(i + j - 1)]
  BY <1>1, <1>3 DEF RemainingBookmarks
<1> QED
  BY <1>1, <1>2, <1>3, <1>4, <1>5

\* Of the events before the next one, and before the one after that.
LEMMA HeardNext ==
  ASSUME IInv, Typed, inside \/ Due
  PROVE  LET To == {p \in 1 .. syn.pos : script[p].what = "bookmark"}
         IN  /\ IsFiniteSet(Heard) /\ Cardinality(Heard) \in Nat
             /\ Next1.what # "bookmark" => To = Heard
             /\ Next1.what = "bookmark" => Cardinality(To) = Cardinality(Heard) + 1
             /\ To \subseteq MarkEvents(script) /\ (Next1.what = "bookmark" => syn.pos \in MarkEvents(script))
<1> DEFINE To == {p \in 1 .. syn.pos : script[p].what = "bookmark"}
<1>1. PICK k \in Nat : k = syn.pos /\ k >= 1 /\ k <= Len(script) /\ Len(script) \in Nat
  BY DEF IInv, Shapes, Typed, TextTyped, script, Due
<1>2. IsFiniteSet(Heard)
  <2>1. Heard \subseteq 1 .. k - 1
    BY <1>1 DEF Heard
  <2>2. 1 \in Int /\ k - 1 \in Int
    OBVIOUS
  <2> QED
    BY <2>1, <2>2, FS_Interval, FS_Subset
<1>3. Cardinality(Heard) \in Nat
  BY <1>2, FS_CardinalityType
<1>4. Next1 = script[k]
  BY <1>1 DEF Next1
<1>5. \A p : p \in 1 .. k <=> p \in 1 .. k - 1 \/ p = k
  BY <1>1
<1>6. k \notin 1 .. k - 1
  OBVIOUS
<1>7. Next1.what # "bookmark" => To = Heard
  BY <1>1, <1>4, <1>5 DEF Heard
<1>8. ASSUME Next1.what = "bookmark" PROVE Cardinality(To) = Cardinality(Heard) + 1
  <2>1. To = Heard \cup {k} /\ k \notin Heard
    BY <1>1, <1>4, <1>5, <1>6, <1>8 DEF Heard
  <2> QED
    BY <1>2, <2>1, FS_AddElement
<1>9. To \subseteq MarkEvents(script)
  BY <1>1 DEF MarkEvents
<1>10. Next1.what = "bookmark" => syn.pos \in MarkEvents(script)
  BY <1>1, <1>4 DEF MarkEvents
<1> QED
  BY <1>2, <1>3, <1>7, <1>8, <1>9, <1>10

\* A word, a sentence or a bookmark told: one after the other.
LEMMA EdgeTells ==
  ASSUME IInv, Typed, Marks, EdgeTold, edge, TellBoundary \/ TellBookmark,
         pc \in {"polling", "decide", "joining"}
  PROVE  Placed(told', index'.bookmark - 1)
<1>1. TellBoundary
  <2>1. inside /\ (TellBookmark => Next1.what = "bookmark")
    BY DEF TellBoundary, TellBookmark
  <2>2. Next1.what # "bookmark"
    BY <2>1, HeardNext DEF Marks
  <2> QED
    BY <2>1, <2>2
<1>2. PICK here, past, m, l :
        /\ here.call = syn.call /\ here.what = Next1.what
        /\ past \subseteq index.bookmark .. Len(text.bookmarks) /\ (~edge => past = {})
        /\ m \in 1 .. Max({1, Len(text.mappings)})
        /\ told' = told \o [k \in 1 .. handlers[Next1.what] |-> here]
                        \o [k \in 1 .. Cardinality(past) |-> Bookmark(index.bookmark + k - 1)]
        /\ index' = [index EXCEPT !.mapping = m, !.bookmark = @ + Cardinality(past), ![Next1.what] = l]
  BY <1>1, Boundary
<1>3. Next1.what \in {"word", "sentence"}
  BY <1>1 DEF TellBoundary
<1>4. PICK i \in Nat, c \in Nat : i = index.bookmark /\ i >= 1 /\ c = Cardinality(past)
  <2>1. PICK i \in Nat, k \in Nat : i = index.bookmark /\ k = Len(text.bookmarks) /\ i >= 1 /\ i <= k + 1
    BY DEF Typed, TextTyped
  <2> QED
    BY <1>2, <2>1, PastCounted
<1>5. PICK n \in Nat : n = i - 1 /\ i = n + 1 /\ Placed(told, n)
  <2>1. i - 1 \in Nat /\ i = (i - 1) + 1
    BY <1>4
  <2> QED
    BY <1>4, <2>1 DEF EdgeTold
<1>6. PICK h \in Nat : h = handlers[Next1.what]
  BY <1>3 DEF Typed, Events
<1>7. PICK v : v = told \o [k \in 1 .. h |-> here] /\ Placed(v, n)
  BY <1>2, <1>3, <1>5, PlacedSame
<1>8. Placed(v \o [k \in 1 .. c |-> Bookmark(i + k - 1)], n + c)
  BY <1>5, <1>7, PlacedBookmarks
<1>9. told' = v \o [k \in 1 .. c |-> Bookmark(i + k - 1)]
  BY <1>2, <1>4, <1>6, <1>7
<1>10. index'.bookmark - 1 = n + c
  <2>1. index'.bookmark = i + c
    BY <1>2, <1>3, <1>4 DEF Typed
  <2> QED
    BY <1>4, <1>5, <2>1
<1> QED
  BY <1>8, <1>9, <1>10

LEMMA OtherTells ==
  ASSUME IInv, Typed, ~edge, Placed(told, SoFar), TellBoundary \/ TellBookmark
  PROVE  Placed(told', SoFar')
<1> DEFINE To == {p \in 1 .. syn.pos : script[p].what = "bookmark"}
<1>1. inside /\ UNCHANGED <<text, handlers>> /\ syn'.pos = syn.pos + 1 /\ syn.pos \in Nat
  BY DEF TellBoundary, TellBookmark, IInv, Shapes
<1>2. /\ Cardinality(Heard) \in Nat /\ (Next1.what # "bookmark" => To = Heard)
      /\ Next1.what = "bookmark" => Cardinality(To) = Cardinality(Heard) + 1
  BY <1>1, HeardNext
<1>3. Heard' = To
  <2>1. (syn.pos + 1) - 1 = syn.pos
    BY <1>1
  <2> QED
    BY <1>1, <2>1 DEF Heard, script
<1>4. handlers["bookmark"] \in 0 .. 1
  BY DEF Typed, Events
<1>5. SoFar \in Nat
  BY <1>2 DEF SoFar
<1>6. SoFar' = IF handlers["bookmark"] = 1 THEN Cardinality(To) ELSE 0
  BY <1>1, <1>3 DEF SoFar
<1>7. CASE TellBoundary
  <2>1. PICK here, past :
          /\ here.what = Next1.what /\ past = {}
          /\ told' = told \o [k \in 1 .. handlers[Next1.what] |-> here]
                          \o [k \in 1 .. Cardinality(past) |-> Bookmark(index.bookmark + k - 1)]
    BY <1>7, Boundary
  <2>2. Next1.what \in {"word", "sentence"}
    BY <1>7 DEF TellBoundary
  <2>3. PICK h \in Nat : h = handlers[Next1.what]
    BY <2>2 DEF Typed, Events
  <2>4. PICK v : v = told \o [k \in 1 .. h |-> here] /\ Placed(v, SoFar)
    BY <1>5, <2>1, <2>2, PlacedSame
  <2>5. Cardinality(past) = 0
    BY <2>1, FS_EmptySet
  <2>6. told' = v \o <<>>
    <3>1. [k \in 1 .. 0 |-> Bookmark(index.bookmark + k - 1)] = <<>>
      OBVIOUS
    <3> QED
      BY <2>1, <2>3, <2>4, <2>5, <3>1
  <2>7. <<>> \in Seq({}) /\ Len(<<>>) = 0
    OBVIOUS
  <2>8. Placed(v \o <<>>, SoFar)
    BY <1>5, <2>4, <2>7, PlacedOther
  <2>9. SoFar' = SoFar
    BY <1>2, <1>6, <2>2 DEF SoFar
  <2> QED
    BY <2>6, <2>8, <2>9
<1>8. CASE TellBookmark
  <2> DEFINE e == [Bookmark(Cardinality(To)) EXCEPT !.call = syn.call]
             h == handlers["bookmark"]
             w == [k \in 1 .. h |-> e]
  <2>1. told' = told \o w /\ Next1.what = "bookmark"
    BY <1>8 DEF TellBookmark
  <2>2. e.what = "bookmark" /\ e.item = Cardinality(To)
    BY DEF Bookmark
  <2> HIDE DEF e, To
  <2>3. w \in Seq({e}) /\ Len(w) = h /\ \A k \in 1 .. h : w[k] = e
    BY <1>4
  <2>4. CASE h = 1
    <3>1. SoFar = Cardinality(Heard) /\ SoFar' = SoFar + 1
      BY <1>2, <1>6, <2>1, <2>4 DEF SoFar
    <3>2. \A k \in 1 .. 1 : w[k].what = "bookmark" /\ w[k].item = SoFar + k
      BY <1>2, <2>1, <2>2, <2>3, <2>4, <3>1
    <3> HIDE DEF w
    <3>3. Placed(told \o w, SoFar + 1)
      BY <1>5, <2>3, <2>4, <3>2, PlacedMore
    <3> QED
      BY <2>1, <3>1, <3>3
  <2>5. CASE h = 0
    <3>1. SoFar = 0 /\ SoFar' = 0
      BY <1>6, <2>5 DEF SoFar
    <3>2. \A k \in 1 .. Len(w) : w[k].what # "bookmark"
      BY <2>3, <2>5
    <3> HIDE DEF w
    <3>3. Placed(told \o w, SoFar)
      BY <1>5, <2>3, <3>2, PlacedOther
    <3> QED
      BY <2>1, <3>1, <3>3
  <2> QED
    BY <1>4, <2>4, <2>5
<1> QED
  BY <1>7, <1>8

LEMMA InitTelling == Init => Telling
<1> SUFFICES ASSUME Init PROVE Telling
  OBVIOUS
<1>1. Len(text.bookmarks) = 0 /\ told = <<>> /\ pc = "idle" /\ site = 0 /\ call = 0
  BY LenNone DEF Init, NoText
<1>2. Placed(told, 0) /\ 0 \in 0 .. Len(text.bookmarks)
  BY <1>1, PlacedNone
<1>3. EdgeTold /\ OtherTold /\ SdkTold /\ AllTold
  BY <1>1 DEF EdgeTold, OtherTold, SdkTold, AllTold
<1>4. SomeTold
  BY <1>2 DEF SomeTold
<1> QED
  BY <1>3, <1>4 DEF Telling

LEMMA NextEdgeTold ==
  IInv /\ Typed /\ Marks /\ Paths /\ EdgeTold /\ [Next]_vars => EdgeTold'
<1> SUFFICES ASSUME IInv, Typed, Marks, Paths, EdgeTold, [Next]_vars, edge',
                    pc' \in {"starting", "polling", "decide", "joining"}
             PROVE  Placed(told', index'.bookmark - 1)
  BY DEF EdgeTold
<1>0. edge
  <2>1. session' = session
    BY TextKept DEF Setup
  <2> QED
    BY <2>1 DEF edge
<1>1. CASE Setup
  <2>1. told' = <<>> /\ index'.bookmark = 1 /\ 1 - 1 = 0
    BY <1>1 DEF Setup, Paths
  <2> QED
    BY <2>1, PlacedNone
<1>2. CASE TellBoundary \/ TellBookmark
  <2>1. pc' = pc /\ inside
    BY <1>2 DEF TellBoundary, TellBookmark
  <2>2. pc # "starting"
    BY <2>1 DEF IInv, AtWork
  <2> QED
    BY <1>0, <1>2, <2>1, <2>2, EdgeTells
<1>3. CASE UNCHANGED <<told, index>> /\ pc \in {"starting", "polling", "decide", "joining"}
  BY <1>0, <1>3 DEF EdgeTold
<1>4. \/ Setup \/ TellBoundary \/ TellBookmark
      \/ UNCHANGED <<told, index>> /\ pc \in {"starting", "polling", "decide", "joining"}
  <2>1. CASE Call \/ Abort \/ Release \/ CancelStarted \/ CancelDone
    BY <2>1 DEF Call, Abort, Release, CancelStarted, CancelDone
  <2>2. CASE Cancelled \/ AbortedWaiting \/ StartSynthesis \/ PollEnds \/ StopSpeaking \/ Join \/ Leave \/ Released
    BY <2>2 DEF Cancelled, AbortedWaiting, StartSynthesis, PollEnds, StopSpeaking, Join, Leave, Released
  <2>3. CASE SynthesisStarts \/ SynthesisRefused \/ Unheard \/ Enter \/ SynthesisEnds
    BY <2>3 DEF SynthesisStarts, SynthesisRefused, Unheard, Enter, SynthesisEnds
  <2>4. CASE TellSilent \/ Complete
    BY <2>4 DEF TellSilent, Complete
  <2>5. CASE UNCHANGED vars
    BY <2>5 DEF vars
  <2> QED
    BY <2>1, <2>2, <2>3, <2>4, <2>5 DEF Next, Engine, Canceller, Synthesis
<1> QED
  BY <1>1, <1>2, <1>3, <1>4

LEMMA NextOtherTold ==
  IInv /\ Typed /\ Paths /\ OtherTold /\ [Next]_vars => OtherTold'
<1> SUFFICES ASSUME IInv, Typed, Paths, OtherTold, [Next]_vars, ~edge', site' # 0, Running'
             PROVE  Placed(told', SoFar')
  BY DEF OtherTold
<1>0. ~edge
  <2>1. session' = session
    BY TextKept DEF Setup
  <2> QED
    BY <2>1 DEF edge
<1>1. CASE StartSynthesis
  <2>1. told' = <<>> /\ syn'.pos = 1
    BY <1>1 DEF StartSynthesis, Paths, NoSynthesis
  <2>2. Heard' = {}
    <3>1. 1 .. 1 - 1 = {}
      OBVIOUS
    <3> QED
      BY <2>1, <3>1 DEF Heard
  <2>3. SoFar' = 0
    BY <2>2, FS_EmptySet DEF SoFar
  <2> QED
    BY <2>1, <2>3, PlacedNone
<1>2. CASE TellBoundary \/ TellBookmark
  <2>1. site' = site /\ inside
    BY <1>2 DEF TellBoundary, TellBookmark
  <2>2. site # 0 /\ Running
    BY <2>1 DEF IInv, AtWork, Running
  <2> QED
    BY <1>0, <1>2, <2>2, OtherTells DEF OtherTold
<1>3. CASE Unheard
  <2>1. /\ site # 0 /\ Running /\ Due /\ handlers[Next1.what] = 0 /\ syn'.pos = syn.pos + 1
        /\ UNCHANGED <<told, handlers, text>> /\ syn.pos \in Nat
    BY <1>3 DEF Unheard, Due, Running, IInv, Shapes
  <2>2. (syn.pos + 1) - 1 = syn.pos
    BY <2>1
  <2>3. Heard' = {p \in 1 .. syn.pos : script[p].what = "bookmark"}
    BY <2>1, <2>2 DEF Heard, script
  <2>4. Next1.what # "bookmark" => Heard' = Heard
    BY <2>1, <2>3, HeardNext
  <2>5. SoFar' = SoFar
    BY <2>1, <2>4 DEF SoFar
  <2> QED
    BY <1>0, <2>1, <2>5 DEF OtherTold
<1>4. CASE UNCHANGED <<told, handlers, text>> /\ syn'.pos = syn.pos /\ site # 0 /\ Running
  <2>1. SoFar' = SoFar
    BY <1>4 DEF SoFar, Heard, script
  <2> QED
    BY <1>0, <1>4, <2>1 DEF OtherTold
<1>5. \/ StartSynthesis \/ TellBoundary \/ TellBookmark \/ Unheard
      \/ UNCHANGED <<told, handlers, text>> /\ syn'.pos = syn.pos /\ site # 0 /\ Running
  <2>1. CASE Call
    <3>1. site = 0 /\ site' = site
      BY <2>1 DEF Call, IInv, SiteInCall
    <3> QED
      BY <3>1
  <2>2. CASE Setup
    <3>1. ~Running /\ syn' = syn
      BY <2>2 DEF Setup, IInv, CancelledLater, Awaited
    <3> QED
      BY <3>1 DEF Running
  <2>3. CASE TellSilent
    <3>1. ~Running /\ syn' = syn
      BY <2>3 DEF TellSilent, IInv, CancelledLater, Awaited
    <3> QED
      BY <3>1 DEF Running
  <2>4. CASE Complete
    BY <1>0, <2>4 DEF Complete, Running
  <2>5. CASE Abort \/ Release \/ Cancelled \/ AbortedWaiting \/ PollEnds \/ Join \/ Leave \/ Released \/ CancelDone
    BY <2>5 DEF Abort, Release, Cancelled, AbortedWaiting, PollEnds, Join, Leave, Released, CancelDone, Running
  <2>6. CASE StopSpeaking \/ CancelStarted \/ SynthesisStarts \/ SynthesisRefused \/ Enter \/ SynthesisEnds
    <3>1. /\ UNCHANGED <<told, handlers, text, site>> /\ syn'.pos = syn.pos
          /\ syn'.stage \in {"asked", "going"} => syn.stage \in {"asked", "going"}
      BY <2>6 DEF StopSpeaking, CancelStarted, SynthesisStarts, SynthesisRefused, Enter, SynthesisEnds, IInv, Shapes
    <3> QED
      BY <3>1 DEF Running
  <2>7. CASE UNCHANGED vars
    BY <2>7 DEF vars, Running
  <2> QED
    BY <2>1, <2>2, <2>3, <2>4, <2>5, <2>6, <2>7 DEF Next, Engine, Canceller, Synthesis
<1> QED
  BY <1>1, <1>2, <1>3, <1>4, <1>5

LEMMA NextSdkTold ==
  IInv /\ Typed /\ Marks /\ Paths /\ OtherTold /\ SdkTold /\ [Next]_vars => SdkTold'
<1> SUFFICES ASSUME IInv, Typed, Marks, Paths, OtherTold, SdkTold, [Next]_vars, ~online',
                    pc' \in {"polling", "decide"}, syn'.stage = "ended", ~syn'.failed, handlers'["bookmark"] > 0
             PROVE  Placed(told', Len(text'.bookmarks))
  BY DEF SdkTold
<1>0. ~online
  <2>1. session' = session
    BY TextKept DEF Setup
  <2> QED
    BY <2>1 DEF online
<1>1. CASE SynthesisEnds
  <2>1. UNCHANGED <<told, text, pc, handlers>> /\ syn'.pos = syn.pos /\ syn.stage = "going"
    BY <1>1 DEF SynthesisEnds, IInv, Shapes
  <2>2. ~syn.stop /\ text.hasText /\ site # 0
    BY <2>1 DEF Paths
  <2>3. syn.pos > Len(script)
    BY <1>0, <1>1, <2>2 DEF SynthesisEnds, IInv, Shapes
  <2>4. syn.pos - 1 = Len(script)
    BY <2>1, <2>3 DEF Typed, TextTyped, Running, IInv, Shapes, script
  <2>5. Heard = MarkEvents(script)
    BY <2>4 DEF Heard, MarkEvents
  <2>6. ~edge
    BY <1>0 DEF edge, online
  <2>7. handlers["bookmark"] = 1
    <3>1. handlers["bookmark"] \in 0 .. 1 /\ handlers["bookmark"] > 0
      BY <2>1 DEF Typed, Events
    <3> QED
      BY <3>1
  <2>8. SoFar = Len(text.bookmarks)
    BY <2>2, <2>5, <2>6, <2>7 DEF SoFar, Marks
  <2> QED
    BY <2>1, <2>2, <2>6, <2>8 DEF OtherTold, Running
<1>2. CASE /\ UNCHANGED <<told, text, handlers>> /\ pc \in {"polling", "decide"}
           /\ syn.stage = "ended" /\ ~syn.failed
  BY <1>0, <1>2 DEF SdkTold
<1>3. \/ SynthesisEnds
      \/ /\ UNCHANGED <<told, text, handlers>> /\ pc \in {"polling", "decide"}
         /\ syn.stage = "ended" /\ ~syn.failed
  <2>1. CASE Call \/ Release \/ Setup \/ CancelStarted
    BY <2>1 DEF Call, Release, Setup, CancelStarted, IInv, CancelledLater
  <2>2. CASE Abort \/ CancelDone \/ Enter
    BY <2>2 DEF Abort, CancelDone, Enter
  <2>3. CASE Cancelled \/ AbortedWaiting \/ PollEnds \/ Join \/ Leave \/ Released
    BY <2>3 DEF Cancelled, AbortedWaiting, PollEnds, Join, Leave, Released
  <2>4. CASE StopSpeaking \/ TellSilent \/ Complete
    BY <2>4 DEF StopSpeaking, TellSilent, Complete
  <2>5. CASE StartSynthesis \/ SynthesisStarts \/ SynthesisRefused \/ Unheard
    BY <2>5 DEF StartSynthesis, NoSynthesis, SynthesisStarts, SynthesisRefused, Unheard, Due, IInv, Shapes
  <2>6. CASE TellBoundary \/ TellBookmark
    <3>1. inside /\ syn'.stage = syn.stage
      BY <2>6 DEF TellBoundary, TellBookmark, IInv, Shapes
    <3> QED
      BY <3>1 DEF IInv, AtWork
  <2>7. CASE UNCHANGED vars
    BY <2>7 DEF vars
  <2> QED
    BY <2>1, <2>2, <2>3, <2>4, <2>5, <2>6, <2>7 DEF Next, Engine, Canceller, Synthesis
<1> QED
  BY <1>1, <1>2, <1>3

LEMMA NextAllTold ==
  IInv /\ Typed /\ Paths /\ EdgeTold /\ SdkTold /\ AllTold /\ [Next]_vars => AllTold'
<1> SUFFICES ASSUME IInv, Typed, Paths, EdgeTold, SdkTold, AllTold, [Next]_vars,
                    pc' \in {"leaving", "idle"}, call' > 0, ~abort',
                    text'.hasText => ~syn'.failed /\ (edge' \/ (~online' /\ handlers'["bookmark"] > 0))
             PROVE  Placed(told', Len(text'.bookmarks))
  BY DEF AllTold
<1>0. /\ UNCHANGED <<text, session, handlers>>
      /\ text.hasText => ~syn'.failed /\ (edge \/ (~online /\ handlers["bookmark"] > 0))
  <2>1. UNCHANGED <<text, session, handlers>>
    BY TextKept DEF Setup
  <2> QED
    BY <2>1 DEF edge, online
<1>1. CASE TellSilent
  <2>1. told = <<>> /\ index.bookmark = 1 /\ 1 - 1 = 0 /\ told' = told \o RemainingBookmarks
    BY <1>1 DEF TellSilent, Paths
  <2>2. Placed(told, index.bookmark - 1)
    BY <2>1, PlacedNone
  <2> QED
    BY <1>0, <2>1, <2>2, PlacedRemaining
<1>2. CASE Complete
  <2>1. text.hasText /\ pc = "decide" /\ ~abort /\ syn' = syn /\ syn.stage = "ended"
    BY <1>2 DEF Complete, Paths, IInv, Awaited
  <2>2. ~syn.failed
    BY <1>0, <2>1
  <2>3. CASE edge
    <3>1. Placed(told, index.bookmark - 1)
      BY <2>1, <2>3 DEF EdgeTold
    <3>2. told' = told \o RemainingBookmarks
      BY <1>2, <2>2, <2>3 DEF Complete
    <3> QED
      BY <1>0, <3>1, <3>2, PlacedRemaining
  <2>4. CASE ~edge
    <3>1. ~online /\ handlers["bookmark"] > 0 /\ told' = told
      BY <1>0, <1>2, <2>1, <2>4 DEF Complete
    <3> QED
      BY <1>0, <2>1, <2>2, <3>1 DEF SdkTold
  <2> QED
    BY <2>3, <2>4
<1>3. CASE UNCHANGED <<told, call, abort, syn>> /\ pc \in {"leaving", "idle"}
  BY <1>0, <1>3 DEF AllTold
<1>4. \/ TellSilent \/ Complete
      \/ UNCHANGED <<told, call, abort, syn>> /\ pc \in {"leaving", "idle"}
  <2>1. CASE Call \/ Abort \/ Release \/ Setup
    BY <2>1 DEF Call, Abort, Release, Setup
  <2>2. CASE Cancelled \/ AbortedWaiting \/ StartSynthesis \/ PollEnds \/ StopSpeaking \/ Join \/ Leave \/ Released
    BY <2>2 DEF Cancelled, AbortedWaiting, StartSynthesis, PollEnds, StopSpeaking, Join, Leave, Released, Paths
  <2>3. CASE \/ CancelStarted \/ CancelDone \/ SynthesisStarts \/ SynthesisRefused \/ Unheard \/ Enter
             \/ SynthesisEnds \/ TellBookmark \/ TellBoundary
    <3>1. pc' = pc /\ abort' = abort
      BY <2>3 DEF CancelStarted, CancelDone, SynthesisStarts, SynthesisRefused, Unheard, Enter,
                  SynthesisEnds, TellBookmark, TellBoundary
    <3>2. cancelling = "none" /\ ~Running /\ ~inside
      BY <3>1 DEF Paths, IInv, Awaited, AtWork, Running
    <3> QED
      BY <2>3, <3>2 DEF CancelStarted, CancelDone, SynthesisStarts, SynthesisRefused, Unheard, Enter, Due,
                        SynthesisEnds, TellBookmark, TellBoundary, Running
  <2>4. CASE UNCHANGED vars
    BY <2>4 DEF vars
  <2> QED
    BY <2>1, <2>2, <2>3, <2>4 DEF Next, Engine, Canceller, Synthesis
<1> QED
  BY <1>1, <1>2, <1>3, <1>4

LEMMA NextSomeTold ==
  IInv /\ Typed /\ Marks /\ Paths /\ Telling /\ [Next]_vars /\ Typed' => SomeTold'
<1> SUFFICES ASSUME IInv, Typed, Marks, Paths, Telling, [Next]_vars, Typed'
             PROVE  \E n \in 0 .. Len(text'.bookmarks) : Placed(told', n)
  BY DEF SomeTold
<1>0. Len(text.bookmarks) \in Nat /\ Len(text'.bookmarks) \in Nat
  BY DEF Typed, TextTyped
<1>1. CASE told' = <<>>
  <2>1. 0 \in 0 .. Len(text'.bookmarks)
    BY <1>0
  <2> QED
    BY <1>1, <2>1, PlacedNone
<1>2. CASE Placed(told', Len(text'.bookmarks))
  <2>1. Len(text'.bookmarks) \in 0 .. Len(text'.bookmarks)
    BY <1>0
  <2> QED
    BY <1>2, <2>1
<1>3. CASE UNCHANGED <<told, text>>
  BY <1>3 DEF Telling, SomeTold
<1>4. CASE TellBoundary \/ TellBookmark
  <2>1. /\ inside /\ UNCHANGED <<text, handlers, pc, session>> /\ syn'.pos = syn.pos + 1
        /\ syn.pos \in Nat
    BY <1>4 DEF TellBoundary, TellBookmark, IInv, Shapes
  <2>2. site # 0 /\ Running /\ (edge => cancelling = "none")
    BY <2>1 DEF IInv, AtWork, Running, Paths, edge, online
  <2>3. CASE edge
    <3>1. pc \in {"polling", "decide", "joining"}
      BY <2>2, <2>3 DEF IInv, Awaited
    <3>2. Placed(told', index'.bookmark - 1)
      BY <1>4, <2>3, <3>1, EdgeTells DEF Telling
    <3>3. index'.bookmark - 1 \in 0 .. Len(text'.bookmarks)
      BY <1>0 DEF Typed
    <3> QED
      BY <3>2, <3>3
  <2>4. CASE ~edge
    <3>1. Placed(told', SoFar')
      BY <1>4, <2>2, <2>4, OtherTells DEF Telling, OtherTold
    <3> DEFINE To == {p \in 1 .. syn.pos : script[p].what = "bookmark"}
    <3>2. Heard' = To
      <4>1. (syn.pos + 1) - 1 = syn.pos
        BY <2>1
      <4> QED
        BY <2>1, <4>1 DEF Heard, script
    <3>3. To \subseteq MarkEvents(script) /\ IsFiniteSet(MarkEvents(script))
      BY <2>1, HeardNext DEF Marks
    <3> HIDE DEF To
    <3>4. IsFiniteSet(To) /\ Cardinality(To) <= Cardinality(MarkEvents(script)) /\ Cardinality(To) \in Nat
          /\ Cardinality(MarkEvents(script)) \in Nat
      BY <3>3, FS_Subset, FS_CardinalityType
    <3>5. Cardinality(MarkEvents(script)) <= Len(text.bookmarks)
      BY <2>4 DEF Marks
    <3>6. Cardinality(To) \in 0 .. Len(text.bookmarks) /\ 0 \in 0 .. Len(text.bookmarks)
      BY <1>0, <3>4, <3>5
    <3>7. SoFar' \in 0 .. Len(text'.bookmarks)
      BY <2>1, <3>2, <3>6 DEF SoFar
    <3> QED
      BY <3>1, <3>7
  <2> QED
    BY <2>3, <2>4
<1>5. \/ told' = <<>> \/ UNCHANGED <<told, text>> \/ TellBoundary \/ TellBookmark
      \/ Placed(told', Len(text'.bookmarks))
  <2>1. CASE Call \/ Setup
    BY <2>1 DEF Call, Setup, Paths
  <2>2. CASE TellSilent
    <3>1. told = <<>> /\ index.bookmark = 1 /\ 1 - 1 = 0 /\ told' = told \o RemainingBookmarks /\ text' = text
      BY <2>2 DEF TellSilent, Paths
    <3>2. Placed(told, index.bookmark - 1)
      BY <3>1, PlacedNone
    <3> QED
      BY <3>1, <3>2, PlacedRemaining
  <2>3. CASE Complete
    <3>1. CASE edge
      <4>1. Placed(told, index.bookmark - 1)
        BY <2>3, <3>1 DEF Telling, EdgeTold, Complete
      <4>2. Placed(told \o RemainingBookmarks, Len(text.bookmarks))
        BY <4>1, PlacedRemaining
      <4> QED
        BY <2>3, <4>2 DEF Complete
    <3>2. CASE ~edge
      BY <2>3, <3>2 DEF Complete
    <3> QED
      BY <3>1, <3>2
  <2>4. CASE Abort \/ Release \/ CancelStarted \/ CancelDone
    BY <2>4 DEF Abort, Release, CancelStarted, CancelDone
  <2>5. CASE Cancelled \/ AbortedWaiting \/ StartSynthesis \/ PollEnds \/ StopSpeaking \/ Join \/ Leave \/ Released
    BY <2>5 DEF Cancelled, AbortedWaiting, StartSynthesis, PollEnds, StopSpeaking, Join, Leave, Released
  <2>6. CASE SynthesisStarts \/ SynthesisRefused \/ Unheard \/ Enter \/ SynthesisEnds
    BY <2>6 DEF SynthesisStarts, SynthesisRefused, Unheard, Enter, SynthesisEnds
  <2>7. CASE UNCHANGED vars
    BY <2>7 DEF vars
  <2> QED
    BY <2>1, <2>2, <2>3, <2>4, <2>5, <2>6, <2>7 DEF Next, Engine, Canceller, Synthesis
<1> QED
  BY <1>1, <1>2, <1>3, <1>4, <1>5

LEMMA NextTelling ==
  IInv /\ Typed /\ Marks /\ Paths /\ Telling /\ [Next]_vars /\ Typed' => Telling'
<1> SUFFICES ASSUME IInv, Typed, Marks, Paths, Telling, [Next]_vars, Typed' PROVE Telling'
  OBVIOUS
<1>1. EdgeTold /\ OtherTold /\ SdkTold /\ AllTold
  BY DEF Telling
<1>2. EdgeTold' /\ OtherTold'
  BY <1>1, NextEdgeTold, NextOtherTold
<1>3. SdkTold' /\ AllTold'
  BY <1>1, NextSdkTold, NextAllTold
<1>4. SomeTold'
  BY NextSomeTold
<1> QED
  BY <1>2, <1>3, <1>4 DEF Telling

-----------------------------------------------------------------------------
\* The invariant holds whatever is fair.
LEMMA Invariance == Spec => []IInv
BY InitIInv, NextIInv, PTL DEF Spec

LEMMA TypedAlways == Spec => []Typed
BY Invariance, InitTyped, NextTyped, PTL DEF Spec

LEMMA InitStarted == Init => started \in BOOLEAN
BY DEF Init

LEMMA NextStarted == started \in BOOLEAN /\ [Next]_vars => (started \in BOOLEAN)'
<1> SUFFICES ASSUME started \in BOOLEAN, [Next]_vars PROVE started' \in BOOLEAN
  OBVIOUS
<1>1. started' \in {started, TRUE, FALSE}
  <2>1. CASE Call \/ Abort \/ Release \/ Setup \/ CancelStarted \/ CancelDone
    BY <2>1 DEF Call, Abort, Release, Setup, CancelStarted, CancelDone
  <2>2. CASE Cancelled \/ AbortedWaiting \/ StartSynthesis \/ PollEnds \/ StopSpeaking \/ Join \/ Leave \/ Released
    BY <2>2 DEF Cancelled, AbortedWaiting, StartSynthesis, PollEnds, StopSpeaking, Join, Leave, Released
  <2>3. CASE SynthesisStarts \/ SynthesisRefused \/ Unheard \/ Enter \/ SynthesisEnds
    BY <2>3 DEF SynthesisStarts, SynthesisRefused, Unheard, Enter, SynthesisEnds
  <2>4. CASE TellSilent \/ Complete \/ TellBookmark \/ TellBoundary
    BY <2>4 DEF TellSilent, Complete, TellBookmark, TellBoundary
  <2>5. CASE UNCHANGED vars
    BY <2>5 DEF vars
  <2> QED
    BY <2>1, <2>2, <2>3, <2>4, <2>5 DEF Next, Engine, Canceller, Synthesis
<1> QED
  BY <1>1

\* MapTextOffset is called with an index into the mappings of this very SSML,
\* and OnBoundary reads no bookmark past the last, however many words a
\* service finds (TTSEngine.cpp 561-573, 1161-1222): Setup, which replaces
\* the lists, resets the indices while no synthesis runs.
THEOREM TypeCorrect == Spec => []TypeOK
<1>1. IInv /\ Typed /\ started \in BOOLEAN => TypeOK
  <2> SUFFICES ASSUME IInv, Typed, started \in BOOLEAN PROVE TypeOK
    OBVIOUS
  <2>1. abort \in BOOLEAN /\ inside \in BOOLEAN
    BY DEF IInv, Shapes
  <2>2. syn.stage \in {"none", "asked", "going", "ended"} /\ (Running => syn.pos \in 1 .. Len(script) + 1)
    BY DEF IInv, Shapes, Stages, Typed, TextTyped, script
  <2> QED
    BY <2>1, <2>2 DEF IInv, Shapes, Typed, TypeOK
<1>2. Spec => [](started \in BOOLEAN)
  BY InitStarted, NextStarted, PTL DEF Spec
<1> QED
  BY <1>1, <1>2, Invariance, TypedAlways, PTL

\* What BuildSSML sends a service is SSML it can read (TTSEngine.cpp
\* 805-1064): every tag is closed, in the order of nesting; a say-as has no
\* tag inside; an Edge voice gets no tag but speak, voice and at most two
\* prosody tags.  For every document without a say-as of the application's
\* and, as the property says, no tag closed in another case (1019, 1035).
THEOREM SsmlIsAccepted == NoSayAsOfItsOwn => (Spec => []SsmlAccepted)
<1> SUFFICES ASSUME NoSayAsOfItsOwn PROVE Spec => []SsmlAccepted
  OBVIOUS
<1>1. IInv /\ Typed /\ Readable /\ [Next]_vars => Readable'
  BY NextReadable
<1>2. Spec => []Readable
  BY <1>1, Invariance, TypedAlways, InitReadable, PTL DEF Spec
<1> QED
  BY <1>2, ReadableAccepted, PTL

\* Leave takes m_outputSiteMutex before it clears the site (TTSEngine.cpp
\* 113-117), so no callback is at work for a call that has returned;
\* and FinalRelease waits for the cancellation, so nothing speaks afterwards.
THEOREM NobodyStaysInside == Spec => []NobodyLeftInside
<1>1. IInv => NobodyLeftInside
  BY DEF IInv, Shapes, SiteInCall, Awaited, AtWork, ReleasedLast, NobodyLeftInside, Running
<1> QED
  BY <1>1, Invariance, PTL

\* Speak waits for m_lastCancellingFuture before it sets anything up
\* (TTSEngine.cpp 88-103), and joins the future of SpeechRestAPI; so there is
\* one synthesis at a time, and an application hears of no other call.
THEOREM SynthesisAlone == Spec => []OneSynthesis
<1>1. IInv /\ TellsOwn => OneSynthesis
  <2> SUFFICES ASSUME IInv, TellsOwn PROVE OneSynthesis
    OBVIOUS
  <2>1. pc \in {"setup", "starting"} => ~Running
    BY DEF IInv, CancelledLater, Awaited, Running
  <2>2. PICK S : told \in Seq(S) /\ \A e \in S : e.call = call
    BY DEF TellsOwn, Own
  <2>3. \A e \in Range(told) : e.call = call
    BY <2>2 DEF Range
  <2> QED
    BY <2>1, <2>3 DEF OneSynthesis
<1>2. Spec => []TellsOwn
  BY Invariance, TypedAlways, InitTellsOwn, NextTellsOwn, PTL DEF Spec
<1> QED
  BY <1>1, <1>2, Invariance, PTL

\* Bookmarks reach the application in order, each once and none left out
\* before one that is reported; and all of them, when a call is over that was
\* not aborted and whose synthesis did not fail (TTSEngine.cpp 124, 191,
\* 536-573, 1144-1158); unless the application writes into its text, as a tag
\* that SAPI does not know, the services' own tag for a bookmark.
THEOREM BookmarksAllTold == NoBookmarkOfItsOwn => (Spec => []BookmarksInPlace)
<1> SUFFICES ASSUME NoBookmarkOfItsOwn PROVE Spec => []BookmarksInPlace
  OBVIOUS
<1>1. IInv /\ Typed /\ Marks /\ [Next]_vars => Marks'
  BY NextMarks
<1>2. Spec => []Marks
  BY <1>1, Invariance, TypedAlways, InitMarks, PTL DEF Spec
<1>3. Spec => []Paths
  BY Invariance, TypedAlways, InitPaths, NextPaths, PTL DEF Spec
<1>4. Spec => []Telling
  BY <1>2, <1>3, Invariance, TypedAlways, InitTelling, NextTelling, PTL DEF Spec
<1>5. Telling => BookmarksInPlace
  <2> SUFFICES ASSUME Telling PROVE BookmarksInPlace
    OBVIOUS
  <2>1. \A p, q \in Places("bookmark") : p < q => told[p].item < told[q].item
    BY PlacedReported DEF Telling, SomeTold
  <2>2. \A n : Placed(told, n) => Reported = 1 .. n
    BY PlacedReported
  <2>3. \E n \in 0 .. Len(text.bookmarks) : Reported = 1 .. n
    BY <2>2 DEF Telling, SomeTold
  <2> QED
    BY <2>1, <2>2, <2>3 DEF Telling, AllTold, BookmarksInPlace
<1> QED
  BY <1>4, <1>5, PTL

-----------------------------------------------------------------------------
(***************************************************************************)
(* The ranges.  What the Speech SDK says of its SSML is mapped back to the *)
(* text it stands for.                                                     *)
(***************************************************************************)

\* The fragments of a document follow each other in its text, and it and its
\* SSML are not beyond what a ULONG counts.
SeparateAndShort ==
    \A s \in Sessions : \A i \in 1 .. Len(s.docs) :
       /\ Separate(s.docs[i].text)
       /\ Short(s.docs[i].text, s.voice # "sdk", s.voice = "edge")

\* Every event of the script is mapped back.
Ranged(t) == DOMAIN t.mappings = 1 .. Len(t.mappings) /\ MapsEach(t.ssml, t.mappings, t.script)

\* Of an event that was told, and of all of them; where the service counts an
\* entity as one character (plain), the range begins at the right place.
Tells(t, plain, e) ==
    e.what # "bookmark" =>
       /\ e.item \in 1 .. Len(t.script)
       /\ e.offset = t.ssml[t.script[e.item].first].from
       /\ ~plain => Maps(t.ssml, t.mappings, t.script[e.item].first, t.script[e.item].last, e)
AllTell(t, plain, events) == \E S : events \in Seq(S) /\ \A e \in S : Tells(t, plain, e)

LEMMA AllTellNone == \A t, p : AllTell(t, p, <<>>)
<1> TAKE t, p
<1> DEFINE S == {}
<1>1. <<>> \in Seq(S) /\ \A e \in S : Tells(t, p, e)
  OBVIOUS
<1> HIDE DEF S
<1> QED
  BY <1>1 DEF AllTell

LEMMA AllTellBoth ==
  ASSUME NEW t, NEW p, NEW v, NEW w, AllTell(t, p, v), AllTell(t, p, w)
  PROVE  AllTell(t, p, v \o w)
<1>1. PICK S : v \in Seq(S) /\ \A e \in S : Tells(t, p, e)
  BY DEF AllTell
<1>2. PICK U : w \in Seq(U) /\ \A e \in U : Tells(t, p, e)
  BY DEF AllTell
<1>3. v \in Seq(S \cup U) /\ w \in Seq(S \cup U)
  BY <1>1, <1>2, SeqSubset
<1>4. v \o w \in Seq(S \cup U)
  BY <1>3
<1>5. \A e \in S \cup U : Tells(t, p, e)
  BY <1>1, <1>2
<1> QED
  BY <1>4, <1>5 DEF AllTell

LEMMA AllTellSame ==
  ASSUME NEW t, NEW p, NEW e, Tells(t, p, e), NEW n \in Nat
  PROVE  AllTell(t, p, [k \in 1 .. n |-> e])
<1> DEFINE s == [k \in 1 .. n |-> e]
<1>1. s \in Seq({e})
  OBVIOUS
<1>2. \A x \in {e} : Tells(t, p, x)
  OBVIOUS
<1> HIDE DEF s
<1>3. AllTell(t, p, s)
  BY <1>1, <1>2 DEF AllTell
<1> QED
  BY <1>3 DEF s

\* A bookmark says nothing of the text.
LEMMA AllTellBookmarks ==
  ASSUME NEW t, NEW p, NEW i \in Nat, NEW n \in Int
  PROVE  AllTell(t, p, [k \in 1 .. n |-> Bookmark(i + k - 1)])
<1> DEFINE S == {Bookmark(i + k - 1) : k \in 1 .. n}
           b == [k \in 1 .. n |-> Bookmark(i + k - 1)]
<1>1. \A e \in S : Tells(t, p, e)
  BY DEF Bookmark, Tells
<1>2. b \in Seq(S)
  <2>1. CASE n \in Nat
    <3>1. \A k \in 1 .. n : Bookmark(i + k - 1) \in S
      OBVIOUS
    <3> HIDE DEF S
    <3> QED
      BY <2>1, <3>1
  <2>2. CASE n \notin Nat
    <3>1. 1 .. n = 1 .. 0
      BY <2>2
    <3>2. b = <<>>
      BY <3>1
    <3> HIDE DEF S, b
    <3> QED
      BY <3>2
  <2> QED
    BY <2>1, <2>2
<1> HIDE DEF S, b
<1>3. AllTell(t, p, b)
  BY <1>1, <1>2 DEF AllTell
<1> QED
  BY <1>3 DEF b

LEMMA RenamedRanged ==
  ASSUME NEW T, NEW s \in Seq(T), NEW t, t = [i \in DOMAIN s |-> t[i]],
         \A i \in 1 .. Len(s) : t[i].what = s[i].what /\ t[i].first = s[i].first /\ t[i].last = s[i].last
  PROVE  /\ Len(t) = Len(s)
         /\ \A i \in 1 .. Len(t) : t[i].what = s[i].what /\ t[i].first = s[i].first /\ t[i].last = s[i].last
<1>1. PICK n \in Nat : n = Len(s) /\ DOMAIN s = 1 .. n
  OBVIOUS
<1> DEFINE U == {t[i] : i \in 1 .. n}
<1>2. \A i \in 1 .. n : t[i] \in U
  OBVIOUS
<1>3. t = [i \in 1 .. n |-> t[i]]
  BY <1>1
<1> HIDE DEF U
<1>4. t \in Seq(U) /\ Len(t) = n
  <2>1. t \in [1 .. n -> U]
    BY <1>2, <1>3
  <2> QED
    BY <2>1
<1> QED
  BY <1>1, <1>4

LEMMA PreparedRanged ==
  ASSUME NEW s \in Sessions, NEW doc \in Seq(Fragments), Separate(doc),
         Short(doc, s.voice # "sdk", s.voice = "edge")
  PROVE  Ranged(Prepared(s, doc))
<1>0. (s.voice # "sdk") \in BOOLEAN /\ (s.voice = "edge") \in BOOLEAN
  BY SessionType
<1>1. PICK b \in Builders : b = BuildSSML(doc, s.voice # "sdk", s.voice = "edge")
  BY <1>0, BuildSSMLType
<1> DEFINE q == Quotes(doc)
           events == Script(b.ssml, q, s.split)
           E(i) == [what  |-> events[i].what, first |-> events[i].first,
                    last  |-> events[i].last, said  |-> Spoken(b.ssml, doc, events[i])]
           renamed == [i \in DOMAIN events |-> E(i)]
           list == IF b.hasText THEN renamed ELSE <<>>
<1>2. Prepared(s, doc) = [ssml |-> b.ssml, mappings |-> b.mappings, bookmarks |-> b.bookmarks,
                          hasText |-> b.hasText, quotes |-> q, script |-> list]
  BY <1>1 DEF Prepared
<1>3. b.ssml \in Seq(Cells) /\ b.mappings \in Seq(Entries)
  BY DEF Builders, Entries
<1>4. MapsEach(b.ssml, b.mappings, events)
  <2>1. PICK o \in BOOLEAN, e \in BOOLEAN : o = (s.voice # "sdk") /\ e = (s.voice = "edge")
    BY <1>0
  <2>2. Short(doc, o, e) /\ b = BuildSSML(doc, o, e)
    BY <1>1, <2>1
  <2>3. PICK p, d : p = q /\ d = s.split
    OBVIOUS
  <2>4. events = Script(b.ssml, p, d)
    BY <2>3
  <2> HIDE DEF q, events
  <2> QED
    BY <2>2, <2>4, RangeOfText
<1>5. /\ Len(renamed) = Len(events)
      /\ \A i \in 1 .. Len(renamed) : /\ renamed[i].what = events[i].what
                                      /\ renamed[i].first = events[i].first
                                      /\ renamed[i].last = events[i].last
  <2>1. PICK T : events \in Seq(T)
    BY <1>3, ScriptType
  <2>2. \A i \in 1 .. Len(events) : /\ E(i).what = events[i].what /\ E(i).first = events[i].first
                                    /\ E(i).last = events[i].last
    OBVIOUS
  <2>a. DOMAIN events = 1 .. Len(events)
    BY <2>1
  <2> HIDE DEF events, E
  <2>3. \A i \in DOMAIN events : renamed[i] = E(i)
    OBVIOUS
  <2>4. renamed = [i \in DOMAIN events |-> renamed[i]]
    OBVIOUS
  <2>5. \A i \in 1 .. Len(events) : /\ renamed[i].what = events[i].what /\ renamed[i].first = events[i].first
                                    /\ renamed[i].last = events[i].last
    BY <2>2, <2>3, <2>a
  <2> HIDE DEF renamed
  <2> QED
    BY <2>1, <2>4, <2>5, RenamedRanged
<1> HIDE DEF events, renamed, q
<1>6. DOMAIN b.mappings = 1 .. Len(b.mappings)
  BY <1>3
<1>7. CASE b.hasText
  <2>1. list = renamed
    BY <1>7
  <2> HIDE DEF list
  <2>2. PICK t : t = Prepared(s, doc) /\ t.ssml = b.ssml /\ t.mappings = b.mappings /\ t.script = renamed
    BY <1>2, <2>1
  <2>3. ASSUME NEW i \in 1 .. Len(renamed), renamed[i].what # "bookmark"
        PROVE  MapsBack(b.ssml, b.mappings, renamed[i])
    <3>1. PICK e : e = events[i] /\ MapsBack(b.ssml, b.mappings, e)
      BY <1>4, <1>5, <2>3 DEF MapsEach
    <3>2. renamed[i].first = e.first /\ renamed[i].last = e.last
      BY <1>5, <3>1
    <3> QED
      BY ONLY <3>1, <3>2 DEF MapsBack
  <2>4. Ranged(t)
    BY <1>6, <2>2, <2>3 DEF Ranged, MapsEach
  <2> QED
    BY <2>2, <2>4
<1>8. CASE ~b.hasText
  <2>1. list = <<>>
    BY <1>8
  <2> HIDE DEF list
  <2>2. PICK t : t = Prepared(s, doc) /\ t.mappings = b.mappings /\ t.script = <<>>
    BY <1>2, <2>1
  <2>3. \A i : i \notin 1 .. Len(t.script)
    BY <2>2, LenNone
  <2>4. Ranged(t)
    BY <1>6, <2>2, <2>3 DEF Ranged, MapsEach
  <2> QED
    BY <2>2, <2>4
<1> QED
  BY <1>7, <1>8

LEMMA InitRanged == Init => Ranged(text)
<1> SUFFICES ASSUME Init PROVE Ranged(text)
  OBVIOUS
<1>1. text.script = <<>> /\ text.mappings = <<>>
  BY DEF Init, NoText
<1>2. \A i : i \notin 1 .. Len(text.script)
  BY <1>1, LenNone
<1>3. DOMAIN text.mappings = 1 .. Len(text.mappings)
  BY <1>1, LenNone
<1> QED
  BY <1>2, <1>3 DEF Ranged, MapsEach

LEMMA NextRanged == SeparateAndShort /\ IInv /\ Typed /\ Ranged(text) /\ [Next]_vars => Ranged(text)'
<1> SUFFICES ASSUME SeparateAndShort, IInv, Typed, Ranged(text), [Next]_vars PROVE Ranged(text)'
  OBVIOUS
<1>1. CASE Setup
  <2>1. call \in 1 .. Len(session.docs) /\ session \in Sessions
    BY <1>1, SessionType DEF Setup, Typed, IInv, Shapes, SiteInCall
  <2>2. PICK doc \in Seq(Fragments) :
          /\ doc = session.docs[call].text
          /\ Separate(doc) /\ Short(doc, session.voice # "sdk", session.voice = "edge")
    BY <2>1, SessionType DEF SeparateAndShort
  <2>3. PICK t : t = Prepared(session, doc)
    OBVIOUS
  <2>4. Ranged(t)
    BY <2>1, <2>2, <2>3, PreparedRanged
  <2>5. text' = t
    BY <1>1, <2>2, <2>3 DEF Setup
  <2> QED
    BY <2>4, <2>5
<1>2. CASE UNCHANGED text
  BY <1>2
<1> QED
  BY <1>1, <1>2, TextKept

\* Where the search for a word, if there is one, finds the one that the service
\* spoke, the site is told of the text it stands for.
FoundInPlace == online => ULong(Find(Next1.said, index[Next1.what]).pos) = Next1.first - 1
TextTold ==
    \E here, n : /\ here.what = Next1.what /\ here.item = syn.pos /\ Tells(text, session.plain, here) /\ n \in Nat
                 /\ told' = told \o [k \in 1 .. handlers[Next1.what] |-> here]
                                 \o [k \in 1 .. n |-> Bookmark(index.bookmark + k - 1)]
BoundaryRight == TellBoundary /\ FoundInPlace => TextTold

LEMMA NextBoundaryRight == IInv /\ Typed /\ Ranged(text) => BoundaryRight
<1> SUFFICES ASSUME IInv, Typed, Ranged(text), TellBoundary, FoundInPlace
             PROVE  TextTold
  BY DEF BoundaryRight
<1> DEFINE plain == Len(Next1.said)
           long  == Next1.last - Next1.first + 1
           found == Find(Next1.said, index[Next1.what])
           from  == IF online THEN ULong(found.pos) ELSE Next1.first - 1
           range == MapTextOffset(text.mappings, index.mapping, from,
                                  IF session.plain THEN plain ELSE long)
           here  == [call |-> syn.call, what |-> Next1.what, item |-> syn.pos,
                     offset |-> range.offset, length |-> range.length,
                     found |-> ~online \/ found.pos # NotFound]
           past  == IF edge /\ Next1.what = "word"
                    THEN {i \in index.bookmark .. Len(text.bookmarks) :
                            \A j \in index.bookmark .. i :
                               ULong(range.offset + range.length) > text.bookmarks[j]}
                    ELSE {}
<1>1. told' = told \o [k \in 1 .. handlers[Next1.what] |-> here]
                   \o [k \in 1 .. Cardinality(past) |-> Bookmark(index.bookmark + k - 1)]
  BY DEF TellBoundary
<1>2. inside /\ Next1.what \in {"word", "sentence"}
  BY DEF TellBoundary
<1>3. syn.pos \in 1 .. Len(script)
  BY <1>2 DEF IInv, Shapes, Typed, TextTyped, script
<1>4. Len(text.mappings) > 0
  BY <1>2, <1>3 DEF Ranged, MapsEach, MapsBack, Next1, script
<1>5. index.mapping \in 1 .. Len(text.mappings)
  <2>1. PICK n \in Nat : n = Len(text.mappings) /\ n > 0 /\ index.mapping \in 1 .. Max({1, n})
    BY <1>4 DEF Typed, TextTyped
  <2>2. Max({1, n}) = n
    <3>1. {1, n} \subseteq 0 .. n /\ {1, n} # {} /\ n \in Nat
      BY <2>1
    <3>2. Max({1, n}) \in {1, n} /\ \A y \in {1, n} : y <= Max({1, n})
      BY <3>1, Largest
    <3> QED
      BY <2>1, <3>2
  <2> QED
    BY <2>1, <2>2
<1>6. /\ range.offset = text.ssml[Next1.first].from
      /\ ~session.plain => Maps(text.ssml, text.mappings, Next1.first, Next1.last, range)
  <2>1. from = Next1.first - 1
    BY DEF FoundInPlace
  <2> HIDE DEF from
  <2>2. MapsBack(text.ssml, text.mappings, Next1)
    BY <1>2, <1>3 DEF Ranged, MapsEach, Next1, script
  <2>3. /\ Maps(text.ssml, text.mappings, Next1.first, Next1.last,
                MapTextOffset(text.mappings, index.mapping, Next1.first - 1, long))
        /\ \A c : MapTextOffset(text.mappings, index.mapping, Next1.first - 1, c).offset
                    = text.ssml[Next1.first].from
    BY ONLY <1>5, <2>2 DEF MapsBack
  <2> QED
    BY ONLY <2>1, <2>3
<1>7. past \subseteq index.bookmark .. Len(text.bookmarks)
  OBVIOUS
<1> HIDE DEF found, range, past
<1>8. /\ here.offset = text.ssml[Next1.first].from
      /\ ~session.plain => Maps(text.ssml, text.mappings, Next1.first, Next1.last, here)
  <2>1. here.offset = range.offset /\ here.length = range.length
    OBVIOUS
  <2> HIDE DEF here
  <2>2. ASSUME ~session.plain PROVE Maps(text.ssml, text.mappings, Next1.first, Next1.last, here)
    <3>1. Maps(text.ssml, text.mappings, Next1.first, Next1.last, range)
      BY <1>6, <2>2
    <3> QED
      BY ONLY <2>1, <3>1 DEF Maps, Answers
  <2>3. here.offset = text.ssml[Next1.first].from
    BY ONLY <1>6, <2>1
  <2> QED
    BY ONLY <2>2, <2>3
<1>9. here.item = syn.pos /\ here.what = Next1.what
  OBVIOUS
<1> HIDE DEF here
<1>10. Tells(text, session.plain, here)
  BY <1>3, <1>8, <1>9 DEF Tells, Next1, script
<1>11. Cardinality(past) \in Nat
  <2>1. PICK i \in Nat, k \in Nat : i = index.bookmark /\ k = Len(text.bookmarks) /\ i <= k + 1
    BY ONLY Typed DEF Typed, TextTyped
  <2> QED
    BY <1>7, <2>1, PastCounted
<1> QED
  BY <1>1, <1>9, <1>10, <1>11 DEF TextTold

\* All that was told of what the Speech SDK speaks.
SdkTells == session.voice = "sdk" => AllTell(text, session.plain, told)

LEMMA InitSdkTells == Init => SdkTells
BY AllTellNone DEF Init, SdkTells

LEMMA NextSdkTells == IInv /\ Typed /\ Paths /\ Ranged(text) /\ SdkTells /\ [Next]_vars => SdkTells'
<1> SUFFICES ASSUME IInv, Typed, Paths, Ranged(text), SdkTells, [Next]_vars,
                    (session.voice = "sdk")'
             PROVE  AllTell(text, session.plain, told)'
  BY DEF SdkTells
<1>1. CASE Setup
  <2>1. told' = <<>>
    BY <1>1 DEF Setup, Paths
  <2> QED
    BY <2>1, AllTellNone
<1>2. CASE UNCHANGED <<text, session, handlers>>
  <2>1. /\ session.voice = "sdk" /\ text' = text /\ session'.plain = session.plain
        /\ AllTell(text, session.plain, told)
    BY <1>2 DEF SdkTells
  <2>2. AllTell(text, session.plain, told \o RemainingBookmarks)
    <3> DEFINE n == Len(text.bookmarks) - index.bookmark + 1
    <3>1. n \in Int /\ index.bookmark \in Nat
      BY DEF Typed, TextTyped
    <3> HIDE DEF n
    <3>2. AllTell(text, session.plain, [i \in 1 .. n |-> Bookmark(index.bookmark + i - 1)])
      BY <3>1, AllTellBookmarks
    <3>3. AllTell(text, session.plain, RemainingBookmarks)
      BY <3>2 DEF RemainingBookmarks, n
    <3> QED
      BY <2>1, <3>3, AllTellBoth
  <2>3. CASE Call
    BY <2>1, <2>3, AllTellNone DEF Call
  <2>4. CASE TellSilent
    BY <2>1, <2>2, <2>4 DEF TellSilent
  <2>5. CASE Complete
    BY <2>1, <2>2, <2>5 DEF Complete
  <2>6. CASE TellBookmark
    <3> DEFINE n == Cardinality({p \in 1 .. syn.pos : script[p].what = "bookmark"})
               e == [Bookmark(n) EXCEPT !.call = syn.call]
               m == handlers["bookmark"]
    <3>1. Tells(text, session.plain, e)
      BY DEF Tells, Bookmark
    <3>2. m \in Nat
      BY DEF Events, Typed
    <3>3. told' = told \o [k \in 1 .. m |-> e]
      BY <2>6 DEF TellBookmark
    <3> HIDE DEF e, m
    <3>4. AllTell(text, session.plain, [k \in 1 .. m |-> e])
      BY <3>1, <3>2, AllTellSame
    <3> QED
      BY <2>1, <3>3, <3>4, AllTellBoth
  <2>7. CASE TellBoundary
    <3>1. FoundInPlace
      BY <2>1 DEF FoundInPlace, online
    <3>b. TextTold
      BY <2>1, <2>7, <3>1, NextBoundaryRight DEF BoundaryRight
    <3>2. PICK here, n :
             /\ here.what = Next1.what /\ here.item = syn.pos /\ Tells(text, session.plain, here) /\ n \in Nat
             /\ told' = told \o [k \in 1 .. handlers[Next1.what] |-> here]
                             \o [k \in 1 .. n |-> Bookmark(index.bookmark + k - 1)]
      BY ONLY <3>b DEF TextTold
    <3>3. PICK h \in Nat : h = handlers[Next1.what]
      <4>1. Next1.what \in {"word", "sentence"}
        BY <2>7 DEF TellBoundary
      <4> QED
        BY <4>1 DEF Typed, Events
    <3>4. PICK i \in Nat : i = index.bookmark
      BY DEF Typed, TextTyped
    <3>5. AllTell(text, session.plain, [k \in 1 .. h |-> here])
      BY <3>2, AllTellSame
    <3>6. n \in Int
      BY <3>2
    <3>7. AllTell(text, session.plain, [k \in 1 .. n |-> Bookmark(i + k - 1)])
      BY <3>6, AllTellBookmarks
    <3>8. AllTell(text, session.plain, told \o [k \in 1 .. h |-> here])
      BY <2>1, <3>5, AllTellBoth
    <3>9. AllTell(text, session.plain, told \o [k \in 1 .. h |-> here] \o [k \in 1 .. n |-> Bookmark(i + k - 1)])
      BY <3>7, <3>8, AllTellBoth
    <3> QED
      BY <2>1, <3>2, <3>3, <3>4, <3>9
  <2>8. CASE UNCHANGED told
    BY <2>1, <2>8
  <2>9. \/ Setup \/ Call \/ TellSilent \/ Complete \/ TellBookmark \/ TellBoundary \/ UNCHANGED told
    <3>1. CASE Abort \/ Release \/ Setup \/ CancelStarted \/ CancelDone
      BY <3>1 DEF Abort, Release, Setup, CancelStarted, CancelDone
    <3>2. CASE Cancelled \/ AbortedWaiting \/ StartSynthesis \/ PollEnds \/ StopSpeaking \/ Join \/ Leave \/ Released
      BY <3>2 DEF Cancelled, AbortedWaiting, StartSynthesis, PollEnds, StopSpeaking, Join, Leave, Released
    <3>3. CASE SynthesisStarts \/ SynthesisRefused \/ Unheard \/ Enter \/ SynthesisEnds
      BY <3>3 DEF SynthesisStarts, SynthesisRefused, Unheard, Enter, SynthesisEnds
    <3>4. CASE UNCHANGED vars
      BY <3>4 DEF vars
    <3> QED
      BY <3>1, <3>2, <3>3, <3>4 DEF Next, Engine, Canceller, Synthesis
  <2> QED
    BY <1>1, <2>3, <2>4, <2>5, <2>6, <2>7, <2>8, <2>9
<1> QED
  BY <1>1, <1>2, TextKept

LEMMA RangedAlways == SeparateAndShort => (Spec => []Ranged(text))
<1> SUFFICES ASSUME SeparateAndShort PROVE Spec => []Ranged(text)
  OBVIOUS
<1>1. IInv /\ Typed /\ Ranged(text) /\ [Next]_vars => Ranged(text)'
  BY NextRanged
<1> QED
  BY <1>1, Invariance, TypedAlways, InitRanged, PTL DEF Spec

\* A word or a sentence that the Speech SDK reports, or that FindWord finds
\* where SpeechRestAPI's service spoke it, reaches the application as the very
\* range of its text that the service spoke, whatever was escaped, left out, put
\* in or tagged on the way to the SSML, and wherever the search before it ended;
\* but for the two mistakes of line 1210, and for the end of it where a service
\* counts an entity as one character (TTSEngine.cpp 528-593, 1171-1226).
THEOREM BoundariesRight == SeparateAndShort => (Spec => [][BoundaryRight]_vars)
<1> SUFFICES ASSUME SeparateAndShort PROVE Spec => [][BoundaryRight]_vars
  OBVIOUS
<1>1. IInv /\ Typed /\ Ranged(text) => [BoundaryRight]_vars
  BY NextBoundaryRight
<1>2. Spec => []Ranged(text)
  BY RangedAlways
<1> QED
  BY <1>1, <1>2, Invariance, TypedAlways, PTL

\* So every event of the Speech SDK that a site was told of agrees with the
\* text of the call (TTSEngine.cpp 528-535, 1171-1226).
StartsAgree == \A e \in Range(told) : e.what # "bookmark" => e.offset = Start(e)
THEOREM SdkRangesAgree ==
    SeparateAndShort =>
      (Spec => [](session.voice = "sdk" => StartsAgree /\ (~session.plain => RangesAgree)))
<1> SUFFICES ASSUME SeparateAndShort
             PROVE  Spec => [](session.voice = "sdk" => StartsAgree /\ (~session.plain => RangesAgree))
  OBVIOUS
<1>1. Ranged(text) /\ SdkTells =>
        (session.voice = "sdk" => StartsAgree /\ (~session.plain => RangesAgree))
  <2> SUFFICES ASSUME Ranged(text), SdkTells, session.voice = "sdk"
               PROVE  StartsAgree /\ (~session.plain => RangesAgree)
    OBVIOUS
  <2>1. PICK S : told \in Seq(S) /\ \A e \in S : Tells(text, session.plain, e)
    BY DEF SdkTells, AllTell
  <2>2. \A e \in Range(told) : Tells(text, session.plain, e)
    BY <2>1 DEF Range
  <2>3. StartsAgree
    BY <2>2 DEF StartsAgree, Tells, Start, script
  <2>4. ASSUME ~session.plain, NEW e \in Range(told), e.what # "bookmark"
        PROVE  /\ e.offset = Start(e) /\ e.length > 0
               /\ IF Overruns(e) THEN e.offset + e.length > End(e)
                  ELSE IF Underruns(e) THEN e.offset + e.length < End(e)
                  ELSE e.offset + e.length = End(e)
    <3>1. PICK r : r = script[e.item] /\ Maps(text.ssml, text.mappings, r.first, r.last, e)
      BY <2>2, <2>4 DEF Tells, script
    <3>2. Start(e) = text.ssml[r.first].from /\ End(e) = text.ssml[r.last].from + 1
      BY <3>1 DEF Start, End
    <3>3. Answers(text.mappings, r.first, r.last, Start(e), End(e), e)
      BY <3>1, <3>2 DEF Maps
    <3>4. Passes(text.mappings, r.first, r.last, Start(e), End(e)) <=> Overruns(e)
      BY <3>1 DEF Passes, Overruns, Ranged
    <3>5. Misses(text.mappings, r.first, r.last, Start(e)) <=> Underruns(e)
      BY <3>1 DEF Misses, Underruns, Ranged
    <3> QED
      BY ONLY <3>3, <3>4, <3>5 DEF Answers
  <2>5. BookmarksAtWords
    BY DEF BookmarksAtWords, edge
  <2> QED
    BY <2>3, <2>4, <2>5 DEF RangesAgree
<1>2. Spec => []Paths
  BY Invariance, TypedAlways, InitPaths, NextPaths, PTL DEF Spec
<1>3. Spec => []Ranged(text)
  BY RangedAlways
<1>4. Spec => []SdkTells
  BY <1>2, <1>3, Invariance, TypedAlways, InitSdkTells, NextSdkTells, PTL DEF Spec
<1> QED
  BY <1>1, <1>3, <1>4, PTL
=============================================================================
