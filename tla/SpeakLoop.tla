------------------------------ MODULE SpeakLoop ------------------------------
(***************************************************************************)
(* CTTSEngine::Speak, call after call: it waits for the cancellation of    *)
(* the call before, builds the SSML, lets a synthesis speak it on another  *)
(* thread, polls for its end and for the application's abort, and tells    *)
(* the application's site of words, sentences and bookmarks meanwhile.     *)
(*                                                                         *)
(* A session is what one application does with one engine: the voice       *)
(* ("sdk": the Speech SDK, "azure" and "edge": SpeechRestAPI), the         *)
(* documents it speaks in turn, whether it may abort, the events it asks   *)
(* for each time, and how the service counts the length of a word and      *)
(* separates ideographs.  The synthesis itself is AudioPath and            *)
(* SpeakSession; here it tells the events of the SSML in their order, and  *)
(* one that SpeechRestAPI runs may end before it told the last of them.    *)
(***************************************************************************)
EXTENDS SpeechText

CONSTANT Sessions
ASSUME SessionsTyped ==
    \A s \in Sessions :
        s \in [voice  : {"sdk", "azure", "edge"},
              docs   : Seq([text   : Seq(TextFrags),
                            events : SUBSET {"start", "end", "word", "sentence", "bookmark"}]),
              aborts : BOOLEAN, plain : BOOLEAN, split : BOOLEAN]

Events == {"word", "sentence", "bookmark"}

VARIABLES session,      \* what the application does, fixed
          call,         \* the Speak call under way, or the last one
          pc,           \* where that call is
          abort,        \* SPVES_ABORT of its site
          site,         \* m_pOutputSite: the call it belongs to, 0 for null
          handlers,     \* how many callbacks are set for each event
          text,         \* m_ssml, m_offsetMappings, m_bookmarks and, for the
                        \* properties, what the service finds in it
          syn,          \* the synthesis: whose, where it is, told to stop
          started,      \* m_synthesizerStarted
          cancelling,   \* m_lastCancellingFuture and where its thread is
          inside,       \* a callback holds m_outputSiteMutex, the site checked
          index,        \* m_mappingIndex, m_bookmarkIndex, last word, last sentence
          told          \* the events of this call that reached a site

vars == <<session, call, pc, abort, site, handlers, text, syn, started,
          cancelling, inside, index, told>>

online == session.voice # "sdk"
edge   == session.voice = "edge"
asked  == session.docs[call].events

\* What BuildSSML makes of each document, and the events a service finds there.
Quotes(doc) == {n \in 0 .. 40 : \E f \in Range(doc) :
                  n - f.at + 1 \in DOMAIN f.text /\ f.text[n - f.at + 1] = "'"}
Prepared(s, doc) ==
    LET b      == BuildSSML(doc, s.voice # "sdk", s.voice = "edge")
        events == Script(b.ssml, Quotes(doc), s.split)
    IN  [ssml |-> b.ssml, mappings |-> b.mappings, bookmarks |-> b.bookmarks, hasText |-> b.hasText,
         quotes |-> Quotes(doc),
         script |-> IF b.hasText
                    THEN [i \in DOMAIN events |-> [what  |-> events[i].what,
                                                  first |-> events[i].first,
                                                  last  |-> events[i].last,
                                                  said  |-> Spoken(b.ssml, doc, events[i])]]
                    ELSE <<>>]
script == text.script

NoText == [ssml |-> <<>>, mappings |-> <<>>, bookmarks |-> <<>>, hasText |-> FALSE,
           quotes |-> {}, script |-> <<>>]
NoSynthesis == [call |-> 0, stage |-> "none", pos |-> 1, failed |-> FALSE, stop |-> FALSE]
Running     == syn.stage \in {"asked", "going"}

-----------------------------------------------------------------------------
\* As if the cancellation of the call before need not be over.
CallAtOnce ==
    /\ pc = "idle" /\ call < Len(session.docs)
    /\ call' = call + 1
    /\ abort' = FALSE
    /\ told' = <<>>
    /\ pc' = "setup"
    /\ UNCHANGED <<session, site, handlers, text, syn, started, cancelling, inside, index>>

\* A call begins: is the cancellation of the one before still going on?
Call ==
    /\ pc = "idle" /\ call < Len(session.docs)
    /\ call' = call + 1
    /\ abort' = FALSE
    /\ told' = <<>>
    /\ pc' = IF cancelling = "none" THEN "setup" ELSE "waiting"
    /\ UNCHANGED <<session, site, handlers, text, syn, started, cancelling, inside, index>>

\* The application sets the flag while the call runs; it stays set.
Abort ==
    /\ session.aborts /\ pc \notin {"idle", "releasing", "released"} /\ ~abort
    /\ abort' = TRUE
    /\ UNCHANGED <<session, call, pc, site, handlers, text, syn, started,
                   cancelling, inside, index, told>>

\* The cancellation of the call before is over: forget its future.
Cancelled ==
    /\ pc = "waiting" /\ cancelling = "done"
    /\ cancelling' = "none"
    /\ pc' = "setup"
    /\ UNCHANGED <<session, call, abort, site, handlers, text, syn, started, inside, index, told>>

\* As if an aborted call waited on.
AbortedStays ==
    /\ pc = "waiting" /\ cancelling = "done" /\ abort
    /\ pc' = "idle"
    /\ UNCHANGED <<session, call, abort, site, handlers, text, syn, started,
                   cancelling, inside, index, told>>

\* It is not, and this call is aborted as well: nothing has been done yet.
AbortedWaiting ==
    /\ pc = "waiting" /\ cancelling # "done" /\ abort
    /\ pc' = "idle"
    /\ UNCHANGED <<session, call, abort, site, handlers, text, syn, started,
                   cancelling, inside, index, told>>

(***************************************************************************)
(* The interests are a mask with bit n for event n of sapi.h (external):   *)
(* START_INPUT_STREAM 1, END_INPUT_STREAM 2, TTS_BOOKMARK 4, WORD_BOUNDARY *)
(* 5, SENTENCE_BOUNDARY 7.  The code masks with the event's number, not    *)
(* with its bit: 4 is the bit of END_INPUT_STREAM, 5 has bits 0 and 2, and *)
(* 7 and 5 | 7 have bits 0, 1 and 2.                                       *)
(***************************************************************************)
Masks4    == "end" \in asked                      \* & SPEI_TTS_BOOKMARK
Masks5    == "end" \in asked                      \* & SPEI_WORD_BOUNDARY
Masks7    == {"start", "end"} \cap asked # {}     \* & SPEI_SENTENCE_BOUNDARY

\* As if the handlers of the call before were still connected.
AddSynthesizerEvents ==
    handlers' = [e \in Events |->
        handlers[e] + (IF (IF e = "bookmark" THEN Masks4 ELSE Masks7) THEN 1 ELSE 0)]

\* Every handler is disconnected first; one serves words and sentences.
SetupSynthesizerEvents ==
    handlers' = [e \in Events |-> IF (IF e = "bookmark" THEN Masks4 ELSE Masks7) THEN 1 ELSE 0]

\* A callback of an earlier call stays set.
SetupRestAPIEvents ==
    handlers' = [e \in Events |->
        IF CASE e = "bookmark" -> Masks4
             [] e = "word"     -> Masks5 \/ (edge /\ Masks4)
             [] e = "sentence" -> Masks7
        THEN 1 ELSE handlers[e]]

\* The callbacks, the site and the SSML are set up; without text to speak
\* only the bookmarks are told.
Setup ==
    /\ pc = "setup"
    /\ IF online THEN SetupRestAPIEvents ELSE SetupSynthesizerEvents
    /\ started' = IF online THEN started ELSE FALSE
    /\ site' = call
    /\ text' = Prepared(session, session.docs[call].text)
    /\ pc' = IF text'.hasText THEN "starting" ELSE "silent"
    /\ index' = [mapping |-> 1, bookmark |-> 1, word |-> 0, sentence |-> 0]
    /\ UNCHANGED <<session, call, abort, syn, cancelling, inside, told>>

Bookmark(i) == [call |-> call, what |-> "bookmark", item |-> i]

\* As if it began with the first.
AllBookmarks == [i \in 1 .. Len(text.bookmarks) |-> Bookmark(i)]

\* FinishSimulatingBookmarkEvents; m_bookmarkIndex stays.
RemainingBookmarks ==
    [i \in 1 .. Len(text.bookmarks) - index.bookmark + 1 |-> Bookmark(index.bookmark + i - 1)]

TellSilent ==
    /\ pc = "silent"
    /\ told' = told \o RemainingBookmarks
    /\ pc' = "leaving"
    /\ UNCHANGED <<session, call, abort, site, handlers, text, syn, started,
                   cancelling, inside, index>>

StartSynthesis ==
    /\ pc = "starting"
    /\ syn' = [NoSynthesis EXCEPT !.call = call, !.stage = "asked"]
    /\ pc' = "polling"
    /\ UNCHANGED <<session, call, abort, site, handlers, text, started,
                   cancelling, inside, index, told>>

\* The poll loop ends on the abort flag or on the end of the synthesis, and
\* then the flag is read once more.
PollEnds ==
    /\ pc = "polling" /\ (abort \/ syn.stage = "ended")
    /\ pc' = "decide"
    /\ UNCHANGED <<session, call, abort, site, handlers, text, syn, started,
                   cancelling, inside, index, told>>

\* The SDK's synthesis is cancelled on a thread of its own; SpeechRestAPI is
\* told to stop, and the future's destructor waits for its thread.
StopSpeaking ==
    /\ pc = "decide" /\ abort
    /\ IF online THEN /\ syn' = [syn EXCEPT !.stop = TRUE]
                      /\ pc' = "joining"
                      /\ UNCHANGED cancelling
       ELSE /\ cancelling' = "spinning"
            /\ pc' = "leaving"
            /\ UNCHANGED syn
    /\ UNCHANGED <<session, call, abort, site, handlers, text, started, inside, index, told>>

Join ==
    /\ pc = "joining" /\ syn.stage = "ended"
    /\ pc' = "leaving"
    /\ UNCHANGED <<session, call, abort, site, handlers, text, syn, started,
                   cancelling, inside, index, told>>

\* future.get() throws what the synthesis threw; after a good one an Edge
\* voice reports the bookmarks no word has.
Complete ==
    /\ pc = "decide" /\ ~abort
    /\ told' = IF edge /\ ~syn.failed THEN told \o RemainingBookmarks ELSE told
    /\ pc' = "leaving"
    /\ UNCHANGED <<session, call, abort, site, handlers, text, syn, started,
                   cancelling, inside, index>>

\* As if it did so without the mutex.
LeaveUnlocked ==
    /\ pc = "leaving"
    /\ site' = 0
    /\ pc' = "idle"
    /\ UNCHANGED <<session, call, abort, handlers, text, syn, started,
                   cancelling, inside, index, told>>

\* The scope guard clears the site under the mutex.
Leave ==
    /\ pc = "leaving" /\ ~inside
    /\ site' = 0
    /\ pc' = "idle"
    /\ UNCHANGED <<session, call, abort, handlers, text, syn, started,
                   cancelling, inside, index, told>>

\* FinalRelease waits for a cancellation.
Release ==
    /\ pc = "idle" /\ call > 0
    /\ pc' = "releasing"
    /\ UNCHANGED <<session, call, abort, site, handlers, text, syn, started,
                   cancelling, inside, index, told>>

Released ==
    /\ pc = "releasing" /\ cancelling \in {"none", "done"}
    /\ pc' = "released"
    /\ UNCHANGED <<session, call, abort, site, handlers, text, syn, started,
                   cancelling, inside, index, told>>

-----------------------------------------------------------------------------
(***************************************************************************)
(* The thread of m_lastCancellingFuture: a cancellation does nothing       *)
(* before SynthesisStarted, so it waits for that, cancels and waits for    *)
(* the synthesis.                                                          *)
(***************************************************************************)
CancelStarted ==
    /\ cancelling = "spinning" /\ started
    /\ cancelling' = "stopping"
    /\ syn' = [syn EXCEPT !.stop = TRUE]
    /\ UNCHANGED <<session, call, pc, abort, site, handlers, text, started, inside, index, told>>

CancelDone ==
    /\ cancelling = "stopping" /\ syn.stage = "ended"
    /\ cancelling' = "done"
    /\ UNCHANGED <<session, call, pc, abort, site, handlers, text, syn, started,
                   inside, index, told>>

-----------------------------------------------------------------------------
(***************************************************************************)
(* The synthesis: the SDK (external) or SpeechRestAPI's thread.            *)
(***************************************************************************)
SynthesisStarts ==
    /\ syn.stage = "asked"
    /\ syn' = [syn EXCEPT !.stage = "going"]
    /\ started' = IF online THEN started ELSE TRUE
    /\ UNCHANGED <<session, call, pc, abort, site, handlers, text, cancelling,
                   inside, index, told>>

\* No connection, no licence, SSML refused: an end without a start.
SynthesisRefused ==
    /\ syn.stage = "asked"
    /\ syn' = [syn EXCEPT !.stage = "ended", !.failed = TRUE]
    /\ UNCHANGED <<session, call, pc, abort, site, handlers, text, started,
                   cancelling, inside, index, told>>

Next1 == script[syn.pos]
Due   == syn.stage = "going" /\ ~inside /\ syn.pos <= Len(script)

\* FindWord moves its position where it finds the word.
Find(word, lastPos) ==
    LET pos == FindWord(text.ssml, word, lastPos)
    IN  [pos |-> pos, last |-> IF pos = NotFound THEN lastPos ELSE pos + Len(XmlEscape(word))]

\* An event nobody has a callback for, or whose callback finds no site.
Unheard ==
    /\ Due
    /\ handlers[Next1.what] = 0 \/ site = 0
    /\ syn' = [syn EXCEPT !.pos = @ + 1]
    /\ UNCHANGED <<session, call, pc, abort, site, handlers, text, started,
                   cancelling, inside, index, told>>

\* OnBoundary and OnBookmark: take the mutex and look at the site ...
Enter ==
    /\ Due
    /\ handlers[Next1.what] > 0 /\ site # 0
    /\ inside' = TRUE
    /\ UNCHANGED <<session, call, pc, abort, site, handlers, text, syn, started,
                   cancelling, index, told>>

\* ... then map the range, add the event and, on an Edge voice's word, add
\* every bookmark that the end of the word has passed.
TellBoundary ==
    /\ inside /\ Next1.what \in {"word", "sentence"}
    /\ LET plain == Len(Next1.said)
           long  == Next1.last - Next1.first + 1
           found == Find(Next1.said, index[Next1.what])
           from  == IF online THEN ULong(found.pos) ELSE Next1.first - 1
           range == MapTextOffset(text.mappings, index.mapping, from,
                                  IF session.plain THEN plain ELSE long)
           here  == [call |-> syn.call, what |-> Next1.what, item |-> syn.pos,
                     offset |-> range.offset, length |-> range.length,
                     found |-> ~online \/ found.pos # NotFound]
           past  == IF edge /\ Next1.what = "word"
                    THEN {i \in index.bookmark .. Len(text.bookmarks) :
                            \A j \in index.bookmark .. i :
                               ULong(range.offset + range.length) > text.bookmarks[j]}
                    ELSE {}
       IN  /\ told' = told \o [k \in 1 .. handlers[Next1.what] |-> here]
                           \o [k \in 1 .. Cardinality(past) |-> Bookmark(index.bookmark + k - 1)]
           /\ index' = [index EXCEPT !.mapping = range.index,
                                     !.bookmark = @ + Cardinality(past),
                                     ![Next1.what] = IF online THEN found.last ELSE @]
    /\ inside' = FALSE
    /\ syn' = [syn EXCEPT !.pos = @ + 1]
    /\ UNCHANGED <<session, call, pc, abort, site, handlers, text, started, cancelling>>

TellBookmark ==
    /\ inside /\ Next1.what = "bookmark"
    /\ LET n == Cardinality({p \in 1 .. syn.pos : script[p].what = "bookmark"})
       IN  told' = told \o [k \in 1 .. handlers["bookmark"] |->
                              [Bookmark(n) EXCEPT !.call = syn.call]]
    /\ inside' = FALSE
    /\ syn' = [syn EXCEPT !.pos = @ + 1]
    /\ UNCHANGED <<session, call, pc, abort, site, handlers, text, started, cancelling, index>>

\* All told; or stopped; or failed on the way; or, with SpeechRestAPI, the
\* audio is over before the last events came.
SynthesisEnds ==
    /\ syn.stage = "going" /\ ~inside
    /\ \E failed \in BOOLEAN :
         /\ failed \/ syn.stop \/ online \/ syn.pos > Len(script)
         /\ syn' = [syn EXCEPT !.stage = "ended", !.failed = failed]
    /\ UNCHANGED <<session, call, pc, abort, site, handlers, text, started,
                   cancelling, inside, index, told>>

-----------------------------------------------------------------------------
Init ==
    /\ session \in Sessions
    /\ call = 0 /\ pc = "idle" /\ abort = FALSE /\ site = 0
    /\ handlers = [e \in Events |-> 0]
    /\ text = NoText /\ syn = NoSynthesis /\ started = FALSE
    /\ cancelling = "none" /\ inside = FALSE
    /\ index = [mapping |-> 1, bookmark |-> 1, word |-> 0, sentence |-> 0]
    /\ told = <<>>

Engine    == \/ Cancelled \/ AbortedWaiting \/ TellSilent \/ StartSynthesis
             \/ PollEnds \/ StopSpeaking \/ Join \/ Complete \/ Leave \/ Released
Canceller == CancelStarted \/ CancelDone
Synthesis == SynthesisStarts \/ SynthesisRefused \/ Unheard \/ Enter
             \/ TellBoundary \/ TellBookmark \/ SynthesisEnds

Next == Call \/ Abort \/ Release \/ Setup \/ Engine \/ Canceller \/ Synthesis

(***************************************************************************)
(* The threads run, and a callback ends.  Nothing forces a service to end  *)
(* a synthesis, except that one that was asked starts or is refused, and   *)
(* one that was told to stop ends.                                         *)
(***************************************************************************)
Fairness ==
    /\ WF_vars(Engine) /\ WF_vars(Canceller)
    /\ WF_vars(SynthesisStarts \/ SynthesisRefused)
    /\ []<>(pc # "setup") /\ []<>~inside
    /\ WF_vars(syn.stop /\ SynthesisEnds)

Spec == Init /\ [][Next]_vars /\ Fairness
-----------------------------------------------------------------------------
TypeOK ==
    /\ call \in 0 .. Len(session.docs)
    /\ pc \in {"idle", "waiting", "setup", "silent", "starting", "polling", "decide",
               "joining", "leaving", "releasing", "released"}
    /\ site \in {0, call} /\ abort \in BOOLEAN /\ started \in BOOLEAN /\ inside \in BOOLEAN
    /\ handlers \in [Events -> 0 .. 1]
    /\ cancelling \in {"none", "spinning", "stopping", "done"}
    /\ syn.stage \in {"none", "asked", "going", "ended"} /\ Running => syn.pos \in 1 .. Len(script) + 1
    /\ index.mapping \in 1 .. Max({1, Len(text.mappings)})
    /\ index.bookmark \in 1 .. Len(text.bookmarks) + 1

\* The SSML a service is sent is one it can read: every tag is closed, in the
\* order of nesting, a say-as has no tag inside, and an Edge voice gets no tag
\* but speak, voice and at most two prosody tags (TTSEngine.cpp 823-826,
\* 1080-1083, 1096-1099).  Except that the application's own tags, which an
\* Edge voice is not sent, must be closed in the case they were opened in:
\* the code matches them in any case but copies both (1019, 1035, 1046).
SsmlAccepted ==
    pc = "starting" /\ (edge \/ SpelledAlike(session.docs[call].text)) =>
    LET ssml  == text.ssml
        Names(i) == ssml[i].tag
    IN  /\ Nested(ssml)
        /\ \A i \in DOMAIN ssml : Names(i) = [dir |-> "open", name |-> "say-as"] =>
              LET j == Min({k \in i + 1 .. Len(ssml) : ssml[k].tag # NoTag})
              IN  Names(j) = [dir |-> "close", name |-> "say-as"]
        /\ edge =>
              /\ \A i \in DOMAIN ssml : Names(i).name \in {"none", "speak", "voice", "prosody"}
              /\ Cardinality({i \in DOMAIN ssml : Names(i) = [dir |-> "open", name |-> "prosody"]}) <= 2

\* Each character is inside the application's tags that are open where it is
\* in the document, matched in any case, and inside these in their order,
\* whatever was closed and opened again in between for the sake of nesting;
\* and the tags nest, but for their case.  Except that an opening tag taken
\* for "x>" (see CloseCustomTag) may have no closing tag.
TextInItsTags ==
    LET doc    == session.docs[call].text
        folded == Folded(text.ssml)
        Own(n) == n \notin {"speak", "voice", "prosody", "emphasis", "say-as", "phoneme"}
        Before(n) == SelectSeq(doc, LAMBDA f : f.at <= n)
    IN  /\ pc = "starting" /\ ~edge
        /\ \A f \in Unknowns(doc, "open"), g \in Unknowns(doc, "close") : f.tag.name # g.tag.name \o ">"
        => /\ Nested(folded)
           /\ \A i \in DOMAIN folded : folded[i].from # NoOffset =>
                 SelectSeq(OpenTags(SubSeq(folded, 1, i)), Own) = Left(Before(folded[i].from))

Start(e) == text.ssml[script[e.item].first].from
End(e)   == text.ssml[script[e.item].last].from + 1

\* FindWord takes the letters of an entity for a word: nothing is said of the
\* words after a quote, which the service passes over.
Trusted(e) == e.found /\ (online => \A n \in text.quotes : n >= Start(e))

Places(what) == {p \in DOMAIN told : told[p].what = what}
Reported     == {told[p].item : p \in Places("bookmark")}

\* "when mapping the end offset, we need the first pair, so that we can exclude
\* the bookmark tag in boundary events", unless the tag is inside the word
\* (TTSEngine.cpp 1202-1209): MapTextOffset tells the one from the other by adding
\* a length in the SSML to an offset of the text (1210).  It misses the first pair
\* where a range takes more characters in the SSML than in the text and other
\* text begins right behind it, with no space or tag in between, ...
Overruns(e) ==
    /\ script[e.item].last - script[e.item].first + 1 > End(e) - Start(e)
    /\ \E k \in DOMAIN text.mappings : /\ text.mappings[k].ssml = script[e.item].last
                                      /\ text.mappings[k].sapi > End(e)

\* ... and takes it for that of the last text in a range, when this text is
\* right behind other text of the range and that one ends, in the text, beyond
\* the length of the range in the SSML.
Underruns(e) ==
    \E j, k \in DOMAIN text.mappings :
       /\ text.mappings[k].ssml < script[e.item].last
       /\ \A l \in DOMAIN text.mappings : l > k => text.mappings[l].ssml > script[e.item].last
       /\ text.mappings[j].ssml = text.mappings[k].ssml
       /\ text.mappings[j].sapi < text.mappings[k].sapi
       /\ text.mappings[j].sapi >= Start(e) + (script[e.item].last - script[e.item].first + 1)

\* An Edge voice, which knows no bookmarks, reports them at its words: one
\* before a word no later than at that word, one behind a word not at it,
\* unless that one overruns.
BookmarksAtWords ==
    edge /\ text.quotes = {} =>
       \A q \in Places("word") : \A b \in DOMAIN text.bookmarks :
          /\ text.bookmarks[b] <= Start(told[q]) /\ (\E r \in Places("word") : r > q) =>
               \E p \in Places("bookmark") : /\ told[p].item = b
                                            /\ \A r \in Places("word") : r > q => p < r
          /\ text.bookmarks[b] >= End(told[q]) =>
               \A p \in Places("bookmark") : told[p].item = b /\ syn.stage = "going" =>
                  \E r \in Places("word") :
                     r < p /\ (Overruns(told[r]) \/ text.bookmarks[b] < End(told[r]))

\* A boundary event names the very range of the application's text that the
\* service spoke, whatever was escaped, left out, put in or tagged on the way
\* to the SSML, and wherever the search for the one before it ended, except
\* that one that overruns ends late and one that underruns ends early.  Where
\* the service counts an entity as one character, the range may end early.  The
\* bookmarks of an Edge voice come where these ranges place them.
RangesAgree ==
    /\ \A e \in Range(told) : e.what # "bookmark" /\ Trusted(e) =>
          /\ e.offset = Start(e)
          /\ e.length > 0
          /\ IF session.plain THEN e.offset + e.length <= End(e)
             ELSE IF Overruns(e) THEN e.offset + e.length > End(e)
             ELSE IF Underruns(e) THEN e.offset + e.length < End(e)
             ELSE e.offset + e.length = End(e)
    /\ BookmarksAtWords

\* Bookmarks are reported once each and in order, from the first on and none
\* that is not in the document.  When a call is over that was not aborted,
\* and had nothing to speak or a synthesis that did not fail, all of them
\* were reported: when there was text, by an Edge voice, or by the Speech SDK
\* with a handler for them; SpeechRestAPI may end an Azure call before it has
\* told the last of them.
BookmarksInPlace ==
    /\ \A p, q \in Places("bookmark") : p < q => told[p].item < told[q].item
    /\ \E n \in 0 .. Len(text.bookmarks) : Reported = 1 .. n
    /\ /\ pc = "idle" /\ call > 0 /\ ~abort
       /\ text.hasText => ~syn.failed /\ (edge \/ (~online /\ handlers["bookmark"] > 0))
       => Reported = 1 .. Len(text.bookmarks)

\* Two synthesis never run at once: not that of a cancelled call and that of
\* the next one, which would share the events, the SSML and its offsets; so
\* an application hears of no call but its own.
OneSynthesis ==
    /\ pc \in {"setup", "starting"} => ~Running
    /\ \A e \in Range(told) : e.call = call

\* No callback is at work on a site whose call has returned, nor any
\* synthesis on an engine that is released.
NobodyLeftInside ==
    /\ inside => pc # "idle" /\ site = call /\ syn.call = call
    /\ pc = "released" => ~Running

\* An aborted call returns, even when the cancellation of the one before
\* never ends; and one ends, for the next call and for the release of the
\* engine, unless the synthesis ended before it had started (174).
Unstarted == cancelling = "spinning" /\ syn.stage = "ended" /\ ~started
SpeakReturns ==
    /\ (abort /\ pc \notin {"releasing", "released"}) ~> pc \in {"idle", "releasing", "released"}
    /\ pc \in {"waiting", "releasing"} ~> (pc \notin {"waiting", "releasing"} \/ Unstarted)
=============================================================================
