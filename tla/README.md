# NaturalVoiceSAPIAdapter in TLA+

NaturalVoiceSAPIAdapter is a SAPI 5 text-to-speech engine (a COM DLL) that speaks
with Azure and Edge voices over a WebSocket, or with local voices through the Azure
Speech SDK. These modules model the parts of it where threads, callbacks and a
network meet. TLC checks them on small instances; TLAPS proves the main safety
results for every value of the constants.

Paths below are relative to `src/NaturalVoiceSAPIAdapter/`.

## The system

| part | state | operations | talks to |
|---|---|---|---|
| `BlockingQueue.h` | queue, complete flag, exception, mutex, condition variable | push, take (with a stop token), complete, fail | pushed by the asio thread, taken by the thread of a Speak |
| `WSConnectionPool` | per host: list of connections, count, last exception, mutex, condition variable | TakeConnection, PutBackConnection (the deleter of the returned pointer), CreateConnection, RemoveConnection, open/fail/close handlers, KeepConnectionsAlive | websocketpp on the asio thread, TaskScheduler for the timer, every SpeechRestAPI |
| `SpeechRestAPI` | stop source, "all data received", event queue, bytes written; locals `conn` and `queue` of DoSpeakAsync | SpeakAsync, Stop, DoSpeakAsync, OnMessage, OnClose, Mp3ProcessLoop, ProcessWaveData, OnSynthEvent, FindWord | pool, queue, Mp3Decoder, callbacks of CTTSEngine |
| `CTTSEngine` | output site, SSML, offset mappings, bookmarks, silence held back, cancelling future | Speak, BuildSSML, OnAudioData, OnBoundary, OnBookmark, OnViseme, MapTextOffset | SAPI site, SpeechRestAPI, the SDK synthesizer |
| `Mp3Decoder` | ACM stream, buffers, leftover | Init, Convert | ACM |
| `TaskScheduler.h` | timer queue, deleters of task data | StartNewTask, timer callback, CancelTask, Uninitialize | FileCache, VoiceTokenEnumerator, the pool, DllMain |
| `FileCache` | set of running downloads, cache files | GetCachedJson, ReplaceCacheFileContent | TaskScheduler, NetUtils |
| `VoiceTokenEnumerator` | cached tokens, "clearing is scheduled" | FinalConstruct, EnumOnlineVoices | FileCache, TaskScheduler, DataKey |
| `DataKey.h`, `VoiceToken.h`, `TokenEnumerator.h` | virtual values and keys over a registry key | EnumItems, Get/SetValue | registry |
| `NetUtils`, `StringTokenizer.h` | none | downloads, proxy, tokens | WinInet |
| Logger, RegKey, StrUtils, LangUtils, exceptions, dllmain, delaydll | none that others read | wrappers | Windows |
| Installer, Arm64XForwarder | registry; none | registration; export forwarding | Windows |

A Speak of an online voice runs like this: SAPI calls `Speak`, which starts
`DoSpeakAsync` on a thread of its own and polls. That thread takes a connection from
the pool (creating and awaiting one if need be), sets two handlers that refer to
its local variables, sends the request and then takes audio messages from its queue,
decodes them and hands the waves, split at the events, to `OnAudioData`, which
writes them to SAPI. The asio thread meanwhile fills the queue and the event queue,
completes the queue on `turn.end`, and releases the connection.

What makes it hard, and what has to hold:

* **Queue.** A stop request, a message and the end race with the step from testing
  to waiting. Nothing may be lost, reordered or slept through, and the callback of the
  stop token must not deadlock with `take`.
* **Pool.** Three kinds of threads change one count and one list; the wait has no
  predicate; handlers are picked up before they get the mutex. The count has to be
  exact and bounded, waiters must be woken, no handler may use a freed wrapper.
* **Session.** Two threads use `conn` without a lock and one destroys the queue the
  other's handlers use. All audio must be played, the connection must go back
  once, without an unfinished turn.
* **Audio.** Events come in any order and any time; writes may fail; silence is held.
  Events must be at their audio, sound must not be repeated, offsets must not drift.
* **Speak loop.** The cancellation of an SDK voice goes on behind the Speak that asked
  for it, and shares the SSML, the offsets and the site with the next one. One synthesis
  at a time, no callback with a site that is gone, and every Speak has to return.
* **Text.** `BuildSSML` escapes, spaces, tags and reorders nothing; `FindWord` looks a
  word up again; `MapTextOffset` goes back. What an application highlights must be what
  is spoken, bookmarks must come once, in order, and tags must nest.
* **Background tasks.** Timers fire in their own threads while tasks are registered and
  while the DLL is unloaded. Data has to be deleted once, and nothing may be left.
* **Caches.** Enumerations, downloads, a clearing task and the end of the process meet on
  two flags and a file. Flags must not stick, a whole file must not turn into half a one.

`PROJECT.json` lists the hazards line by line with the properties that cover them.

## The modules

**`Channel`** is the abstract queue: values sent, values received, how it was closed,
whether the consumer was cancelled, and how it ended for the consumer. Fairness says
that the consumer receives what is there and finishes when it can.

**`BlockingQueue`** has one action per critical section or observable step of
`BlockingQueue.h`. `taker` and `stopper` are the program counters of the consumer and
of the thread in `request_stop`; `Held` says that `take` owns the mutex. All other
critical sections are atomic, as no other thread can look into them. `Ch` is the
refinement mapping: what was sent is what was received followed by the queue.
The stop callback's registration, its run inside `request_stop`, its lock/unlock
and its notification are steps of their own, and so is the wait of the callback's
destructor, the reason for the order of declarations that the comment in `take` explains.

**`WSConnectionPool`** models one `HostInfo`. `ws` is the session state of websocketpp,
`where` says who owns the wrapper, `hooked` which connections have handlers,
`posted` which have `handle_terminate` waiting in the asio queue. `asio` is the handler
the asio thread has picked up and is about to run under the mutex. `timer`, `victims`
and `expired` are `KeepConnectionsAlive` between its steps, during which the state of
connections goes on changing. CreateConnection may throw: the loop then leaves fewer
connections behind (`Batches`). `crashed` records the three ways the process can go
down: a handler on a freed wrapper, an exception in the timer callback, and the
relocking of a mutex by its owner.

A freed connection object may be used again as a new one, except while asio
is still in a handler for it; so a finite set of connections gives unbounded runs.

**`SpeakSession`** models one Speak call and its connection, from the moment it is
taken. It uses `Channel` itself for the queue, the specification that
`BlockingQueue` is shown to implement. `conn` and `alive` are the two local variables
that the handlers refer to. Undefined behaviour (`conn` reset while it is tested or
destroyed, the queue used after its destruction) sets `undefined`, and nothing is
claimed of what follows. The state "closing" of websocketpp is folded into "closed".

**`AudioPath`** models `ProcessWaveData` and `OnAudioData` over wave blocks. `quiet`
is any set of silent blocks. `arrived` and `calledAt` remember when an event came and
at which position its callback ran. The constant `Interested` is whether there is a
word boundary callback, `Optimize` whether online delay optimization is on; with it
off, `OnAudioData` is a plain write. A write of a wrapped length ends the behaviour.

**`Jobs`** is what `TaskScheduler.h` promises: a task that was started runs, again and
again if it is periodic; the teardown waits for what runs and cancels what does not.

**`TaskScheduler`** has the sections of `TaskScheduler.h` under `deleterMutex` as steps,
and the steps between them: the unlocked test in `Initialize` (`BeginStart`,
`MakeQueue`), the creation of the timer and the entry in the list (`CreateTimer`,
`Register`; the data is allocated in the first), the entry into `TimerQueueProc` (`Fire`),
its removal of a one-shot timer's data from the list (`Forget`), the end of the task
(`Finish`), and `Uninitialize` with `DeleteTimerQueueEx` waiting (`BeginDrain`, `Drained`,
`FreeRest`) or, at the end of the process, not (`Exit`). `alive` is the memory, `deleters`
the list; `twice`, `early` and `forgotten` remember what went wrong: data that was deleted
without being there, callbacks that looked for theirs before `Register`, and queues whose
handle was overwritten, by a second one or by the nullptr of a failure (`StartFails`). `J` is
the refinement mapping to `Jobs`.

**`Caches`** instantiates `TaskScheduler` and adds what its tasks do: `FinalConstruct`
under `s_cacheMutex` (`enum` is where it is), `GetCachedJson` with the cache file and the
set of downloads, the clearing of the tokens after ten seconds, the replacement of the file
in both ways (`CreateFile`/`WriteFile`/`DeleteFile` when there is none, `ReplaceFile`
otherwise) with the sharing modes of the file, and `DllMain`. The file survives `Exit`, so
the next process finds what a killed one left. `lost` names the flags that stay set because
`StartNewTask` threw, and the file while `ReplaceFileW` has lost it: called without a name for
a backup, it may fail when the old file is gone and the new one has not taken its place.

**`SpeechText`** has the pure side of `CTTSEngine` as operators: `BuildSSML` with a record
for its locals, one operator per tag it opens or closes; `FindWord`; `MapTextOffset`. SSML
is a sequence of characters of which each remembers, for the properties only, the offset it
was written for. The loops over the fragments and their characters are recursive functions on
`0 .. n`, which can be reasoned about. The application's own tags are matched in any case
(`EqualsIgnoreCase`, over the constant `Lower`) and written as the application has them; the
name of a tag is what `GetXMLTagName` makes of it. A tag is three characters, an entity three,
and the alphabet has one letter, one ideograph, a space, one escaped character of words and one of none.

**`SpeakLoop`** is `CTTSEngine::Speak` call after call. `pc` is the thread in `Speak` or
`FinalRelease`, `cancelling` the thread of `m_lastCancellingFuture`, `syn` the
synthesis of the SDK or of SpeechRestAPI, which goes through the events a service finds in
the SSML (`Script`). `Enter` is a callback that has the mutex and has seen a site;
`TellBoundary` and `TellBookmark` are its rest. The callbacks are set up from the
interests exactly as the masks of the code do it. It uses the operators of `SpeechText` for
the text and leaves audio to `AudioPath`.

`MCPool`, `MCAudio` and `MCSpeak` hold definitions for TLC (symmetry, positions of the
events, documents and sessions). Modules named `...Proofs` hold the proofs about the module
they extend; `CachesProofs` takes those of `TaskSchedulerProofs` over to `Caches`, and
`SpeakLoopProofs` rests on `SpeechTextProofs`.

## The runs

| run | instance | shows |
|---|---|---|
| `BlockingQueue` | 2 producers, 2 messages, 3 pushes | `TypeOK`, `NoLostWakeup`, and `ImplementsChannel` with liveness |
| `PoolSafety` | 2 takers, 3 connections, count 1 to 2, timer on | the count, the handlers, and that nobody sleeps past a connection, a stop or the last notification |
| `PoolLiveness` | 1 taker, 3 connections, count 2 | a dead connection leaves the list; a waiter returns |
| `SpeakSession` | 3 audio messages | audio complete, connection returned once and clean, queue outlives handlers, rejection reported, the call ends |
| `AudioPath` | 3 chunks of 2 blocks, 3 events, 1 failing write, one second = 3 blocks | events on time and sent, sound never repeated, silence accounted |
| `Background` | 2 downloads, 1 clearing task, 1 periodic flush; 263,210 states | data deleted once, nothing left after unloading, `Jobs` implemented, download names answered, cached tokens expire, a whole file stays whole unless the system loses it, from one process to the next |
| `SpeakLoop` | documents of up to 4 fragments for 3 kinds of voices, sessions of up to 3 calls with aborts; 374,000 states | SSML a service can read, text inside its tags, ranges of words and sentences, bookmarks, one synthesis at a time, no callback left, every Speak returns |
| `PoolLostWakeup` | 2 takers, count 1 | a waiter sleeps for ever |
| `PoolUseAfterFree` | 1 taker, count 1 | a close handler on a freed wrapper |
| `PoolStaleException` | 1 taker, count 1 to 2 | an old exception is thrown past an open connection |
| `SessionCloserRace` | 2 audio messages | a connection is closed although its turn is complete |
| `AudioOverrun` | as `AudioPath` | a length wraps around after a second of silence |

Bounds. Two producers suffice for a producer to be between unlock and notify while
another completes; three messages let the queue be empty, partly and fully drained.
Two takers and three connections allow a taker to wait at the limit while the other
holds, drops or puts back a connection, and a third object is needed so that a new
connection can be made while asio still holds a freed one. `WaiterWillBeWoken` needs no
more takers than connections: with more, `PoolLostWakeup` shows what happens. Liveness
of the pool is checked without the timer, and with as many connections as the minimum
so that replenishing happens. Three chunks are the least with which silence
is held over a whole chunk and then exceeds the limit; the events lie inside
chunks, at a boundary, and two in one chunk.

In `Background` two downloads are what it takes for two to have the same file open, and
one clearing task for the flag to be set while it waits for the mutex; a task's address may
be used again, so runs are unbounded. One file stands for the lists of Edge and Azure, which
share nothing. In `SpeakLoop` three fragments are needed for a tag that the second keeps open
and the third closes, four for an Edge voice's third change of prosody;
the application's tags come in two names, one of them in both cases and untrimmed (`x>`); words of up to four
characters, with an escaped one first, in the middle, last or alone, reach every branch of
`MapTextOffset`; the two mistakes of its line 1210 (below) take a fragment whose next one follows
in the text without a gap, and an empty or unspaced one between two others; three calls are needed for one that waits for the cancellation of the first
and is followed by another. 32-bit offsets are scaled to 16 bits, still far above any offset
in a document.

Deadlock is checked where the system does not stop (the pool). A queue, a
session, a turn and the calls of an application end, and a DLL may be left loaded with
nothing to do, so their runs do not check it.

Fairness. `BlockingQueue` and `SpeakSession`: each thread that can take a step
does, the consumer keeps calling `take` as `Mp3ProcessLoop` does; no producer, server
or stop request has to come. The pool: threads waiting for `info.mutex` get it in the
end (strong fairness, as the mutex is free again and again), posted
handlers run, handshakes end because websocketpp has timeouts for opening and closing,
and a Speak returns its connection. Nothing makes a connection open, a server
close, or a Speak begin. `Caches`: a call of `FinalConstruct` goes on, a timer fires, its
callback runs, and the clearing task gets `s_cacheMutex` in the end although enumerations
take it again and again (strong fairness); nobody has to enumerate, to download
successfully, or to unload the DLL. `SpeakLoop`: the threads of the engine run; a synthesis
that was asked for starts or is refused, and one that was told to stop ends; nothing else
makes a synthesis end or an application abort. That the setup of a call ends, and that a
callback ends, is stated as `[]<>` and not as weak fairness, which means the same here, since
nothing disables either and TLC would build the SSML of a call again for every state.

## What TLC found

* `PutBackConnection` drops a closed connection without notifying (237-247). A Speak
  that waits at `maxCount` is not told that it could now create one.
* The close handler (333-342) is past `on_close` and waits for the mutex while
  `PutBackConnection` frees the wrapper it captured.
* After a wait, `lastException` is thrown before the list is looked at (220).
* `OnMessage` completes the queue before it resets `conn` (312-313), so
  `connectionCloser` can terminate a good connection, or race with the reset.
* Once a second of silence is held, `len - m_lastSilentBytes` wraps around
  (`TTSEngine.cpp` 524).
* `MapTextOffset` adds the length of a range in the SSML to its offset in the text
  (`TTSEngine.cpp` 1210) to tell whether a bookmark, or any other gap, lies inside of it; the
  comment above says "Use the end offset of SAPI text" (1202-1209). A range that takes more
  characters in the SSML than in the text, for an entity or a space put in, ends late if
  other text begins right behind it (`Overruns`); one whose last text is right behind other text
  of the range that ends, in the document, beyond that length ends early (`Underruns`). Both
  came up when the proof of `RangesAgree` failed at just these places; TLC then found them
  in documents of three fragments. `RangesAgree` checks which ranges these are and which way
  they go wrong, so they have no run of their own.

Of what follows no comment, test or document says otherwise, so there is no run that is
expected to fail; the properties say in their comments or premises what they leave out.

* The interests are masked with the numbers of events instead of their bits
  (`TTSEngine.cpp` 600-643): words or bookmarks alone get no callback.
* A synthesis that fails before `SynthesisStarted`, in a Speak that is aborted, makes the
  cancelling thread spin for ever (174); `Unstarted` in `SpeakReturns`.
* `FindWord` takes the letters of an entity for a word (`SpeechRestAPI.cpp` 392-427), and
  returns npos for a sentence with a tag inside or across fragments, which is then cut to
  32 bits (349-352); `Trusted` in `RangesAgree`.
* The length of a word is that of its unescaped form for some services, so ranges of words
  with an entity end early (`TTSEngine.cpp` 1219-1221).
* A callback that looks for its data in the list before line 138 of `TaskScheduler.h` has put
  it there leaves it in the list, to be deleted again; `early` in `DeletedOnce`.
* Two threads in `Initialize` (24-28) that both find no queue make two, of which one is deleted;
  or `CreateTimerQueue` fails for the second, whose nullptr is stored (26) over the queue of the
  first before it is tested, and `Uninitialize` returns at once (39). `forgotten` in
  `TeardownComplete`.
* `ReplaceFileW` without a name for a backup can leave no file, and line 131 of `FileCache.cpp`
  then deletes the new one (126-131); downloads that find no file then write in place, over each
  other; `lost` in `WholeFileStays`.
* A closing tag of the application is matched in any case (`TTSEngine.cpp` 1019) but copied as it
  is (1035), so `<X>..</x>` gives tags that do not nest; `SpelledAlike` in `SsmlAccepted`. An opening
  tag with a space behind it is kept with the space (1046), so its name ends in a bracket and its
  closing tag is dropped as unmatched; left out by the premise of `TextInItsTags`.
* An outdated file starts a download without looking at the set of names
  (`FileCache.cpp` 206), and the end of one download takes out the name of another.
* When `StartNewTask` throws, the name (`FileCache.cpp` 228) or the flag
  (`VoiceTokenEnumerator.cpp` 205) stays set for good: `lost`.
* The logger starts its periodic task from `DllMain`, where `TaskScheduler.h:17` says that
  timers cannot be created.

## What is proved

`BlockingQueueProofs`, for any producers, messages and bound: `TypeCorrect`,
`WakeupSafety` and `SafeRefinement` (`Spec => Ch!SafeSpec`). The
invariant behind them says when the consumer may be blocked: only
if the queue is empty or a producer is about to notify, not if complete or
failed, and after a stop request only if the callback still has its notification
ahead. The refinement proof goes action by action: `Push`, `Complete`, `Fail`,
`RequestStop` and `Exit` are the actions of the channel, all others stutter.

`PoolProofs`, for any number of Speak calls, any finite set of connections and any
`MinCount <= MaxCount`: `TypeCorrect`, `CountIsExact`, `CountIsBounded`,
`HandlerSafety`, `NoMissedConnection`, `NoMissedStop` and `WaitersAreWoken`. The inductive invariant
`CountInv` adds to the first four the fact that a picked-up handler belongs to a
connection; the count needs it because creation adds exactly as many
elements to a finite set as it counts, and removal takes exactly one. The proofs of the
two wakeup results rest on the mutex: nothing changes the list while a taker is between
its look and its wait (`WaitInv`, `StopInv`).

`WaitersAreWoken` says that a waiter always has a notification on its way. It assumes
`TakersWithin`, no more Speak calls at a time than `MaxCount`; with more of them it is false,
which is what `PoolLostWakeup` shows, so the hypothesis is the boundary between the two.
`FateInv` follows what becomes of a connection: one in the list has handlers, one that is
closed has its report posted or being handled, and a Speak has one connection at most. A taker
that goes to wait found the list full and none open; as it has no connection itself, the
others have fewer than the list is long, so one in the list is nobody's, and that one is going
to open, to close or to be reported.

`SessionProofs`, for any number of audio messages: `TypeCorrect`, `CleanConnection`,
`ConnectionComesBack`, `QueueIsThere`, `RejectionKnown` and `AllAudioPlayed`. The invariant
says who has the connection at each step of both threads (`Custody`), how the queue may be
closed given how the turn ended (`Closed`, `Completion`), and that what was received,
followed by what is still queued, is what was emitted (`Delivered`). It builds on `Channel`,
so that together with `BlockingQueueProofs` it reaches down to the mutex.

`TaskSchedulerProofs`, for any tasks: `TypeCorrect`, `DataDeletedOnce`, `NothingLeftBehind`
and `KeepsJobs` (`SafeSpec /\ []QueueKept => J!SafeSpec`). The invariant relates memory,
list and timers: data is alive exactly while a timer or the list still owns it. The two
known races are in the statements: callbacks that came `early`, and queues that were `forgotten`
(`QueueKept` is that there are none).
`CachesProofs` shows that every step of `Caches` is one of the scheduler or leaves it alone,
and concludes the same for the scheduler that the caches share; there `TasksKeepJobs`
(`Spec => ImplementsJobs`) needs no such proviso, since the enumerations
start their tasks under `s_cacheMutex` and the logger starts one task at most (`OneFlush`).
The pool starts its timer too (`WSConnectionPool.cpp` 89), which `Caches` leaves out; with it
the proviso of `KeepsJobs` is needed again. On top of that it proves,
for any disjoint sets of tasks (`TasksDiffer`), `TypeCorrect`, `NameComesOut`, `OneClearing`
and `WholeStays`, the last with the exception that `WholeFileStays` makes for `ReplaceFileW`. The invariant `CInv` says that the flag of the clearing stands for exactly
one task, or for one that did not start; that whoever holds `s_cacheMutex` cannot meet the
end of its own start; that a name in the set of downloads has a running download behind it;
and that as long as there is no whole file, one task at most has it open, except after `ReplaceFileW` has lost it, until the last task that
may have looked for it before is over (`LastOne`).

`AudioProofs`, for any number and length of chunks, any silence, any events at any positions
and any number of failing writes: `TypeCorrect`, `OnTime`, `TimelySent`, `SoundPlayedOnce`
and `SilenceKept`. The invariant `AInv` ties the counter, the pointer and the size of the
chunk together (`Place`), says that the audio does not overtake an event that came in time
(`Ahead`), which is what both theorems about events rest on, and that sound at the site is
from before the pointer (`Behind`). `SilenceKept` assumes `ChunkLen < HoldLimit`: a silent
chunk that is as long as the second of silence would be written without its blocks and
forgotten, which is the boundary of what `AudioOverrun` shows. The code has no such bound of
its own: the length of a chunk follows from that of the first audio message
(`Mp3Decoder.cpp`, `m_cbMp3Buf`), and parts of a second are what is to be expected.

`SpeechTextProofs`, for a document of any length: `BuildSSMLHolds`. In the SSML that
`BuildSSML` makes, every tag is closed in the order of nesting and none is left open, a
say-as has no tag inside, and an Edge voice gets no tags but speak, voice and as many prosody
tags as were counted, two at most. The invariant between two fragments is `Ready`: the flags
of the builder say exactly which tags are open (`Consistent`), and no tag is open inside which
the next fragment would open one that belongs outside. Under it are one lemma for each tag that
a fragment opens or closes, and one for each kind of fragment. The hypothesis `NoSayAsTag` is
about the application: when a document brings a say-as tag of its own, as an unknown tag
that `BuildSSML` copies, what is inside is the application's to answer for. So is
`SpelledAlike`, for voices other than Edge: where a closing tag has its name in another case than
the opening tag it is matched with, the tags do not nest. Under it the names of the tags that
are open are among those the document opens (`Among`), so that the match in any case finds
the very name. The library's
induction theorems cannot be used here, so `Least` (a set of numbers has a least element)
gives `Induct` (what holds for 0 and goes on, holds up to n), `Recursion` (there is a function
with the recursive equation) and `Stays` (an invariant of a loop written as such a function
holds of all its values). The module also gives the types of what `BuildSSML`, `Script`
and `MapTextOffset` return.

`BookmarksInScript` is about the same documents: the events of a service contain as many
bookmarks as `BuildSSML` put into its list, for an Edge voice none. What goes along the
fragments is `Tallied`, that the SSML has one bookmark tag for each entry of the list; all
that is written besides the bookmarks leaves both alone (`Beside`). `ScriptIs` describes a
service's events as a loop over the SSML, and `ScriptMarks` counts along it.

`SpeakLoopProofs`, for any sessions of any number of calls: `TypeCorrect`, `SsmlIsAccepted`,
`NobodyStaysInside`, `SynthesisAlone` and `BookmarksAllTold`. `SsmlIsAccepted` takes `BuildSSMLHolds` from the
setup of a call to all that follow it, with the same hypothesis on the documents of
the application (`NoSayAsOfItsOwn`), which the documents of the run satisfy, and with
`SpelledAlike`, which some of them do not, in the property itself. The invariant
`IInv` says who waits for a synthesis that runs: its own call, or the
cancellation that the next call waits for (`Awaited`), and that a callback at work keeps both
its synthesis from ending and its call from leaving (`AtWork`). `Typed` is what the results of
the text operators are.

`BookmarksAllTold` says that the bookmarks of a call are told once each, in order and without
a gap, and all of them when the call is over, unless it was aborted, its synthesis failed, or
its callback was never set; azure, whose audio may be over before its last events came, gets no
such promise. The argument is a count: at each point of a call the first `n` bookmarks have
been told (`Placed`), where `n` is `m_bookmarkIndex` for an Edge voice (`EdgeTold`) and the
number of bookmarks among the events so far for the others (`OtherTold`); that the events hold
no more and, in a text to speak, no fewer bookmarks than the list is `BookmarksInScript`
(`Marks`). The Speech SDK ends a synthesis that was not stopped and did not fail behind the
last event (`SdkTold`), and a call that was not aborted leaves no cancellation and no
synthesis behind (`Paths`), so nothing is told after the last (`AllTold`). The hypothesis
`NoBookmarkOfItsOwn`, which the documents of the run satisfy, is that no unknown tag of
the application is called `bookmark`: SAPI has a tag of that name itself, and reads it as a
bookmark (`SPVA_Bookmark`).

The ranges of words and sentences are proved in three steps, of which the first two are in
`SpeechTextProofs`. `BuildSSMLLocated`: the offset mappings are `Located` in the SSML. Their
entries rise, in the SSML and in the text; the last entry at or before the first character of
any piece of text leads to the offset that this character was written for, and the first
entry at or behind the end of a piece leads right behind it. What goes along the fragments is that,
together with which entry the next character would continue (`Here`) and that no text is
without an entry behind it (`Closed`); tags, spaces and entities each have their own lemma.
`RangeOfText`: given such mappings, what `MapTextOffset` makes of a range of whole characters
begins where the first was written for and, but for the two mistakes of line 1210, ends
right behind the last, wherever `m_mappingIndex` was left by the range before. `StartMapped`
and `RangeMapped` say what its two loops stop at. Third, `BoundariesRight`: in any session,
with any voice, a boundary event that the Speech SDK reports, or that `FindWord` finds where
the service spoke it (`FoundInPlace`), is told with that range. For the SDK, which reports
offsets itself, `SdkRangesAgree` concludes `RangesAgree` as the run checks it; where the
service counts an entity as one character (`plain`), it concludes what is left, that every range
begins where it should (`StartsAgree`).

The hypotheses are `Separate` and `Short`, for all documents of the sessions
`SeparateAndShort`: the fragments that are spoken follow each other in the text without overlap,
as SAPI cuts them out of it, and offsets, with the length of the SSML on top, fit in a ULONG
(scaled to 16 bits, as in the run). The documents of the run satisfy both.

The other assumptions are those declared in the modules (`MaxPushesAssumption`,
`PoolAssumption`, `TasksDiffer`, `OneFlush`, `AudioAssumption`, `SessionsTyped`), which TLC
evaluates in every run. `MinCount <= MaxCount` holds
for the defaults; the registry can violate it, and `std::clamp` is then undefined.

Only model-checked: everything under fairness (`ImplementsChannel` in full,
`DeadConnectionLeaves`, `WaiterReturns`, `EndReachesSpeaker`, `TokensExpire`,
`SpeakReturns`), as liveness and ENABLED are out of the proof system's reach; `TextInItsTags`,
which compares the tags around each character with a fold over the document and takes
`SelectSeq`, which is recursive, to say so; and three parts of `RangesAgree`:

* for online voices, that `FindWord` finds a word where the service spoke it. It is a search in
  a text that was put together by `FlattenSeq` and `SelectSeq`, which are recursive, so what
  they return for every input needs an induction over data. It does not hold of all
  documents either (`Trusted`); `BoundariesRight` takes it as the premise of a step.
* the end of a range where the service counts an entity as one character, which the code gets
  wrong and of which `RangesAgree` says only that it is not late;
* the place of an Edge voice's bookmarks between its words (`BookmarksAtWords`), which depends
  on the first.

## What is not modelled

See "components" in `PROJECT.json`. Vendored libraries are modelled only where the pool
sees them (the session state of websocketpp). Left out are:

* the pool's constructor, destructor, recovery loop and clock correction;
* `CancelTask`, whose one caller is the pool's destructor, after `Uninitialize`;
* in `CTTSEngine`, the choice of a voice (`SetObjectToken`), `OnViseme`, `SPVES_SKIP`, which
  is answered and ignored, the attributes of tags, phonemes, and characters in the names of
  bookmarks that need escaping;
* `Mp3Decoder`: what its loop does with the leftover depends on how much of a buffer the
  ACM decoder consumes, of which nothing in the repository says anything;
* the search for a cache directory, what tokens an enumeration finds, `EnumItems`, `NetUtils`
  and the wrappers: sequential code without state that others read;
* two processes at a time, which share the cache file but not the set of names: one could
  truncate the file the other has just made whole (`CREATE_ALWAYS`). `Caches` has one process
  after another;
* memory exhaustion, the content of messages, COM registration and the installer.

## Plan

Done, in this order: queue, pool, session, audio; tasks, caches, Speak loop and text; the
proofs. Left:

1. `DataKey` enumeration as a function against the union it should be.
2. A composition of pool and session for several Speak calls in a row, which would tie
   `NothingLeftOver` to the pool's reuse of connections.
3. `Mp3Decoder`, once the behaviour of the ACM codec is known.
4. A proof about `FindWord` for documents without tags inside a word, from a description of
   what it searches that does not go through `FlattenSeq`.
