# PageNest in TLA+

PageNest (YiNest) is an Android e-book reader. Its own logic sits on the
HandyReader code base in `src/app/src/main/java/com/air5005/pagenest` (below
`P/`): reading aloud, importing books into a private library, discovering and
downloading books, skins. This directory specifies the parts of it where order,
concurrency and failure decide what is right; every module names in its header
what it abstracts, and `PROJECT.json` maps each definition to the lines it
models.

## 1. Inventory

| Component | State it keeps | Operations | Hard behaviour | Correct when |
|---|---|---|---|---|
| **Speech session** `P/speech/session/SpeechSession.kt` | a channel of messages, published state, content source, generation, playback job, sleep timer | start, pause, resume, next, previous, seek, options, timer, stop, close; playback results; timer expiry | one owner coroutine, results and timers racing with commands, failing externals, cancellation at any suspension | one playback at a time, nothing stale acted upon, every caller answered, nothing left open |
| **Content sources** `P/speech/content` | a cursor, the reader's page | current, next, previous, seek | blank pages, page ends, refused seeks | the voice is where the source thinks it is; text is read once and in order |
| **Chapter cache and layout fence** `com/wxn/reader/.../PageViewController.kt` | three cached chapters, position, generation token, active reload | turn, jump, restyle, reload, speech seek and follow | reloads parse off the main thread and end in any order | the newest navigation and style win; the fence always opens |
| **Local import** `P/library/importing` | private directory, book rows, per-hash lock | execute: store, lock, validate, look up, parse, insert, clean up | two imports of one content, failure or cancellation at each step, process death | a listed book has its file; answers are true; locks are released |
| **Private store** `PrivateBookStore.kt`, `app/src/main/cpp/private_book_store*.c` | part files, published files | stage, hash, publish without replacing, compare, delete | crash between steps, other processes | a name never shows half a book |
| **System TTS engine** `P/speech/engine/SystemTtsEngine.kt` | platform engine, waiting and active call, owner queue | speak, stop, voices, close, utterance callbacks, initialisation | callbacks from binder threads, close during initialisation, a caller cancelled while its utterance starts | each call is answered once, by its own utterance; close leaves no platform |
| **Engine router, cache** `P/speech/engine/SpeechEngineRouter.kt`, `P/speech/cache` | modes, cached audio, scopes | speak with retries and fallback, stop, retain, put, get, clear | stop between attempts, writes under an old scope | a cancelled request is silent after stop; one voice at a time; the cache holds the current chapter only |
| **Encoded player** `P/speech/playback/Media3EncodedAudioPlayer.kt` | player, current completion | play, stop, close | cancellation posts to the main thread | stopping one playback never stops the next |
| **Service, controller, focus, manager** `P/speech/playback`, `P/speech/settings` | attached session, media state, audio focus | attach, detach, start, stop, focus changes | Android callbacks, suspended start | one session is attached and it is the one the user started last |
| **Online import and download** `P/discovery/importing`, `download` | ledger, staging files | find, download, import, record | crash between import and ledger, keyed locks | one book per identity; no staging left |
| **Discovery** `P/discovery/repository`, `ui`, `cache` | catalogue cache, screen state | discover, load, acquire, cancel | sources in parallel, grace period, late results | each source reported once; a cancelled request changes nothing newer |
| **Skin** `P/skin` | three preference stores | apply, reconcile | crash between writes | shelf and reader agree after start |
| Credentials, diagnostics, screens, database, parsers, vendored code | | | | see `PROJECT.json`, `components` |

How they interact: the reader screen or the notification calls
`ReaderSpeechManager`, which creates a content source over the reader
(`PageViewController`) or over a PDF's text, starts a `SpeechSession` and
attaches it to the playback service. The session's owner asks the source for
segments and the engine (router -> system voice or online synthesis -> encoded
player) to speak them. A speech seek waits at the reader's layout fence. Local
and online import meet in `BookImportService`; the shelf updates and deletes
the rows and files that it creates.

## 2. Modules

| Module | Models | State / actions against the code |
|---|---|---|
| `SpeechSession` | `SpeechSession.kt`, whole | One variable per field of the class; `queue`, `delivered`, `ack` are the unlimited channel, the element handed to the suspended receiver, and the `CompletableDeferred`s. `owner` says where the owner coroutine is suspended (`"aborted"`: cancelled while it waited for a message, not yet dispatched; `AbortReceive`). `torn` is history: what a command that failed half-way, or a last `engine.stop()` that threw (`"unstopped"`), has left. `Receive...` starts a handler, `SourceReturns`, `EngineStopReturns`, `CommitReturns`, `ShowReturns` resume it, `...Fails` throw, `OwnerThrows`/`ChannelClosed`/`CleanupReturns` are the `finally` of `runOwner`. Jobs and timers are coroutines of their own. |
| `SpeechPlayback` | what a listener is promised, abstractly | `shown`, `progress`, `heard`, `interrupted`; no code of its own. `SpeechSession!Playback` is the refinement mapping. |
| `SpeechContent` | `ReflowableSpeechContentSource.kt`, `PdfSpeechContentSource.kt` | The cursor is `Cursor(nav, page, index)`; `Following`, `Preceding`, `Sought`, `Current` are the four calls; actions are the session's calls and the user's page turns. |
| `ReaderLayout` | the caches and the fence of `PageViewController.kt` | `prev`/`cur`/`next` are the cached chapters, `reloads` the reload coroutines (which parse in stages and install on the main thread), `call` the speech call in flight. |
| `BookImport` | `BookImportService.kt`, its adapters, `BookDao`, the shelf's update and removal | `disk` and `rows` survive a crash; `pc[i]` is where import `i` stands; one action per call that may fail or be cancelled. |
| `PrivateBookStore` | `PrivateBookStore.kt`, `app/src/main/cpp/private_book_store.c`, `private_book_store_publish.c` | `entries` is what a name refers to, `disk` what it may refer to after a power failure, `whole`/`synced` the files written and synced. One action per system call of `store` and of `private_book_store_publish_no_replace`, and its failure; `Die`, `PowerLoss`. |
| `SpeechEngine` | what the interface `SpeechEngine` promises its caller, abstractly | `answer`, `voice`, `heard`, `covers`; no code of its own. |
| `SystemTtsEngine` | `SystemTtsEngine.kt`, whole | `commands` is the owner's channel; `Receive...` are its handlers, `StartSpeech` the end of `start`, which the caller's cancellation may precede; `initialization` is `initializationJob`; `tts`, `voice`, `callbacks` are the platform (external). `Contract` is the refinement of `SpeechEngine`. |
| `SpeechRequests` | the requests the next three speak about | |
| `SpeechAudioCache` | `FileSpeechAudioCache.kt` | One operator per operation, which its mutex makes one step; `Unexpired` and `AfterPut` say which files may be left. |
| `EncodedAudioPlayer` | `Media3EncodedAudioPlayer.kt` with its ExoPlayer backend | `worker` is the coroutine of a playback, `looper` what has been posted to the main thread, `exo` what the ExoPlayer plays. |
| `OnlineSpeech` | `SpeechEngineRouter.kt`, `RoutingSpeechEngine.kt`, `AzureSpeechEngine.kt`, composed with the cache and the player | `step` is where a request is in `speak`; the actions are its suspensions; the system engine under it is external and does what `SpeechEngine` promises. `RoutedContract` is the refinement of `SpeechEngine`. |
| `SpeechSessionProofs`, `SpeechReadingProofs`, `SpeechContentProofs`, `ReaderLayoutProofs`, `BookImportProofs`, `PrivateBookStoreProofs`, `SystemTtsEngineProofs`, `OnlineSpeechProofs` | theorems about the module they are named for; `SpeechReadingProofs` goes on from `SpeechSessionProofs` | |
| `MC...` | instances for TLC | |

`SpeechSession` uses a simple source (a row of segments without blank pages);
`SpeechContent` shows what the real sources add to that, and where they differ.
`OnlineSpeech` is the composition of router, cache and player; it stands on
`SystemTtsEngine` through the contract `SpeechEngine` that both are shown to keep,
and its requests come the way one `SpeechSession` sends them (`Settled`): one at a
time, each answered, or cancelled and stopped (`invalidatePlayback`, 281-286).
Between two sessions this is not so: `ReaderSpeechManager` attaches the new one,
which tells the old one to close without waiting (122-124, SpeechController
92-95), and a first Start does not stop the engine (SpeechSession 202-206), so
the new session's first request may be asked before the old one's last
`engine.stop()` (177) has returned. That order is outside the model; section 6
says what the code does then.

## 3. Runs

| Run | Checks | Shows | Bounds |
|---|---|---|---|
| `session_safety` | `TypeOK`, `OneLivePlayback`, `PlayingIsLive`, `CommitIsCurrent`, `Silence`, `TimerArmed`, `NoLeakedSource`, `ReadsInOrder` (refinement of `SpeechPlayback`) | every interleaving of three commands with results, a timer, close, cancellation and failures: nothing sounds once something else than playing is shown, nor after the end; only the timer of the last deadline stops the session; what a Start handed over is closed | 3 callers, symmetric, one command each; 2 sources of 2 and 1 segments. Three commands are enough for a start, a replacement and a command racing with either; two sources for the hand-over |
| `session_liveness` | `EveryCommandAnswered`, `SleepTimerEnds`, `CloseReleases` | every admitted command is answered; a sleep deadline comes due, and then the voice falls silent, the source is closed and the state is Idle; closing ends the owner | 2 callers |
| `session_pending_ack` | `NoAckLeftPending` (violated) | finding 1 | 2 callers |
| `content_sources` | `TypeOK`, `VoiceIsSelected`, `MovesInvert`, `ContinuesInOrder` | both sources keep place over blank pages and ends, and next and previous undo each other; one that finds nothing makes at most a segment be read again | all books of 1-3 pages with 0-2 segments a page: a blank page before, between and after, one- and many-segment pages |
| `content_goes_back` | `NeverGoesBack` (violated) | finding 2 | the same, PDF source |
| `reader_layout` | `TypeOK`, `LatestReloadWins`, `SeekKeepsLayout`, `ToldWhenShown`, `FenceReleased` | late reloads never overwrite newer ones; the fence opens | 3 chapters, 2 reloads after the initial one (`MaxGeneration` 3), 1 restyle; two overlapping reloads and one speech call are the cases the fence is for |
| `reader_wrong_chapter` | `LatestNavigationWins` (violated) | finding 3 | the same, no failing parse |
| `book_import` | `TypeOK`, `RowHasFile`, `AnswerIsTrue`, `FaultlessImportIsKept`, `KeepsListedFiles`, `RefusedLeavesNothing`, `EveryImportEnds` | listed books keep their files, answers are true, refused copies go, locks are freed | 2 overlapping imports, 3 in all, one content under two extensions; 2 mishaps of 13 kinds, 1 crash, 1 update, 1 removal. Other contents share nothing with this one but a lock stripe |
| `book_listed_twice` | `OneRowPerContent` (violated) | finding 4 | no mishap, one update |
| `book_store` | `TypeOK`, `WholeBooks`, `AnswersHold`, `NeverReplaced`, `PartsCleaned`, `EveryStoreEnds` | no name leads to a torn book, answers survive a power failure, parts go, the lock is freed | 2 stores of one book (stores of different books share the lock only), 3 failing calls, 2 deaths or power failures, 2 removals: enough for the loser of a race to fail after the winner died |
| `tts_engine` | `TypeOK`, `CloseReleases`, `Contract` (refinement of `SpeechEngine`), `EveryCallEnds` | calls are answered once and by their own utterance; close leaves no platform; nobody waits for ever | 3 requests out of 2 calls, a stop and a query; close and a cancelled scope on top. Two calls are enough for one to replace the other while its callback is late |
| `online_speech` | `TypeOK`, `CacheWithinScope`, `RoutedContract` (refinement of `SpeechEngine`) | retries, fall-back, cached audio and late posts to the main thread keep the promise of one engine; the cache stays in its chapter | 2 requests in 2 chapters, any mode each, 1 retry, 1 cached file, 1 clear, 1 stop, which may be the session's own or a stray one of a session being closed |

`CHECK_DEADLOCK FALSE` everywhere: a session that has ended, a book read to its
end and an app with nothing left to import really stop. `MaxImports`,
`MaxMishaps`, `MaxCrashes`, `MaxUpdates`, `MaxRemovals`, `MaxGeneration` and
`MaxStyle`, `MaxFailures`, `MaxRequests`, `MaxClears` bound counters in guards; the
session needs none, because each caller submits one command.

What is stated with a restriction, and why:

- `PlayingIsLive` excepts the time after a command that failed half-way
  (`"silent" \in torn`), when "Playing" really is shown over silence (section 6),
  and `Silence` a session whose last `engine.stop()` threw: what is then heard has
  been cancelled, and nobody stops it.
- `NoLeakedSource` is about sources a handled Start has handed over; one whose
  Start is drained or refused stays with the caller (section 6).
- `VoiceIsSelected` leaves out a cursor that selects nothing, and `MovesInvert` and
  `ContinuesInOrder` one that has lost its place: how it does so is the second
  half of `MovesInvert`, what follows is finding 2.
- `RowHasFile` and `AnswerIsTrue` hold while the shelf neither updates nor
  removes a book (`Untouched`); with an update, finding 4 lets a later clean-up
  or removal take the shared file. `KeepsListedFiles` covers the rest: an import
  never takes the file of a row whose hash is intact, whatever the shelf does.
- `RefusedLeavesNothing` leaves `storage_failed` and `cancelled` out: there the
  code may keep the copy on purpose (a failed look-up forbids deleting).
- `LatestReloadWins` leaves out what `doubt` records: a reload that failed, and
  a turn or the voice taking over a chapter already out of place (finding 3).
- `EveryCommandAnswered` leaves out `lost` commands (finding 1).
- `PartsCleaned` leaves out the parts a store failed to delete (`abandoned`) and
  those of a process that died: no code looks for them later.
- `AnswersHold` is about stores that answered with a book; a store that answers
  "published" promises only that the book was there.
- In `RoutedContract` a stop ends the requests whose callers have left
  (`covers`). A request that is still wanted while another session stops the
  shared router is cut short if it is sounding, but goes on if it is between two
  attempts: `stop` reaches the engines, not the route.
- In `RoutedContract` the player counts as silent once it has let go of a playback
  and posted its stop: the main thread handles posts in order.

## 4. Fairness

- `SpeechSession`: weak fairness of the owner (a coroutine that can run is
  dispatched; externals return or fail), of timers (`delay` ends), and of
  `CancelOwner`, the second half of `close()`. None for playback jobs, so no
  property waits for an utterance to end, nor for callers.
- `ReaderLayout`: weak fairness of `StyleApplied` and of reload coroutines, which
  run in a `SupervisorJob` scope nobody cancels (`base/.../Coroutines.kt`
  34-44); parsing may fail but ends. None for the user or the voice.
- `BookImport`: weak fairness of each import's steps (a suspending call returns,
  fails or is cancelled) and strong fairness of `Acquire`, because Kotlin's
  `Mutex` serves waiters in order. None for the shelf or for crashes.
- `PrivateBookStore`: weak fairness of each store that was called (a system call
  returns or fails). The lock needs no more: whoever holds it gives it up.
- `SystemTtsEngine`: weak fairness of the owner, of the initialisation job, of the
  two halves of a call (`AdmitSpeak`, `SignalCancel`), and of the platform, which
  ends an utterance and reports it: Android's contract, and the reason
  `EveryCallEnds` may wait for it. None for speak, stop, close or cancellation.
- `OnlineSpeech`: none; its properties are safety properties. A request may wait
  for ever (see the late stop under Findings).

## 5. Proofs

TLAPS proves every safety property of the passing runs, the three refinements
among them, for any sets of callers, sources, books, importers, contents and
requests, any bounds and any choice of failing externals. The assumptions are
`SessionAssumption`, `ContentAssumption`, `LayoutAssumption`, `ImportAssumption`,
`NoneIsNoRow`, `BookAssumption`, `NamesAssumption`, `NoneIsNoCall`,
`RequestsAssumption`, `CacheAssumption`, `ResultsAssumption` and
`RouterAssumption`, which the runs evaluate: constants have their types, null is
no value of theirs, and the requests of one process are finitely many. Each
proof rests on an inductive invariant `Spec => []...`; the theorems are named
with the property they state.

- `SpeechSessionProofs`: `TypeCorrect` (`[]TypeOK`), `OneVoice`
  (`[]OneLivePlayback`), through `Inductive` (`[]IInv`), `IInv == TypeOK /\
  Control /\ Live`. `OneLivePlayback` alone is not inductive: that a replaced
  job cannot report needs that generations only grow and that no queued result
  carries a future one (`Live`); that a handler resumes with what it needs (a
  source, a segment, a message of the right kind) is `Control`. One lemma per
  handler shows the three parts preserved.
- `SpeechReadingProofs`: on top of that, `ShownIsHeard` (`[]PlayingIsLive`),
  `ProgressIsRead` (`[]CommitIsCurrent`), `QuietWhenStopped` (`[]Silence`),
  `SourcesClosed` (`[]NoLeakedSource`), `DeadlineIsArmed` (`[]TimerArmed`) and
  `SessionReadsInOrder` (`ReadsInOrder`, the refinement of `SpeechPlayback`). All but the timer's rest on `Reading`: what can still report is the playback of the
  published segment (`Named`); while "Playing" is shown something can report,
  unless a cancellation or a failed command took it (`Alive`); what was replaced
  is heard only until `engine.stop()` has returned (`Echo`); the source is at the
  published segment (`Aligned`); and what the state says at each suspension
  (`Places`); and that there is no source before the owner runs or after it has
  ended, and no sound but one its last stop failed to end (`Ended`). Timers have an
  invariant of their own (`Armed`) and the timer that stops the session another
  (`LastDeadline`); that a source let go of is closed is shown of every step
  (`LetGo`).
  The refinement maps each handler's end to one step of the listener's view and
  everything else to a stutter.
- `SpeechContentProofs`: `TypeCorrect`, `VoiceSelected` (`[]VoiceIsSelected`),
  `MovesUndone` (`[]MovesInvert`) and `GoesOnInOrder` (`ContinuesInOrder`), for any
  book. All rest on what the text is: `TextLists` says that flattening the pages
  lists each segment once and in order. `FlattenSeq` is a recursive function; that
  its equation has a solution and what the solution is are shown with the least
  counterexample in place of an induction rule (`LeastNumber`, `Everything`: a
  non-empty set of numbers has a least one). `ForwardIs` and `BackwardIs` then
  say where the search over blank pages ends, `NextIs` and `PreviousIs` where a
  move leads, and `RightBehind` that the segment with none between is the one that
  follows. The invariant is `IInv`: the cursor points into the book, and the voice
  reads what it has selected.
- `ReaderLayoutProofs`: `TypeCorrect`, `LatestWins` (`[]LatestReloadWins`),
  `SeekIsCurrent` (`SeekKeepsLayout`) and `ToldInTime` (`ToldWhenShown`), through
  `InvariantKept`. A token names one reload (`Tokens`), so at most one coroutine is
  current, and what it has parsed is in the style of the day (`Parsed`); until it
  ends each cached chapter is right or still on its list (`Underway`), and with the
  fence open all are right (`Settled`), unless `doubt` records why not. A seek
  remembers its token, which dates the chapter it parsed (`Dated`).
- `BookImportProofs`: `TypeCorrect` (`[]TypeOK`), `BooksOpen` (`[]RowHasFile`),
  `AnswersTrue` (`[]AnswerIsTrue`), `FaultlessKept` (`[]FaultlessImportIsKept`),
  `KeepsFiles` (`KeepsListedFiles`) and `RefusedLeaves` (`RefusedLeavesNothing`), the
  last two action properties, through `Inductive`,
  `IInv == TypeOK /\ Knows /\ Present /\ RowHasFile /\ Answering`. The argument: whoever is
  past the lock holds it (`HoldsLock`), so two imports of one content exclude
  each other (`Exclusion`); what one learnt of the catalogue under the lock
  therefore stays true (`Matched`, `Unlisted`), although the shelf takes hashes
  and rows away at any time (`FewerRows`); an import deletes only its own copy,
  and only when no row has its hash or the row names another file (`StepDisk`),
  hence never a listed one (`KeepsFile`); and the copy to be listed is still
  there when its row is inserted (`Present`). `Answering` adds what an import that
  is about to answer knows: one that takes its copy away will refuse (`Planned`),
  one that names a row names one of its content (`Named`, `Shown`), and where
  nothing went wrong a copy is missing only if another import found the content
  listed (`Faultless`); the last has to follow an import from its first step.
  `LockReleased` (`[]LockIsExact`) is the safety half of `EveryImportEnds`: no
  outcome of an import leaves its lock behind.
- `PrivateBookStoreProofs`: `TypeCorrect`, `NoTornBook` (`[]WholeBooks`),
  `AnswersAreDurable` (`[]AnswersHold`), `PublishedOnce` (`NeverReplaced`) and
  `PartsGone` (`PartsCleaned`), through `Inductive`. `WholeBooks` needs
  `Staged`: a store that renames has synced its part. `AnswersHold` needs to
  know whose file may stand under a book's name (`Credited`: a store that failed
  has none there), that a store still at work finds the book it vouches for
  (`Kept`), and from which step on it relies on a sync of the directory
  (`Durable`); the loser of a race syncs the directory itself, so it needs
  nothing of the winner. `PartsCleaned` needs to know that the rename has used
  the part up, and that a part which was never made cannot come back with a
  power failure (`Parts`).
  `OnePublishes` (`[]LockIsInUse`) is the safety half of `EveryStoreEnds`: whoever
  holds the `flock` is publishing or about to close its descriptor.
- `SystemTtsEngineProofs`: `KeepsContract` (`Contract`, the refinement of
  `SpeechEngine`), `ClosedIsReleased` (`[]CloseReleases`) and `TypeCorrect`, through
  `Inductive`, `IInv == TypeOK /\ Sent /\ Reported /\ Owned /\ Once /\ Ahead`. The
  contract alone is not inductive: that a stop returns only when its calls are over
  needs the order of the channel, where a call that waits stands ahead of every stop
  that covers it (`Ahead`); that a callback ends its own call and no other needs that a
  call is queued once and reported after it was spoken (`Once`); that nobody is
  `Completed` unheard is `Reported`. `Sends` and `Receipts` say once what a message
  sent or received does to the channel; then one lemma per handler for the invariant
  and one per handler for the step it maps to (most are `Serve`). `CloseReleases`
  needs to know in whose hands a live platform is (`Held`).

- `OnlineSpeechProofs`: `KeepsContract` (`RoutedContract`: `[]OneVoice` and the
  refinement of `SpeechEngine`), `CacheInScope` (`[]CacheWithinScope`) and
  `TypeCorrect`, through `InvariantKept`, over the four modules composed. At most
  one request is unsettled (`Turn`); the player works for it alone (`Playing`),
  and whatever else the ExoPlayer still plays has a stop posted behind it
  (`Silencing`); the system voice is that request's, or one whose stop has not
  come back (`Voiced`). So whichever voice sounds, sounds for the request that may,
  although the player's coroutine, its main-thread posts, the retries and a stop
  each run at their own time. `Kept` is the cache: an entry is of the scope of the
  newest token, and fits.

Only model-checked: liveness, which is out of the prover's reach
(`EveryCommandAnswered`, `SleepTimerEnds` and `CloseReleases` of the session,
`FenceReleased`, `EveryImportEnds`, `EveryStoreEnds`, `EveryCallEnds`). The four
properties that runs find violated (section 6) are of course not theorems.

## 6. Findings

1. `session_pending_ack`: a command handed to the suspended owner is lost when
   the owner is cancelled before it is dispatched; its caller waits for ever.
2. `content_goes_back`: turning to a page without text while a PDF is read makes
   the voice start the book again when the segment ends.
3. `reader_wrong_chapter`: a turn made before a jump has loaded shows a chapter
   the reader is not at.
4. `book_listed_twice`: any update of a book writes null over its hash, so the
   same content can be imported a second time; both rows share one file.

Met while reading, without a run:

- `engine.stop()` throwing in the middle of a command (SpeechSession 285) fails the command after the playback was cancelled:
  "Playing" stays published and nothing plays until the next command that works
  (`Damage`, `"silent"`).
- A Start that is drained when the session closes, or refused by a closed one,
  never reaches `startOnOwner`, so nobody closes its content source:
  `ReaderSpeechManager.start` (124-133) only passes the failure on.
- A failed `previous` over blank first pages leaves the reflowable source at the
  first page with no selection (selectFirstNonEmpty, 102-114): the segment that
  was being read is read again (the second half of `MovesInvert`). After a failed
  `next` over blank last pages there is no selection either, and `previous`
  answers null as `current` only looks forward: the user cannot go back.
- A session that takes over: its first request can overtake the old session's
  last `router.stop()`, whose second half (SpeechEngineRouter 65-69) then ends the
  new playback as Cancelled, and the new session shows Paused. The stop of the
  system voice comes first in that call and is normally posted before the new
  request is asked, so the old voice does not go on.

- `nextSpeechPage` and `previousSpeechPage` (PageViewController 1258-1309) do not
  look at the fence: a voice entering the next chapter during a restyle can put
  back a chapter of the old layout (`FollowBegins`, `FollowActivates`).
- A swipe during a restyle makes a neighbour of the old style the current
  chapter (886, 948), which nothing reloads.
- `removeBooks` (HomeViewModel 583-635) deletes the file and then the row without
  the hash lock, contrary to the comment at BookImportCoordinator.kt 15-16; if the process dies
  in between, the row cannot be removed any more because `bookFile.exists()` is
  false.
- A stored file that fails validation (BookImportService 142), a duplicate whose
  listed file is missing (INVALID) and a lock that cannot be taken leave the new
  copy behind; the next import of the same content adopts it.
- Part files: if the directory cannot be synced for an existing book
  (PrivateBookStore 139-141, outside the `try` that cleans up) the part is left
  behind; so is one whose deletion fails, and one of a process that dies, and
  nothing ever looks for them. The sync at 139-141 is not needed for the answer:
  `cleanupPartDurably` (958-987) syncs the directory again.
- Queued commands of a session get a callback's failure (`terminalFailure`) where
  the class comment (SpeechSession.kt 54-57) promises a `CancellationException`.
- A late stop of the player: a worker that is cancelled before it suspends in
  `ExoPlayerEncodedAudioBackend.play` posts `removeListener` and `player.stop()`
  when it gets there (199-204). If a newer playback has been prepared by then, it
  is stopped; its listener never hears of an end, so `playMp3` waits until
  somebody stops it. The comment at Media3EncodedAudioPlayer.kt 36-37 says stop
  only ends the active playback. `OnlineSpeech` has the trace
  (`WorkerWasCancelled`, `LooperStops`); safety is not touched.
- `applyPreferences` (ReaderSpeechManager 163-181) gives a running session a new
  mode, but `RoutingSpeechEngine` keeps the mode it was made with: going offline
  takes effect at the next start.
- SystemTtsEngine: when a caller that is completed inline closes the engine again
  (202), the new call may stay in `pendingSpeech`; close on the owner's thread
  before `ownerThread` is set would wait for itself (172); `finishCloseBeforeOwnerStart`
  lets close return (324) before the drained calls are answered (325), one step
  here. The application never closes this engine.

## 7. Not modelled

Most of the repository is not this program's own logic. Of the C, C++ and Java
lines nearly all are vendored: OpenJPEG, libpng, libtiff, lcms2, tidy-html5,
gumbo, libmobi, a speech library. They are third-party code, and data
transformation at that. The own native code is `app/src/main/cpp`, some 600
lines, and `PrivateBookStore` models it; the rest of the program's own logic is
Kotlin, which is where the other modules point.

Left out of what is modelled: descriptors and the comparison of directory
identities in the store (calls that may fail); cancellation raised by a file
operation itself, and fatal `Error`s (they end the process, as `Crash` does);
other processes; pages within a chapter, search, annotations; the text of
segments and their highlighting; a cached file that cannot be deleted (it stays in
the directory of another chapter, where no token of this one looks); voice parameters; the HTTP client. The
engines' `close` under the router is left out because the session never calls it.

Not modelled at all: the playback service, media session and audio focus with
`ReaderSpeechManager`; the online import, download and discovery; the skin; the
credentials. Components that are pure data transformation or I/O are listed in
`PROJECT.json` with the reason.

## 8. Plan

Done: every module of section 2. Next, in order:

1. `OnlineImport`, composed with `BookImport` (its `Execute` as the inner
   operation): keyed lock, ledger, staging, crash between import and ledger.
2. `DiscoveryRepository`, `DiscoveryAcquisition`: parallel sources with a grace
   period; acquisitions replaced and cancelled.
3. The playback service and `ReaderSpeechManager`, composed with the session.
4. The skin's three writes, the credential store.

Proofs to add: for each liveness property, the safety half its argument needs,
that whatever waits has something that will answer it. The holders of the two locks
are done (`LockReleased`, `OnePublishes`); the queued commands of the session and
the calls of the two engines remain.
