----------------------------- MODULE ReaderLayout -----------------------------
(***************************************************************************)
(* The reader's chapter cache and its layout fence (PageViewController.kt), *)
(* as the read-aloud source sees it.  Parsing a chapter takes time and      *)
(* happens off the main thread with the style of that moment; the reader    *)
(* may meanwhile turn to another chapter, jump, or change the style, each   *)
(* of which starts a reload with a generation of its own, and the read-     *)
(* aloud source may follow the voice into the next chapter or seek.         *)
(*                                                                          *)
(* Abstracted: pages (a chapter is a position and the style it was laid out *)
(* in), annotations, progress, and the drawing of views.  One book is open. *)
(***************************************************************************)
EXTENDS Naturals, Sequences, FiniteSets

CONSTANTS
  ChapterSize,     \* how many chapters the book has
  MaxGeneration,   \* bound on the operations that start a reload
  MaxStyle,        \* bound on the changes of style
  Faults,          \* {"parse"} when a chapter may fail to load, else {}
  None             \* null

ASSUME LayoutAssumption ==
  /\ ChapterSize \in Nat \ {0} /\ MaxGeneration \in Nat /\ MaxStyle \in Nat
  /\ Faults \subseteq {"parse"}
  /\ None \notin [position : Nat, style : Nat]

Positions == 1..ChapterSize
Chapters  == [position : Positions, style : 0..MaxStyle]

VARIABLES
  style,       \* what ChapterProvider lays out with
  styling,     \* upStyle() coroutines that have not applied their style yet
  generation,  \* speechLayoutState.generation; readerLoadSerial moves with it
  reloading,   \* speechLayoutState.activeReloadGeneration, 0 for null
  dur,         \* durChapterIndex
  prev, cur, next,   \* the cached chapters
  reloads,     \* reload coroutines that have not ended
  call,        \* the read-aloud source's call in flight, or None
  doubt        \* history: why the cache may be wrong when all is quiet

caches == <<dur, prev, cur, next>>
fence  == <<generation, reloading>>
vars == <<style, styling, fence, caches, reloads, call, doubt>>

-----------------------------------------------------------------------------
(* Reloads *)

\* A reload loads the sets of `stages` one after the other, the chapters of one
\* set concurrently; `parsed` are loaded and wait for the main thread.  `shown`:
\* the chapter it was started for is in place; `user`: it tells the reader so.
Reload(token, target, stages, shown, user) ==
  [token |-> token, target |-> target, shown |-> shown, user |-> user, parsed |-> {},
   stages |-> stages]

\* Where there is no chapter to load there is no stage.
Stage(positions) == IF positions = {} THEN <<>> ELSE <<positions>>

MutantBeyondBook(positions) == positions

InBook(positions) == positions \cap Positions

\* beginSpeechLayoutReload() and the coroutine launched with its token.
BeginReload(target, stages, shown, user) ==
  /\ generation' = generation + 1
  /\ reloading' = generation + 1
  /\ reloads' = reloads \cup {Reload(generation + 1, target, stages, shown, user)}

\* loadContent(resetPageOffset): the current chapter, then its neighbours.
LoadContent(target, user) ==
  BeginReload(target, Stage({target}) \o Stage(InBook({target + 1})) \o Stage(InBook({target - 1})),
              FALSE, user)

\* invalidateSpeechLayout(): every token is stale, and the fence is open.
Invalidate == generation' = generation + 1 /\ reloading' = 0

MutantAnyLoad(r) == TRUE

\* isCurrentReaderLoad(token) of a reload.
IsCurrentLoad(r) == generation = r.token /\ reloading = r.token

At(p) == [position |-> p, style |-> style]

\* A cached chapter is the one the reader takes it for, in the style of the day;
\* what is cached beyond the book's ends is never looked at.
Fits(chapter, p) == p \in Positions /\ chapter # None => chapter.position = p /\ chapter.style = style

Doubtful(reason) == doubt' = IF Fits(prev', dur' - 1) /\ Fits(cur', dur') /\ Fits(next', dur' + 1)
                               THEN doubt ELSE doubt \cup {reason}

-----------------------------------------------------------------------------
\* A book has been opened and its reload has ended.
Init ==
  /\ style = 0 /\ styling = 0
  /\ dur \in Positions /\ cur = At(dur)
  /\ prev = IF dur > 1 THEN At(dur - 1) ELSE None
  /\ next = IF dur < ChapterSize THEN At(dur + 1) ELSE None
  /\ generation = 1 /\ reloading = 0 /\ reloads = {}
  /\ call = None /\ doubt = {}

-----------------------------------------------------------------------------
(* The reader *)

\* moveToNextChapter(): the next chapter's cache becomes the current one.
MoveToNextChapter ==
  /\ generation < MaxGeneration
  /\ cur # None /\ dur < ChapterSize
  /\ dur' = dur + 1
  /\ prev' = cur /\ cur' = next /\ next' = None
  /\ BeginReload(dur', Stage((IF cur' = None THEN {dur'} ELSE {}) \cup InBook({dur' + 1})),
                 cur' # None, TRUE)
  /\ Doubtful("promoted")
  /\ UNCHANGED <<style, styling, call>>

\* moveToPrevChapter(), which a swipe back on page 0 calls even before the
\* current chapter is there.
MoveToPrevChapter ==
  /\ generation < MaxGeneration
  /\ dur > 1
  /\ dur' = dur - 1
  /\ next' = cur /\ cur' = prev /\ prev' = None
  /\ BeginReload(dur', Stage((IF cur' = None THEN {dur'} ELSE {}) \cup InBook({dur' - 1})),
                 cur' # None, TRUE)
  /\ Doubtful("promoted")
  /\ UNCHANGED <<style, styling, call>>

\* changeChapter(): a link or the table of contents; the caches stay as they are.
ChangeChapter(p) ==
  /\ generation < MaxGeneration
  /\ dur' = p
  /\ LoadContent(p, TRUE)
  /\ doubt' = {}
  /\ UNCHANGED <<style, styling, prev, cur, next, call>>

\* updatePageViews(), first half: the layout is void, the new style not yet there.
UpdatePageViews ==
  /\ generation < MaxGeneration /\ style + styling < MaxStyle
  /\ Invalidate
  /\ styling' = styling + 1
  /\ UNCHANGED <<style, caches, reloads, call, doubt>>

\* ... second half: upStyle() has applied the style and loads everything again.
StyleApplied ==
  /\ styling > 0
  /\ styling' = styling - 1
  /\ style' = style + 1
  /\ LoadContent(dur, FALSE)
  /\ doubt' = {}
  /\ UNCHANGED <<caches, call>>

-----------------------------------------------------------------------------
(* A reload's coroutine *)

Replace(r, q) == reloads' = (reloads \ {r}) \cup {q}

Parse(r, p) ==
  /\ r.stages # <<>> /\ p \in Head(r.stages)
  /\ \A chapter \in r.parsed : chapter.position # p
  /\ Replace(r, [r EXCEPT !.parsed = @ \cup {At(p)}])
  /\ UNCHANGED <<style, styling, fence, caches, call, doubt>>

\* Where an installed chapter goes: by the reader's place of this moment.
Place(chapter) ==
  /\ cur'  = IF chapter.position = dur     THEN chapter ELSE cur
  /\ prev' = IF chapter.position + 1 = dur THEN chapter ELSE prev
  /\ next' = IF chapter.position = dur + 1 THEN chapter ELSE next

Done(r, chapter) ==
  LET left == Head(r.stages) \ {chapter.position} IN
    [r EXCEPT !.parsed = @ \ {chapter},
              !.stages = IF left = {} THEN Tail(@) ELSE <<left>> \o Tail(@)]

\* The end of loadContent(chapterIndex, ...) on the main thread.
Install(r, chapter) ==
  /\ chapter \in r.parsed
  /\ IF IsCurrentLoad(r)
       THEN /\ Place(chapter)
            /\ Replace(r, [Done(r, chapter) EXCEPT !.shown = @ \/ chapter.position = r.target])
       ELSE /\ UNCHANGED <<prev, cur, next>>
            /\ Replace(r, Done(r, chapter))
  /\ UNCHANGED <<style, styling, fence, dur, call, doubt>>

MutantKeepsFence(r) == UNCHANGED fence

\* finishSpeechLayoutReload(token)
ReleaseFence(r) ==
  /\ reloading' = IF reloading = r.token THEN 0 ELSE reloading
  /\ UNCHANGED generation

MutantTellsAnyway(r) == r.user /\ r.shown /\ reloading = r.token

\* The reader is told of its user's page change as the reload ends.
Tells(r) == r.user /\ r.shown /\ reloading = r.token /\ dur = r.target

EndReload(r) ==
  /\ r.stages = <<>>
  /\ ReleaseFence(r)
  /\ reloads' = reloads \ {r}
  /\ UNCHANGED <<style, styling, caches, call, doubt>>

FailReload(r) ==
  /\ "parse" \in Faults /\ r.stages # <<>>
  /\ ReleaseFence(r)
  /\ reloads' = reloads \ {r}
  /\ doubt' = IF reloading = r.token THEN doubt \cup {"failed"} ELSE doubt
  /\ UNCHANGED <<style, styling, caches, call>>

ReloadStep(r) ==
  \/ \E p \in Positions : Parse(r, p)
  \/ \E chapter \in r.parsed : Install(r, chapter)
  \/ EndReload(r) \/ FailReload(r)

-----------------------------------------------------------------------------
(* The read-aloud source: one call at a time, from the session's owner *)

Cached(p) ==
  LET found == {chapter \in {cur, prev, next} \ {None} : chapter.position = p}
  IN IF found = {} THEN None
     ELSE CHOOSE chapter \in found :
            \/ chapter = cur
            \/ chapter = prev /\ cur \notin found
            \/ {cur, prev} \cap found = {}

Call(op, p, g, chapter) ==
  [op |-> op, position |-> p, generation |-> g, chapter |-> chapter,
   own |-> chapter = None, checked |-> FALSE]

\* loadSpeechPage(), up to the chapter's parsing, if it is not cached.
SeekBegins(p) ==
  /\ call = None
  /\ reloading = 0
  /\ call' = Call("seek", p, generation, Cached(p))
  /\ UNCHANGED <<style, styling, fence, caches, reloads, doubt>>

\* nextSpeechPage() and previousSpeechPage() at a chapter's edge, and
\* currentSpeechPage() where no chapter is shown: they do not look at the fence.
FollowBegins ==
  /\ call = None
  /\ \E p \in InBook(IF cur = None THEN {dur} ELSE {dur + 1} \cup {dur - 1}) :
       call' = Call("follow", p, generation, Cached(p))
  /\ UNCHANGED <<style, styling, fence, caches, reloads, doubt>>

SpeechParses ==
  /\ call # None /\ call.chapter = None
  /\ \/ call' = [call EXCEPT !.chapter = At(call.position)]
     \/ "parse" \in Faults /\ call' = None
  /\ UNCHANGED <<style, styling, fence, caches, reloads, doubt>>

MutantUnfenced(g) == reloading = 0

SameLayout(g) == reloading = 0 /\ generation = g

\* loadSpeechPage(), last part: the candidate, or null.
SeekLoads ==
  /\ call # None /\ call.op = "seek" /\ call.chapter # None /\ ~call.checked
  /\ call' = IF SameLayout(call.generation) THEN [call EXCEPT !.checked = TRUE] ELSE None
  /\ UNCHANGED <<style, styling, fence, caches, reloads, doubt>>

\* activateSpeechChapter()
Activate(chapter) ==
  /\ dur' = chapter.position /\ cur' = chapter
  /\ prev' = IF chapter.position = dur + 1 THEN cur ELSE IF chapter.position = dur THEN prev ELSE None
  /\ next' = IF chapter.position + 1 = dur THEN cur ELSE IF chapter.position = dur THEN next ELSE None
  /\ Doubtful("followed")

\* activateSpeechPage(candidate)
SeekActivates ==
  /\ call # None /\ call.checked
  /\ call' = None
  /\ IF SameLayout(call.generation) THEN Activate(call.chapter) ELSE UNCHANGED <<caches, doubt>>
  /\ UNCHANGED <<style, styling, fence, reloads>>

FollowActivates ==
  /\ call # None /\ call.op = "follow" /\ call.chapter # None
  /\ call' = None
  /\ Activate(call.chapter)
  /\ UNCHANGED <<style, styling, fence, reloads>>

-----------------------------------------------------------------------------
SpeechStep ==
  \/ \E p \in Positions : SeekBegins(p)
  \/ FollowBegins \/ SpeechParses \/ SeekLoads \/ SeekActivates \/ FollowActivates

Next ==
  \/ MoveToNextChapter \/ MoveToPrevChapter \/ UpdatePageViews \/ StyleApplied
  \/ \E p \in Positions : ChangeChapter(p)
  \/ \E r \in reloads : ReloadStep(r)
  \/ SpeechStep

Spec == Init /\ [][Next]_vars

\* upStyle() and the reload coroutines end, whatever else happens.
Fairness == WF_vars(StyleApplied) /\ WF_vars(\E r \in reloads : ReloadStep(r))

FairSpec == Spec /\ Fairness

-----------------------------------------------------------------------------
(* Properties *)

Caches == Chapters \cup {None}

TypeOK ==
  /\ style \in 0..MaxStyle /\ styling \in 0..MaxStyle
  /\ generation \in Nat /\ reloading \in 0..generation
  /\ dur \in Positions /\ prev \in Caches /\ cur \in Caches /\ next \in Caches
  /\ \A r \in reloads :
       /\ r.token \in 1..generation /\ r.target \in Positions
       /\ r.stages \in Seq(SUBSET Positions) /\ r.parsed \subseteq Chapters
       /\ r.shown \in BOOLEAN /\ r.user \in BOOLEAN
  /\ call # None => /\ call.position \in Positions /\ call.chapter \in Caches
                    /\ call.chapter # None => call.chapter.position = call.position
  /\ doubt \subseteq {"promoted", "followed", "failed"}

Quiet == reloads = {} /\ styling = 0

(* When all reloads have ended the reader shows the chapter it is at, laid    *)
(* out in the latest style, and so are the neighbours it will turn to: no     *)
(* older reload, finishing late and out of order, has put back what it        *)
(* parsed.  Not if a reload failed, or if a turn or the voice took over a     *)
(* chapter that was already out of place when they did (doubt).               *)
LatestReloadWins ==
  Quiet /\ doubt = {} =>
    /\ cur # None
    /\ Fits(prev, dur - 1) /\ Fits(cur, dur) /\ Fits(next, dur + 1)

(* A chapter that a seek parsed itself is shown in the style of the day, even *)
(* if the style changed while it was parsed or before it was activated.       *)
SeekKeepsLayout ==
  [][ (SeekActivates /\ call.own /\ cur' # cur) => cur' = At(call.position) ]_vars

(* The fence of a reload, be it superseded or failed, is released in the end: *)
(* the reader never refuses seeks for ever (143-146).                         *)
FenceReleased == reloading # 0 ~> reloading = 0

(* The reader is told of a page change of its user only once the chapter it   *)
(* changed to is shown, for it answers by telling the voice to read from      *)
(* there; unless a chapter was taken over while it was out of place.          *)
ToldWhenShown ==
  [][ \A r \in reloads :
        (EndReload(r) /\ Tells(r) /\ doubt = {}) =>
           cur' # None /\ cur'.position = r.target ]_vars

-----------------------------------------------------------------------------
(* "latest manual navigation wins when two manual operations finish out of    *)
(* order" (ReflowableSpeechContentSourceTest.kt 713): once all is quiet, and  *)
(* nothing failed, the reader shows the chapter it is at.                     *)
LatestNavigationWins == Quiet => cur # None /\ cur.position = dur

===============================================================================
