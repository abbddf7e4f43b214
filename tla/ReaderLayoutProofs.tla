-------------------------- MODULE ReaderLayoutProofs --------------------------
(***************************************************************************)
(* Proofs about ReaderLayout: type correctness, that the latest reload wins *)
(* over older ones that finish late, that a seek never shows a chapter in   *)
(* an outdated style, and that the reader is told of a page change only     *)
(* when the page is there.                                                  *)
(*                                                                          *)
(* The argument.  A token names one reload, so at most one coroutine is     *)
(* current; what it has parsed is in the style of the day, because applying *)
(* a style takes a new token.  While it is at work every cached chapter is  *)
(* right or still on its list (Underway), so that all are right when the    *)
(* list is empty and the fence opens (Settled).  A seek remembers the token *)
(* it started from, which dates the chapter it parses in the same way.      *)
(***************************************************************************)
EXTENDS ReaderLayout, TLAPS

(* The records behind the variables *)

ReloadRecords ==
  [token : Nat \ {0}, target : Positions, stages : Seq(SUBSET Positions),
   parsed : SUBSET Chapters, shown : BOOLEAN, user : BOOLEAN]

CallRecords ==
  [op : {"seek", "follow"}, position : Positions, generation : Nat, chapter : Caches,
   own : BOOLEAN, checked : BOOLEAN]

\* The positions some stages have still to load.
Ahead(stages) == UNION {stages[i] : i \in DOMAIN stages}

Left(r) == Ahead(r.stages)

Right == Fits(prev, dur - 1) /\ Fits(cur, dur) /\ Fits(next, dur + 1) /\ cur # None

(***************************************************************************)
(* The inductive invariant *)

Typed ==
  /\ style \in Nat /\ styling \in Nat /\ style + styling <= MaxStyle
  /\ generation \in Nat /\ reloading \in {0, generation}
  /\ dur \in Positions /\ prev \in Caches /\ cur \in Caches /\ next \in Caches
  /\ reloads \subseteq ReloadRecords
  /\ call \in CallRecords \cup {None}
  /\ call # None /\ call.chapter # None => call.chapter.position = call.position
  /\ doubt \subseteq {"promoted", "followed", "failed"}

\* A token belongs to one reload, was given once, and a raised fence to a reload
\* that will open it.
Tokens ==
  /\ \A r \in reloads : r.token <= generation
  /\ \A r, q \in reloads : r.token = q.token => r = q
  /\ reloading # 0 => \E r \in reloads : r.token = reloading

\* What a coroutine has parsed is part of the stage it is in, one chapter for each
\* position, and in the style of the day if its token is the latest.
Parsed ==
  \A r \in reloads :
    /\ \A chapter \in r.parsed : r.stages # <<>> /\ chapter.position \in Head(r.stages)
    /\ \A a, b \in r.parsed : a.position = b.position => a = b
    /\ r.token = generation => \A chapter \in r.parsed : chapter.style = style

\* Each cached chapter is right or still to be loaded by the current reload.
Underway ==
  doubt = {} =>
    \A r \in reloads : r.token = reloading =>
      /\ Fits(prev, dur - 1) \/ dur - 1 \in Left(r)
      /\ (Fits(cur, dur) /\ cur # None) \/ dur \in Left(r)
      /\ Fits(next, dur + 1) \/ dur + 1 \in Left(r)

\* With the fence open and no style on its way, every cached chapter is right.
Settled == doubt = {} /\ reloading = 0 /\ styling = 0 => Right

\* The chapter that a call parsed itself is in the style of the day, as long as
\* no token was given since the call began; a candidate has a chapter.
Dated ==
  call # None =>
    /\ call.generation <= generation
    /\ call.checked => call.chapter # None
    /\ call.own /\ call.chapter # None /\ call.generation = generation =>
         call.chapter.style = style

IInv == Typed /\ Tokens /\ Parsed /\ Underway /\ Settled /\ Dated

-----------------------------------------------------------------------------
(* Facts about the operators of the model *)

(* A chapter is never null, and a position of the book laid out in the style  *)
(* of the day is a chapter.                                                   *)
LEMMA ChaptersExist ==
  /\ Positions \subseteq Nat
  /\ \A c \in Chapters : c # None /\ c.position \in Positions /\ c.style \in 0..MaxStyle
  /\ \A p \in Positions : style \in 0..MaxStyle =>
       At(p) \in Chapters /\ At(p).position = p /\ At(p).style = style
<1>1. Positions \subseteq Nat
  BY LayoutAssumption DEF Positions
<1>2. Chapters \subseteq [position : Nat, style : Nat]
  <2>1. 0..MaxStyle \subseteq Nat
    BY LayoutAssumption
  <2> QED
    BY <1>1, <2>1 DEF Chapters
<1>3. None \notin Chapters
  BY <1>2, LayoutAssumption
<1> QED
  BY <1>1, <1>3 DEF Chapters, At

(* The bound on changes of style counts those on their way.                   *)
LEMMA StyleBounded == Typed => style \in 0..MaxStyle /\ styling \in 0..MaxStyle
  BY LayoutAssumption DEF Typed

(* An empty stage is left out, and nothing else is.                           *)
LEMMA StageLoads ==
  ASSUME NEW s \in SUBSET Positions
  PROVE  Stage(s) \in Seq(SUBSET Positions) /\ Ahead(Stage(s)) = s
<1>1. CASE s = {}
  <2>1. Stage(s) = << >>
    BY <1>1 DEF Stage
  <2>2. << >> \in Seq(SUBSET Positions) /\ DOMAIN << >> = {}
    OBVIOUS
  <2>3. ASSUME NEW p PROVE p \notin Ahead(<< >>)
    BY <2>2 DEF Ahead
  <2> QED
    BY <1>1, <2>1, <2>2, <2>3
<1>2. CASE s # {}
  <2>1. Stage(s) = <<s>>
    BY <1>2 DEF Stage
  <2>2. <<s>> \in Seq(SUBSET Positions) /\ DOMAIN <<s>> = {1} /\ <<s>>[1] = s
    OBVIOUS
  <2> QED
    BY <2>1, <2>2 DEF Ahead
<1> QED
  BY <1>1, <1>2

(* Stages one after the other load what each of them loads.                   *)
LEMMA StagesLoad ==
  ASSUME NEW s \in Seq(SUBSET Positions), NEW t \in Seq(SUBSET Positions)
  PROVE  s \o t \in Seq(SUBSET Positions) /\ Ahead(s \o t) = Ahead(s) \cup Ahead(t)
<1>1. /\ s \o t \in Seq(SUBSET Positions) /\ Len(s \o t) = Len(s) + Len(t)
      /\ Len(s) \in Nat /\ Len(t) \in Nat
      /\ DOMAIN s = 1..Len(s) /\ DOMAIN t = 1..Len(t) /\ DOMAIN (s \o t) = 1..(Len(s) + Len(t))
      /\ \A i \in 1..Len(s) : (s \o t)[i] = s[i]
      /\ \A i \in 1..Len(t) : (s \o t)[Len(s) + i] = t[i]
  OBVIOUS
<1>2. ASSUME NEW p PROVE p \in Ahead(s \o t) <=> p \in Ahead(s) \/ p \in Ahead(t)
  <2>1. ASSUME p \in Ahead(s \o t) PROVE p \in Ahead(s) \/ p \in Ahead(t)
    <3>1. PICK i \in 1..(Len(s) + Len(t)) : p \in (s \o t)[i]
      BY <1>1, <2>1 DEF Ahead
    <3>2. CASE i <= Len(s)
      BY <1>1, <3>1, <3>2 DEF Ahead
    <3>3. CASE i > Len(s)
      <4>1. i - Len(s) \in 1..Len(t) /\ Len(s) + (i - Len(s)) = i
        BY <1>1, <3>3
      <4> QED
        BY <1>1, <3>1, <4>1 DEF Ahead
    <3> QED
      BY <1>1, <3>2, <3>3
  <2>2. ASSUME p \in Ahead(s) PROVE p \in Ahead(s \o t)
    <3>1. PICK i \in 1..Len(s) : p \in s[i]
      BY <1>1, <2>2 DEF Ahead
    <3>2. i \in 1..(Len(s) + Len(t))
      BY <1>1
    <3> QED
      BY <1>1, <3>1, <3>2 DEF Ahead
  <2>3. ASSUME p \in Ahead(t) PROVE p \in Ahead(s \o t)
    <3>1. PICK i \in 1..Len(t) : p \in t[i]
      BY <1>1, <2>3 DEF Ahead
    <3>2. Len(s) + i \in 1..(Len(s) + Len(t))
      BY <1>1
    <3> QED
      BY <1>1, <3>1, <3>2 DEF Ahead
  <2> QED
    BY <2>1, <2>2, <2>3
<1> QED
  BY <1>1, <1>2

(* What a loading coroutine is given is well-formed.                          *)
LEMMA NewReload ==
  ASSUME NEW token \in Nat \ {0}, NEW target \in Positions, NEW stages \in Seq(SUBSET Positions),
         NEW shown \in BOOLEAN, NEW user \in BOOLEAN,
         NEW r, r = Reload(token, target, stages, shown, user)
  PROVE  r \in ReloadRecords /\ r.token = token /\ r.parsed = {} /\ Left(r) = Ahead(stages)
  BY DEF Reload, ReloadRecords, Left

(* The stages that loadContent(resetPageOffset) goes through.                 *)
LEMMA AllThree ==
  ASSUME NEW target \in Positions
  PROVE  LET stages == Stage({target}) \o Stage(InBook({target + 1})) \o Stage(InBook({target - 1}))
         IN  /\ stages \in Seq(SUBSET Positions)
             /\ target \in Ahead(stages)
             /\ target + 1 \in Positions => target + 1 \in Ahead(stages)
             /\ target - 1 \in Positions => target - 1 \in Ahead(stages)
<1> DEFINE a == Stage({target})
           b == Stage(InBook({target + 1}))
           c == Stage(InBook({target - 1}))
<1>1. a \in Seq(SUBSET Positions) /\ Ahead(a) = {target}
  BY StageLoads
<1>2. /\ b \in Seq(SUBSET Positions)
      /\ target + 1 \in Positions => target + 1 \in Ahead(b)
  <2>1. InBook({target + 1}) \in SUBSET Positions
    BY DEF InBook
  <2>2. target + 1 \in Positions => target + 1 \in InBook({target + 1})
    BY DEF InBook
  <2> QED
    BY <2>1, <2>2, StageLoads
<1>3. /\ c \in Seq(SUBSET Positions)
      /\ target - 1 \in Positions => target - 1 \in Ahead(c)
  <2>1. InBook({target - 1}) \in SUBSET Positions
    BY DEF InBook
  <2>2. target - 1 \in Positions => target - 1 \in InBook({target - 1})
    BY DEF InBook
  <2> QED
    BY <2>1, <2>2, StageLoads
<1> HIDE DEF a, b, c
<1>4. a \o b \in Seq(SUBSET Positions) /\ Ahead(a \o b) = Ahead(a) \cup Ahead(b)
  BY <1>1, <1>2, StagesLoad
<1>5. (a \o b) \o c \in Seq(SUBSET Positions) /\ Ahead((a \o b) \o c) = Ahead(a \o b) \cup Ahead(c)
  BY <1>3, <1>4, StagesLoad
<1>6. /\ (a \o b) \o c \in Seq(SUBSET Positions)
      /\ target \in Ahead((a \o b) \o c)
      /\ target + 1 \in Positions => target + 1 \in Ahead((a \o b) \o c)
      /\ target - 1 \in Positions => target - 1 \in Ahead((a \o b) \o c)
  BY <1>1, <1>2, <1>3, <1>4, <1>5
<1> QED
  BY <1>6 DEF a, b, c

(* A chapter that has been installed, or dropped as stale, is off the list;   *)
(* everything else stays on it.                                               *)
LEMMA OffTheList ==
  ASSUME NEW r \in ReloadRecords, NEW chapter \in r.parsed,
         \A c \in r.parsed : r.stages # <<>> /\ c.position \in Head(r.stages),
         \A a, b \in r.parsed : a.position = b.position => a = b
  PROVE  LET d == Done(r, chapter) IN
           /\ d \in ReloadRecords
           /\ d.token = r.token /\ d.target = r.target /\ d.user = r.user /\ d.shown = r.shown
           /\ d.parsed = r.parsed \ {chapter}
           /\ \A c \in d.parsed : d.stages # <<>> /\ c.position \in Head(d.stages)
           /\ Left(r) \subseteq Left(d) \cup {chapter.position}
<1> DEFINE s == r.stages
           left == Head(s) \ {chapter.position}
           rest == IF left = {} THEN Tail(s) ELSE <<left>> \o Tail(s)
           d == Done(r, chapter)
<1>1. d = [r EXCEPT !.parsed = @ \ {chapter}, !.stages = rest]
  BY DEF Done
<1>2. s \in Seq(SUBSET Positions) /\ s # <<>>
  BY DEF ReloadRecords
<1> HIDE DEF s
<1>3. /\ Head(s) \in SUBSET Positions /\ Head(s) = s[1] /\ Tail(s) \in Seq(SUBSET Positions)
      /\ Len(s) \in Nat \ {0} /\ Len(Tail(s)) = Len(s) - 1
      /\ DOMAIN s = 1..Len(s) /\ DOMAIN Tail(s) = 1..(Len(s) - 1)
      /\ \A i \in 1..(Len(s) - 1) : Tail(s)[i] = s[i + 1]
  BY <1>2
<1>4. <<left>> \in Seq(SUBSET Positions) /\ Ahead(<<left>>) = left
  <2>1. left \in SUBSET Positions
    BY <1>3
  <2>2. <<left>> \in Seq(SUBSET Positions) /\ DOMAIN <<left>> = {1} /\ <<left>>[1] = left
    BY <2>1
  <2> QED
    BY <2>2 DEF Ahead
<1>5. rest \in Seq(SUBSET Positions) /\ Ahead(rest) = left \cup Ahead(Tail(s))
  <2>1. CASE left = {}
    BY <1>3, <2>1
  <2>2. CASE left # {}
    BY <1>3, <1>4, <2>2, StagesLoad
  <2> QED
    BY <2>1, <2>2
<1>6. Ahead(s) \subseteq Head(s) \cup Ahead(Tail(s))
  <2> SUFFICES ASSUME NEW p \in Ahead(s), p \notin Head(s) PROVE p \in Ahead(Tail(s))
    OBVIOUS
  <2>1. PICK i \in 1..Len(s) : p \in s[i]
    BY <1>3 DEF Ahead
  <2>2. i - 1 \in 1..(Len(s) - 1) /\ Tail(s)[i - 1] = s[i]
    BY <1>3, <2>1
  <2> QED
    BY <1>3, <2>1, <2>2 DEF Ahead
<1>7. d \in ReloadRecords /\ d.stages = rest /\ d.parsed = r.parsed \ {chapter}
      /\ d.token = r.token /\ d.target = r.target /\ d.user = r.user /\ d.shown = r.shown
  <2> HIDE DEF rest
  <2> QED
    BY <1>1, <1>5 DEF ReloadRecords
<1>8. ASSUME NEW c \in d.parsed PROVE d.stages # <<>> /\ c.position \in Head(d.stages)
  <2>1. c \in r.parsed /\ c # chapter /\ c.position \in Head(s) /\ c.position # chapter.position
    BY <1>7, <1>8 DEF s
  <2>2. left # {} /\ c.position \in left
    BY <2>1
  <2>3. rest # <<>> /\ Head(rest) = left
    BY <1>3, <1>4, <2>2
  <2> QED
    BY <1>7, <2>2, <2>3
<1>9. Left(r) \subseteq Left(d) \cup {chapter.position}
  BY <1>5, <1>6, <1>7 DEF Left, s
<1> QED
  BY <1>7, <1>8, <1>9

(* What is found cached for a position is a chapter of that position.         *)
LEMMA CachedIsThere ==
  ASSUME Typed, NEW p \in Positions
  PROVE  Cached(p) \in Caches /\ (Cached(p) # None => Cached(p).position = p)
<1> DEFINE found == {chapter \in {cur, prev, next} \ {None} : chapter.position = p}
           Taken(chapter) == \/ chapter = cur
                             \/ chapter = prev /\ cur \notin found
                             \/ {cur, prev} \cap found = {}
<1>1. found \subseteq Caches /\ \A c \in found : c.position = p
  BY DEF Typed
<1>2. CASE found = {}
  BY <1>2 DEF Cached, Caches
<1>3. CASE found # {}
  <2>1. \E c \in found : Taken(c)
    <3>1. CASE cur \in found
      BY <3>1
    <3>2. CASE cur \notin found /\ prev \in found
      BY <3>2
    <3>3. CASE cur \notin found /\ prev \notin found
      BY <1>3, <3>3
    <3> QED
      BY <3>1, <3>2, <3>3
  <2>2. Cached(p) = CHOOSE c \in found : Taken(c)
    BY <1>3 DEF Cached
  <2>3. Cached(p) \in found
    <3> HIDE DEF found, Taken
    <3> QED
      BY <2>1, <2>2
  <2> QED
    BY <1>1, <2>3
<1> QED
  BY <1>2, <1>3

-----------------------------------------------------------------------------
(* Kinds of step *)

(* A reload that begins gets a token nobody has, and makes all others stale.  *)
LEMMA Begins ==
  ASSUME IInv, NEW target \in Positions, NEW stages \in Seq(SUBSET Positions),
         NEW shown \in BOOLEAN, NEW user \in BOOLEAN,
         BeginReload(target, stages, shown, user)
  PROVE  /\ generation' \in Nat /\ generation' = generation + 1
         /\ reloading' = generation' /\ reloading' # 0
         /\ reloads' \subseteq ReloadRecords
         /\ \A r \in reloads' : r.token = generation' => Left(r) = Ahead(stages)
         /\ Tokens' /\ Parsed'
<1> DEFINE q == Reload(generation + 1, target, stages, shown, user)
<1>1. /\ generation \in Nat /\ reloads \subseteq ReloadRecords
      /\ \A r \in reloads : r.token \in Nat /\ r.token <= generation
  BY DEF IInv, Typed, Tokens, ReloadRecords
<1>2. /\ generation' = generation + 1 /\ reloading' = generation + 1
      /\ reloads' = reloads \cup {q}
  BY DEF BeginReload
<1>3. q \in ReloadRecords /\ q.token = generation + 1 /\ q.parsed = {} /\ Left(q) = Ahead(stages)
  <2>1. PICK token \in Nat \ {0} : token = generation + 1
    BY <1>1
  <2>2. q = Reload(token, target, stages, shown, user)
    BY <2>1
  <2> HIDE DEF q
  <2> QED
    BY ONLY <2>1, <2>2, NewReload
<1> HIDE DEF q
<1>4. \A r \in reloads : r.token # generation + 1 /\ r.token <= generation + 1
  BY <1>1
<1>5. Tokens'
  BY <1>2, <1>3, <1>4, <1>1 DEF IInv, Tokens
<1>6. Parsed'
  <2> SUFFICES ASSUME NEW r \in reloads'
               PROVE  /\ \A c \in r.parsed : r.stages # <<>> /\ c.position \in Head(r.stages)
                      /\ \A a, b \in r.parsed : a.position = b.position => a = b
                      /\ r.token = generation' => \A c \in r.parsed : c.style = style'
    BY DEF Parsed
  <2>1. CASE r = q
    BY <2>1, <1>3
  <2>2. CASE r \in reloads
    BY <2>2, <1>2, <1>4 DEF IInv, Parsed
  <2> QED
    BY <1>2, <2>1, <2>2
<1>7. \A r \in reloads' : r.token = generation' => Left(r) = Ahead(stages)
  BY <1>2, <1>3, <1>4
<1> QED
  BY <1>1, <1>2, <1>3, <1>5, <1>6, <1>7

(* A coroutine that goes on keeps its token.                                  *)
LEMMA GoesOn ==
  ASSUME IInv, NEW r \in reloads, NEW q \in ReloadRecords, q.token = r.token,
         Replace(r, q), UNCHANGED fence
  PROVE  reloads' \subseteq ReloadRecords /\ Tokens'
<1>1. generation' = generation /\ reloading' = reloading
  BY DEF fence
<1>2. reloads' = (reloads \ {r}) \cup {q}
  BY DEF Replace
<1> QED
  BY <1>1, <1>2 DEF IInv, Typed, Tokens

(* ... and the other coroutines are not its concern.                          *)
LEMMA GoesOnParsing ==
  ASSUME IInv, NEW r \in reloads, NEW q \in ReloadRecords, q.token = r.token,
         Replace(r, q), UNCHANGED fence, UNCHANGED style,
         \A c \in q.parsed : q.stages # <<>> /\ c.position \in Head(q.stages),
         \A a, b \in q.parsed : a.position = b.position => a = b,
         q.token = generation => \A c \in q.parsed : c.style = style
  PROVE  Parsed'
<1>1. generation' = generation /\ style' = style
  BY DEF fence
<1>2. reloads' = (reloads \ {r}) \cup {q}
  BY DEF Replace
<1> QED
  BY <1>1, <1>2 DEF IInv, Parsed

(* A coroutine that ends opens the fence it has raised, and no other.         *)
LEMMA EndsIt ==
  ASSUME IInv, NEW r \in reloads, ReleaseFence(r), reloads' = reloads \ {r}, UNCHANGED style
  PROVE  /\ generation' = generation
         /\ reloading' = IF reloading = r.token THEN 0 ELSE reloading
         /\ reloads' \subseteq ReloadRecords /\ Tokens' /\ Parsed'
         /\ \A q \in reloads' : q.token = reloading' => reloading' = reloading
<1>1. generation' = generation /\ reloading' = IF reloading = r.token THEN 0 ELSE reloading
  BY DEF ReleaseFence
<1>2. \A q \in reloads : q.token \in Nat \ {0}
  BY DEF IInv, Typed, ReloadRecords
<1>3. reloads' \subseteq ReloadRecords
  BY DEF IInv, Typed
<1>4. Tokens'
  BY <1>1 DEF IInv, Tokens
<1>5. Parsed'
  BY <1>1 DEF IInv, Parsed
<1> QED
  BY <1>1, <1>2, <1>3, <1>4, <1>5

(* No doubt after a take-over: each chapter is in place.                      *)
LEMMA NoDoubt ==
  ASSUME IInv, NEW reason \in {"promoted", "followed"}, Doubtful(reason)
  PROVE  /\ doubt' \subseteq {"promoted", "followed", "failed"}
         /\ doubt' = {} =>
              doubt = {} /\ Fits(prev', dur' - 1) /\ Fits(cur', dur') /\ Fits(next', dur' + 1)
<1>1. doubt \subseteq {"promoted", "followed", "failed"}
  BY DEF IInv, Typed
<1> QED
  BY <1>1 DEF Doubtful

(* Nothing that the caches depend on has changed.                             *)
LEMMA SameCaches ==
  ASSUME IInv, UNCHANGED <<style, styling, fence, caches, reloads, doubt>>,
         call' \in CallRecords \cup {None},
         call' # None /\ call'.chapter # None => call'.chapter.position = call'.position,
         call' # None =>
           /\ call'.generation <= generation
           /\ call'.checked => call'.chapter # None
           /\ call'.own /\ call'.chapter # None /\ call'.generation = generation =>
                call'.chapter.style = style
  PROVE  IInv'
<1>1. /\ style' = style /\ styling' = styling /\ generation' = generation
      /\ reloading' = reloading /\ dur' = dur /\ prev' = prev /\ cur' = cur /\ next' = next
      /\ reloads' = reloads /\ doubt' = doubt
  BY DEF fence, caches
<1>2. Typed'
  BY <1>1 DEF IInv, Typed
<1>3. Tokens' /\ Parsed'
  BY <1>1 DEF IInv, Tokens, Parsed
<1>4. Underway'
  BY <1>1 DEF IInv, Underway, Fits
<1>5. Settled'
  BY <1>1 DEF IInv, Settled, Right, Fits
<1>6. Dated'
  BY <1>1 DEF Dated
<1> QED
  BY <1>2, <1>3, <1>4, <1>5, <1>6 DEF IInv

(* The call in flight does not mind another reload, even one that comes with  *)
(* another style: its token is then an old one.                               *)
LEMMA StillDated ==
  ASSUME IInv, UNCHANGED call,
         \/ generation' = generation + 1
         \/ generation' = generation /\ style' = style
  PROVE  Dated' /\ call' \in CallRecords \cup {None}
         /\ (call' # None /\ call'.chapter # None => call'.chapter.position = call'.position)
<1>1. call \in CallRecords \cup {None} /\ generation \in Nat
  BY DEF IInv, Typed
<1>2. call # None => call.generation \in Nat
  BY <1>1 DEF CallRecords
<1> QED
  BY <1>1, <1>2 DEF IInv, Typed, Dated

-----------------------------------------------------------------------------
(* The reader *)

(* The reader's first state: an open book, all chapters in place.             *)
LEMMA Starts == Init => IInv
<1> SUFFICES ASSUME Init PROVE IInv
  OBVIOUS
<1>1. /\ style = 0 /\ styling = 0 /\ dur \in Positions /\ cur = At(dur)
      /\ prev = IF dur > 1 THEN At(dur - 1) ELSE None
      /\ next = IF dur < ChapterSize THEN At(dur + 1) ELSE None
      /\ generation = 1 /\ reloading = 0 /\ reloads = {} /\ call = None /\ doubt = {}
  BY DEF Init
<1>2. MaxStyle \in Nat /\ ChapterSize \in Nat /\ dur \in Nat
  BY <1>1, LayoutAssumption, ChaptersExist
<1>3. style \in 0..MaxStyle
  BY <1>1, <1>2
<1>4. cur \in Chapters /\ cur # None /\ Fits(cur, dur)
  BY <1>1, <1>3, ChaptersExist DEF Fits
<1>5. prev \in Caches /\ Fits(prev, dur - 1)
  <2>1. CASE dur > 1
    <3>1. dur - 1 \in Positions
      BY <1>1, <1>2, <2>1 DEF Positions
    <3> QED
      BY <1>1, <1>3, <2>1, <3>1, ChaptersExist DEF Fits, Caches
  <2>2. CASE ~(dur > 1)
    <3>1. dur - 1 \notin Positions
      BY <1>1, <1>2, <2>2 DEF Positions
    <3> QED
      BY <1>1, <2>2, <3>1 DEF Fits, Caches
  <2> QED
    BY <2>1, <2>2
<1>6. next \in Caches /\ Fits(next, dur + 1)
  <2>1. CASE dur < ChapterSize
    <3>1. dur + 1 \in Positions
      BY <1>1, <1>2, <2>1 DEF Positions
    <3> QED
      BY <1>1, <1>3, <2>1, <3>1, ChaptersExist DEF Fits, Caches
  <2>2. CASE ~(dur < ChapterSize)
    <3>1. dur + 1 \notin Positions
      BY <1>1, <1>2, <2>2 DEF Positions
    <3> QED
      BY <1>1, <2>2, <3>1 DEF Fits, Caches
  <2> QED
    BY <2>1, <2>2
<1>7. Typed
  BY <1>1, <1>2, <1>4, <1>5, <1>6 DEF Typed, Caches
<1>8. Tokens /\ Parsed /\ Underway /\ Dated
  BY <1>1 DEF Tokens, Parsed, Underway, Dated
<1>9. Settled
  BY <1>4, <1>5, <1>6 DEF Settled, Right
<1> QED
  BY <1>7, <1>8, <1>9 DEF IInv

(* A turn of the page into a neighbouring chapter.                            *)
LEMMA Turns ==
  ASSUME IInv, NEW neighbour \in {dur' - 1, dur' + 1},
         dur' \in Positions, prev' \in Caches, cur' \in Caches, next' \in Caches,
         neighbour = dur' - 1 => prev' = None,
         neighbour = dur' + 1 => next' = None,
         BeginReload(dur', Stage((IF cur' = None THEN {dur'} ELSE {}) \cup InBook({neighbour})),
                     cur' # None, TRUE),
         Doubtful("promoted"),
         UNCHANGED <<style, styling, call>>
  PROVE  IInv'
<1> DEFINE toLoad == (IF cur' = None THEN {dur'} ELSE {}) \cup InBook({neighbour})
           shown == cur' # None
<1>1. toLoad \in SUBSET Positions
  BY DEF InBook
<1>2. Stage(toLoad) \in Seq(SUBSET Positions) /\ Ahead(Stage(toLoad)) = toLoad
  BY <1>1, StageLoads
<1>3. /\ cur' = None => dur' \in toLoad
      /\ neighbour \in Positions => neighbour \in toLoad
  BY DEF InBook
<1>4. shown \in BOOLEAN /\ BeginReload(dur', Stage(toLoad), shown, TRUE)
  OBVIOUS
<1> HIDE DEF toLoad, shown
<1>5. /\ generation' \in Nat /\ generation' = generation + 1
      /\ reloading' = generation' /\ reloading' # 0
      /\ reloads' \subseteq ReloadRecords
      /\ \A r \in reloads' : r.token = generation' => Left(r) = toLoad
      /\ Tokens' /\ Parsed'
  BY <1>2, <1>4, Begins
<1>6. /\ doubt' \subseteq {"promoted", "followed", "failed"}
      /\ doubt' = {} =>
           doubt = {} /\ Fits(prev', dur' - 1) /\ Fits(cur', dur') /\ Fits(next', dur' + 1)
  BY NoDoubt
<1>7. /\ Dated' /\ call' \in CallRecords \cup {None}
      /\ call' # None /\ call'.chapter # None => call'.chapter.position = call'.position
  BY <1>5, StillDated
<1>8. Typed'
  BY <1>5, <1>6, <1>7 DEF IInv, Typed
<1>9. Underway'
  <2> SUFFICES ASSUME doubt' = {}, NEW r \in reloads', r.token = reloading'
               PROVE  /\ Fits(prev, dur - 1)' \/ (dur' - 1) \in Left(r)
                      /\ (Fits(cur, dur)' /\ cur' # None) \/ dur' \in Left(r)
                      /\ Fits(next, dur + 1)' \/ (dur' + 1) \in Left(r)
    BY DEF Underway
  <2>1. Left(r) = toLoad
    BY <1>5
  <2>2. Fits(prev, dur - 1)' /\ Fits(cur, dur)' /\ Fits(next, dur + 1)'
    BY <1>6 DEF Fits
  <2> QED
    BY <1>3, <2>1, <2>2
<1>10. Settled'
  BY <1>5 DEF Settled
<1> QED
  BY <1>5, <1>7, <1>8, <1>9, <1>10 DEF IInv

LEMMA NextTurns == IInv /\ MoveToNextChapter => IInv'
<1> SUFFICES ASSUME IInv, MoveToNextChapter PROVE IInv'
  OBVIOUS
<1>1. dur \in Positions /\ dur < ChapterSize /\ dur' = dur + 1
  BY DEF IInv, Typed, MoveToNextChapter
<1>2. dur' \in Positions
  BY <1>1, LayoutAssumption DEF Positions
<1>3. prev' \in Caches /\ cur' \in Caches /\ next' \in Caches /\ next' = None
  BY DEF IInv, Typed, MoveToNextChapter, Caches
<1>4. dur' + 1 # dur' - 1
  BY <1>2, LayoutAssumption DEF Positions
<1> QED
  BY <1>2, <1>3, <1>4, Turns DEF MoveToNextChapter

LEMMA PrevTurns == IInv /\ MoveToPrevChapter => IInv'
<1> SUFFICES ASSUME IInv, MoveToPrevChapter PROVE IInv'
  OBVIOUS
<1>1. dur \in Positions /\ dur > 1 /\ dur' = dur - 1
  BY DEF IInv, Typed, MoveToPrevChapter
<1>2. dur' \in Positions
  BY <1>1, LayoutAssumption DEF Positions
<1>3. prev' \in Caches /\ cur' \in Caches /\ next' \in Caches /\ prev' = None
  BY DEF IInv, Typed, MoveToPrevChapter, Caches
<1>4. dur' + 1 # dur' - 1
  BY <1>2, LayoutAssumption DEF Positions
<1> QED
  BY <1>2, <1>3, <1>4, Turns DEF MoveToPrevChapter

(* A reload of everything: a jump, or a style that has been applied.          *)
LEMMA LoadsAll ==
  ASSUME IInv, NEW target \in Positions, NEW user \in BOOLEAN,
         dur' = target, LoadContent(target, user),
         style' \in Nat, styling' \in Nat, style' + styling' <= MaxStyle,
         doubt' = {}, UNCHANGED <<prev, cur, next, call>>
  PROVE  IInv'
<1> DEFINE stages == Stage({target}) \o Stage(InBook({target + 1})) \o Stage(InBook({target - 1}))
<1>1. /\ stages \in Seq(SUBSET Positions)
      /\ target \in Ahead(stages)
      /\ target + 1 \in Positions => target + 1 \in Ahead(stages)
      /\ target - 1 \in Positions => target - 1 \in Ahead(stages)
  BY AllThree
<1>2. BeginReload(target, stages, FALSE, user)
  BY DEF LoadContent
<1> HIDE DEF stages
<1>3. /\ generation' \in Nat /\ generation' = generation + 1
      /\ reloading' = generation' /\ reloading' # 0
      /\ reloads' \subseteq ReloadRecords
      /\ \A r \in reloads' : r.token = generation' => Left(r) = Ahead(stages)
      /\ Tokens' /\ Parsed'
  BY <1>1, <1>2, Begins
<1>4. /\ Dated' /\ call' \in CallRecords \cup {None}
      /\ call' # None /\ call'.chapter # None => call'.chapter.position = call'.position
  BY <1>3, StillDated
<1>5. Typed'
  BY <1>3, <1>4 DEF IInv, Typed
<1>6. Underway'
  <2> SUFFICES ASSUME NEW r \in reloads', r.token = reloading'
               PROVE  /\ Fits(prev, dur - 1)' \/ (dur' - 1) \in Left(r)
                      /\ (Fits(cur, dur)' /\ cur' # None) \/ dur' \in Left(r)
                      /\ Fits(next, dur + 1)' \/ (dur' + 1) \in Left(r)
    BY DEF Underway
  <2>1. Left(r) = Ahead(stages)
    BY <1>3
  <2>2. /\ (dur' - 1) \notin Positions => Fits(prev, dur - 1)'
        /\ (dur' + 1) \notin Positions => Fits(next, dur + 1)'
    BY DEF Fits
  <2> QED
    BY <1>1, <2>1, <2>2
<1>7. Settled'
  BY <1>3 DEF Settled
<1> QED
  BY <1>3, <1>4, <1>5, <1>6, <1>7 DEF IInv

LEMMA Jumps ==
  ASSUME IInv, NEW p \in Positions, ChangeChapter(p)
  PROVE  IInv'
<1>1. style' \in Nat /\ styling' \in Nat /\ style' + styling' <= MaxStyle
  BY DEF IInv, Typed, ChangeChapter
<1>2. /\ dur' = p /\ LoadContent(p, TRUE) /\ doubt' = {}
      /\ UNCHANGED <<prev, cur, next, call>>
  BY DEF ChangeChapter
<1> QED
  BY <1>1, <1>2, LoadsAll

LEMMA Restyled == IInv /\ StyleApplied => IInv'
<1> SUFFICES ASSUME IInv, StyleApplied PROVE IInv'
  OBVIOUS
<1>1. /\ style \in Nat /\ styling \in Nat /\ style + styling <= MaxStyle /\ MaxStyle \in Nat
      /\ dur \in Positions
  BY LayoutAssumption DEF IInv, Typed
<1>2. /\ styling > 0 /\ styling' = styling - 1 /\ style' = style + 1
      /\ LoadContent(dur, FALSE) /\ doubt' = {}
      /\ dur' = dur /\ UNCHANGED <<prev, cur, next, call>>
  BY DEF StyleApplied, caches
<1>3. style' \in Nat /\ styling' \in Nat /\ style' + styling' <= MaxStyle
  BY <1>1, <1>2
<1> QED
  BY <1>1, <1>2, <1>3, LoadsAll

(* The layout is void: no token is current until the style is there.          *)
LEMMA Voided == IInv /\ UpdatePageViews => IInv'
<1> SUFFICES ASSUME IInv, UpdatePageViews PROVE IInv'
  OBVIOUS
<1>1. /\ generation' = generation + 1 /\ reloading' = 0 /\ styling' = styling + 1
      /\ style' = style /\ dur' = dur /\ prev' = prev /\ cur' = cur /\ next' = next
      /\ reloads' = reloads /\ call' = call /\ doubt' = doubt
      /\ style + styling < MaxStyle
  BY DEF UpdatePageViews, Invalidate, caches
<1>2. /\ style \in Nat /\ styling \in Nat /\ MaxStyle \in Nat /\ generation \in Nat
      /\ \A r \in reloads : r.token \in Nat \ {0} /\ r.token <= generation
  BY LayoutAssumption DEF IInv, Typed, Tokens, ReloadRecords
<1>3. /\ style + (styling + 1) <= MaxStyle /\ styling + 1 \in Nat /\ generation + 1 \in Nat
      /\ \A r \in reloads : r.token # generation + 1 /\ r.token # 0 /\ r.token <= generation + 1
      /\ ~(styling + 1 = 0)
  BY <1>1, <1>2
<1>4. Typed'
  BY <1>1, <1>3 DEF IInv, Typed
<1>5. Tokens' /\ Parsed'
  BY <1>1, <1>3 DEF IInv, Tokens, Parsed
<1>6. Underway' /\ Settled'
  BY <1>1, <1>3 DEF Underway, Settled
<1>7. Dated'
  BY <1>1, StillDated
<1> QED
  BY <1>4, <1>5, <1>6, <1>7 DEF IInv

-----------------------------------------------------------------------------
(* A reload's coroutine *)

LEMMA Parses ==
  ASSUME IInv, NEW r \in reloads, NEW p \in Positions, Parse(r, p)
  PROVE  IInv'
<1> DEFINE q == [r EXCEPT !.parsed = @ \cup {At(p)}]
<1>1. /\ style' = style /\ styling' = styling /\ generation' = generation
      /\ reloading' = reloading /\ dur' = dur /\ prev' = prev /\ cur' = cur /\ next' = next
      /\ call' = call /\ doubt' = doubt /\ UNCHANGED fence
  BY DEF Parse, fence, caches
<1>2. /\ r.stages # <<>> /\ p \in Head(r.stages)
      /\ \A chapter \in r.parsed : chapter.position # p
      /\ Replace(r, q)
  BY DEF Parse
<1>3. At(p) \in Chapters /\ At(p).position = p /\ At(p).style = style
  BY StyleBounded, ChaptersExist DEF IInv
<1>4. r \in ReloadRecords
  BY DEF IInv, Typed
<1>5. /\ q \in ReloadRecords /\ q.token = r.token /\ q.stages = r.stages /\ Left(q) = Left(r)
      /\ q.parsed = r.parsed \cup {At(p)}
  BY <1>3, <1>4 DEF ReloadRecords, Left
<1> HIDE DEF q
<1>6. reloads' \subseteq ReloadRecords /\ Tokens'
  BY <1>1, <1>2, <1>5, GoesOn
<1>7. Parsed'
  <2>1. \A c \in q.parsed : q.stages # <<>> /\ c.position \in Head(q.stages)
    BY <1>2, <1>3, <1>5 DEF IInv, Parsed
  <2>2. \A a, b \in q.parsed : a.position = b.position => a = b
    BY <1>2, <1>3, <1>5 DEF IInv, Parsed
  <2>3. q.token = generation => \A c \in q.parsed : c.style = style
    BY <1>3, <1>5 DEF IInv, Parsed
  <2> QED
    BY <1>1, <1>2, <1>5, <2>1, <2>2, <2>3, GoesOnParsing
<1>8. Typed'
  BY <1>1, <1>6 DEF IInv, Typed
<1>9. Underway'
  <2>1. reloads' = (reloads \ {r}) \cup {q}
    BY <1>2 DEF Replace
  <2> QED
    BY <1>1, <1>5, <2>1 DEF IInv, Underway, Fits
<1>10. Settled' /\ Dated'
  BY <1>1 DEF IInv, Settled, Right, Fits, Dated
<1> QED
  BY <1>6, <1>7, <1>8, <1>9, <1>10 DEF IInv

(* A chapter that is put in its place by the current reload fits there, and   *)
(* displaces nothing.                                                         *)
LEMMA PlacedFits ==
  ASSUME Typed, NEW chapter \in Chapters, chapter.style = style, Place(chapter),
         UNCHANGED <<style, dur>>
  PROVE  /\ prev' \in Caches /\ cur' \in Caches /\ next' \in Caches
         /\ IF chapter.position = dur - 1 THEN Fits(prev, dur - 1)' ELSE prev' = prev
         /\ IF chapter.position = dur THEN Fits(cur, dur)' /\ cur' # None ELSE cur' = cur
         /\ IF chapter.position = dur + 1 THEN Fits(next, dur + 1)' ELSE next' = next
<1>1. /\ dur \in Positions /\ prev \in Caches /\ cur \in Caches /\ next \in Caches
      /\ chapter \in Caches
  BY DEF Typed, Caches
<1>2. dur \in Nat /\ chapter.position \in Nat /\ chapter # None
  BY <1>1, ChaptersExist
<1>3. chapter.position + 1 = dur <=> chapter.position = dur - 1
  BY <1>2
<1> QED
  BY <1>1, <1>2, <1>3 DEF Place, Fits

LEMMA Installs ==
  ASSUME IInv, NEW r \in reloads, NEW chapter \in r.parsed, Install(r, chapter)
  PROVE  IInv'
<1> DEFINE d == Done(r, chapter)
           q == IF IsCurrentLoad(r)
                  THEN [d EXCEPT !.shown = @ \/ chapter.position = r.target] ELSE d
<1>1. /\ style' = style /\ styling' = styling /\ generation' = generation
      /\ reloading' = reloading /\ dur' = dur /\ call' = call /\ doubt' = doubt
      /\ UNCHANGED fence
  BY DEF Install, fence
<1>2. Replace(r, q)
  BY DEF Install
<1>3. r \in ReloadRecords /\ chapter \in Chapters
  BY DEF IInv, Typed, ReloadRecords
<1>4. /\ d \in ReloadRecords /\ d.token = r.token /\ d.parsed = r.parsed \ {chapter}
      /\ \A c \in d.parsed : d.stages # <<>> /\ c.position \in Head(d.stages)
      /\ Left(r) \subseteq Left(d) \cup {chapter.position}
  BY <1>3, OffTheList DEF IInv, Parsed
<1> HIDE DEF d
<1>5. /\ q \in ReloadRecords /\ q.token = r.token /\ q.parsed = r.parsed \ {chapter}
      /\ q.stages = d.stages /\ Left(q) = Left(d)
  BY <1>4 DEF ReloadRecords, Left
<1> HIDE DEF q
<1>6. reloads' \subseteq ReloadRecords /\ Tokens'
  BY <1>1, <1>2, <1>5, GoesOn
<1>7. Parsed'
  <2>1. \A c \in q.parsed : q.stages # <<>> /\ c.position \in Head(q.stages)
    BY <1>4, <1>5
  <2>2. \A a, b \in q.parsed : a.position = b.position => a = b
    BY <1>5 DEF IInv, Parsed
  <2>3. q.token = generation => \A c \in q.parsed : c.style = style
    BY <1>5 DEF IInv, Parsed
  <2> QED
    BY <1>1, <1>2, <1>5, <2>1, <2>2, <2>3, GoesOnParsing
<1>8. reloads' = (reloads \ {r}) \cup {q}
  BY <1>2 DEF Replace
<1>9. CASE IsCurrentLoad(r)
  <2>1. generation = r.token /\ reloading = r.token /\ Place(chapter)
    BY <1>9 DEF IsCurrentLoad, Install
  <2>2. chapter.style = style
    BY <2>1 DEF IInv, Parsed
  <2>3. /\ prev' \in Caches /\ cur' \in Caches /\ next' \in Caches
        /\ IF chapter.position = dur - 1 THEN Fits(prev, dur - 1)' ELSE prev' = prev
        /\ IF chapter.position = dur THEN Fits(cur, dur)' /\ cur' # None ELSE cur' = cur
        /\ IF chapter.position = dur + 1 THEN Fits(next, dur + 1)' ELSE next' = next
    BY <1>1, <1>3, <2>1, <2>2, PlacedFits DEF IInv
  <2>4. Typed'
    BY <1>1, <1>6, <2>3 DEF IInv, Typed
  <2>5. Underway'
    <3> SUFFICES ASSUME doubt' = {}, NEW t \in reloads', t.token = reloading'
                 PROVE  /\ Fits(prev, dur - 1)' \/ (dur' - 1) \in Left(t)
                        /\ (Fits(cur, dur)' /\ cur' # None) \/ dur' \in Left(t)
                        /\ Fits(next, dur + 1)' \/ (dur' + 1) \in Left(t)
      BY DEF Underway
    <3>1. t = q
      BY <1>1, <1>5, <1>8, <2>1 DEF IInv, Tokens
    <3>2. /\ Fits(prev, dur - 1) \/ dur - 1 \in Left(r)
          /\ (Fits(cur, dur) /\ cur # None) \/ dur \in Left(r)
          /\ Fits(next, dur + 1) \/ dur + 1 \in Left(r)
      BY <1>1, <2>1 DEF IInv, Underway
    <3>3. /\ prev' = prev /\ Fits(prev, dur - 1) => Fits(prev, dur - 1)'
          /\ cur' = cur /\ Fits(cur, dur) => Fits(cur, dur)'
          /\ next' = next /\ Fits(next, dur + 1) => Fits(next, dur + 1)'
      BY <1>1 DEF Fits
    <3>4. Left(r) \subseteq Left(q) \cup {chapter.position}
      BY <1>4, <1>5
    <3> QED
      BY <1>1, <2>3, <3>1, <3>2, <3>3, <3>4
  <2>6. Settled'
    BY <1>1, <1>3, <2>1 DEF Settled, ReloadRecords
  <2>7. Dated'
    BY <1>1, StillDated
  <2> QED
    BY <1>6, <1>7, <2>4, <2>5, <2>6, <2>7 DEF IInv
<1>10. CASE ~IsCurrentLoad(r)
  <2>1. UNCHANGED <<prev, cur, next>>
    BY <1>10 DEF Install
  <2>2. reloading # r.token
    BY <1>10, <1>3 DEF IsCurrentLoad, IInv, Typed, ReloadRecords
  <2>3. Typed'
    BY <1>1, <1>6, <2>1 DEF IInv, Typed
  <2>4. Underway'
    BY <1>1, <1>5, <1>8, <2>1, <2>2 DEF IInv, Underway, Fits
  <2>5. Settled'
    BY <1>1, <2>1 DEF IInv, Settled, Right, Fits
  <2>6. Dated'
    BY <1>1, StillDated
  <2> QED
    BY <1>6, <1>7, <2>3, <2>4, <2>5, <2>6 DEF IInv
<1> QED
  BY <1>9, <1>10

LEMMA ReloadEnds ==
  ASSUME IInv, NEW r \in reloads, EndReload(r)
  PROVE  IInv'
<1>1. /\ style' = style /\ styling' = styling /\ dur' = dur /\ prev' = prev /\ cur' = cur
      /\ next' = next /\ call' = call /\ doubt' = doubt
      /\ r.stages = <<>> /\ ReleaseFence(r) /\ reloads' = reloads \ {r}
  BY DEF EndReload, caches
<1>2. /\ generation' = generation
      /\ reloading' = IF reloading = r.token THEN 0 ELSE reloading
      /\ reloads' \subseteq ReloadRecords /\ Tokens' /\ Parsed'
      /\ \A q \in reloads' : q.token = reloading' => reloading' = reloading
  BY <1>1, EndsIt
<1>3. Typed'
  BY <1>1, <1>2 DEF IInv, Typed
<1>4. Underway'
  BY <1>1, <1>2 DEF IInv, Underway, Fits
<1>5. Settled'
  <2>1. CASE reloading = r.token
    <3>1. Left(r) = {}
      <4>1. DOMAIN r.stages = {}
        BY <1>1
      <4>2. ASSUME NEW p PROVE p \notin Left(r)
        BY <4>1 DEF Left, Ahead
      <4> QED
        BY <4>2
    <3>2. doubt = {} => Right
      BY <2>1, <3>1 DEF IInv, Underway, Right
    <3> QED
      BY <1>1, <3>2 DEF Settled, Right, Fits
  <2>2. CASE reloading # r.token
    BY <1>1, <1>2, <2>2 DEF IInv, Settled, Right, Fits
  <2> QED
    BY <2>1, <2>2
<1>6. Dated'
  BY <1>1, <1>2, StillDated
<1> QED
  BY <1>2, <1>3, <1>4, <1>5, <1>6 DEF IInv

LEMMA ReloadFails ==
  ASSUME IInv, NEW r \in reloads, FailReload(r)
  PROVE  IInv'
<1>1. /\ style' = style /\ styling' = styling /\ dur' = dur /\ prev' = prev /\ cur' = cur
      /\ next' = next /\ call' = call
      /\ doubt' = IF reloading = r.token THEN doubt \cup {"failed"} ELSE doubt
      /\ ReleaseFence(r) /\ reloads' = reloads \ {r}
  BY DEF FailReload, caches
<1>2. /\ generation' = generation
      /\ reloading' = IF reloading = r.token THEN 0 ELSE reloading
      /\ reloads' \subseteq ReloadRecords /\ Tokens' /\ Parsed'
      /\ \A q \in reloads' : q.token = reloading' => reloading' = reloading
  BY <1>1, EndsIt
<1>3. Typed'
  BY <1>1, <1>2 DEF IInv, Typed
<1>4. doubt' = {} => doubt = {} /\ reloading # r.token
  BY <1>1
<1>5. Underway'
  BY <1>1, <1>2, <1>4 DEF IInv, Underway, Fits
<1>6. Settled'
  BY <1>1, <1>2, <1>4 DEF IInv, Settled, Right, Fits
<1>7. Dated'
  BY <1>1, <1>2, StillDated
<1> QED
  BY <1>2, <1>3, <1>5, <1>6, <1>7 DEF IInv

-----------------------------------------------------------------------------
(* The read-aloud source *)

LEMMA CallBegins ==
  ASSUME IInv, NEW op \in {"seek", "follow"}, NEW p \in Positions,
         UNCHANGED <<style, styling, fence, caches, reloads, doubt>>,
         call' = Call(op, p, generation, Cached(p))
  PROVE  IInv'
<1>1. Cached(p) \in Caches /\ (Cached(p) # None => Cached(p).position = p)
  BY CachedIsThere DEF IInv
<1>2. generation \in Nat
  BY DEF IInv, Typed
<1>3. PICK chapter \in Caches : chapter = Cached(p) /\ (chapter # None => chapter.position = p)
  BY <1>1
<1>4. call' = [op |-> op, position |-> p, generation |-> generation, chapter |-> chapter,
               own |-> chapter = None, checked |-> FALSE]
  BY <1>3 DEF Call
<1>5. PICK own \in BOOLEAN : own = (chapter = None)
  OBVIOUS
<1>6. /\ call' \in CallRecords /\ call'.position = p /\ call'.generation = generation
      /\ call'.chapter = chapter /\ call'.own = (chapter = None)
      /\ call'.checked = FALSE
  BY <1>2, <1>4, <1>5 DEF CallRecords
<1>7. ~(call'.own /\ call'.chapter # None) /\ ~call'.checked
  BY <1>6
<1> QED
  BY <1>2, <1>3, <1>6, <1>7, SameCaches

LEMMA Calls == IInv /\ ((\E p \in Positions : SeekBegins(p)) \/ FollowBegins) => IInv'
<1>1. ASSUME IInv, NEW p \in Positions, SeekBegins(p) PROVE IInv'
  BY <1>1, CallBegins DEF SeekBegins
<1>2. ASSUME IInv, FollowBegins PROVE IInv'
  <2>1. PICK p \in InBook(IF cur = None THEN {dur} ELSE {dur + 1} \cup {dur - 1}) :
          call' = Call("follow", p, generation, Cached(p))
    BY <1>2 DEF FollowBegins
  <2>2. p \in Positions
    BY <2>1 DEF InBook
  <2> QED
    BY <1>2, <2>1, <2>2, CallBegins DEF FollowBegins
<1> QED
  BY <1>1, <1>2

(* What a call parses itself is in the style of this moment.                  *)
LEMMA CallParses == IInv /\ SpeechParses => IInv'
<1> SUFFICES ASSUME IInv, SpeechParses PROVE IInv'
  OBVIOUS
<1>1. /\ call # None /\ call \in CallRecords /\ call.generation <= generation
      /\ UNCHANGED <<style, styling, fence, caches, reloads, doubt>>
  BY DEF IInv, Typed, Dated, SpeechParses
<1>2. CASE call' = [call EXCEPT !.chapter = At(call.position)]
  <2>1. call.position \in Positions
    BY <1>1 DEF CallRecords
  <2>2. /\ At(call.position) \in Chapters /\ At(call.position).position = call.position
        /\ At(call.position).style = style /\ At(call.position) # None
    BY <2>1, StyleBounded, ChaptersExist DEF IInv
  <2>3. /\ call' \in CallRecords /\ call'.chapter = At(call.position)
        /\ call'.position = call.position /\ call'.generation = call.generation
    BY <1>1, <1>2, <2>2 DEF CallRecords, Caches
  <2> QED
    BY <1>1, <2>2, <2>3, SameCaches
<1>3. CASE call' = None
  BY <1>1, <1>3, SameCaches
<1> QED
  BY <1>2, <1>3 DEF SpeechParses

LEMMA CallLoads == IInv /\ SeekLoads => IInv'
<1> SUFFICES ASSUME IInv, SeekLoads PROVE IInv'
  OBVIOUS
<1>1. /\ call # None /\ call \in CallRecords /\ call.generation <= generation
      /\ call.chapter # None => call.chapter.position = call.position
      /\ call.own /\ call.chapter # None /\ call.generation = generation =>
           call.chapter.style = style
      /\ UNCHANGED <<style, styling, fence, caches, reloads, doubt>>
      /\ call.chapter # None
  BY DEF IInv, Typed, Dated, SeekLoads
<1>2. CASE call' = [call EXCEPT !.checked = TRUE]
  <2>1. /\ call' \in CallRecords /\ call'.chapter = call.chapter /\ call'.own = call.own
        /\ call'.position = call.position /\ call'.generation = call.generation
    BY <1>1, <1>2 DEF CallRecords
  <2> QED
    BY <1>1, <2>1, SameCaches
<1>3. CASE call' = None
  BY <1>1, <1>3, SameCaches
<1> QED
  BY <1>2, <1>3 DEF SeekLoads

(* A chapter that the voice takes the reader to.                              *)
LEMMA Activates ==
  ASSUME IInv, NEW chapter \in Chapters, Activate(chapter),
         call' = None, UNCHANGED <<style, styling, fence, reloads>>
  PROVE  IInv'
<1>1. /\ style' = style /\ styling' = styling /\ generation' = generation
      /\ reloading' = reloading /\ reloads' = reloads
  BY DEF fence
<1>2. /\ dur' \in Positions /\ prev' \in Caches /\ cur' \in Caches /\ next' \in Caches
      /\ cur' # None
  BY ChaptersExist DEF IInv, Typed, Activate, Caches
<1>3. /\ doubt' \subseteq {"promoted", "followed", "failed"}
      /\ doubt' = {} =>
           doubt = {} /\ Fits(prev', dur' - 1) /\ Fits(cur', dur') /\ Fits(next', dur' + 1)
  BY NoDoubt DEF Activate
<1>4. doubt' = {} => Fits(prev, dur - 1)' /\ Fits(cur, dur)' /\ Fits(next, dur + 1)'
  BY <1>3 DEF Fits
<1>5. Typed'
  BY <1>1, <1>2, <1>3 DEF IInv, Typed
<1>6. Tokens' /\ Parsed'
  BY <1>1 DEF IInv, Tokens, Parsed
<1>7. Underway' /\ Settled'
  BY <1>2, <1>4 DEF Underway, Settled, Right
<1>8. Dated'
  BY DEF Dated
<1> QED
  BY <1>5, <1>6, <1>7, <1>8 DEF IInv

LEMMA CallActivates == IInv /\ (SeekActivates \/ FollowActivates) => IInv'
<1>1. ASSUME IInv, call # None, call.chapter # None PROVE call.chapter \in Chapters
  BY <1>1 DEF IInv, Typed, CallRecords, Caches
<1>2. ASSUME IInv, FollowActivates PROVE IInv'
  BY <1>1, <1>2, Activates DEF FollowActivates
<1>3. ASSUME IInv, SeekActivates PROVE IInv'
  <2>1. /\ call # None /\ call.chapter \in Chapters /\ call' = None
        /\ UNCHANGED <<style, styling, fence, reloads>>
    BY <1>1, <1>3 DEF SeekActivates, IInv, Dated
  <2>2. CASE SameLayout(call.generation)
    BY <1>3, <2>1, <2>2, Activates DEF SeekActivates
  <2>3. CASE ~SameLayout(call.generation)
    <3>1. UNCHANGED <<caches, doubt>>
      BY <1>3, <2>3 DEF SeekActivates
    <3> QED
      BY <1>3, <2>1, <3>1, SameCaches
  <2> QED
    BY <2>2, <2>3
<1> QED
  BY <1>2, <1>3

-----------------------------------------------------------------------------
(* The invariant *)

(* The invariant is inductive: every step of the reader, of a reload and of   *)
(* the read-aloud source keeps it, for a book of any length.                  *)
THEOREM InvariantKept == Spec => []IInv
<1>1. ASSUME IInv, [Next]_vars PROVE IInv'
  <2>1. CASE UNCHANGED vars
    BY <1>1, <2>1, SameCaches DEF vars, IInv, Typed, Dated
  <2>2. ASSUME MoveToNextChapter \/ MoveToPrevChapter \/ UpdatePageViews \/ StyleApplied
        PROVE  IInv'
    BY <1>1, <2>2, NextTurns, PrevTurns, Voided, Restyled
  <2>3. ASSUME NEW p \in Positions, ChangeChapter(p) PROVE IInv'
    BY <1>1, <2>3, Jumps
  <2>4. ASSUME NEW r \in reloads, ReloadStep(r) PROVE IInv'
    BY <1>1, <2>4, Parses, Installs, ReloadEnds, ReloadFails DEF ReloadStep
  <2>5. ASSUME SpeechStep PROVE IInv'
    BY <1>1, <2>5, Calls, CallParses, CallLoads, CallActivates DEF SpeechStep
  <2> QED
    BY <1>1, <2>1, <2>2, <2>3, <2>4, <2>5 DEF Next
<1> QED
  BY Starts, <1>1, PTL DEF Spec

(* Types: no chapter outside the book is ever asked for or cached, and what a *)
(* coroutine is to load never leaves the book (699-728).                      *)
THEOREM TypeCorrect == Spec => []TypeOK
<1>1. ASSUME IInv PROVE TypeOK
  <2>1. style \in 0..MaxStyle /\ styling \in 0..MaxStyle
    BY <1>1, StyleBounded DEF IInv
  <2>2. generation \in Nat /\ reloading \in 0..generation
    BY <1>1 DEF IInv, Typed
  <2>3. ASSUME NEW r \in reloads
        PROVE  /\ r.token \in 1..generation /\ r.target \in Positions
               /\ r.stages \in Seq(SUBSET Positions) /\ r.parsed \subseteq Chapters
               /\ r.shown \in BOOLEAN /\ r.user \in BOOLEAN
    <3>1. r \in ReloadRecords /\ r.token <= generation
      BY <1>1 DEF IInv, Typed, Tokens
    <3> QED
      BY <2>2, <3>1 DEF ReloadRecords
  <2>4. call # None => /\ call.position \in Positions /\ call.chapter \in Caches
                       /\ call.chapter # None => call.chapter.position = call.position
    BY <1>1 DEF IInv, Typed, CallRecords
  <2> QED
    BY <1>1, <2>1, <2>2, <2>3, <2>4 DEF IInv, Typed, TypeOK
<1> QED
  BY InvariantKept, <1>1, PTL

(* When everything has ended without a fault or a take-over out of place, the *)
(* reader shows the chapter it is at, with its neighbours, in the latest      *)
(* style: no older reload that finished late has put anything back (798-850). *)
THEOREM LatestWins == Spec => []LatestReloadWins
<1>1. ASSUME IInv PROVE LatestReloadWins
  <2> SUFFICES ASSUME Quiet, doubt = {} PROVE Right
    BY DEF LatestReloadWins, Right
  <2>1. reloading = 0
    BY <1>1 DEF IInv, Tokens, Quiet
  <2> QED
    BY <1>1, <2>1 DEF IInv, Settled, Quiet
<1> QED
  BY InvariantKept, <1>1, PTL

(* A seek that parsed its chapter itself never shows it in an older style,    *)
(* whatever the reader did while the seek was suspended (1311-1347).          *)
THEOREM SeekIsCurrent == Spec => SeekKeepsLayout
<1>1. ASSUME IInv, [Next]_vars
      PROVE  [(SeekActivates /\ call.own /\ cur' # cur) => cur' = At(call.position)]_vars
  <2> SUFFICES ASSUME SeekActivates, call.own, cur' # cur PROVE cur' = At(call.position)
    OBVIOUS
  <2>1. call.generation = generation /\ cur' = call.chapter
    BY DEF SeekActivates, SameLayout, Activate, caches
  <2>2. call # None /\ call.chapter # None
    BY <1>1 DEF IInv, Dated, SeekActivates
  <2>3. /\ call.chapter \in Chapters /\ call.chapter.position = call.position
        /\ call.chapter.style = style
    BY <1>1, <2>1, <2>2 DEF IInv, Typed, Dated, CallRecords, Caches
  <2>4. call.chapter = [position |-> call.position, style |-> style]
    BY <2>3 DEF Chapters
  <2> QED
    BY <2>1, <2>4 DEF At
<1> QED
  BY InvariantKept, <1>1, PTL DEF Spec, SeekKeepsLayout

(* The reader hears of its user's page change only when that chapter is the   *)
(* one shown (473-477, 913-918).                                              *)
THEOREM ToldInTime == Spec => ToldWhenShown
<1>1. ASSUME IInv, [Next]_vars
      PROVE  [\A r \in reloads :
                (EndReload(r) /\ Tells(r) /\ doubt = {}) =>
                   cur' # None /\ cur'.position = r.target]_vars
  <2> SUFFICES ASSUME NEW r \in reloads, EndReload(r), Tells(r), doubt = {}
               PROVE  cur' # None /\ cur'.position = r.target
    OBVIOUS
  <2>1. r.stages = <<>> /\ cur' = cur /\ reloading = r.token /\ dur = r.target
    BY DEF EndReload, Tells, caches
  <2>2. dur \notin Left(r)
    <3>1. DOMAIN r.stages = {}
      BY <2>1
    <3> QED
      BY <3>1 DEF Left, Ahead
  <2>3. Fits(cur, dur) /\ cur # None /\ dur \in Positions
    BY <1>1, <2>1, <2>2 DEF IInv, Typed, Underway
  <2> QED
    BY <2>1, <2>3 DEF Fits
<1> QED
  BY InvariantKept, <1>1, PTL DEF Spec, ToldWhenShown

===============================================================================
