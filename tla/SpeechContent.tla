----------------------------- MODULE SpeechContent -----------------------------
(***************************************************************************)
(* The two content sources of a read-aloud session, ReflowableSpeech-       *)
(* ContentSource.kt (over the reader's pages) and PdfSpeechContentSource.kt *)
(* (over the text extracted from a document), used the way SpeechSession    *)
(* uses a source: a segment is read to its end and followed by next(); a    *)
(* command that answers null leaves the voice where it is.                  *)
(*                                                                          *)
(* Abstracted: a segment is <<page, number on that page>>; pages are        *)
(* numbered through the chapters; the layout does not change (ReaderLayout  *)
(* models that), so a seek is refused as a whole or carried out as a whole. *)
(***************************************************************************)
EXTENDS Naturals, Sequences, FiniteSets, SequencesExt

CONSTANTS
  Books,   \* what may be read: how many segments each page of a book yields
  Kinds,   \* the sources in use: "reflowable", "pdf"
  None     \* null

ASSUME ContentAssumption ==
  /\ Books \subseteq Seq(Nat)
  /\ Kinds \subseteq {"reflowable", "pdf"}
  /\ None \notin Nat \X Nat

VARIABLES
  kind, book,   \* which source, over which book
  cursor,       \* the source's fields and the reader's page
  reading,      \* the segment the session reads, or None
  played        \* the session has been started

vars == <<kind, book, cursor, reading, played>>

Pages == DOMAIN book

\* The book's segments in order.
Text == FlattenSeq([p \in Pages |-> [i \in 1..book[p] |-> <<p, i>>]])

InText(segment) == \E k \in DOMAIN Text : Text[k] = segment

\* `nav` is the page the reader shows, `page` the page the source took a snapshot
\* of, `index` segmentIndex + 1: 0 when no segment is selected.
Cursor(nav, page, index) == [nav |-> nav, page |-> page, index |-> index]

Result(c, answer) == [cursor |-> c, answer |-> answer]

-----------------------------------------------------------------------------
(* The reflowable source *)

MutantFirstOfPage(p) == 1

Spoken(pages) == {p \in pages : book[p] > 0}

\* selectFirstNonEmpty from page p on: every page it tries becomes the source's
\* page and the reader's, the last one too when all are blank.
SelectForward(c, p) ==
  LET found == Spoken(p..Len(book)) IN
    IF p > Len(book) THEN Result(c, None)
    ELSE IF found = {} THEN Result(Cursor(Len(book), Len(book), 0), None)
    ELSE LET q == CHOOSE q \in found : \A r \in found : q <= r IN
           Result(Cursor(q, q, 1), <<q, 1>>)

LastOfPage(p) == book[p]

SelectBackward(c, p) ==
  LET found == Spoken(1..p) IN
    IF p = 0 THEN Result(c, None)
    ELSE IF found = {} THEN Result(Cursor(1, 1, 0), None)
    ELSE LET q == CHOOSE q \in found : \A r \in found : r <= q IN
           Result(Cursor(q, q, LastOfPage(q)), <<q, LastOfPage(q)>>)

ReflowableCurrent(c) ==
  IF c.index > 0 THEN Result(c, <<c.page, c.index>>) ELSE SelectForward(c, c.nav)

MutantPastPage(c) ==
  IF c.index = 0 THEN ReflowableCurrent(c)
  ELSE IF c.index <= book[c.page]
    THEN Result([c EXCEPT !.index = @ + 1], <<c.page, c.index + 1>>)
    ELSE SelectForward(c, c.nav + 1)

ReflowableNext(c) ==
  IF c.index = 0 THEN ReflowableCurrent(c)
  ELSE IF c.index < book[c.page]
    THEN Result([c EXCEPT !.index = @ + 1], <<c.page, c.index + 1>>)
    ELSE SelectForward(c, c.nav + 1)

ReflowablePrevious(c) ==
  IF c.index = 0 THEN ReflowableCurrent(c)
  ELSE IF c.index > 1
    THEN Result([c EXCEPT !.index = @ - 1], <<c.page, c.index - 1>>)
    ELSE SelectBackward(c, c.nav - 1)

MutantMovesFirst(c, s, refused) ==
  IF ~InText(s) THEN Result(c, None)
  ELSE Result(Cursor(s[1], s[1], s[2]), IF refused THEN None ELSE s)

\* A seek to segment s, which the reader may refuse while it lays out anew.
ReflowableSeek(c, s, refused) ==
  IF refused \/ ~InText(s) THEN Result(c, None) ELSE Result(Cursor(s[1], s[1], s[2]), s)

-----------------------------------------------------------------------------
(* The PDF source: an index into the extracted segments, no page of its own *)

PdfAt(c, k) == Result([c EXCEPT !.index = k], Text[k])

PdfCurrent(c) ==
  IF c.index > 0 THEN PdfAt(c, c.index)
  ELSE IF Text # <<>> THEN PdfAt(c, 1) ELSE Result(c, None)

MutantStops(c) == c.index + 1 < Len(Text)
HasFollowing(c) == c.index < Len(Text)

PdfNext(c) ==
  IF c.index = 0 THEN PdfCurrent(c)
  ELSE IF HasFollowing(c) THEN PdfAt(c, c.index + 1) ELSE Result(c, None)

PdfPrevious(c) ==
  IF c.index = 0 THEN PdfCurrent(c)
  ELSE IF c.index > 1 THEN PdfAt(c, c.index - 1) ELSE Result(c, None)

\* indexOfFirst's -1 becomes segmentIndex where there is no such segment.
PdfSeek(c, s) ==
  IF InText(s) THEN PdfAt(c, CHOOSE k \in DOMAIN Text : Text[k] = s)
  ELSE Result([c EXCEPT !.index = 0], None)

-----------------------------------------------------------------------------
Reflowable == kind = "reflowable"

Current(c)  == IF Reflowable THEN ReflowableCurrent(c)  ELSE PdfCurrent(c)
Following(c) == IF Reflowable THEN ReflowableNext(c)     ELSE PdfNext(c)
Preceding(c) == IF Reflowable THEN ReflowablePrevious(c) ELSE PdfPrevious(c)
Sought(c, s, refused) == IF Reflowable THEN ReflowableSeek(c, s, refused) ELSE PdfSeek(c, s)

Init ==
  /\ kind \in Kinds /\ book \in Books
  /\ \E p \in Pages : cursor = Cursor(p, 0, 0)
  /\ reading = None /\ played = FALSE

\* The session begins what the source answered.
Read(result) ==
  /\ cursor' = result.cursor
  /\ reading' = result.answer

\* A command's null answer changes nothing the listener hears.
Move(result) ==
  /\ cursor' = result.cursor
  /\ reading' = IF result.answer = None THEN reading ELSE result.answer
  /\ UNCHANGED <<kind, book, played>>

\* ReaderSpeechManager.start() seeks a PDF to the page shown before it starts.
Start ==
  /\ ~played
  /\ played' = TRUE
  /\ Read(Current(IF Reflowable THEN cursor ELSE PdfSeek(cursor, <<cursor.nav, 1>>).cursor))
  /\ UNCHANGED <<kind, book>>

Finished ==
  /\ reading # None
  /\ Read(Following(cursor))
  /\ UNCHANGED <<kind, book, played>>

\* Also after the end, where the session still has its source.
NextCommand     == played /\ Move(Following(cursor))
PreviousCommand == played /\ Move(Preceding(cursor))

\* The user turns to page p, and the session is told to read from its top.  A
\* reflowable page without text asks for nothing, nor does the PDF page being
\* read.
TurnsTo(p) ==
  /\ reading # None
  /\ Reflowable \/ p # reading[1]
  /\ LET turned == [cursor EXCEPT !.nav = p] IN
       IF Reflowable /\ book[p] = 0 THEN Move(Result(turned, None))
       ELSE \E refused \in BOOLEAN : Move(Sought(turned, <<p, 1>>, refused))

Next ==
  \/ Start \/ Finished \/ NextCommand \/ PreviousCommand
  \/ \E p \in Pages : TurnsTo(p)

Spec == Init /\ [][Next]_vars

-----------------------------------------------------------------------------
(* Properties *)

Segments == {Text[k] : k \in DOMAIN Text}

TypeOK ==
  /\ kind \in Kinds /\ book \in Books /\ played \in BOOLEAN
  /\ cursor.nav \in Pages /\ cursor.page \in Pages \cup {0}
  /\ cursor.index \in 0..(IF Reflowable THEN IF cursor.page = 0 THEN 0 ELSE book[cursor.page]
                          ELSE Len(Text))
  /\ reading \in Segments \cup {None}

Selected == IF Reflowable THEN <<cursor.page, cursor.index>> ELSE Text[cursor.index]

(* The voice and the source agree: what is read is what the source has        *)
(* selected, so a pause, a highlight and the committed progress name the      *)
(* place heard; unless a move or a seek that found nothing left the source    *)
(* with no selection.                                                         *)
VoiceIsSelected == reading # None /\ cursor.index > 0 => reading = Selected

Ahead(segment) ==
  LET later == {k \in DOMAIN Text : \E i \in 1..(k - 1) : Text[i] = segment}
  IN IF later = {} THEN None ELSE Text[CHOOSE k \in later : \A j \in later : k <= j]

\* The source has kept its place, and the reader its page.
InPlace == cursor.index > 0 /\ (Reflowable => cursor.nav = cursor.page)

(* Where the source kept its place, a finished segment is followed by the     *)
(* next one of the book, over blank pages and page ends, and the last one by  *)
(* the end: nothing is read twice or left out.                                *)
ContinuesInOrder == [][Finished /\ InPlace => reading' = Ahead(reading)]_vars

(* Next and previous undo each other, over page ends and blank pages: going   *)
(* on and back, or back and on, returns to the segment it set out from.  One  *)
(* that finds nothing, the pages beyond being blank, may leave its place, but  *)
(* only so that what follows is read again or is still the end: it never costs *)
(* a segment (ReflowableSpeechContentSource.kt 98-121).                       *)
MovesInvert ==
  reading # None /\ InPlace =>
    /\ LET on == Following(cursor) IN
         IF on.answer # None THEN Preceding(on.cursor) = Result(cursor, reading)
                             ELSE Following(on.cursor).answer = None
    /\ LET back == Preceding(cursor) IN
         IF back.answer # None THEN Following(back.cursor) = Result(cursor, reading)
         ELSE back.cursor = cursor \/ Following(back.cursor).answer = reading

-----------------------------------------------------------------------------
(* The design promises to fetch the segments that follow continuously across  *)
(* pages (docs/superpowers/specs/2026-08-23-voice-reading-design.md 53): a    *)
(* finished segment is followed by a later one, or by the end.                *)
NeverGoesBack ==
  [][ (Finished /\ reading' # None) =>
        \E j, k \in DOMAIN Text : j < k /\ Text[j] = reading /\ Text[k] = reading' ]_vars
===============================================================================
