----------------------------- MODULE BookImport -----------------------------
(***************************************************************************)
(* Importing books into the private library: BookImportService over the     *)
(* private book store, the Room catalogue and the per-hash lock, with the   *)
(* two things the shelf does to the same state meanwhile (updating a row,   *)
(* removing a book) and the death of the process.                           *)
(*                                                                          *)
(* A file in the private directory is named by its content's hash and its   *)
(* extension, so <<content, extension>> is both what is imported and the    *)
(* name of its copy.  The store publishes a copy before the hash lock is    *)
(* taken; everything after that happens under the lock.                     *)
(*                                                                          *)
(* Abstracted: part files and the descriptor checks of the store (a copy    *)
(* is published in one step or not at all), other hashes on the same lock   *)
(* stripe, and fatal errors, which end the process as Crash does.           *)
(***************************************************************************)
EXTENDS Naturals, FiniteSets

CONSTANTS
  Importers,     \* calls of BookImportService.execute that may overlap
  Contents,      \* SHA-256 values
  Extensions,    \* of SupportedBookFormat
  Mishaps,       \* what may go wrong: a subset of MishapKinds
  MaxImports, MaxMishaps, MaxCrashes, MaxUpdates, MaxRemovals,   \* bounds
  None           \* null

MishapKinds == {"open", "store", "lock", "cancel", "close", "validate", "protected",
                "unreadable", "lookup", "parse", "insert", "resolve", "delete"}

ASSUME ImportAssumption ==
  /\ Mishaps \subseteq MishapKinds
  /\ MaxImports \in Nat /\ MaxMishaps \in Nat /\ MaxCrashes \in Nat
  /\ MaxUpdates \in Nat /\ MaxRemovals \in Nat
  /\ None \notin Importers /\ None \notin Contents

Files == Contents \X Extensions
Rows  == [id : Nat, sha : Contents \cup {None}, file : Files]

Refusals == {"protected", "unreadable", "parse_failed", "storage_failed", "cancelled"}
Answers  == [kind : Refusals, id : {0}] \cup [kind : {"imported", "duplicate"}, id : Nat]
              \cup {[kind |-> "none", id |-> 0]}
Refused(kind) == [kind |-> kind, id |-> 0]

Locked == {"admitting", "looking", "parsing", "inserting", "recovering",
           "cleaning", "resolving", "deleting"}
Active == {"storing", "comparing", "locking"} \cup Locked

ASSUME NoneIsNoRow == None \notin Rows

VARIABLES
  disk,      \* the files in the private directory
  rows,      \* the table of books; sha is unique unless null
  nextId,    \* its generated key
  lock,      \* who holds the lock of a hash
  pc,        \* where an import stands
  job,       \* what it imports: content and extension
  own,       \* not StoredBook.wasExisting: it published the copy itself
  match,     \* the row it found
  answer,    \* its result; while it cleans up, the result to give then
  removal,   \* the row whose file the shelf has deleted and not yet the row
  imports, mishaps, crashes, updates, removals   \* what has happened so far

importer == <<pc, job, own, match, answer>>
counts   == <<imports, mishaps, crashes, updates, removals>>
vars == <<disk, rows, nextId, lock, importer, removal, counts>>

Init ==
  /\ disk = {} /\ rows = {} /\ nextId = 1
  /\ lock = [c \in Contents |-> None]
  /\ pc = [i \in Importers |-> "idle"]
  /\ job \in {[i \in Importers |-> f] : f \in Files}   \* whatever, until Execute
  /\ own = [i \in Importers |-> FALSE]
  /\ match = [i \in Importers |-> None]
  /\ answer = [i \in Importers |-> Refused("none")]
  /\ removal = None
  /\ imports = 0 /\ mishaps = 0 /\ crashes = 0 /\ updates = 0 /\ removals = 0

-----------------------------------------------------------------------------
(* Steps of an import *)

\* One of the things that go wrong happens, or none does.
Mishap(kind) ==
  /\ kind \in Mishaps /\ mishaps < MaxMishaps
  /\ mishaps' = mishaps + 1

Fine == UNCHANGED mishaps

Hash(i) == job[i][1]

GoTo(i, place) == pc' = [pc EXCEPT ![i] = place]

Plan(i, result) == answer' = [answer EXCEPT ![i] = result]

MutantReleased(i) ==
  IF pc[i] \in Locked \ {"cleaning"} THEN [lock EXCEPT ![Hash(i)] = None] ELSE lock

\* withHashLock() releases what it holds, whatever the outcome of the block.
Released(i) == IF pc[i] \in Locked THEN [lock EXCEPT ![Hash(i)] = None] ELSE lock

\* executeSupported() ends.
End(i, result) == GoTo(i, "done") /\ Plan(i, result) /\ lock' = Released(i)

\* What is reported when the clean-up itself fails: a cancellation stays one.
Spoilt(result) == IF result.kind = "cancelled" THEN result ELSE Refused("storage_failed")

StartCleaning(i, kind) == GoTo(i, "cleaning") /\ Plan(i, Refused(kind)) /\ UNCHANGED lock

RowsOf(hash) == {r \in rows : r.sha = hash}

Execute(i, file) ==
  /\ pc[i] \in {"idle", "done"}
  /\ imports < MaxImports /\ imports' = imports + 1
  /\ job' = [job EXCEPT ![i] = file]
  /\ own' = [own EXCEPT ![i] = FALSE]
  /\ match' = [match EXCEPT ![i] = None]
  /\ \/ Fine /\ GoTo(i, "storing") /\ Plan(i, Refused("none"))
     \/ Mishap("open") /\ GoTo(i, "done") /\ Plan(i, Refused("unreadable"))
  /\ UNCHANGED <<disk, rows, nextId, lock, removal, crashes, updates, removals>>

\* PrivateBookStore.store(): the finished copy is renamed into place unless a file
\* of that name is there, which is then compared with it.
Store(i) ==
  /\ pc[i] = "storing"
  /\ \/ /\ job[i] \notin disk /\ Fine
        /\ disk' = disk \cup {job[i]}
        /\ own' = [own EXCEPT ![i] = TRUE]
        /\ GoTo(i, "locking") /\ UNCHANGED <<answer, lock>>
     \/ /\ job[i] \in disk /\ Fine
        /\ GoTo(i, "comparing") /\ UNCHANGED <<disk, own, answer, lock>>
     \/ /\ Mishap("store")
        /\ End(i, Refused("storage_failed")) /\ UNCHANGED <<disk, own>>
  /\ UNCHANGED <<rows, nextId, job, match, removal, imports, crashes, updates, removals>>

MutantSameBook(i) == FALSE

SameBook(i) == job[i] \in disk

\* validateExistingBook(): the file may be gone again.
Compare(i) ==
  /\ pc[i] = "comparing"
  /\ \/ SameBook(i) /\ Fine /\ GoTo(i, "locking") /\ UNCHANGED <<answer, lock>>
     \/ /\ (~ SameBook(i) /\ Fine) \/ Mishap("store")
        /\ End(i, Refused("storage_failed"))
  /\ UNCHANGED <<disk, rows, nextId, job, own, match, removal, imports, crashes, updates, removals>>

MutantFree(hash) == TRUE

Free(hash) == lock[hash] = None

Acquire(i) ==
  /\ pc[i] = "locking" /\ Free(Hash(i))
  /\ lock' = [lock EXCEPT ![Hash(i)] = i]
  /\ GoTo(i, "admitting")
  /\ UNCHANGED <<disk, rows, nextId, job, own, match, answer, removal, counts>>

\* Without the lock nothing may be deleted: the published copy stays.
AcquireFails(i) ==
  /\ pc[i] = "locking"
  /\ \/ Mishap("lock") /\ End(i, Refused("storage_failed"))
     \/ Mishap("cancel") /\ End(i, Refused("cancelled"))
  /\ UNCHANGED <<disk, rows, nextId, job, own, match, removal, imports, crashes, updates, removals>>

\* Closing the input, the failure kept from publication, validation, protection.
Admit(i) ==
  /\ pc[i] = "admitting"
  /\ \/ Mishap("close") /\ StartCleaning(i, "storage_failed")
     \/ Mishap("cancel") /\ StartCleaning(i, "cancelled")
     \/ /\ (job[i] \notin disk /\ Fine) \/ Mishap("validate")
        /\ End(i, Refused("storage_failed"))
     \/ \E verdict \in {"protected", "unreadable"} :
          job[i] \in disk /\ Mishap(verdict) /\ StartCleaning(i, verdict)
     \/ job[i] \in disk /\ Fine /\ GoTo(i, "looking") /\ UNCHANGED <<answer, lock>>
  /\ UNCHANGED <<disk, rows, nextId, job, own, match, removal, imports, crashes, updates, removals>>

\* A row of this hash is found and its file is to be compared with the copy.
Found(i, row) ==
  /\ match' = [match EXCEPT ![i] = row]
  /\ GoTo(i, "resolving") /\ UNCHANGED lock

MutantDuplicate(row) == [kind |-> "duplicate", id |-> 0 - 1]

Duplicate(row) == [kind |-> "duplicate", id |-> row.id]

LookUp(i) ==
  /\ pc[i] = "looking"
  /\ \/ \E r \in RowsOf(Hash(i)) : Fine /\ Found(i, r) /\ Plan(i, Duplicate(r))
     \/ /\ RowsOf(Hash(i)) = {} /\ Fine
        /\ GoTo(i, "parsing") /\ UNCHANGED <<match, answer, lock>>
     \/ Mishap("lookup") /\ StartCleaning(i, "storage_failed") /\ UNCHANGED match
     \/ Mishap("cancel") /\ StartCleaning(i, "cancelled") /\ UNCHANGED match
  /\ UNCHANGED <<disk, rows, nextId, job, own, removal, imports, crashes, updates, removals>>

Parse(i) ==
  /\ pc[i] = "parsing"
  /\ \/ job[i] \in disk /\ Fine /\ GoTo(i, "inserting") /\ UNCHANGED <<answer, lock>>
     \/ /\ (job[i] \notin disk /\ Fine) \/ Mishap("parse")
        /\ GoTo(i, "deleting") /\ Plan(i, Refused("parse_failed")) /\ UNCHANGED lock
     \/ Mishap("cancel") /\ StartCleaning(i, "cancelled")
  /\ UNCHANGED <<disk, rows, nextId, job, own, match, removal, imports, crashes, updates, removals>>

\* BookDao.insertOrGetImport(): one transaction.
InsertOrIgnore(i) ==
  IF RowsOf(Hash(i)) = {}
  THEN /\ rows' = rows \cup {[id |-> nextId, sha |-> Hash(i), file |-> job[i]]}
       /\ nextId' = nextId + 1
  ELSE UNCHANGED <<rows, nextId>>

\* The transaction answers, or it throws before or after it has committed.
Insert(i) ==
  /\ pc[i] = "inserting"
  /\ \/ /\ InsertOrIgnore(i) /\ Fine
        /\ IF RowsOf(Hash(i)) = {}
           THEN End(i, [kind |-> "imported", id |-> nextId]) /\ UNCHANGED match
           ELSE \E r \in RowsOf(Hash(i)) : Found(i, r) /\ Plan(i, Duplicate(r))
     \/ /\ InsertOrIgnore(i) \/ UNCHANGED <<rows, nextId>>
        /\ \/ Mishap("insert") /\ Plan(i, Refused("storage_failed"))
           \/ Mishap("cancel") /\ Plan(i, Refused("cancelled"))
        /\ GoTo(i, "recovering") /\ UNCHANGED <<match, lock>>
  /\ UNCHANGED <<disk, job, own, removal, imports, crashes, updates, removals>>

\* RoomBookImportCatalog looks once more before it passes the failure on.
Recover(i) ==
  /\ pc[i] = "recovering"
  /\ \/ \E r \in RowsOf(Hash(i)) : Fine /\ Found(i, r) /\ Plan(i, Duplicate(r))
     \/ /\ (RowsOf(Hash(i)) = {} /\ Fine) \/ Mishap("lookup")
        /\ GoTo(i, "cleaning") /\ UNCHANGED <<match, answer, lock>>
  /\ UNCHANGED <<disk, rows, nextId, job, own, removal, imports, crashes, updates, removals>>

MutantCatalogMatch(i) == {}

\* With catalogStateUnknown the catalogue is asked again.
CatalogMatch(i) == RowsOf(Hash(i))

\* cleanupNewCopyInsideLock(): another import may have listed the file.
Clean(i) ==
  /\ pc[i] = "cleaning"
  /\ \/ \E r \in CatalogMatch(i) : Fine /\ Found(i, r) /\ UNCHANGED answer
     \/ /\ CatalogMatch(i) = {} /\ Fine
        /\ GoTo(i, "deleting") /\ UNCHANGED <<match, answer, lock>>
     \/ Mishap("lookup") /\ End(i, Spoilt(answer[i])) /\ UNCHANGED match
     \/ /\ answer[i].kind # "cancelled" /\ Mishap("cancel")
        /\ StartCleaning(i, "cancelled") /\ UNCHANGED match
  /\ UNCHANGED <<disk, rows, nextId, job, own, removal, imports, crashes, updates, removals>>

\* The copy is unlinked; a failure after that leaves it unlinked all the same.
Unlink(i) ==
  \/ Fine /\ disk' = disk \ {job[i]} /\ End(i, answer[i])
  \/ Mishap("delete") /\ disk' \in {disk, disk \ {job[i]}} /\ End(i, Spoilt(answer[i]))

MutantRedundant(i) == own[i]

MutantNeverRedundant(i) == FALSE

\* The row names another file, so the copy this import made is one too many.
Redundant(i) == match[i].file # job[i] /\ own[i]

\* resolveDuplicate(): both files must be there.
Resolve(i) ==
  /\ pc[i] = "resolving"
  /\ \/ /\ (~ {job[i], match[i].file} \subseteq disk /\ Fine) \/ Mishap("resolve")
        /\ End(i, Spoilt(answer[i])) /\ UNCHANGED disk
     \/ /\ {job[i], match[i].file} \subseteq disk
        /\ \/ ~ Redundant(i) /\ Fine /\ End(i, answer[i]) /\ UNCHANGED disk
           \/ Redundant(i) /\ Unlink(i)
  /\ UNCHANGED <<rows, nextId, job, own, match, removal, imports, crashes, updates, removals>>

\* deleteNewCopy(): a copy that was there before is not this import's to delete.
Delete(i) ==
  /\ pc[i] = "deleting"
  /\ \/ ~ own[i] /\ Fine /\ End(i, answer[i]) /\ UNCHANGED disk
     \/ own[i] /\ job[i] \in disk /\ Unlink(i)
     \/ own[i] /\ job[i] \notin disk /\ Fine /\ End(i, Spoilt(answer[i])) /\ UNCHANGED disk
  /\ UNCHANGED <<rows, nextId, job, own, match, removal, imports, crashes, updates, removals>>

Step(i) == \/ Store(i) \/ Compare(i) \/ AcquireFails(i) \/ Admit(i) \/ LookUp(i) \/ Parse(i)
           \/ Insert(i) \/ Recover(i) \/ Clean(i) \/ Resolve(i) \/ Delete(i)

-----------------------------------------------------------------------------
(* The shelf and the process *)

\* Opening, rating or reading a book writes back the whole row, and Book has no
\* field for the hash: BookMapperImpl.toBookEntity() leaves it null.
UpdateBook ==
  /\ updates < MaxUpdates /\ updates' = updates + 1
  /\ \E r \in rows : rows' = (rows \ {r}) \cup {[r EXCEPT !.sha = None]}
  /\ UNCHANGED <<disk, nextId, lock, importer, removal, imports, mishaps, crashes, removals>>

\* removeBooks() with hardRemove: the file first, then the row, without the lock.
RemoveFile ==
  /\ removal = None
  /\ removals < MaxRemovals /\ removals' = removals + 1
  /\ \E r \in rows : r.file \in disk /\ disk' = disk \ {r.file} /\ removal' = r
  /\ UNCHANGED <<rows, nextId, lock, importer, imports, mishaps, crashes, updates>>

RemoveRow ==
  /\ removal # None
  /\ rows' = {r \in rows : r.id # removal.id}
  /\ removal' = None
  /\ UNCHANGED <<disk, nextId, lock, importer, counts>>

\* The process dies; the directory and the database stay.
Crash ==
  /\ crashes < MaxCrashes /\ crashes' = crashes + 1
  /\ lock' = [c \in Contents |-> None]
  /\ pc' = [i \in Importers |-> "idle"]
  /\ own' = [i \in Importers |-> FALSE]
  /\ match' = [i \in Importers |-> None]
  /\ answer' = [i \in Importers |-> Refused("none")]
  /\ removal' = None
  /\ UNCHANGED <<disk, rows, nextId, job, imports, mishaps, updates, removals>>

Next ==
  \/ \E i \in Importers : (\E f \in Files : Execute(i, f)) \/ Acquire(i) \/ Step(i)
  \/ UpdateBook \/ RemoveFile \/ RemoveRow \/ Crash

Spec == Init /\ [][Next]_vars

\* A coroutine that can go on does; Kotlin's Mutex hands the lock on in order.
Fairness == \A i \in Importers : WF_vars(Step(i)) /\ SF_vars(Acquire(i))
FairSpec == Spec /\ Fairness

-----------------------------------------------------------------------------
(* Properties *)

\* Every variable has its type.
TypeOK ==
  /\ disk \subseteq Files /\ rows \subseteq Rows /\ nextId \in Nat
  /\ lock \in [Contents -> Importers \cup {None}]
  /\ pc \in [Importers -> Active \cup {"idle", "done"}]
  /\ job \in [Importers -> Files]
  /\ own \in [Importers -> BOOLEAN]
  /\ match \in [Importers -> Rows \cup {None}]
  /\ answer \in [Importers -> Answers]
  /\ removal \in Rows \cup {None}
  /\ imports \in Nat /\ mishaps \in Nat /\ crashes \in Nat /\ updates \in Nat /\ removals \in Nat

Untouched == updates = 0 /\ removals = 0

\* Whatever fails, is cancelled or dies, a listed book can be opened: as long as
\* only imports are at work, the file of every row is in the private directory.
RowHasFile == Untouched => \A r \in rows : r.file \in disk

\* An import never takes the file of a book the catalogue knows by its hash, not
\* even while the shelf updates and removes books; only the shelf's removal does.
KeepsListedFiles ==
  [][\A r \in rows : (r.sha # None /\ r.file \in disk /\ removals' = removals) => r.file \in disk']_vars

\* An import that says Imported or Duplicate names a row of its content that opens.
AnswerIsTrue ==
  Untouched => \A i \in Importers :
    (pc[i] = "done" /\ answer[i].kind \in {"imported", "duplicate"})
      => \E r \in rows : r.id = answer[i].id /\ r.sha = Hash(i) /\ r.file \in disk

\* An import that ends as a duplicate or refused for what the book is leaves no
\* copy of its own behind that no row names.
RefusedLeavesNothing ==
  [][\A i \in Importers :
       (/\ pc[i] # "done" /\ pc'[i] = "done" /\ own[i] /\ removals = 0
        /\ answer'[i].kind \in {"duplicate", "protected", "unreadable", "parse_failed"})
         => job[i] \notin disk' \/ \E r \in rows' : r.file = job[i]]_vars

\* When nothing goes wrong but the process dying, an import that fails fails
\* because the same content is on the shelf already; what a crash left is adopted.
FaultlessImportIsKept ==
  (Untouched /\ mishaps = 0) =>
    \A i \in Importers : pc[i] = "done" =>
      \/ answer[i].kind \in {"imported", "duplicate"}
      \/ answer[i].kind = "storage_failed" /\ RowsOf(Hash(i)) # {}

\* Every import ends: no failure, cancellation or crash leaves a hash locked.
EveryImportEnds == \A i \in Importers : (pc[i] \in Active) ~> (pc[i] \notin Active)

\* Importing the same content again lists it once, however often it is imported.
OneRowPerContent == \A r, s \in rows : r.file[1] = s.file[1] => r.id = s.id
=============================================================================
