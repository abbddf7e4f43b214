--------------------------- MODULE PrivateBookStore ---------------------------
(***************************************************************************)
(* PrivateBookStore.store and the native publication below it              *)
(* (private_book_store.c, private_book_store_publish.c): a book is copied  *)
(* into a part file, synced, renamed to the name its content gives it, and *)
(* the directory is synced, under a file lock shared by all stores.  A     *)
(* store that finds the name taken compares the file there with its own.   *)
(*                                                                         *)
(* Any system call may fail, the process may die, power may fail.  What a  *)
(* name refers to after a power failure is any of the things it referred   *)
(* to since the directory was last synced; a file that was not synced may  *)
(* be torn.  Checks that the root is still the same directory (verifyRoot) *)
(* are system calls that may fail, no more.  A part's name is new          *)
(* (UUID.randomUUID), so a store, its part and its file are one value.     *)
(***************************************************************************)
EXTENDS Naturals

CONSTANTS
  Stores,       \* calls of store
  Books,        \* contents, and the names they are stored under
  Book,         \* the content each store is given
  None,
  MaxFailures,  \* bound: system calls that fail
  MaxCrashes,   \* bound: deaths of the process and losses of power
  MaxRemovals   \* bound: books removed by imports and by the shelf

ASSUME BookAssumption == Book \in [Stores -> Books]
\* "published" is PublishedBookCleanupException: the book is there, but something failed.
Outcomes == {"stored", "existing", "published", "failed"}

ASSUME NamesAssumption == Stores \intersect Books = {} /\ None \notin Stores \union Books \union Outcomes

VARIABLES
  pc,         \* where each store is
  outcome,    \* what it will answer, as far as it knows
  seen,       \* the existing file it is comparing with
  lock,       \* the store that holds .pagenest-publish.lock
  entries,    \* the directory: what each name refers to
  disk,       \* what each name may refer to after a power failure
  whole,      \* files with all their content written
  synced,     \* files whose content survives a power failure
  vouched,    \* stores whose book was published or verified and not removed since
  abandoned,  \* stores that failed to delete their part
  failures, crashes, removals

directory == <<entries, disk>>
files == <<whole, synced>>
counters == <<failures, crashes, removals>>
vars == <<pc, outcome, seen, lock, directory, files, vouched, abandoned, counters>>

Names == Stores \union Books

Steps == {"idle", "creating", "copying", "syncing", "locking", "comparing", "renaming", "checking", "flushing",
          "unlocking", "validating", "verifying", "settling", "cleaning", "closing", "answered", "dead"}

Over == {"answered", "dead"}

TypeOK ==
  /\ pc \in [Stores -> Steps]
  /\ outcome \in [Stores -> Outcomes \union {None}]
  /\ seen \in [Stores -> Stores \union {None}]
  /\ lock \in Stores \union {None}
  /\ entries \in [Names -> Stores \union {None}]
  /\ disk \in [Names -> SUBSET (Stores \union {None})]
  /\ whole \subseteq Stores /\ synced \subseteq whole
  /\ vouched \subseteq Stores /\ abandoned \subseteq Stores
  /\ failures \in Nat /\ crashes \in Nat /\ removals \in Nat

Init ==
  /\ pc = [s \in Stores |-> "idle"]
  /\ outcome = [s \in Stores |-> None] /\ seen = [s \in Stores |-> None]
  /\ lock = None
  /\ entries = [n \in Names |-> None] /\ disk = [n \in Names |-> {None}]
  /\ whole = {} /\ synced = {} /\ vouched = {} /\ abandoned = {}
  /\ failures = 0 /\ crashes = 0 /\ removals = 0

-----------------------------------------------------------------------------
Go(s, from, to) == pc[s] = from /\ pc' = [pc EXCEPT ![s] = to]

Mishap ==
  /\ failures < MaxFailures
  /\ failures' = failures + 1
  /\ UNCHANGED <<crashes, removals>>

Becomes(s, result) == outcome' = [outcome EXCEPT ![s] = result]

\* What an error turns the outcome into: a published book stays published.
Spoilt(s) == IF outcome[s] \in {"stored", "published"} THEN "published" ELSE "failed"

Point(name, file) ==
  /\ entries' = [entries EXCEPT ![name] = file]
  /\ disk' = [disk EXCEPT ![name] = @ \union {file}]

\* fsync of the directory, whose entries are `now`.
Flushed(now) == [n \in Names |-> {now[n]}]

SyncDirectory ==
  /\ disk' = Flushed(entries)
  /\ UNCHANGED entries

-----------------------------------------------------------------------------
(* The part file                                                           *)

\* The root, and the lock file in it, are opened and the directory is synced.
OpenRoot(s) ==
  /\ \/ Go(s, "idle", "creating") /\ UNCHANGED <<outcome, counters>>
     \/ Go(s, "idle", "answered") /\ Becomes(s, "failed") /\ Mishap
  /\ SyncDirectory
  /\ UNCHANGED <<seen, lock, files, vouched, abandoned>>

CreatePart(s) ==
  /\ Go(s, "creating", "copying")
  /\ Point(s, s)
  /\ UNCHANGED <<outcome, seen, lock, files, vouched, abandoned, counters>>

\* No part is made, or it is made, found unusable and not deleted again.
CreatePartFails(s) ==
  /\ Go(s, "creating", "closing")
  /\ Becomes(s, "failed") /\ Mishap
  /\ \/ UNCHANGED <<directory, abandoned>>
     \/ Point(s, s) /\ abandoned' = abandoned \union {s}
  /\ UNCHANGED <<seen, lock, files, vouched>>

\* Mutant: copying ends at an empty read.
MutantCopyPart(s) ==
  /\ Go(s, "copying", "syncing")
  /\ UNCHANGED <<outcome, seen, lock, directory, files, vouched, abandoned, counters>>

CopyPart(s) ==
  /\ Go(s, "copying", "syncing")
  /\ whole' = whole \union {s}
  /\ UNCHANGED <<outcome, seen, lock, directory, synced, vouched, abandoned, counters>>

\* Mutant: the part is not synced before it is published.
MutantSyncPart(s) ==
  /\ Go(s, "syncing", "locking")
  /\ UNCHANGED <<outcome, seen, lock, directory, files, vouched, abandoned, counters>>

SyncPart(s) ==
  /\ Go(s, "syncing", "locking")
  /\ synced' = synced \union {s}
  /\ UNCHANGED <<outcome, seen, lock, directory, whole, vouched, abandoned, counters>>

\* The input breaks off, or the part cannot be written, synced or locked for.
PartFails(s) ==
  /\ \E step \in {"copying", "syncing", "locking"} : Go(s, step, "cleaning")
  /\ Becomes(s, "failed") /\ Mishap
  /\ UNCHANGED <<seen, lock, directory, files, vouched, abandoned>>

-----------------------------------------------------------------------------
(* private_book_store_publish_no_replace                                   *)

Lock(s) ==
  /\ lock = None
  /\ Go(s, "locking", "comparing")
  /\ lock' = s
  /\ UNCHANGED <<outcome, seen, directory, files, vouched, abandoned, counters>>

\* The descriptor that was written is the file the part's name refers to.
ComparePart(s) ==
  /\ \/ entries[s] = s /\ Go(s, "comparing", "renaming") /\ UNCHANGED outcome
     \/ entries[s] # s /\ Go(s, "comparing", "unlocking") /\ Becomes(s, "failed")
  /\ UNCHANGED <<seen, lock, directory, files, vouched, abandoned, counters>>

\* Mutant: a rename that replaces.
MutantRename(s) ==
  /\ Go(s, "renaming", "checking")
  /\ Becomes(s, "stored")
  /\ entries' = [entries EXCEPT ![Book[s]] = s, ![s] = None]
  /\ disk' = [disk EXCEPT ![Book[s]] = @ \union {s}, ![s] = @ \union {None}]
  /\ vouched' = vouched \union {s}
  /\ UNCHANGED <<seen, lock, files, abandoned, counters>>

\* RENAME_NOREPLACE.
Rename(s) ==
  /\ entries[Book[s]] = None
  /\ Go(s, "renaming", "checking")
  /\ Becomes(s, "stored")
  /\ entries' = [entries EXCEPT ![Book[s]] = s, ![s] = None]
  /\ disk' = [disk EXCEPT ![Book[s]] = @ \union {s}, ![s] = @ \union {None}]
  /\ vouched' = vouched \union {s}
  /\ UNCHANGED <<seen, lock, files, abandoned, counters>>

NameTaken(s) ==
  /\ entries[Book[s]] # None
  /\ Go(s, "renaming", "unlocking")
  /\ Becomes(s, "existing")
  /\ UNCHANGED <<seen, lock, directory, files, vouched, abandoned, counters>>

CheckFinal(s) ==
  /\ \/ entries[Book[s]] = s /\ Go(s, "checking", "flushing") /\ UNCHANGED outcome
     \/ entries[Book[s]] # s /\ Go(s, "checking", "unlocking") /\ Becomes(s, "published")
  /\ UNCHANGED <<seen, lock, directory, files, vouched, abandoned, counters>>

\* Mutant: publication does not sync the directory.
MutantSyncRoot(s) ==
  /\ Go(s, "flushing", "unlocking")
  /\ UNCHANGED <<outcome, seen, lock, directory, files, vouched, abandoned, counters>>

SyncRoot(s) ==
  /\ Go(s, "flushing", "unlocking")
  /\ SyncDirectory
  /\ UNCHANGED <<outcome, seen, lock, files, vouched, abandoned, counters>>

PublicationFails(s) ==
  /\ \E step \in {"comparing", "renaming", "checking", "flushing"} : Go(s, step, "unlocking")
  /\ Becomes(s, Spoilt(s)) /\ Mishap
  /\ UNCHANGED <<seen, lock, directory, files, vouched, abandoned>>

Unlock(s) ==
  /\ Go(s, "unlocking", IF outcome[s] = "existing" THEN "validating" ELSE "cleaning")
  /\ lock' = None
  /\ UNCHANGED <<outcome, seen, directory, files, vouched, abandoned, counters>>

\* The lock stays with this store's descriptor until that is closed, or it is
\* freed and the check of the root after it fails.
UnlockFails(s) ==
  /\ Go(s, "unlocking", "cleaning")
  /\ Becomes(s, Spoilt(s)) /\ Mishap
  /\ lock' \in {lock, None}
  /\ UNCHANGED <<seen, directory, files, vouched, abandoned>>

-----------------------------------------------------------------------------
(* After publication                                                       *)

\* validateExistingBook: open the file, hash it, and see that the name still
\* refers to it.  Nothing is locked.
OpenExisting(s) ==
  /\ entries[Book[s]] # None
  /\ Go(s, "validating", "verifying")
  /\ seen' = [seen EXCEPT ![s] = entries[Book[s]]]
  /\ UNCHANGED <<outcome, lock, directory, files, vouched, abandoned, counters>>

SameContent(s) == Book[seen[s]] = Book[s] /\ seen[s] \in whole

VerifyExisting(s) ==
  /\ Go(s, "verifying", "settling")
  /\ entries[Book[s]] = seen[s] /\ SameContent(s)
  /\ vouched' = vouched \union {s}
  /\ UNCHANGED <<outcome, seen, lock, directory, files, abandoned, counters>>

ExistingIsGone(s) ==
  /\ \/ entries[Book[s]] = None /\ Go(s, "validating", "cleaning")
     \/ Go(s, "verifying", "cleaning") /\ ~(entries[Book[s]] = seen[s] /\ SameContent(s))
  /\ Becomes(s, "failed")
  /\ UNCHANGED <<seen, lock, directory, files, vouched, abandoned, counters>>

ValidationFails(s) ==
  /\ \E step \in {"validating", "verifying"} : Go(s, step, "cleaning")
  /\ Becomes(s, "failed") /\ Mishap
  /\ UNCHANGED <<seen, lock, directory, files, vouched, abandoned>>

\* The store that published the existing file may not have synced the name yet.
Settle(s) ==
  /\ Go(s, "settling", "cleaning")
  /\ SyncDirectory
  /\ UNCHANGED <<outcome, seen, lock, files, vouched, abandoned, counters>>

\* This failure is raised past the deletion of the part.
SettleFails(s) ==
  /\ Go(s, "settling", "closing")
  /\ Becomes(s, "failed") /\ Mishap
  /\ abandoned' = abandoned \union {s}
  /\ UNCHANGED <<seen, lock, directory, files, vouched>>

\* Mutant: a store that found the book there has nothing to delete either.
MutantPublished(s) == outcome[s] \in {"stored", "published", "existing"}

\* publishedParts has the part: its name is gone, nothing is left to delete.
Published(s) == outcome[s] \in {"stored", "published"}

CleanPart(s) ==
  /\ Go(s, "cleaning", "closing")
  /\ IF Published(s)
     THEN UNCHANGED directory
     ELSE /\ entries' = [entries EXCEPT ![s] = None]
          /\ disk' = Flushed(entries')
  /\ UNCHANGED <<outcome, seen, lock, files, vouched, abandoned, counters>>

CleanPartFails(s) ==
  /\ ~Published(s)
  /\ Go(s, "cleaning", "closing")
  /\ Becomes(s, IF outcome[s] = "existing" THEN "published" ELSE "failed") /\ Mishap
  /\ \/ Point(s, None) /\ UNCHANGED abandoned
     \/ abandoned' = abandoned \union {s} /\ UNCHANGED directory
  /\ UNCHANGED <<seen, lock, files, vouched>>

\* Mutant: the lock's descriptor is not closed.
MutantReleased(s) == lock

\* Closing the lock's descriptor gives up a lock that is still held.
Released(s) == IF lock = s THEN None ELSE lock

CloseRoot(s) ==
  /\ Go(s, "closing", "answered")
  /\ lock' = Released(s)
  /\ \/ UNCHANGED <<outcome, counters>>
     \/ Becomes(s, IF outcome[s] = "existing" THEN "published" ELSE Spoilt(s)) /\ Mishap
  /\ UNCHANGED <<seen, directory, files, vouched, abandoned>>

-----------------------------------------------------------------------------
(* Everybody else                                                          *)

\* An import or the shelf deletes a book; it need not sync the directory.
Remove(b) ==
  /\ removals < MaxRemovals /\ removals' = removals + 1
  /\ entries[b] # None
  /\ Point(b, None)
  /\ vouched' = {s \in vouched : Book[s] # b}
  /\ UNCHANGED <<pc, outcome, seen, lock, files, abandoned, failures, crashes>>

Die ==
  /\ crashes < MaxCrashes /\ crashes' = crashes + 1
  /\ pc' = [s \in Stores |-> IF pc[s] \in {"idle", "answered"} THEN pc[s] ELSE "dead"]
  /\ lock' = None
  /\ UNCHANGED <<outcome, seen, vouched, abandoned, failures, removals>>

Crash == Die /\ UNCHANGED <<directory, files>>

PowerLoss ==
  /\ Die
  /\ entries' \in [Names -> Stores \union {None}]
  /\ \A n \in Names : entries'[n] \in disk[n]
  /\ disk' = Flushed(entries')
  /\ whole' = synced
  /\ UNCHANGED synced

-----------------------------------------------------------------------------
Publication(s) ==
  \/ Lock(s) \/ ComparePart(s) \/ Rename(s) \/ NameTaken(s) \/ CheckFinal(s) \/ SyncRoot(s)
  \/ PublicationFails(s) \/ Unlock(s) \/ UnlockFails(s)

StoreNext(s) ==
  \/ CreatePart(s) \/ CreatePartFails(s) \/ CopyPart(s) \/ SyncPart(s) \/ PartFails(s)
  \/ Publication(s)
  \/ OpenExisting(s) \/ VerifyExisting(s) \/ ExistingIsGone(s) \/ ValidationFails(s)
  \/ Settle(s) \/ SettleFails(s) \/ CleanPart(s) \/ CleanPartFails(s) \/ CloseRoot(s)

Next ==
  \/ \E s \in Stores : OpenRoot(s) \/ StoreNext(s)
  \/ \E b \in Books : Remove(b)
  \/ Crash \/ PowerLoss

\* A store that was called is carried on with; nobody has to call one.
Fairness == \A s \in Stores : WF_vars(StoreNext(s))

Spec == Init /\ [][Next]_vars

FairSpec == Spec /\ Fairness

-----------------------------------------------------------------------------
\* Whatever a book's name refers to, now or after a power failure, is all of
\* that book and will stay so: no torn file under a name that vouches for its
\* content.  The part is synced before the rename for this (115-116).
WholeBooks ==
  \A b \in Books : \A s \in (disk[b] \union {entries[b]}) \ {None} : Book[s] = b /\ s \in synced

\* A store that answered with a book has its name on disk unless somebody
\* removed it: also the store that lost the race, although the winner may fail
\* or die before it syncs.  One that answered with a failure of its own has not
\* published anything.
AnswersHold ==
  \A s \in Stores : pc[s] = "answered" =>
    /\ outcome[s] \in {"stored", "existing"} /\ s \in vouched => None \notin disk[Book[s]]
    /\ outcome[s] = "failed" => entries[Book[s]] # s

\* A book that is there is never replaced; it can only be removed, or lost by
\* a power failure before anybody synced it.
NeverReplaced ==
  [][\A b \in Books : entries'[b] # entries[b] =>
       \/ entries[b] = None
       \/ entries'[b] = None
       \/ crashes' # crashes]_vars

\* When a store answers its part is gone, but for the failures the code knows.
PartsCleaned ==
  [][\A s \in Stores : pc[s] # "answered" /\ pc'[s] = "answered" => entries'[s] = None \/ s \in abandoned']_vars

\* The lock is always freed, so every store ends: by an answer or with its
\* process.
EveryStoreEnds == \A s \in Stores : pc[s] # "idle" ~> pc[s] \in Over
==============================================================================
