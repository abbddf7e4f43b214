------------------------ MODULE PrivateBookStoreProofs ------------------------
(***************************************************************************)
(* What holds of PrivateBookStore for any number of stores, books,         *)
(* failures, crashes and removals.                                         *)
(***************************************************************************)
EXTENDS PrivateBookStore, TLAPS

-----------------------------------------------------------------------------
(* The inductive invariant                                                 *)

\* What a store has done, and may have claimed, where it stands.
Staged ==
  \A s \in Stores :
    /\ pc[s] = "syncing" => s \in whole
    /\ pc[s] \in {"locking", "comparing", "renaming"} => s \in synced
    /\ pc[s] \in {"idle", "creating", "copying", "syncing", "locking", "comparing", "renaming"} =>
         outcome[s] = None /\ s \notin vouched
    /\ pc[s] \in {"checking", "flushing"} => outcome[s] = "stored"
    /\ pc[s] \in {"validating", "verifying", "settling"} => outcome[s] = "existing"

\* Only a store that knows it published has its file under a book's name.
Credited ==
  \A b \in Books : \A s \in Stores :
    s \in disk[b] \union {entries[b]} => outcome[s] \in {"stored", "published"}

\* A power failure may leave things as they are.
OnDisk == \A n \in Names : entries[n] \in disk[n]

\* A store that still works finds the book it vouches for.
Kept == \A s \in vouched : pc[s] \notin Over => entries[Book[s]] # None

\* From here on a store relies on the directory having been synced.
Settled(s) ==
  \/ outcome[s] = "stored" /\ pc[s] \in {"unlocking", "cleaning", "closing", "answered"}
  \/ outcome[s] = "existing" /\ pc[s] \in {"cleaning", "closing", "answered"}

Durable == \A s \in vouched : Settled(s) => None \notin disk[Book[s]]

IInv == TypeOK /\ Staged /\ WholeBooks /\ Credited /\ OnDisk /\ Kept /\ Durable

\* Stores, books and None are apart.
LEMMA Apart == /\ \A s \in Stores : Book[s] \in Books /\ s \notin Books /\ s # None
               /\ \A b \in Books : b \notin Stores /\ b # None
               /\ None \notin {"stored", "existing", "published", "failed"}
  BY BookAssumption, NamesAssumption DEF Outcomes

LEMMA InitIInv == Init => IInv
  BY BookAssumption, NamesAssumption DEF Init, IInv, TypeOK, Staged, WholeBooks, Credited, OnDisk, Kept, Durable,
     Settled, Names, Steps, Over, Outcomes

-----------------------------------------------------------------------------
(* One lemma per group of steps                                            *)

LEMMA OpenRootKeeps == ASSUME IInv, NEW s \in Stores, OpenRoot(s) PROVE IInv'
<1> USE Apart, BookAssumption DEF IInv, TypeOK, files, directory, counters, Mishap, Go, Becomes,
       OpenRoot, SyncDirectory, Flushed
<1>1. TypeOK' BY DEF Names, Steps, Outcomes
<1>2. Staged' BY DEF Staged, Steps
<1>3. WholeBooks' BY DEF WholeBooks, Names, Staged
<1>4. Credited'
  <2> SUFFICES ASSUME NEW b \in Books, NEW t \in Stores, t \in disk'[b] \union {entries'[b]}
               PROVE outcome'[t] \in {"stored", "published"}
    BY DEF Credited
  <2> QED BY DEF Credited, Names, Staged
<1>5. OnDisk' BY DEF OnDisk, Names
<1>6. Kept'
  <2> SUFFICES ASSUME NEW t \in Stores, t \in vouched', pc'[t] \notin Over PROVE entries'[Book[t]] # None
    BY <1>1 DEF Kept
  <2> QED BY DEF Kept, Names, Over, Staged
<1>7. Durable'
  <2> SUFFICES ASSUME NEW t \in Stores, t \in vouched', Settled(t)' PROVE None \notin disk'[Book[t]]
    BY <1>1 DEF Durable
  <2> QED BY DEF Durable, Settled, Kept, OnDisk, Names, Staged, Over
<1> QED BY <1>1, <1>2, <1>3, <1>4, <1>5, <1>6, <1>7

LEMMA CreatePartKeeps == ASSUME IInv, NEW s \in Stores, CreatePart(s) PROVE IInv'
  BY BookAssumption, NamesAssumption DEF IInv, TypeOK, Staged, WholeBooks, Credited, OnDisk, Kept, Durable,
     Settled, Names, Steps, Over, Outcomes, files, directory, counters, Mishap, Go, Becomes, 
     CreatePart, Point

LEMMA CreatePartFailsKeeps == ASSUME IInv, NEW s \in Stores, CreatePartFails(s) PROVE IInv'
<1> USE Apart, BookAssumption DEF IInv, TypeOK, files, directory, counters, Mishap, Go, Becomes,
       CreatePartFails, Point
<1>1. TypeOK' BY DEF Names, Steps, Outcomes
<1>2. Staged' BY DEF Staged, Steps
<1>3. WholeBooks' BY DEF WholeBooks, Names, Staged
<1>4. Credited'
  <2> SUFFICES ASSUME NEW b \in Books, NEW t \in Stores, t \in disk'[b] \union {entries'[b]}
               PROVE outcome'[t] \in {"stored", "published"}
    BY DEF Credited
  <2> QED BY DEF Credited, Names, Staged
<1>5. OnDisk' BY DEF OnDisk, Names
<1>6. Kept'
  <2> SUFFICES ASSUME NEW t \in Stores, t \in vouched', pc'[t] \notin Over PROVE entries'[Book[t]] # None
    BY <1>1 DEF Kept
  <2> QED BY DEF Kept, Names, Over, Staged
<1>7. Durable'
  <2> SUFFICES ASSUME NEW t \in Stores, t \in vouched', Settled(t)' PROVE None \notin disk'[Book[t]]
    BY <1>1 DEF Durable
  <2> QED BY DEF Durable, Settled, Kept, OnDisk, Names, Staged, Over
<1> QED BY <1>1, <1>2, <1>3, <1>4, <1>5, <1>6, <1>7

LEMMA CopyPartKeeps == ASSUME IInv, NEW s \in Stores, CopyPart(s) PROVE IInv'
  BY BookAssumption, NamesAssumption DEF IInv, TypeOK, Staged, WholeBooks, Credited, OnDisk, Kept, Durable,
     Settled, Names, Steps, Over, Outcomes, files, directory, counters, Mishap, Go, Becomes, 
     CopyPart

LEMMA SyncPartKeeps == ASSUME IInv, NEW s \in Stores, SyncPart(s) PROVE IInv'
  BY BookAssumption, NamesAssumption DEF IInv, TypeOK, Staged, WholeBooks, Credited, OnDisk, Kept, Durable,
     Settled, Names, Steps, Over, Outcomes, files, directory, counters, Mishap, Go, Becomes, 
     SyncPart

LEMMA PartFailsKeeps == ASSUME IInv, NEW s \in Stores, PartFails(s) PROVE IInv'
<1> USE Apart, BookAssumption DEF IInv, TypeOK, files, directory, counters, Mishap, Go, Becomes,
       PartFails
<1>1. TypeOK' BY DEF Names, Steps, Outcomes
<1>2. Staged' BY DEF Staged, Steps
<1>3. WholeBooks' BY DEF WholeBooks, Names, Staged
<1>4. Credited'
  <2> SUFFICES ASSUME NEW b \in Books, NEW t \in Stores, t \in disk'[b] \union {entries'[b]}
               PROVE outcome'[t] \in {"stored", "published"}
    BY DEF Credited
  <2> QED BY DEF Credited, Names, Staged
<1>5. OnDisk' BY DEF OnDisk, Names
<1>6. Kept'
  <2> SUFFICES ASSUME NEW t \in Stores, t \in vouched', pc'[t] \notin Over PROVE entries'[Book[t]] # None
    BY <1>1 DEF Kept
  <2> QED BY DEF Kept, Names, Over, Staged
<1>7. Durable'
  <2> SUFFICES ASSUME NEW t \in Stores, t \in vouched', Settled(t)' PROVE None \notin disk'[Book[t]]
    BY <1>1 DEF Durable
  <2> QED BY DEF Durable, Settled, Kept, OnDisk, Names, Staged, Over
<1> QED BY <1>1, <1>2, <1>3, <1>4, <1>5, <1>6, <1>7

LEMMA LockKeeps == ASSUME IInv, NEW s \in Stores, Lock(s) PROVE IInv'
  BY BookAssumption, NamesAssumption DEF IInv, TypeOK, Staged, WholeBooks, Credited, OnDisk, Kept, Durable,
     Settled, Names, Steps, Over, Outcomes, files, directory, counters, Mishap, Go, Becomes, 
     Lock

LEMMA ComparePartKeeps == ASSUME IInv, NEW s \in Stores, ComparePart(s) PROVE IInv'
<1> USE Apart, BookAssumption DEF IInv, TypeOK, files, directory, counters, Mishap, Go, Becomes,
       ComparePart
<1>1. TypeOK' BY DEF Names, Steps, Outcomes
<1>2. Staged' BY DEF Staged, Steps
<1>3. WholeBooks' BY DEF WholeBooks, Names, Staged
<1>4. Credited'
  <2> SUFFICES ASSUME NEW b \in Books, NEW t \in Stores, t \in disk'[b] \union {entries'[b]}
               PROVE outcome'[t] \in {"stored", "published"}
    BY DEF Credited
  <2> QED BY DEF Credited, Names, Staged
<1>5. OnDisk' BY DEF OnDisk, Names
<1>6. Kept'
  <2> SUFFICES ASSUME NEW t \in Stores, t \in vouched', pc'[t] \notin Over PROVE entries'[Book[t]] # None
    BY <1>1 DEF Kept
  <2> QED BY DEF Kept, Names, Over, Staged
<1>7. Durable'
  <2> SUFFICES ASSUME NEW t \in Stores, t \in vouched', Settled(t)' PROVE None \notin disk'[Book[t]]
    BY <1>1 DEF Durable
  <2> QED BY DEF Durable, Settled, Kept, OnDisk, Names, Staged, Over
<1> QED BY <1>1, <1>2, <1>3, <1>4, <1>5, <1>6, <1>7

LEMMA RenameKeeps == ASSUME IInv, NEW s \in Stores, Rename(s) PROVE IInv'
<1> USE Apart, BookAssumption DEF IInv, TypeOK, files, directory, counters, Mishap, Go, Becomes,
       Rename
<1>1. TypeOK' BY DEF Names, Steps, Outcomes
<1>2. Staged' BY DEF Staged, Steps
<1>3. WholeBooks' BY DEF WholeBooks, Names, Staged
<1>4. Credited'
  <2> SUFFICES ASSUME NEW b \in Books, NEW t \in Stores, t \in disk'[b] \union {entries'[b]}
               PROVE outcome'[t] \in {"stored", "published"}
    BY DEF Credited
  <2> QED BY DEF Credited, Names, Staged
<1>5. OnDisk' BY DEF OnDisk, Names
<1>6. Kept'
  <2> SUFFICES ASSUME NEW t \in Stores, t \in vouched', pc'[t] \notin Over PROVE entries'[Book[t]] # None
    BY <1>1 DEF Kept
  <2> QED BY DEF Kept, Names, Over, Staged
<1>7. Durable'
  <2> SUFFICES ASSUME NEW t \in Stores, t \in vouched', Settled(t)' PROVE None \notin disk'[Book[t]]
    BY <1>1 DEF Durable
  <2> QED BY DEF Durable, Settled, Kept, OnDisk, Names, Staged, Over
<1> QED BY <1>1, <1>2, <1>3, <1>4, <1>5, <1>6, <1>7

LEMMA NameTakenKeeps == ASSUME IInv, NEW s \in Stores, NameTaken(s) PROVE IInv'
<1> USE Apart, BookAssumption DEF IInv, TypeOK, files, directory, counters, Mishap, Go, Becomes,
       NameTaken
<1>1. TypeOK' BY DEF Names, Steps, Outcomes
<1>2. Staged' BY DEF Staged, Steps
<1>3. WholeBooks' BY DEF WholeBooks, Names, Staged
<1>4. Credited'
  <2> SUFFICES ASSUME NEW b \in Books, NEW t \in Stores, t \in disk'[b] \union {entries'[b]}
               PROVE outcome'[t] \in {"stored", "published"}
    BY DEF Credited
  <2> QED BY DEF Credited, Names, Staged
<1>5. OnDisk' BY DEF OnDisk, Names
<1>6. Kept'
  <2> SUFFICES ASSUME NEW t \in Stores, t \in vouched', pc'[t] \notin Over PROVE entries'[Book[t]] # None
    BY <1>1 DEF Kept
  <2> QED BY DEF Kept, Names, Over, Staged
<1>7. Durable'
  <2> SUFFICES ASSUME NEW t \in Stores, t \in vouched', Settled(t)' PROVE None \notin disk'[Book[t]]
    BY <1>1 DEF Durable
  <2> QED BY DEF Durable, Settled, Kept, OnDisk, Names, Staged, Over
<1> QED BY <1>1, <1>2, <1>3, <1>4, <1>5, <1>6, <1>7

LEMMA CheckFinalKeeps == ASSUME IInv, NEW s \in Stores, CheckFinal(s) PROVE IInv'
  BY BookAssumption, NamesAssumption DEF IInv, TypeOK, Staged, WholeBooks, Credited, OnDisk, Kept, Durable,
     Settled, Names, Steps, Over, Outcomes, files, directory, counters, Mishap, Go, Becomes, 
     CheckFinal

LEMMA SyncRootKeeps == ASSUME IInv, NEW s \in Stores, SyncRoot(s) PROVE IInv'
<1> USE Apart, BookAssumption DEF IInv, TypeOK, files, directory, counters, Mishap, Go, Becomes,
       SyncRoot, SyncDirectory, Flushed
<1>1. TypeOK' BY DEF Names, Steps, Outcomes
<1>2. Staged' BY DEF Staged, Steps
<1>3. WholeBooks' BY DEF WholeBooks, Names, Staged
<1>4. Credited'
  <2> SUFFICES ASSUME NEW b \in Books, NEW t \in Stores, t \in disk'[b] \union {entries'[b]}
               PROVE outcome'[t] \in {"stored", "published"}
    BY DEF Credited
  <2> QED BY DEF Credited, Names, Staged
<1>5. OnDisk' BY DEF OnDisk, Names
<1>6. Kept'
  <2> SUFFICES ASSUME NEW t \in Stores, t \in vouched', pc'[t] \notin Over PROVE entries'[Book[t]] # None
    BY <1>1 DEF Kept
  <2> QED BY DEF Kept, Names, Over, Staged
<1>7. Durable'
  <2> SUFFICES ASSUME NEW t \in Stores, t \in vouched', Settled(t)' PROVE None \notin disk'[Book[t]]
    BY <1>1 DEF Durable
  <2> QED BY DEF Durable, Settled, Kept, OnDisk, Names, Staged, Over
<1> QED BY <1>1, <1>2, <1>3, <1>4, <1>5, <1>6, <1>7

LEMMA PublicationFailsKeeps == ASSUME IInv, NEW s \in Stores, PublicationFails(s) PROVE IInv'
  BY BookAssumption, NamesAssumption DEF IInv, TypeOK, Staged, WholeBooks, Credited, OnDisk, Kept, Durable,
     Settled, Names, Steps, Over, Outcomes, files, directory, counters, Mishap, Go, Becomes, 
     PublicationFails, Spoilt

LEMMA UnlockKeeps == ASSUME IInv, NEW s \in Stores, Unlock(s) PROVE IInv'
  BY BookAssumption, NamesAssumption DEF IInv, TypeOK, Staged, WholeBooks, Credited, OnDisk, Kept, Durable,
     Settled, Names, Steps, Over, Outcomes, files, directory, counters, Mishap, Go, Becomes, 
     Unlock

LEMMA UnlockFailsKeeps == ASSUME IInv, NEW s \in Stores, UnlockFails(s) PROVE IInv'
  BY BookAssumption, NamesAssumption DEF IInv, TypeOK, Staged, WholeBooks, Credited, OnDisk, Kept, Durable,
     Settled, Names, Steps, Over, Outcomes, files, directory, counters, Mishap, Go, Becomes, 
     UnlockFails, Spoilt

LEMMA OpenExistingKeeps == ASSUME IInv, NEW s \in Stores, OpenExisting(s) PROVE IInv'
<1> USE Apart, BookAssumption DEF IInv, TypeOK, files, directory, counters, Mishap, Go, Becomes,
       OpenExisting
<1>1. TypeOK' BY DEF Names, Steps, Outcomes
<1>2. Staged' BY DEF Staged, Steps
<1>3. WholeBooks' BY DEF WholeBooks, Names, Staged
<1>4. Credited'
  <2> SUFFICES ASSUME NEW b \in Books, NEW t \in Stores, t \in disk'[b] \union {entries'[b]}
               PROVE outcome'[t] \in {"stored", "published"}
    BY DEF Credited
  <2> QED BY DEF Credited, Names, Staged
<1>5. OnDisk' BY DEF OnDisk, Names
<1>6. Kept'
  <2> SUFFICES ASSUME NEW t \in Stores, t \in vouched', pc'[t] \notin Over PROVE entries'[Book[t]] # None
    BY <1>1 DEF Kept
  <2> QED BY DEF Kept, Names, Over, Staged
<1>7. Durable'
  <2> SUFFICES ASSUME NEW t \in Stores, t \in vouched', Settled(t)' PROVE None \notin disk'[Book[t]]
    BY <1>1 DEF Durable
  <2> QED BY DEF Durable, Settled, Kept, OnDisk, Names, Staged, Over
<1> QED BY <1>1, <1>2, <1>3, <1>4, <1>5, <1>6, <1>7

LEMMA VerifyExistingKeeps == ASSUME IInv, NEW s \in Stores, VerifyExisting(s) PROVE IInv'
<1> USE Apart, BookAssumption DEF IInv, TypeOK, files, directory, counters, Mishap, Go, Becomes,
       VerifyExisting, SameContent
<1>1. TypeOK' BY DEF Names, Steps, Outcomes
<1>2. Staged' BY DEF Staged, Steps
<1>3. WholeBooks' BY DEF WholeBooks, Names, Staged
<1>4. Credited'
  <2> SUFFICES ASSUME NEW b \in Books, NEW t \in Stores, t \in disk'[b] \union {entries'[b]}
               PROVE outcome'[t] \in {"stored", "published"}
    BY DEF Credited
  <2> QED BY DEF Credited, Names, Staged
<1>5. OnDisk' BY DEF OnDisk, Names
<1>6. Kept'
  <2> SUFFICES ASSUME NEW t \in Stores, t \in vouched', pc'[t] \notin Over PROVE entries'[Book[t]] # None
    BY <1>1 DEF Kept
  <2> QED BY DEF Kept, Names, Over, Staged
<1>7. Durable'
  <2> SUFFICES ASSUME NEW t \in Stores, t \in vouched', Settled(t)' PROVE None \notin disk'[Book[t]]
    BY <1>1 DEF Durable
  <2> QED BY DEF Durable, Settled, Kept, OnDisk, Names, Staged, Over
<1> QED BY <1>1, <1>2, <1>3, <1>4, <1>5, <1>6, <1>7

\* The loser of a race that cannot use the book it found has nothing to show.
LEMMA GivesUpKeeps ==
  ASSUME IInv, NEW s \in Stores, pc[s] \in {"validating", "verifying"},
         pc' = [pc EXCEPT ![s] = "cleaning"], Becomes(s, "failed"),
         UNCHANGED <<seen, lock, directory, files, vouched, abandoned>>, UNCHANGED counters \/ Mishap
  PROVE  IInv'
<1>1. TypeOK'
  BY DEF IInv, TypeOK, Steps, Outcomes, Becomes, directory, files, counters, Mishap
<1>2. /\ UNCHANGED <<entries, disk, whole, synced, vouched>> /\ outcome[s] = "existing"
      /\ \A t \in Stores : /\ pc'[t] = IF t = s THEN "cleaning" ELSE pc[t]
                           /\ outcome'[t] = IF t = s THEN "failed" ELSE outcome[t]
  BY DEF IInv, TypeOK, Staged, Becomes, directory, files
<1>3. Staged'
  BY <1>2 DEF IInv, Staged
<1>4. WholeBooks' /\ OnDisk'
  BY <1>2 DEF IInv, WholeBooks, OnDisk
<1>5. Credited'
  BY <1>2 DEF IInv, Credited
<1>6. Kept'
  BY <1>2 DEF IInv, TypeOK, Kept, Over
<1>7. Durable'
  BY <1>2 DEF IInv, TypeOK, Durable, Settled
<1> QED BY <1>1, <1>3, <1>4, <1>5, <1>6, <1>7 DEF IInv

LEMMA ExistingIsGoneKeeps == ASSUME IInv, NEW s \in Stores, ExistingIsGone(s) PROVE IInv'
  BY GivesUpKeeps DEF ExistingIsGone, Go

LEMMA ValidationFailsKeeps == ASSUME IInv, NEW s \in Stores, ValidationFails(s) PROVE IInv'
  BY GivesUpKeeps DEF ValidationFails, Go

LEMMA SettleKeeps == ASSUME IInv, NEW s \in Stores, Settle(s) PROVE IInv'
<1> USE Apart, BookAssumption DEF IInv, TypeOK, files, directory, counters, Mishap, Go, Becomes,
       Settle, SyncDirectory, Flushed
<1>1. TypeOK' BY DEF Names, Steps, Outcomes
<1>2. Staged' BY DEF Staged, Steps
<1>3. WholeBooks' BY DEF WholeBooks, Names, Staged
<1>4. Credited'
  <2> SUFFICES ASSUME NEW b \in Books, NEW t \in Stores, t \in disk'[b] \union {entries'[b]}
               PROVE outcome'[t] \in {"stored", "published"}
    BY DEF Credited
  <2> QED BY DEF Credited, Names, Staged
<1>5. OnDisk' BY DEF OnDisk, Names
<1>6. Kept'
  <2> SUFFICES ASSUME NEW t \in Stores, t \in vouched', pc'[t] \notin Over PROVE entries'[Book[t]] # None
    BY <1>1 DEF Kept
  <2> QED BY DEF Kept, Names, Over, Staged
<1>7. Durable'
  <2> SUFFICES ASSUME NEW t \in Stores, t \in vouched', Settled(t)' PROVE None \notin disk'[Book[t]]
    BY <1>1 DEF Durable
  <2> QED BY DEF Durable, Settled, Kept, OnDisk, Names, Staged, Over
<1> QED BY <1>1, <1>2, <1>3, <1>4, <1>5, <1>6, <1>7

LEMMA SettleFailsKeeps == ASSUME IInv, NEW s \in Stores, SettleFails(s) PROVE IInv'
  BY BookAssumption, NamesAssumption DEF IInv, TypeOK, Staged, WholeBooks, Credited, OnDisk, Kept, Durable,
     Settled, Names, Steps, Over, Outcomes, files, directory, counters, Mishap, Go, Becomes, 
     SettleFails

LEMMA CleanPartKeeps == ASSUME IInv, NEW s \in Stores, CleanPart(s) PROVE IInv'
<1> USE Apart, BookAssumption DEF IInv, TypeOK, files, directory, counters, Mishap, Go, Becomes,
       CleanPart, Published, Flushed
<1>1. TypeOK' BY DEF Names, Steps, Outcomes
<1>2. Staged' BY DEF Staged, Steps
<1>3. WholeBooks' BY DEF WholeBooks, Names, Staged
<1>4. Credited'
  <2> SUFFICES ASSUME NEW b \in Books, NEW t \in Stores, t \in disk'[b] \union {entries'[b]}
               PROVE outcome'[t] \in {"stored", "published"}
    BY DEF Credited
  <2> QED BY DEF Credited, Names, Staged
<1>5. OnDisk' BY DEF OnDisk, Names
<1>6. Kept'
  <2> SUFFICES ASSUME NEW t \in Stores, t \in vouched', pc'[t] \notin Over PROVE entries'[Book[t]] # None
    BY <1>1 DEF Kept
  <2> QED BY DEF Kept, Names, Over, Staged
<1>7. Durable'
  <2> SUFFICES ASSUME NEW t \in Stores, t \in vouched', Settled(t)' PROVE None \notin disk'[Book[t]]
    BY <1>1 DEF Durable
  <2> QED BY DEF Durable, Settled, Kept, OnDisk, Names, Staged, Over
<1> QED BY <1>1, <1>2, <1>3, <1>4, <1>5, <1>6, <1>7

LEMMA CleanPartFailsKeeps == ASSUME IInv, NEW s \in Stores, CleanPartFails(s) PROVE IInv'
<1> USE Apart, BookAssumption DEF IInv, TypeOK, files, directory, counters, Mishap, Go, Becomes,
       CleanPartFails, Published, Point
<1>1. TypeOK' BY DEF Names, Steps, Outcomes
<1>2. Staged' BY DEF Staged, Steps
<1>3. WholeBooks' BY DEF WholeBooks, Names, Staged
<1>4. Credited'
  <2> SUFFICES ASSUME NEW b \in Books, NEW t \in Stores, t \in disk'[b] \union {entries'[b]}
               PROVE outcome'[t] \in {"stored", "published"}
    BY DEF Credited
  <2> QED BY DEF Credited, Names, Staged
<1>5. OnDisk' BY DEF OnDisk, Names
<1>6. Kept'
  <2> SUFFICES ASSUME NEW t \in Stores, t \in vouched', pc'[t] \notin Over PROVE entries'[Book[t]] # None
    BY <1>1 DEF Kept
  <2> QED BY DEF Kept, Names, Over, Staged
<1>7. Durable'
  <2> SUFFICES ASSUME NEW t \in Stores, t \in vouched', Settled(t)' PROVE None \notin disk'[Book[t]]
    BY <1>1 DEF Durable
  <2> QED BY DEF Durable, Settled, Kept, OnDisk, Names, Staged, Over
<1> QED BY <1>1, <1>2, <1>3, <1>4, <1>5, <1>6, <1>7

LEMMA CloseRootKeeps == ASSUME IInv, NEW s \in Stores, CloseRoot(s) PROVE IInv'
  BY BookAssumption, NamesAssumption DEF IInv, TypeOK, Staged, WholeBooks, Credited, OnDisk, Kept, Durable,
     Settled, Names, Steps, Over, Outcomes, files, directory, counters, Mishap, Go, Becomes, 
     CloseRoot, Released, Spoilt

LEMMA RemoveKeeps == ASSUME IInv, NEW b \in Books, Remove(b) PROVE IInv'
  BY BookAssumption, NamesAssumption DEF IInv, TypeOK, Staged, WholeBooks, Credited, OnDisk, Kept, Durable,
     Settled, Names, Steps, Over, Outcomes, files, directory, counters, Mishap, Go, Becomes, 
     Remove, Point

LEMMA CrashKeeps == ASSUME IInv, Crash PROVE IInv'
  BY BookAssumption, NamesAssumption DEF IInv, TypeOK, Staged, WholeBooks, Credited, OnDisk, Kept, Durable,
     Settled, Names, Steps, Over, Outcomes, files, directory, counters, Mishap, Go, Becomes, 
     Crash, Die

LEMMA PowerLossKeeps == ASSUME IInv, PowerLoss PROVE IInv'
  BY BookAssumption, NamesAssumption DEF IInv, TypeOK, Staged, WholeBooks, Credited, OnDisk, Kept, Durable,
     Settled, Names, Steps, Over, Outcomes, files, directory, counters, Mishap, Go, Becomes, 
     PowerLoss, Die, Flushed

-----------------------------------------------------------------------------
(* Part files                                                              *)

\* A store's part is not there before it is made, nor once the book is published
\* and when the store is about to answer, unless its deletion failed.
Tidy(s) ==
  /\ pc[s] \in {"idle", "creating"} => entries[s] = None /\ disk[s] = {None}
  /\ pc[s] \notin Over /\ outcome[s] \in {"stored", "published"} =>
       entries[s] = None \/ s \in abandoned
  /\ pc[s] = "closing" => entries[s] = None \/ s \in abandoned

Parts == \A s \in Stores : Tidy(s)

\* What the steps of a store leave alone of another one's part.
PartStays(s) ==
  /\ pc'[s] = pc[s] /\ outcome'[s] = outcome[s] /\ entries'[s] = entries[s]
  /\ disk'[s] \in {disk[s], {entries[s]}}
  /\ abandoned \subseteq abandoned'

LEMMA OthersParts ==
  ASSUME IInv, NEW t \in Stores, OpenRoot(t) \/ StoreNext(t), NEW s \in Stores, s # t
  PROVE  PartStays(s)
<1>1. pc'[s] = pc[s] /\ outcome'[s] = outcome[s]
  BY DEF IInv, TypeOK, OpenRoot, StoreNext, Publication, CreatePart, CreatePartFails, CopyPart, SyncPart, PartFails,
     Lock, ComparePart, Rename, NameTaken, CheckFinal, SyncRoot, PublicationFails, Unlock, UnlockFails, OpenExisting,
     VerifyExisting, ExistingIsGone, ValidationFails, Settle, SettleFails, CleanPart, CleanPartFails, CloseRoot, Go, Becomes
<1>2. abandoned \subseteq abandoned'
  BY DEF OpenRoot, StoreNext, Publication, CreatePart, CreatePartFails, CopyPart, SyncPart, PartFails,
     Lock, ComparePart, Rename, NameTaken, CheckFinal, SyncRoot, PublicationFails, Unlock, UnlockFails, OpenExisting,
     VerifyExisting, ExistingIsGone, ValidationFails, Settle, SettleFails, CleanPart, CleanPartFails, CloseRoot
<1> USE Apart DEF IInv, TypeOK, Names, directory, Flushed, Point
<1>3. CASE OpenRoot(t) \/ SyncRoot(t) \/ Settle(t)
  BY <1>1, <1>2, <1>3 DEF OpenRoot, SyncRoot, Settle, SyncDirectory, PartStays
<1>4. CASE CreatePart(t) \/ CreatePartFails(t)
  BY <1>1, <1>2, <1>4 DEF CreatePart, CreatePartFails, PartStays
<1>5. CASE Rename(t)
  <2>1. Book[t] # s
    OBVIOUS
  <2> QED BY <1>1, <1>2, <1>5, <2>1 DEF Rename, PartStays
<1>6. CASE CleanPart(t) \/ CleanPartFails(t)
  BY <1>1, <1>2, <1>6 DEF CleanPart, CleanPartFails, PartStays
<1>7. ASSUME UNCHANGED directory PROVE PartStays(s)
  BY <1>1, <1>2, <1>7 DEF PartStays
<1> QED BY <1>3, <1>4, <1>5, <1>6, <1>7 DEF StoreNext, Publication, CopyPart, SyncPart, PartFails,
     Lock, ComparePart, NameTaken, CheckFinal, PublicationFails, Unlock, UnlockFails, OpenExisting,
     VerifyExisting, ExistingIsGone, ValidationFails, SettleFails, CloseRoot

\* A store keeps its own part tidy.
LEMMA OwnPart ==
  ASSUME IInv, NEW s \in Stores, Tidy(s), OpenRoot(s) \/ StoreNext(s)
  PROVE  Tidy(s)'
<1> USE Apart DEF IInv, TypeOK, Names, directory, Flushed, Point, Go, Becomes, Tidy, Over, Staged
<1>1. CASE OpenRoot(s)
  BY <1>1 DEF OpenRoot, SyncDirectory
<1>2. CASE CreatePart(s) \/ CreatePartFails(s)
  BY <1>2 DEF CreatePart, CreatePartFails
<1>3. CASE CopyPart(s) \/ SyncPart(s) \/ PartFails(s)
  BY <1>3 DEF CopyPart, SyncPart, PartFails
<1>4. CASE Rename(s)
  BY <1>4 DEF Rename
<1>5. CASE Lock(s) \/ ComparePart(s) \/ NameTaken(s) \/ CheckFinal(s) \/ SyncRoot(s)
  BY <1>5 DEF Lock, ComparePart, NameTaken, CheckFinal, SyncRoot, SyncDirectory
<1>6. CASE PublicationFails(s) \/ Unlock(s) \/ UnlockFails(s)
  BY <1>6 DEF PublicationFails, Unlock, UnlockFails, Spoilt
<1>7. CASE OpenExisting(s) \/ VerifyExisting(s) \/ ExistingIsGone(s) \/ ValidationFails(s)
  BY <1>7 DEF OpenExisting, VerifyExisting, ExistingIsGone, ValidationFails
<1>8. CASE Settle(s) \/ SettleFails(s)
  BY <1>8 DEF Settle, SettleFails, SyncDirectory
<1>9. CASE CleanPart(s) \/ CleanPartFails(s)
  BY <1>9 DEF CleanPart, CleanPartFails, Published
<1>10. CASE CloseRoot(s)
  BY <1>10 DEF CloseRoot
<1> QED BY <1>1, <1>2, <1>3, <1>4, <1>5, <1>6, <1>7, <1>8, <1>9, <1>10 DEF StoreNext, Publication

LEMMA PartsStep == IInv /\ Parts /\ [Next]_vars => Parts'
<1> SUFFICES ASSUME IInv, Parts, [Next]_vars, NEW s \in Stores PROVE Tidy(s)'
  BY DEF Parts
<1>0. Tidy(s)
  BY DEF Parts
<1>1. ASSUME PartStays(s) PROVE Tidy(s)'
  BY <1>0, <1>1 DEF Tidy, PartStays
<1>2. ASSUME NEW t \in Stores, OpenRoot(t) \/ StoreNext(t) PROVE Tidy(s)'
  BY <1>0, <1>1, <1>2, OwnPart, OthersParts
<1>3. ASSUME NEW b \in Books, Remove(b) PROVE Tidy(s)'
  BY <1>1, <1>3, Apart DEF Remove, Point, PartStays, IInv, TypeOK, Names
<1>4. CASE Crash \/ PowerLoss
  <2>1. pc'[s] \in Over \/ (pc[s] = "idle" /\ pc'[s] = "idle")
    <3>1. pc' = [t \in Stores |-> IF pc[t] \in {"idle", "answered"} THEN pc[t] ELSE "dead"]
      BY <1>4 DEF Crash, PowerLoss, Die
    <3>2. pc'[s] = IF pc[s] \in {"idle", "answered"} THEN pc[s] ELSE "dead"
      BY <3>1
    <3> QED BY <3>2 DEF Over
  <2>2. CASE pc'[s] \in Over
    BY <2>2 DEF Tidy, Over
  <2>3. CASE pc[s] = "idle" /\ pc'[s] = "idle"
    <3>1. entries'[s] = None /\ disk'[s] = {None}
      BY <1>0, <1>4, <2>3 DEF Crash, PowerLoss, directory, Flushed, Tidy, Names
    <3> QED BY <2>3, <3>1 DEF Tidy
  <2> QED BY <2>1, <2>2, <2>3
<1>5. CASE UNCHANGED vars
  BY <1>1, <1>5 DEF vars, directory, PartStays
<1> QED BY <1>2, <1>3, <1>4, <1>5 DEF Next

-----------------------------------------------------------------------------
(* The theorems                                                            *)

LEMMA StepKeepsIInv == IInv /\ [Next]_vars => IInv'
<1> SUFFICES ASSUME IInv, [Next]_vars PROVE IInv'
  OBVIOUS
<1>1. CASE UNCHANGED vars
  BY <1>1 DEF vars, directory, files, counters, IInv, TypeOK, Staged, WholeBooks, Credited, OnDisk, Kept, Durable, Settled
<1>2. ASSUME NEW s \in Stores, OpenRoot(s) \/ CreatePart(s) \/ CreatePartFails(s) \/ CopyPart(s) \/ SyncPart(s) \/ PartFails(s)
      PROVE IInv'
  BY <1>2, OpenRootKeeps, CreatePartKeeps, CreatePartFailsKeeps, CopyPartKeeps, SyncPartKeeps, PartFailsKeeps
<1>3. ASSUME NEW s \in Stores, Publication(s) PROVE IInv'
  BY <1>3, LockKeeps, ComparePartKeeps, RenameKeeps, NameTakenKeeps, CheckFinalKeeps, SyncRootKeeps,
     PublicationFailsKeeps, UnlockKeeps, UnlockFailsKeeps DEF Publication
<1>4. ASSUME NEW s \in Stores,
             OpenExisting(s) \/ VerifyExisting(s) \/ ExistingIsGone(s) \/ ValidationFails(s) \/ Settle(s) \/ SettleFails(s)
      PROVE IInv'
  BY <1>4, OpenExistingKeeps, VerifyExistingKeeps, ExistingIsGoneKeeps, ValidationFailsKeeps, SettleKeeps, SettleFailsKeeps
<1>5. ASSUME NEW s \in Stores, CleanPart(s) \/ CleanPartFails(s) \/ CloseRoot(s) PROVE IInv'
  BY <1>5, CleanPartKeeps, CleanPartFailsKeeps, CloseRootKeeps
<1>6. ASSUME NEW b \in Books, Remove(b) PROVE IInv'
  BY <1>6, RemoveKeeps
<1>7. CASE Crash \/ PowerLoss
  BY <1>7, CrashKeeps, PowerLossKeeps
<1> QED BY <1>1, <1>2, <1>3, <1>4, <1>5, <1>6, <1>7 DEF Next, StoreNext

\* The invariant the others rest on: what a store at each place has done, whose
\* file stands under a book's name, and which names are safely on disk.
THEOREM Inductive == Spec => []IInv
  BY InitIInv, StepKeepsIInv, PTL DEF Spec

\* Every variable keeps its type; in particular a file is synced only when all
\* of it was written (116 after the loop of 107-114).
THEOREM TypeCorrect == Spec => []TypeOK
<1>1. IInv => TypeOK BY DEF IInv
<1> QED BY <1>1, Inductive, PTL

\* No name of a book leads to anything but that whole book, before and after
\* any power failure, whatever fails, dies or is removed.
THEOREM NoTornBook == Spec => []WholeBooks
<1>1. IInv => WholeBooks BY DEF IInv
<1> QED BY <1>1, Inductive, PTL

\* What store answers is true of the disk, for the winner of a race and for
\* the loser, and a failure that is not PublishedBookCleanupException means
\* that nothing was published.
THEOREM AnswersAreDurable == Spec => []AnswersHold
<1>1. IInv => AnswersHold
  <2> SUFFICES ASSUME IInv, NEW s \in Stores, pc[s] = "answered"
               PROVE /\ outcome[s] \in {"stored", "existing"} /\ s \in vouched => None \notin disk[Book[s]]
                     /\ outcome[s] = "failed" => entries[Book[s]] # s
    BY DEF AnswersHold
  <2> QED BY Apart DEF IInv, Durable, Settled, Credited
<1> QED BY <1>1, Inductive, PTL

\* A published book is never replaced by another (RENAME_NOREPLACE).
THEOREM PublishedOnce == Spec => NeverReplaced
<1>1. IInv /\ [Next]_vars =>
        [\A b \in Books : entries'[b] # entries[b] =>
           \/ entries[b] = None
           \/ entries'[b] = None
           \/ crashes' # crashes]_vars
  <2> SUFFICES ASSUME IInv, Next, NEW b \in Books, entries'[b] # entries[b]
               PROVE entries[b] = None \/ entries'[b] = None \/ crashes' # crashes
    OBVIOUS
  <2> USE Apart DEF IInv, TypeOK, Names, files, directory, counters, Mishap
  <2>1. CASE \E s \in Stores : CreatePart(s) \/ CreatePartFails(s)
    BY <2>1 DEF CreatePart, CreatePartFails, Point
  <2>2. CASE \E s \in Stores : Rename(s)
    BY <2>2 DEF Rename
  <2>3. CASE \E s \in Stores : CleanPart(s) \/ CleanPartFails(s)
    BY <2>3 DEF CleanPart, CleanPartFails, Point
  <2>4. CASE \E c \in Books : Remove(c)
    BY <2>4 DEF Remove, Point
  <2>5. CASE Crash \/ PowerLoss
    BY <2>5 DEF Crash, PowerLoss, Die
  <2> QED
    BY <2>1, <2>2, <2>3, <2>4, <2>5 DEF Next, StoreNext, Publication, OpenRoot, SyncDirectory, CopyPart, SyncPart, PartFails,
       Lock, ComparePart, NameTaken, CheckFinal, SyncRoot, PublicationFails, Unlock, UnlockFails, OpenExisting,
       VerifyExisting, ExistingIsGone, ValidationFails, Settle, SettleFails, CloseRoot
<1> QED BY <1>1, Inductive, PTL DEF Spec, NeverReplaced

\* When a store answers its part is gone, unless the deletion failed in a way the
\* code knows of: also after every error on the way.
THEOREM PartsGone == Spec => PartsCleaned
<1>1. Init => Parts
  BY DEF Init, Parts, Tidy, Names
<1>2. Spec => []Parts
  BY <1>1, PartsStep, Inductive, PTL DEF Spec
<1>3. IInv /\ Parts /\ [Next]_vars =>
        [\A s \in Stores : pc[s] # "answered" /\ pc'[s] = "answered" => entries'[s] = None \/ s \in abandoned']_vars
  <2> SUFFICES ASSUME IInv, Parts, [Next]_vars, NEW s \in Stores, pc[s] # "answered", pc'[s] = "answered"
               PROVE  entries'[s] = None \/ s \in abandoned'
    OBVIOUS
  <2>1. Tidy(s)
    BY DEF Parts
  <2>2. ASSUME NEW t \in Stores, OpenRoot(t) \/ StoreNext(t)
        PROVE  entries'[s] = None \/ s \in abandoned'
    <3>1. t = s
      BY <2>2, OthersParts DEF PartStays
    <3>2. CASE OpenRoot(s)
      BY <2>1, <3>2 DEF OpenRoot, SyncDirectory, Go, Tidy
    <3>3. CASE CloseRoot(s)
      BY <2>1, <3>3 DEF CloseRoot, Go, Tidy, directory
    <3>4. CASE ~ OpenRoot(s) /\ ~ CloseRoot(s)
      BY <2>2, <3>1, <3>4 DEF IInv, TypeOK, StoreNext, Publication, CreatePart, CreatePartFails, CopyPart, SyncPart,
         PartFails, Lock, ComparePart, Rename, NameTaken, CheckFinal, SyncRoot, PublicationFails, Unlock, UnlockFails,
         OpenExisting, VerifyExisting, ExistingIsGone, ValidationFails, Settle, SettleFails, CleanPart, CleanPartFails, Go
    <3> QED BY <3>2, <3>3, <3>4
  <2>3. CASE UNCHANGED vars \/ \E b \in Books : Remove(b)
    BY <2>3 DEF vars, Remove
  <2>4. CASE Crash \/ PowerLoss
    BY <2>4 DEF Crash, PowerLoss, Die, IInv, TypeOK
  <2> QED BY <2>2, <2>3, <2>4 DEF Next
<1> QED BY <1>2, <1>3, Inductive, PTL DEF Spec, PartsCleaned

Publishing == {"comparing", "renaming", "checking", "flushing", "unlocking"}

\* Who publishes holds the lock, and who holds it publishes or is about to close it.
LockIsInUse ==
  \A s \in Stores : /\ pc[s] \in Publishing => lock = s
                   /\ lock = s => pc[s] \in Publishing \union {"cleaning", "closing"}

\* What a step of a store does to the lock and to the places of the stores.
LEMMA LockSteps ==
  ASSUME IInv, LockIsInUse, NEW s \in Stores, OpenRoot(s) \/ StoreNext(s)
  PROVE  LockIsInUse'
<1>0. s # None /\ \A t \in Stores : t # s => pc'[t] = pc[t]
  BY Apart DEF IInv, TypeOK, OpenRoot, StoreNext, Publication, CreatePart, CreatePartFails, CopyPart, SyncPart, PartFails,
     Lock, ComparePart, Rename, NameTaken, CheckFinal, SyncRoot, PublicationFails, Unlock, UnlockFails, OpenExisting,
     VerifyExisting, ExistingIsGone, ValidationFails, Settle, SettleFails, CleanPart, CleanPartFails, CloseRoot, Go
<1>1. CASE Lock(s)
  BY <1>0, <1>1, Apart DEF IInv, TypeOK, Lock, Go, LockIsInUse, Publishing
<1>2. CASE Unlock(s) \/ UnlockFails(s)
  BY <1>0, <1>2, Apart DEF IInv, TypeOK, Unlock, UnlockFails, Go, LockIsInUse, Publishing
<1>3. CASE CloseRoot(s)
  BY <1>0, <1>3, Apart DEF IInv, TypeOK, CloseRoot, Released, Go, LockIsInUse, Publishing
<1>4. CASE \/ ComparePart(s) \/ Rename(s) \/ NameTaken(s) \/ CheckFinal(s) \/ SyncRoot(s) \/ PublicationFails(s)
  <2>1. UNCHANGED lock /\ pc[s] \in Publishing /\ pc'[s] \in Publishing
    BY <1>4 DEF IInv, TypeOK, ComparePart, Rename, NameTaken, CheckFinal, SyncRoot, PublicationFails, Go, Publishing
  <2> QED BY <1>0, <2>1 DEF LockIsInUse
<1>5. CASE CleanPart(s) \/ CleanPartFails(s)
  <2>1. UNCHANGED lock /\ pc[s] = "cleaning" /\ pc'[s] = "closing"
    BY <1>5 DEF IInv, TypeOK, CleanPart, CleanPartFails, Go
  <2> QED BY <1>0, <2>1 DEF LockIsInUse, Publishing
<1>6. CASE \/ OpenRoot(s) \/ CreatePart(s) \/ CreatePartFails(s) \/ CopyPart(s) \/ SyncPart(s) \/ PartFails(s)
           \/ OpenExisting(s) \/ VerifyExisting(s) \/ ExistingIsGone(s) \/ ValidationFails(s) \/ Settle(s)
           \/ SettleFails(s)
  <2>1. UNCHANGED lock /\ pc[s] \notin Publishing \union {"cleaning", "closing"} /\ pc'[s] \notin Publishing
    BY <1>6 DEF IInv, TypeOK, OpenRoot, CreatePart, CreatePartFails, CopyPart, SyncPart, PartFails, OpenExisting,
       VerifyExisting, ExistingIsGone, ValidationFails, Settle, SettleFails, Go, Publishing
  <2> QED BY <1>0, <2>1 DEF LockIsInUse
<1> QED BY <1>1, <1>2, <1>3, <1>4, <1>5, <1>6 DEF StoreNext, Publication

\* One store publishes at a time, and the lock is held by a store that will give it
\* up by unlocking or by closing its descriptor: no failure or death leaves it held,
\* which is what EveryStoreEnds needs beside fairness (native_publish_lock and
\* native_publish_unlock of private_book_store.c, the flock on .pagenest-publish.lock).
THEOREM OnePublishes == Spec => []LockIsInUse
<1>1. Init => LockIsInUse
  BY Apart DEF Init, LockIsInUse, Publishing
<1>2. IInv /\ LockIsInUse /\ [Next]_vars => LockIsInUse'
  <2> SUFFICES ASSUME IInv, LockIsInUse, [Next]_vars PROVE LockIsInUse'
    OBVIOUS
  <2>1. CASE UNCHANGED vars \/ \E b \in Books : Remove(b)
    BY <2>1 DEF vars, Remove, LockIsInUse
  <2>2. CASE Crash \/ PowerLoss
    BY <2>2, Apart DEF Crash, PowerLoss, Die, LockIsInUse, Publishing
  <2> QED BY <2>1, <2>2, LockSteps DEF Next
<1> QED BY <1>1, <1>2, Inductive, PTL DEF Spec
==============================================================================
