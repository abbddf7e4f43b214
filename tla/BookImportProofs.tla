-------------------------- MODULE BookImportProofs --------------------------
(***************************************************************************)
(* Theorems about BookImport, for any importers, contents, extensions,      *)
(* bounds and mishaps.                                                      *)
(***************************************************************************)
EXTENDS BookImport, TLAPS

\* Whoever is past the lock holds the lock of its hash.
HoldsLock == \A i \in Importers : pc[i] \in Locked => lock[Hash(i)] = i

\* A row is listed under its file's hash, and no hash twice.
RowsOk ==
  /\ \A r \in rows : r.sha # None => r.sha = r.file[1]
  /\ \A r, s \in rows : (r.sha # None /\ r.sha = s.sha) => r = s
  /\ updates = 0 => \A r \in rows : r.sha # None

\* What an import learnt of the catalogue stays true while it holds the lock.
Matched ==
  \A i \in Importers : pc[i] = "resolving" =>
    match[i] \in Rows /\ \A r \in RowsOf(Hash(i)) : r.file = match[i].file

Unlisted == \A i \in Importers : pc[i] \in {"parsing", "inserting", "deleting"} => RowsOf(Hash(i)) = {}

\* The copy that is about to be listed is there.
Present == Untouched => \A i \in Importers : pc[i] = "inserting" => job[i] \in disk

Knows == HoldsLock /\ RowsOk /\ Matched /\ Unlisted


-----------------------------------------------------------------------------
(* Types *)

LEMMA RefusedTyped ==
  ASSUME NEW kind \in Refusals \cup {"none"}
  PROVE  Refused(kind) \in Answers
  BY DEF Refused, Refusals, Answers

LEMMA SpoiltTyped ==
  ASSUME NEW a \in Answers
  PROVE  Spoilt(a) \in Answers
  BY RefusedTyped DEF Spoilt, Refusals

LEMMA RowTyped ==
  ASSUME NEW r \in Rows
  PROVE  r.id \in Nat /\ r.file \in Files /\ r.sha \in Contents \cup {None} /\ Duplicate(r) \in Answers
  BY DEF Rows, Duplicate, Answers

LEMMA HashTyped ==
  ASSUME TypeOK, NEW i \in Importers
  PROVE  job[i] \in Files /\ Hash(i) \in Contents
<1>1. job[i] \in Files
  BY DEF TypeOK
<1> QED BY <1>1 DEF Hash, Files

LEMMA MishapTyped ==
  ASSUME TypeOK, NEW kind, Fine \/ Mishap(kind)
  PROVE  mishaps' \in Nat
  BY DEF TypeOK, Fine, Mishap

\* What a step of an import does to the place, the answer and the lock.
StepTypes ==
  /\ pc' \in [Importers -> Active \cup {"idle", "done"}]
  /\ answer' \in [Importers -> Answers]
  /\ lock' \in [Contents -> Importers \cup {None}]

LEMMA GoToTyped ==
  ASSUME TypeOK, NEW i \in Importers, NEW place \in Active \cup {"idle", "done"}, GoTo(i, place)
  PROVE  pc' \in [Importers -> Active \cup {"idle", "done"}]
  BY DEF TypeOK, GoTo

LEMMA PlanTyped ==
  ASSUME TypeOK, NEW i \in Importers, NEW a \in Answers, Plan(i, a)
  PROVE  answer' \in [Importers -> Answers]
  BY DEF TypeOK, Plan

LEMMA EndTyped ==
  ASSUME TypeOK, NEW i \in Importers, NEW a \in Answers, End(i, a)
  PROVE  StepTypes
<1>1. lock' \in [Contents -> Importers \cup {None}]
  BY HashTyped DEF TypeOK, End, Released
<1> QED BY <1>1, GoToTyped, PlanTyped DEF End, StepTypes

LEMMA StartCleaningTyped ==
  ASSUME TypeOK, NEW i \in Importers, NEW kind \in Refusals, StartCleaning(i, kind)
  PROVE  StepTypes
<1>1. "cleaning" \in Active
  BY DEF Active, Locked
<1> QED BY <1>1, GoToTyped, PlanTyped, RefusedTyped DEF StartCleaning, StepTypes, TypeOK

LEMMA GoOnTyped ==
  ASSUME TypeOK, NEW i \in Importers, NEW place \in Active, GoTo(i, place), UNCHANGED lock,
         UNCHANGED answer \/ \E a \in Answers : Plan(i, a)
  PROVE  StepTypes
<1>1. answer' \in [Importers -> Answers]
  BY PlanTyped DEF TypeOK
<1> QED BY <1>1, GoToTyped DEF StepTypes, TypeOK

LEMMA FoundTyped ==
  ASSUME TypeOK, NEW i \in Importers, NEW r \in rows, Found(i, r),
         UNCHANGED answer \/ \E a \in Answers : Plan(i, a)
  PROVE  StepTypes /\ match' \in [Importers -> Rows \cup {None}]
<1>1. "resolving" \in Active
  BY DEF Active, Locked
<1>2. StepTypes
  BY <1>1, GoOnTyped DEF Found
<1>3. match' \in [Importers -> Rows \cup {None}]
  BY DEF Found, TypeOK
<1> QED BY <1>2, <1>3

LEMMA UnlinkTyped ==
  ASSUME TypeOK, NEW i \in Importers, Unlink(i)
  PROVE  StepTypes /\ disk' \subseteq Files /\ mishaps' \in Nat
<1>1. answer[i] \in Answers
  BY DEF TypeOK
<1>2. StepTypes
  BY <1>1, SpoiltTyped, EndTyped DEF Unlink
<1>3. disk' \subseteq Files
  BY DEF Unlink, TypeOK
<1> QED BY <1>2, <1>3, MishapTyped DEF Unlink

LEMMA RowsOfTyped ==
  ASSUME TypeOK, NEW hash, NEW r \in RowsOf(hash)
  PROVE  r \in rows /\ r \in Rows /\ r.sha = hash /\ Duplicate(r) \in Answers
  BY RowTyped DEF TypeOK, RowsOf

LEMMA InsertTyped ==
  ASSUME TypeOK, NEW i \in Importers, InsertOrIgnore(i) \/ UNCHANGED <<rows, nextId>>
  PROVE  rows' \subseteq Rows /\ nextId' \in Nat
<1>1. [id |-> nextId, sha |-> Hash(i), file |-> job[i]] \in Rows
  BY HashTyped DEF Rows, TypeOK
<1> QED BY <1>1 DEF InsertOrIgnore, TypeOK

\* TypeOK is preserved by every step.
LEMMA TypeStep ==
  ASSUME TypeOK, [Next]_vars
  PROVE  TypeOK'
<1> USE ImportAssumption
<1>1. ASSUME NEW i \in Importers, NEW f \in Files, Execute(i, f) PROVE TypeOK'
  <2>1. pc' \in [Importers -> Active \cup {"idle", "done"}] /\ answer' \in [Importers -> Answers]
    <3>1. "storing" \in Active
      BY DEF Active
    <3> QED BY <1>1, <3>1, GoToTyped, PlanTyped, RefusedTyped DEF Execute, Refusals
  <2>2. mishaps' \in Nat
    BY <1>1, MishapTyped DEF Execute
  <2>3. /\ job' \in [Importers -> Files] /\ own' \in [Importers -> BOOLEAN]
        /\ match' \in [Importers -> Rows \cup {None}] /\ imports' \in Nat
    BY <1>1 DEF Execute, TypeOK
  <2>4. UNCHANGED <<disk, rows, nextId, lock, removal, crashes, updates, removals>>
    BY <1>1 DEF Execute
  <2> QED BY <2>1, <2>2, <2>3, <2>4 DEF TypeOK
<1>2. ASSUME NEW i \in Importers, Acquire(i) PROVE TypeOK'
  <2>1. "admitting" \in Active
    BY DEF Active, Locked
  <2>2. lock' \in [Contents -> Importers \cup {None}]
    BY <1>2 DEF Acquire, TypeOK
  <2> QED BY <1>2, <2>1, <2>2, GoToTyped DEF Acquire, TypeOK, counts
<1>3. ASSUME NEW i \in Importers, Step(i) PROVE TypeOK'
  <2>0. answer[i] \in Answers /\ Spoilt(answer[i]) \in Answers
    BY SpoiltTyped DEF TypeOK
  <2>1. CASE Store(i)
    <3>1. StepTypes /\ mishaps' \in Nat
      <4>1. "locking" \in Active /\ "comparing" \in Active
        BY DEF Active
      <4> QED BY <2>1, <4>1, GoOnTyped, EndTyped, RefusedTyped, MishapTyped DEF Store, Refusals
    <3>2. disk' \subseteq Files /\ own' \in [Importers -> BOOLEAN]
      BY <2>1, HashTyped DEF Store, TypeOK
    <3> QED BY <2>1, <3>1, <3>2 DEF Store, StepTypes, TypeOK
  <2>2. CASE Compare(i)
    <3>1. StepTypes /\ mishaps' \in Nat
      <4>1. "locking" \in Active
        BY DEF Active
      <4> QED BY <2>2, <4>1, GoOnTyped, EndTyped, RefusedTyped, MishapTyped DEF Compare, Refusals
    <3> QED BY <2>2, <3>1 DEF Compare, StepTypes, TypeOK
  <2>3. CASE AcquireFails(i)
    <3>1. StepTypes /\ mishaps' \in Nat
      BY <2>3, EndTyped, RefusedTyped, MishapTyped DEF AcquireFails, Refusals
    <3> QED BY <2>3, <3>1 DEF AcquireFails, StepTypes, TypeOK
  <2>4. CASE Admit(i)
    <3>1. StepTypes /\ mishaps' \in Nat
      <4>1. "looking" \in Active
        BY DEF Active, Locked
      <4> QED BY <2>4, <4>1, GoOnTyped, StartCleaningTyped, EndTyped, RefusedTyped, MishapTyped
              DEF Admit, Refusals
    <3> QED BY <2>4, <3>1 DEF Admit, StepTypes, TypeOK
  <2>5. CASE LookUp(i)
    <3>1. StepTypes /\ mishaps' \in Nat /\ match' \in [Importers -> Rows \cup {None}]
      <4>1. ASSUME NEW r \in RowsOf(Hash(i)), Fine, Found(i, r), Plan(i, Duplicate(r))
            PROVE  StepTypes /\ mishaps' \in Nat /\ match' \in [Importers -> Rows \cup {None}]
        BY <4>1, RowsOfTyped, FoundTyped, MishapTyped
      <4>2. "parsing" \in Active
        BY DEF Active, Locked
      <4>3. ASSUME NEW k \in {"lookup", "cancel"}, Mishap(k), UNCHANGED match,
                   StartCleaning(i, "storage_failed") \/ StartCleaning(i, "cancelled")
            PROVE  StepTypes /\ mishaps' \in Nat /\ match' \in [Importers -> Rows \cup {None}]
        BY <4>3, StartCleaningTyped, MishapTyped DEF Refusals, TypeOK
      <4>4. ASSUME Fine, GoTo(i, "parsing"), UNCHANGED <<match, answer, lock>>
            PROVE  StepTypes /\ mishaps' \in Nat /\ match' \in [Importers -> Rows \cup {None}]
        BY <4>2, <4>4, GoOnTyped, MishapTyped DEF TypeOK
      <4> QED BY <2>5, <4>1, <4>3, <4>4 DEF LookUp
    <3> QED BY <2>5, <3>1 DEF LookUp, StepTypes, TypeOK
  <2>6. CASE Parse(i)
    <3>1. StepTypes /\ mishaps' \in Nat
      <4>1. "inserting" \in Active /\ "deleting" \in Active
        BY DEF Active, Locked
      <4> QED BY <2>6, <4>1, GoOnTyped, StartCleaningTyped, RefusedTyped, MishapTyped
              DEF Parse, Refusals
    <3> QED BY <2>6, <3>1 DEF Parse, StepTypes, TypeOK
  <2>7. CASE Insert(i)
    <3>1. rows' \subseteq Rows /\ nextId' \in Nat
      BY <2>7, InsertTyped DEF Insert
    <3>2. StepTypes /\ mishaps' \in Nat /\ match' \in [Importers -> Rows \cup {None}]
      <4>1. CASE InsertOrIgnore(i) /\ Fine /\ RowsOf(Hash(i)) = {}
                   /\ End(i, [kind |-> "imported", id |-> nextId]) /\ UNCHANGED match
        <5>1. [kind |-> "imported", id |-> nextId] \in Answers
          BY DEF Answers, TypeOK
        <5> QED BY <4>1, <5>1, EndTyped, MishapTyped DEF TypeOK
      <4>2. ASSUME NEW r \in RowsOf(Hash(i)), Fine, Found(i, r), Plan(i, Duplicate(r))
            PROVE  StepTypes /\ mishaps' \in Nat /\ match' \in [Importers -> Rows \cup {None}]
        BY <4>2, RowsOfTyped, FoundTyped, MishapTyped
      <4>3. ASSUME NEW k \in {"insert", "cancel"}, Mishap(k), UNCHANGED <<match, lock>>,
                   GoTo(i, "recovering"),
                   Plan(i, Refused("storage_failed")) \/ Plan(i, Refused("cancelled"))
            PROVE  StepTypes /\ mishaps' \in Nat /\ match' \in [Importers -> Rows \cup {None}]
        <5>1. "recovering" \in Active
          BY DEF Active, Locked
        <5> QED BY <4>3, <5>1, GoOnTyped, RefusedTyped, MishapTyped DEF Refusals, TypeOK
      <4> QED BY <2>7, <4>1, <4>2, <4>3 DEF Insert
    <3> QED BY <2>7, <3>1, <3>2 DEF Insert, StepTypes, TypeOK
  <2>8. CASE Recover(i)
    <3>1. StepTypes /\ mishaps' \in Nat /\ match' \in [Importers -> Rows \cup {None}]
      <4>1. ASSUME NEW r \in RowsOf(Hash(i)), Fine, Found(i, r), Plan(i, Duplicate(r))
            PROVE  StepTypes /\ mishaps' \in Nat /\ match' \in [Importers -> Rows \cup {None}]
        BY <4>1, RowsOfTyped, FoundTyped, MishapTyped
      <4>2. ASSUME Fine \/ Mishap("lookup"), GoTo(i, "cleaning"), UNCHANGED <<match, answer, lock>>
            PROVE  StepTypes /\ mishaps' \in Nat /\ match' \in [Importers -> Rows \cup {None}]
        <5>1. "cleaning" \in Active
          BY DEF Active, Locked
        <5> QED BY <4>2, <5>1, GoOnTyped, MishapTyped DEF TypeOK
      <4> QED BY <2>8, <4>1, <4>2 DEF Recover
    <3> QED BY <2>8, <3>1 DEF Recover, StepTypes, TypeOK
  <2>9. CASE Clean(i)
    <3>1. StepTypes /\ mishaps' \in Nat /\ match' \in [Importers -> Rows \cup {None}]
      <4>1. ASSUME NEW r \in RowsOf(Hash(i)), Fine, Found(i, r), UNCHANGED answer
            PROVE  StepTypes /\ mishaps' \in Nat /\ match' \in [Importers -> Rows \cup {None}]
        BY <4>1, RowsOfTyped, FoundTyped, MishapTyped
      <4>2. ASSUME Fine, GoTo(i, "deleting"), UNCHANGED <<match, answer, lock>>
            PROVE  StepTypes /\ mishaps' \in Nat /\ match' \in [Importers -> Rows \cup {None}]
        <5>1. "deleting" \in Active
          BY DEF Active, Locked
        <5> QED BY <4>2, <5>1, GoOnTyped, MishapTyped DEF TypeOK
      <4>3. ASSUME Mishap("lookup"), End(i, Spoilt(answer[i])), UNCHANGED match
            PROVE  StepTypes /\ mishaps' \in Nat /\ match' \in [Importers -> Rows \cup {None}]
        BY <2>0, <4>3, EndTyped, MishapTyped DEF TypeOK
      <4>4. ASSUME Mishap("cancel"), StartCleaning(i, "cancelled"), UNCHANGED match
            PROVE  StepTypes /\ mishaps' \in Nat /\ match' \in [Importers -> Rows \cup {None}]
        BY <4>4, StartCleaningTyped, MishapTyped DEF Refusals, TypeOK
      <4> QED BY <2>9, <4>1, <4>2, <4>3, <4>4 DEF Clean, CatalogMatch
    <3> QED BY <2>9, <3>1 DEF Clean, StepTypes, TypeOK
  <2>10. CASE Resolve(i)
    <3>1. StepTypes /\ mishaps' \in Nat /\ disk' \subseteq Files
      <4>1. CASE Unlink(i)
        BY <4>1, UnlinkTyped
      <4>2. ASSUME NEW a \in Answers, Fine \/ Mishap("resolve"), End(i, a), UNCHANGED disk
            PROVE  StepTypes /\ mishaps' \in Nat /\ disk' \subseteq Files
        BY <4>2, EndTyped, MishapTyped DEF TypeOK
      <4> QED BY <2>0, <2>10, <4>1, <4>2 DEF Resolve
    <3> QED BY <2>10, <3>1 DEF Resolve, StepTypes, TypeOK
  <2>11. CASE Delete(i)
    <3>1. StepTypes /\ mishaps' \in Nat /\ disk' \subseteq Files
      <4>1. CASE Unlink(i)
        BY <4>1, UnlinkTyped
      <4>2. ASSUME NEW a \in Answers, Fine, End(i, a), UNCHANGED disk
            PROVE  StepTypes /\ mishaps' \in Nat /\ disk' \subseteq Files
        BY <4>2, EndTyped, MishapTyped DEF TypeOK
      <4> QED BY <2>0, <2>11, <4>1, <4>2 DEF Delete
    <3> QED BY <2>11, <3>1 DEF Delete, StepTypes, TypeOK
  <2> QED BY <1>3, <2>1, <2>2, <2>3, <2>4, <2>5, <2>6, <2>7, <2>8, <2>9, <2>10, <2>11 DEF Step
<1>4. CASE UpdateBook
  <2>1. rows' \subseteq Rows
    BY <1>4 DEF UpdateBook, TypeOK, Rows
  <2> QED BY <1>4, <2>1 DEF UpdateBook, TypeOK, importer
<1>5. CASE RemoveFile
  BY <1>5 DEF RemoveFile, TypeOK, importer
<1>6. CASE RemoveRow
  BY <1>6 DEF RemoveRow, TypeOK, importer, counts
<1>7. CASE Crash
  <2>1. Refused("none") \in Answers
    BY RefusedTyped
  <2> QED BY <1>7, <2>1 DEF Crash, TypeOK
<1>8. CASE UNCHANGED vars
  BY <1>8 DEF vars, importer, counts, TypeOK
<1> QED BY <1>1, <1>2, <1>3, <1>4, <1>5, <1>6, <1>7, <1>8 DEF Next

\* TypeOK is an invariant, whatever fails and however imports overlap.
THEOREM TypeCorrect == Spec => []TypeOK
<1>1. Init => TypeOK
  <2> SUFFICES ASSUME Init PROVE TypeOK
    OBVIOUS
  <2>1. Refused("none") \in Answers
    BY RefusedTyped
  <2> QED BY <2>1 DEF Init, TypeOK
<1> QED BY <1>1, TypeStep, PTL DEF Spec

-----------------------------------------------------------------------------
(* The lock, and what is known under it *)

\* Two imports of the same content are not past the lock together.
LEMMA Exclusion ==
  ASSUME HoldsLock, NEW i \in Importers, NEW j \in Importers,
         pc[i] \in Locked, pc[j] \in Locked, Hash(i) = Hash(j)
  PROVE  i = j
  BY DEF HoldsLock

\* A step of i that is not Execute or Acquire: it stays inside or outside the lock,
\* or ends.
Moves(i) ==
  /\ UNCHANGED job
  /\ \E place \in Active \cup {"done"} :
       /\ GoTo(i, place)
       /\ \/ place = "done" /\ lock' = Released(i)
          \/ place \in Locked /\ pc[i] \in Locked /\ UNCHANGED lock
          \/ place \notin Locked /\ pc[i] \notin Locked /\ UNCHANGED lock

LEMMA EndMoves ==
  ASSUME NEW i, NEW a, End(i, a), UNCHANGED job
  PROVE  Moves(i)
  BY DEF End, Moves

LEMMA StayMoves ==
  ASSUME NEW i, NEW place \in Locked, GoTo(i, place), pc[i] \in Locked, UNCHANGED <<lock, job>>
  PROVE  Moves(i)
  BY DEF Moves, Active

LEMMA CleaningMoves ==
  ASSUME NEW i, NEW kind, StartCleaning(i, kind), pc[i] \in Locked, UNCHANGED job
  PROVE  Moves(i)
<1>1. "cleaning" \in Locked
  BY DEF Locked
<1> QED BY <1>1, StayMoves DEF StartCleaning

LEMMA FoundMoves ==
  ASSUME NEW i, NEW r, Found(i, r), pc[i] \in Locked, UNCHANGED job
  PROVE  Moves(i)
<1>1. "resolving" \in Locked
  BY DEF Locked
<1> QED BY <1>1, StayMoves DEF Found

LEMMA StepMoves ==
  ASSUME NEW i \in Importers, Step(i)
  PROVE  Moves(i)
<1> USE DEF Locked
<1>0. UNCHANGED job
  BY DEF Step, Store, Compare, AcquireFails, Admit, LookUp, Parse, Insert, Recover, Clean, Resolve, Delete
<1>1. CASE Store(i)
  <2>1. \A a : End(i, a) => Moves(i)
    BY <1>0, EndMoves
  <2>2. ASSUME NEW place \in {"locking", "comparing"}, GoTo(i, place), UNCHANGED lock PROVE Moves(i)
    BY <1>0, <1>1, <2>2 DEF Store, Moves, Active
  <2> QED BY <1>1, <2>1, <2>2 DEF Store
<1>2. CASE Compare(i)
  <2>1. \A a : End(i, a) => Moves(i)
    BY <1>0, EndMoves
  <2>2. ASSUME GoTo(i, "locking"), UNCHANGED lock PROVE Moves(i)
    BY <1>0, <1>2, <2>2 DEF Compare, Moves, Active
  <2> QED BY <1>2, <2>1, <2>2 DEF Compare
<1>3. CASE AcquireFails(i)
  BY <1>0, <1>3, EndMoves DEF AcquireFails
<1>4. CASE Admit(i)
  BY <1>0, <1>4, EndMoves, StayMoves, CleaningMoves DEF Admit
<1>5. CASE LookUp(i)
  BY <1>0, <1>5, StayMoves, CleaningMoves, FoundMoves DEF LookUp
<1>6. CASE Parse(i)
  BY <1>0, <1>6, StayMoves, CleaningMoves DEF Parse
<1>7. CASE Insert(i)
  BY <1>0, <1>7, EndMoves, StayMoves, FoundMoves DEF Insert
<1>8. CASE Recover(i)
  BY <1>0, <1>8, StayMoves, FoundMoves DEF Recover
<1>9. CASE Clean(i)
  BY <1>0, <1>9, EndMoves, StayMoves, CleaningMoves, FoundMoves DEF Clean
<1>10. CASE Resolve(i)
  BY <1>0, <1>10, EndMoves DEF Resolve, Unlink
<1>11. CASE Delete(i)
  BY <1>0, <1>11, EndMoves DEF Delete, Unlink
<1> QED BY <1>1, <1>2, <1>3, <1>4, <1>5, <1>6, <1>7, <1>8, <1>9, <1>10, <1>11 DEF Step

LEMMA MovesKeepLock ==
  ASSUME TypeOK, HoldsLock, NEW i \in Importers, Moves(i)
  PROVE  HoldsLock'
<1>1. SUFFICES ASSUME NEW j \in Importers, pc'[j] \in Locked
               PROVE  lock'[Hash(j)] = j
  BY DEF HoldsLock, Moves, Hash
<1>2. "done" \notin Locked
  BY DEF Locked
<1>3. \A k \in Importers : Hash(k) \in Contents
  BY HashTyped
<1>4. CASE j = i
  <2>1. pc[i] \in Locked /\ UNCHANGED lock
    BY <1>1, <1>2, <1>4 DEF Moves, GoTo, TypeOK
  <2> QED BY <1>4, <2>1 DEF HoldsLock
<1>5. CASE j # i
  <2>1. pc[j] \in Locked
    BY <1>1, <1>5 DEF Moves, GoTo, TypeOK
  <2>2. CASE UNCHANGED lock
    BY <2>1, <2>2 DEF HoldsLock
  <2>3. CASE lock' = Released(i) /\ pc[i] \in Locked
    <3>1. Hash(i) # Hash(j)
      BY <1>5, <2>1, <2>3, Exclusion
    <3> QED BY <1>3, <2>1, <2>3, <3>1 DEF Released, HoldsLock, TypeOK
  <2> QED BY <2>2, <2>3 DEF Moves, Released
<1> QED BY <1>4, <1>5

\* What a step of i leaves alone.
LEMMA OthersStay ==
  ASSUME TypeOK, NEW i \in Importers, Step(i), NEW j \in Importers, j # i
  PROVE  pc'[j] = pc[j] /\ job'[j] = job[j] /\ match'[j] = match[j]
<1>1. pc'[j] = pc[j] /\ job'[j] = job[j]
  BY StepMoves DEF Moves, GoTo, TypeOK
<1>2. match'[j] = match[j]
  BY DEF TypeOK, Step, Store, Compare, AcquireFails, Admit, LookUp, Parse, Insert, Recover, Clean,
         Resolve, Delete, Found
<1> QED BY <1>1, <1>2

\* Rows that go away or lose their hash disturb nobody.
LEMMA FewerRows ==
  ASSUME Matched, Unlisted, UNCHANGED importer, \A h \in Contents : RowsOf(h)' \subseteq RowsOf(h), TypeOK
  PROVE  Matched' /\ Unlisted'
<1>1. \A j \in Importers : Hash(j)' = Hash(j) /\ Hash(j) \in Contents
  BY HashTyped DEF importer, Hash
<1>2. Matched'
  BY <1>1 DEF Matched, importer, RowsOf
<1>3. Unlisted'
  BY <1>1 DEF Unlisted, importer, RowsOf
<1> QED BY <1>2, <1>3


\* Nobody is past the lock when an import starts or takes it but who already was.
LEMMA LockStep ==
  ASSUME TypeOK, HoldsLock, [Next]_vars
  PROVE  HoldsLock'
<1>1. ASSUME NEW i \in Importers, NEW f \in Files, Execute(i, f) PROVE HoldsLock'
  <2>1. pc[i] \notin Locked /\ pc'[i] \notin Locked
    BY <1>1 DEF Execute, GoTo, TypeOK, Locked
  <2>2. ASSUME NEW j \in Importers, j # i PROVE pc'[j] = pc[j] /\ job'[j] = job[j]
    BY <1>1, <2>2 DEF Execute, GoTo, TypeOK
  <2>3. UNCHANGED lock
    BY <1>1 DEF Execute
  <2> QED BY <2>1, <2>2, <2>3 DEF HoldsLock, Hash
<1>2. ASSUME NEW i \in Importers, Acquire(i) PROVE HoldsLock'
  <2>1. /\ lock[Hash(i)] = None /\ lock' = [lock EXCEPT ![Hash(i)] = i]
        /\ pc' = [pc EXCEPT ![i] = "admitting"] /\ UNCHANGED job
    BY <1>2 DEF Acquire, Free, GoTo
  <2>2. SUFFICES ASSUME NEW j \in Importers, pc'[j] \in Locked
                 PROVE  lock'[Hash(j)] = j
    BY <2>1 DEF HoldsLock, Hash
  <2>3. Hash(i) \in Contents /\ Hash(j) \in Contents
    BY HashTyped
  <2>4. CASE j = i
    BY <2>1, <2>3, <2>4 DEF TypeOK
  <2>5. CASE j # i
    <3>1. pc[j] \in Locked
      BY <2>1, <2>2, <2>5 DEF TypeOK
    <3>2. lock[Hash(j)] = j
      BY <3>1 DEF HoldsLock
    <3>3. Hash(j) # Hash(i)
      BY <2>1, <3>2, ImportAssumption
    <3> QED BY <2>1, <2>3, <3>2, <3>3 DEF TypeOK
  <2> QED BY <2>4, <2>5
<1>3. ASSUME NEW i \in Importers, Step(i) PROVE HoldsLock'
  BY <1>3, StepMoves, MovesKeepLock
<1>4. CASE UpdateBook \/ RemoveFile \/ RemoveRow \/ UNCHANGED vars
  <2>1. UNCHANGED <<lock, pc, job>>
    BY <1>4 DEF UpdateBook, RemoveFile, RemoveRow, vars, importer
  <2> QED BY <2>1 DEF HoldsLock, Hash
<1>5. CASE Crash
  BY <1>5 DEF Crash, HoldsLock, Locked
<1> QED BY <1>1, <1>2, <1>3, <1>4, <1>5 DEF Next

-----------------------------------------------------------------------------
(* What an import does to the table, and learns from it *)

Listing(i) == [id |-> nextId, sha |-> Hash(i), file |-> job[i]]

\* The only step of an import that touches the table lists its file, and only when
\* no row has its hash.
LEMMA StepRows ==
  ASSUME NEW i \in Importers, Step(i)
  PROVE  \/ UNCHANGED rows
         \/ pc[i] = "inserting" /\ RowsOf(Hash(i)) = {} /\ rows' = rows \cup {Listing(i)}
<1>1. CASE Insert(i)
  BY <1>1 DEF Insert, InsertOrIgnore, Listing
<1>2. CASE ~ Insert(i)
  BY <1>2 DEF Step, Store, Compare, AcquireFails, Admit, LookUp, Parse, Recover, Clean, Resolve, Delete
<1> QED BY <1>1, <1>2

\* Neither does a step of another import touch the rows of a hash that j has locked.
LEMMA RowsOfOther ==
  ASSUME TypeOK, HoldsLock, NEW i \in Importers, Step(i), NEW j \in Importers, j # i, pc[j] \in Locked
  PROVE  RowsOf(Hash(j))' = RowsOf(Hash(j))
<1>1. Hash(j)' = Hash(j)
  BY OthersStay DEF Hash
<1>2. CASE UNCHANGED rows
  BY <1>1, <1>2 DEF RowsOf
<1>3. CASE pc[i] = "inserting" /\ rows' = rows \cup {Listing(i)}
  <2>1. Hash(i) # Hash(j)
    BY <1>3, Exclusion DEF Locked
  <2>2. Listing(i).sha = Hash(i)
    BY DEF Listing
  <2> QED BY <1>1, <1>3, <2>1, <2>2 DEF RowsOf
<1> QED BY <1>2, <1>3, StepRows

\* An import that goes to compare has found a row of its hash.
LEMMA FindsRow ==
  ASSUME TypeOK, NEW i \in Importers, Step(i), pc'[i] = "resolving"
  PROVE  match'[i] \in RowsOf(Hash(i)) /\ UNCHANGED rows
<1>1. ASSUME NEW r, Found(i, r) PROVE match'[i] = r
  BY <1>1 DEF Found, TypeOK
<1>2. \A place : GoTo(i, place) => place = "resolving"
  BY DEF GoTo, TypeOK
<1>3. \A a : ~ End(i, a)
  BY <1>2 DEF End
<1>4. \A k : ~ StartCleaning(i, k)
  BY <1>2 DEF StartCleaning
<1>5. CASE LookUp(i)
  BY <1>1, <1>2, <1>4, <1>5 DEF LookUp
<1>6. CASE Insert(i)
  <2>1. ~ GoTo(i, "recovering")
    BY <1>2
  <2>2. InsertOrIgnore(i) /\ \E r \in RowsOf(Hash(i)) : Found(i, r)
    BY <1>3, <1>6, <2>1 DEF Insert
  <2> QED BY <1>1, <2>2 DEF InsertOrIgnore
<1>7. CASE Recover(i)
  BY <1>1, <1>2, <1>7 DEF Recover
<1>8. CASE Clean(i)
  BY <1>1, <1>2, <1>3, <1>4, <1>8 DEF Clean, CatalogMatch
<1>9. CASE Store(i) \/ Compare(i) \/ AcquireFails(i) \/ Admit(i) \/ Parse(i) \/ Resolve(i) \/ Delete(i)
  <2>1. ~ (\E place \in {"locking", "comparing", "looking", "inserting", "deleting"} : GoTo(i, place))
    BY <1>2
  <2> QED BY <1>3, <1>4, <1>9, <2>1 DEF Store, Compare, AcquireFails, Admit, Parse, Resolve, Delete, Unlink
<1> QED BY <1>5, <1>6, <1>7, <1>8, <1>9 DEF Step

\* An import that goes to parse, insert or delete has seen that no row has its hash.
LEMMA FindsNone ==
  ASSUME TypeOK, Unlisted, NEW i \in Importers, Step(i), pc'[i] \in {"parsing", "inserting", "deleting"}
  PROVE  RowsOf(Hash(i)) = {} /\ UNCHANGED rows
<1>2. \A place : GoTo(i, place) => place \in {"parsing", "inserting", "deleting"}
  BY DEF GoTo, TypeOK
<1>3. \A a : ~ End(i, a)
  BY <1>2 DEF End
<1>4. \A k : ~ StartCleaning(i, k)
  BY <1>2 DEF StartCleaning
<1>5. \A r : ~ Found(i, r)
  BY <1>2 DEF Found
<1>6. ~ (\E place \in {"locking", "comparing", "looking", "recovering", "cleaning"} : GoTo(i, place))
  BY <1>2
<1>7. CASE LookUp(i)
  BY <1>4, <1>5, <1>7 DEF LookUp
<1>8. CASE Parse(i)
  BY <1>8 DEF Parse, Unlisted
<1>9. CASE Clean(i)
  BY <1>3, <1>4, <1>5, <1>9 DEF Clean, CatalogMatch
<1>10. CASE Insert(i) \/ Recover(i)
  BY <1>3, <1>5, <1>6, <1>10 DEF Insert, Recover
<1>11. CASE Store(i) \/ Compare(i) \/ AcquireFails(i) \/ Admit(i) \/ Resolve(i) \/ Delete(i)
  BY <1>3, <1>4, <1>6, <1>11 DEF Store, Compare, AcquireFails, Admit, Resolve, Delete, Unlink
<1> QED BY <1>7, <1>8, <1>9, <1>10, <1>11 DEF Step

\* The table stays well-formed: only an import adds a row, only the shelf's update
\* takes a hash away.
LEMMA RowsStep ==
  ASSUME TypeOK, RowsOk, [Next]_vars
  PROVE  RowsOk'
<1>1. ASSUME NEW i \in Importers, Step(i) PROVE RowsOk'
  <2>1. updates' = updates
    BY <1>1 DEF Step, Store, Compare, AcquireFails, Admit, LookUp, Parse, Insert, Recover, Clean,
                Resolve, Delete
  <2>2. CASE UNCHANGED rows
    BY <2>1, <2>2 DEF RowsOk
  <2>3. CASE RowsOf(Hash(i)) = {} /\ rows' = rows \cup {Listing(i)}
    <3>1. /\ Listing(i).sha = Hash(i) /\ Listing(i).file[1] = Hash(i)
          /\ Hash(i) # None
      BY HashTyped, ImportAssumption DEF Listing, Hash
    <3>2. \A r \in rows : r.sha # Hash(i)
      BY <2>3 DEF RowsOf
    <3> QED BY <2>1, <2>3, <3>1, <3>2 DEF RowsOk
  <2> QED BY <1>1, <2>2, <2>3, StepRows
<1>2. CASE UpdateBook
  <2>1. PICK r \in rows : rows' = (rows \ {r}) \cup {[r EXCEPT !.sha = None]}
    BY <1>2 DEF UpdateBook
  <2>2. [r EXCEPT !.sha = None].sha = None
    BY <2>1 DEF TypeOK, Rows
  <2>3. updates' # 0
    BY <1>2 DEF UpdateBook, TypeOK
  <2> QED BY <2>1, <2>2, <2>3 DEF RowsOk
<1>3. CASE RemoveRow
  <2>1. rows' \subseteq rows /\ updates' = updates
    BY <1>3 DEF RemoveRow, counts
  <2> QED BY <2>1 DEF RowsOk
<1>4. ASSUME UNCHANGED <<rows, updates>> PROVE RowsOk'
  BY <1>4 DEF RowsOk
<1>5. CASE RemoveFile \/ Crash \/ UNCHANGED vars
  BY <1>4, <1>5 DEF RemoveFile, Crash, vars, counts
<1>6. CASE \E i \in Importers : (\E f \in Files : Execute(i, f)) \/ Acquire(i)
  BY <1>4, <1>6 DEF Execute, Acquire, counts
<1> QED BY <1>1, <1>2, <1>3, <1>5, <1>6 DEF Next

\* What an import learnt under the lock survives its own steps and the others'.
LEMMA LearntStep ==
  ASSUME TypeOK, Knows, NEW i \in Importers, Step(i)
  PROVE  Matched' /\ Unlisted'
<1>0. HoldsLock /\ RowsOk /\ Matched /\ Unlisted
  BY DEF Knows
<1>1. UNCHANGED job /\ Hash(i)' = Hash(i)
  BY StepMoves DEF Moves, Hash
<1>2. Matched'
  <2>1. SUFFICES ASSUME NEW j \in Importers, pc'[j] = "resolving"
                 PROVE  match'[j] \in Rows /\ \A r \in RowsOf(Hash(j))' : r.file = match'[j].file
    BY DEF Matched
  <2>2. CASE j = i
    <3>1. match'[i] \in RowsOf(Hash(i)) /\ UNCHANGED rows
      BY <2>1, <2>2, FindsRow
    <3>2. match'[i] \in Rows
      BY <3>1, RowsOfTyped
    <3>3. RowsOf(Hash(i))' = RowsOf(Hash(i))
      BY <1>1, <3>1 DEF RowsOf
    <3>4. \A r \in RowsOf(Hash(i)) : r = match'[i]
      BY <1>0, <3>1, HashTyped, ImportAssumption DEF RowsOk, RowsOf
    <3> QED BY <2>2, <3>2, <3>3, <3>4
  <2>3. CASE j # i
    <3>1. pc[j] = "resolving" /\ match'[j] = match[j]
      BY <2>1, <2>3, OthersStay
    <3>2. RowsOf(Hash(j))' = RowsOf(Hash(j))
      BY <1>0, <2>3, <3>1, RowsOfOther DEF Locked
    <3> QED BY <1>0, <3>1, <3>2 DEF Matched
  <2> QED BY <2>2, <2>3
<1>3. Unlisted'
  <2>1. SUFFICES ASSUME NEW j \in Importers, pc'[j] \in {"parsing", "inserting", "deleting"}
                 PROVE  RowsOf(Hash(j))' = {}
    BY DEF Unlisted
  <2>2. CASE j = i
    BY <1>0, <1>1, <2>1, <2>2, FindsNone DEF RowsOf
  <2>3. CASE j # i
    <3>1. pc[j] \in {"parsing", "inserting", "deleting"}
      BY <2>1, <2>3, OthersStay
    <3>2. RowsOf(Hash(j))' = RowsOf(Hash(j))
      BY <1>0, <2>3, <3>1, RowsOfOther DEF Locked
    <3> QED BY <1>0, <3>1, <3>2 DEF Unlisted
  <2> QED BY <2>2, <2>3
<1> QED BY <1>2, <1>3

\* What is known under the lock is preserved by every step.
LEMMA KnowsStep ==
  ASSUME TypeOK, Knows, [Next]_vars
  PROVE  Knows'
<1>0. HoldsLock /\ RowsOk /\ Matched /\ Unlisted
  BY DEF Knows
<1>1. ASSUME NEW i \in Importers, Execute(i, job'[i]) \/ Acquire(i) PROVE Matched' /\ Unlisted'
  <2>1. pc'[i] \in {"storing", "done", "admitting"} /\ UNCHANGED rows
    BY <1>1 DEF Execute, Acquire, GoTo, TypeOK
  <2>2. \A j \in Importers : j # i => pc'[j] = pc[j] /\ match'[j] = match[j] /\ job'[j] = job[j]
    BY <1>1 DEF Execute, Acquire, GoTo, TypeOK
  <2> QED BY <1>0, <2>1, <2>2 DEF Matched, Unlisted, RowsOf, Hash
<1>2. ASSUME NEW i \in Importers, NEW f \in Files, Execute(i, f) PROVE Execute(i, job'[i])
  <2>1. job'[i] = f
    BY <1>2 DEF Execute, TypeOK
  <2> QED BY <1>2, <2>1
<1>3. ASSUME NEW i \in Importers, Step(i) PROVE Matched' /\ Unlisted'
  BY <1>3, LearntStep
<1>4. ASSUME UpdateBook PROVE Matched' /\ Unlisted'
  <2>1. PICK r \in rows : rows' = (rows \ {r}) \cup {[r EXCEPT !.sha = None]}
    BY <1>4 DEF UpdateBook
  <2>2. [r EXCEPT !.sha = None].sha = None
    BY <2>1 DEF TypeOK, Rows
  <2>3. \A h \in Contents : RowsOf(h)' \subseteq RowsOf(h)
    BY <2>1, <2>2, ImportAssumption DEF RowsOf
  <2> QED BY <1>0, <1>4, <2>3, FewerRows DEF UpdateBook
<1>5. ASSUME RemoveRow PROVE Matched' /\ Unlisted'
  <2>1. \A h \in Contents : RowsOf(h)' \subseteq RowsOf(h)
    BY <1>5 DEF RemoveRow, RowsOf
  <2> QED BY <1>0, <1>5, <2>1, FewerRows DEF RemoveRow
<1>6. ASSUME RemoveFile \/ UNCHANGED vars PROVE Matched' /\ Unlisted'
  <2>1. UNCHANGED <<rows, importer>>
    BY <1>6 DEF RemoveFile, vars
  <2>2. \A h \in Contents : RowsOf(h)' \subseteq RowsOf(h)
    BY <2>1 DEF RowsOf
  <2> QED BY <1>0, <2>1, <2>2, FewerRows
<1>7. ASSUME Crash PROVE Matched' /\ Unlisted'
  BY <1>7 DEF Crash, Matched, Unlisted
<1>8. Matched' /\ Unlisted'
  BY <1>1, <1>2, <1>3, <1>4, <1>5, <1>6, <1>7 DEF Next
<1> QED BY <1>0, <1>8, LockStep, RowsStep DEF Knows

-----------------------------------------------------------------------------
(* The directory *)

\* A step of an import takes no file but its own copy: when it is one too many for
\* the row it found, or when no row has its hash.
LEMMA StepDisk ==
  ASSUME NEW i \in Importers, Step(i)
  PROVE  \/ disk \subseteq disk'
         \/ /\ disk \ {job[i]} \subseteq disk' /\ UNCHANGED rows
            /\ \/ pc[i] = "resolving" /\ match[i].file # job[i]
               \/ pc[i] = "deleting"
<1>1. CASE Resolve(i)
  BY <1>1 DEF Resolve, Redundant, Unlink
<1>2. CASE Delete(i)
  BY <1>2 DEF Delete, Unlink
<1>3. CASE ~ Resolve(i) /\ ~ Delete(i)
  BY <1>3 DEF Step, Store, Compare, AcquireFails, Admit, LookUp, Parse, Insert, Recover, Clean
<1> QED BY <1>1, <1>2, <1>3

\* So it takes the file of no row that has a hash.
LEMMA KeepsFile ==
  ASSUME TypeOK, Knows, NEW i \in Importers, Step(i), NEW r \in rows, r.sha # None, r.file \in disk
  PROVE  r.file \in disk'
<1>1. ASSUME r.file = job[i],
             \/ pc[i] = "resolving" /\ match[i].file # job[i]
             \/ pc[i] = "deleting"
      PROVE  FALSE
  <2>1. r \in RowsOf(Hash(i))
    BY <1>1 DEF Knows, RowsOk, RowsOf, Hash
  <2> QED BY <1>1, <2>1 DEF Knows, Matched, Unlisted
<1>2. CASE disk \subseteq disk'
  BY <1>2
<1>3. CASE /\ disk \ {job[i]} \subseteq disk'
           /\ \/ pc[i] = "resolving" /\ match[i].file # job[i]
              \/ pc[i] = "deleting"
  <2>1. r.file # job[i]
    BY <1>1, <1>3
  <2> QED BY <1>3, <2>1
<1> QED BY <1>2, <1>3, StepDisk

\* The copy a listing will name stays until it is listed.
LEMMA PresentStep ==
  ASSUME TypeOK, Knows, Present, [Next]_vars
  PROVE  Present'
<1>1. SUFFICES ASSUME Untouched', NEW j \in Importers, pc'[j] = "inserting"
               PROVE  job'[j] \in disk'
  BY DEF Present
<1>2. ASSUME NEW i \in Importers, Step(i) PROVE job'[j] \in disk'
  <2>1. UNCHANGED <<job, updates, removals>>
    BY <1>2 DEF Step, Store, Compare, AcquireFails, Admit, LookUp, Parse, Insert, Recover, Clean,
                Resolve, Delete
  <2>2. Untouched
    BY <1>1, <2>1 DEF Untouched
  <2>3. CASE j = i
    <3>1. Parse(i) => job[i] \in disk /\ UNCHANGED disk
      <4>1. \A k : StartCleaning(i, k) => pc'[i] # "inserting"
        BY DEF StartCleaning, GoTo, TypeOK
      <4>2. GoTo(i, "deleting") => pc'[i] # "inserting"
        BY DEF GoTo, TypeOK
      <4> QED BY <1>1, <2>3, <4>1, <4>2 DEF Parse
    <3>2. ~ Parse(i) => FALSE
      <4>1. \A place : GoTo(i, place) => place = "inserting"
        BY <1>1, <2>3 DEF GoTo, TypeOK
      <4>2. /\ ~ GoTo(i, "done") /\ ~ GoTo(i, "cleaning") /\ ~ GoTo(i, "resolving")
            /\ ~ GoTo(i, "locking") /\ ~ GoTo(i, "comparing") /\ ~ GoTo(i, "looking")
            /\ ~ GoTo(i, "parsing") /\ ~ GoTo(i, "recovering") /\ ~ GoTo(i, "deleting")
        BY <4>1
      <4> QED BY <1>2, <4>2 DEF Step, Store, Compare, AcquireFails, Admit, LookUp, Insert, Recover,
                                Clean, Resolve, Delete, Unlink, End, StartCleaning, Found
    <3> QED BY <2>1, <2>3, <3>1, <3>2
  <2>4. CASE j # i
    <3>1. pc[j] = "inserting"
      BY <1>1, <1>2, <2>4, OthersStay
    <3>2. job[j] \in disk
      BY <2>2, <3>1 DEF Present
    <3>3. CASE job[j] = job[i] /\ pc[i] \in Locked
      BY <2>4, <3>1, <3>3, Exclusion DEF Knows, Locked, Hash
    <3> QED BY <1>2, <2>1, <3>2, <3>3, StepDisk DEF Locked
  <2> QED BY <2>3, <2>4
<1>3. ASSUME NEW i \in Importers, (\E f \in Files : Execute(i, f)) \/ Acquire(i)
      PROVE  job'[j] \in disk'
  <2>1. pc'[i] \in {"storing", "done", "admitting"}
    BY <1>3 DEF Execute, Acquire, GoTo, TypeOK
  <2>2. j # i
    BY <1>1, <2>1
  <2>3. pc[j] = "inserting" /\ job'[j] = job[j]
    BY <1>1, <1>3, <2>2 DEF Execute, Acquire, GoTo, TypeOK
  <2>4. UNCHANGED <<disk, updates, removals>>
    BY <1>3 DEF Execute, Acquire, counts
  <2> QED BY <1>1, <2>3, <2>4 DEF Present, Untouched
<1>4. CASE RemoveRow \/ UNCHANGED vars
  <2>1. UNCHANGED <<disk, pc, job, updates, removals>>
    BY <1>4 DEF RemoveRow, vars, importer, counts
  <2> QED BY <1>1, <2>1 DEF Present, Untouched
<1>5. CASE UpdateBook \/ RemoveFile
  BY <1>1, <1>5 DEF UpdateBook, RemoveFile, Untouched, TypeOK
<1>6. CASE Crash
  BY <1>1, <1>6 DEF Crash
<1> QED BY <1>2, <1>3, <1>4, <1>5, <1>6 DEF Next

\* Every row's file is there after a step if it was before.
LEMMA RowHasFileStep ==
  ASSUME TypeOK, Knows, Present, RowHasFile, [Next]_vars
  PROVE  RowHasFile'
<1>1. SUFFICES ASSUME Untouched', NEW r \in rows'
               PROVE  r.file \in disk'
  BY DEF RowHasFile
<1>2. ASSUME NEW i \in Importers, Step(i) PROVE r.file \in disk'
  <2>1. UNCHANGED <<updates, removals>>
    BY <1>2 DEF Step, Store, Compare, AcquireFails, Admit, LookUp, Parse, Insert, Recover, Clean,
                Resolve, Delete
  <2>2. Untouched
    BY <1>1, <2>1 DEF Untouched
  <2>3. CASE r \in rows
    <3>1. r.file \in disk /\ r.sha # None
      BY <2>2, <2>3 DEF RowHasFile, Untouched, Knows, RowsOk
    <3> QED BY <1>2, <2>3, <3>1, KeepsFile
  <2>4. CASE r \notin rows
    <3>1. pc[i] = "inserting" /\ r = Listing(i)
      BY <1>1, <1>2, <2>4, StepRows
    <3>2. r.file = job[i] /\ job[i] \in disk
      BY <2>2, <3>1 DEF Listing, Present
    <3> QED BY <1>2, <3>1, <3>2, StepDisk
  <2> QED BY <2>3, <2>4
<1>3. CASE \E i \in Importers : (\E f \in Files : Execute(i, f)) \/ Acquire(i)
  <2>1. UNCHANGED <<disk, rows, updates, removals>>
    BY <1>3 DEF Execute, Acquire, counts
  <2> QED BY <1>1, <2>1 DEF RowHasFile, Untouched
<1>4. CASE RemoveRow \/ Crash \/ UNCHANGED vars
  <2>1. rows' \subseteq rows /\ UNCHANGED <<disk, updates, removals>>
    BY <1>4 DEF RemoveRow, Crash, vars, counts
  <2> QED BY <1>1, <2>1 DEF RowHasFile, Untouched
<1>5. CASE UpdateBook \/ RemoveFile
  BY <1>1, <1>5 DEF UpdateBook, RemoveFile, Untouched, TypeOK
<1> QED BY <1>2, <1>3, <1>4, <1>5 DEF Next

-----------------------------------------------------------------------------
(* What an import answers *)

\* An import that deletes its copy will refuse; one that was not called made none.
Planned ==
  \A i \in Importers :
    /\ pc[i] \in {"recovering", "cleaning", "deleting"} => answer[i].kind \in Refusals
    /\ pc[i] = "idle" => ~ own[i]

\* An answer that names a row names one of the import's content.
Named ==
  Untouched => \A i \in Importers :
    (pc[i] \in {"resolving", "done"} /\ answer[i].kind \in {"imported", "duplicate"})
      => \E r \in RowsOf(Hash(i)) : r.id = answer[i].id

\* The row an import found is in the table, or, once the shelf has written it back
\* without its hash, a row of the same file.
Shown ==
  /\ Untouched => \A i \in Importers : pc[i] = "resolving" => match[i] \in RowsOf(Hash(i))
  /\ removals = 0 =>
       /\ removal = None
       /\ \A i \in Importers : pc[i] = "resolving" => \E r \in rows : r.file = match[i].file

\* Where nothing has gone wrong: a copy that is missing was taken by an import that
\* found its content listed, and under the lock it is not missing.
Smooth(i) ==
  /\ pc[i] \notin {"recovering", "cleaning", "deleting"}
  /\ pc[i] \in {"comparing", "locking", "admitting"} => job[i] \in disk \/ RowsOf(Hash(i)) # {}
  /\ pc[i] \in {"looking", "parsing"} => job[i] \in disk
  /\ pc[i] = "resolving" => answer[i].kind = "duplicate"
  /\ pc[i] = "done" => \/ answer[i].kind \in {"imported", "duplicate"}
                       \/ answer[i].kind = "storage_failed" /\ RowsOf(Hash(i)) # {}

Faultless == (Untouched /\ mishaps = 0) => \A i \in Importers : Smooth(i)

Answering == Planned /\ Named /\ Shown /\ Faultless

\* Where a step's parts lead.
LEMMA Places ==
  ASSUME TypeOK, NEW i \in Importers
  PROVE  /\ \A place : GoTo(i, place) => pc'[i] = place
         /\ \A a : Plan(i, a) => answer'[i] = a
         /\ \A a : End(i, a) => pc'[i] = "done" /\ answer'[i] = a
         /\ \A kind : StartCleaning(i, kind) => pc'[i] = "cleaning" /\ answer'[i] = Refused(kind)
         /\ \A r : Found(i, r) => pc'[i] = "resolving" /\ match'[i] = r
  BY DEF TypeOK, GoTo, Plan, End, StartCleaning, Found

\* What a refusal says, and what is left of an answer when the clean-up fails.
LEMMA RefusedKind ==
  /\ \A kind : Refused(kind).kind = kind
  /\ \A a : Spoilt(a).kind \in {"cancelled", "storage_failed"}
  BY DEF Refused, Spoilt

\* What a step of an import leaves alone.
LEMMA StepFrame ==
  ASSUME NEW i \in Importers, Step(i)
  PROVE  /\ UNCHANGED <<job, removal, crashes, updates, removals>>
         /\ rows \subseteq rows'
<1>1. UNCHANGED <<job, removal, crashes, updates, removals>>
  BY DEF Step, Store, Compare, AcquireFails, Admit, LookUp, Parse, Insert, Recover, Clean, Resolve, Delete
<1> QED BY <1>1, StepRows

\* A step of i leaves the answer and the copy of every other import.
LEMMA OthersAnswer ==
  ASSUME TypeOK, NEW i \in Importers, Step(i), NEW j \in Importers, j # i
  PROVE  answer'[j] = answer[j] /\ own'[j] = own[j]
<1>1. own'[j] = own[j]
  BY DEF TypeOK, Step, Store, Compare, AcquireFails, Admit, LookUp, Parse, Insert, Recover, Clean,
         Resolve, Delete
<1>2. \A a : Plan(i, a) => answer'[j] = answer[j]
  BY DEF TypeOK, Plan
<1>3. answer'[j] = answer[j]
  BY <1>2 DEF Step, Store, Compare, AcquireFails, Admit, LookUp, Parse, Insert, Recover, Clean,
         Resolve, Delete, Unlink, End, StartCleaning
<1> QED BY <1>1, <1>3

\* An import goes on; or it will refuse; or it has found a row; or it ends with a
\* refusal, with the row it lists, or with the answer it planned.
Outcome(i) ==
  \/ pc'[i] \in {"comparing", "locking", "looking", "parsing", "inserting"}
  \/ pc'[i] \in {"recovering", "cleaning", "deleting"} /\ answer'[i].kind \in Refusals
  \/ /\ pc'[i] = "resolving" /\ match'[i] \in RowsOf(Hash(i)) /\ UNCHANGED rows
     /\ answer'[i] = Duplicate(match'[i]) \/ answer'[i].kind \in Refusals
  \/ pc'[i] = "done" /\ answer'[i].kind \in Refusals
  \/ /\ pc'[i] = "done" /\ answer'[i] = [kind |-> "imported", id |-> nextId]
     /\ Listing(i) \in rows'
  \/ pc'[i] = "done" /\ pc[i] = "resolving" /\ answer'[i] = answer[i] /\ UNCHANGED rows

LEMMA StepOutcome ==
  ASSUME TypeOK, Planned, NEW i \in Importers, Step(i)
  PROVE  Outcome(i)
<1> USE DEF Refusals
<1>0. Spoilt(answer[i]).kind \in Refusals
  BY RefusedKind
<1>1. CASE Store(i)
  BY <1>1, Places, RefusedKind DEF Store, Outcome
<1>2. CASE Compare(i)
  BY <1>2, Places, RefusedKind DEF Compare, Outcome
<1>3. CASE AcquireFails(i)
  BY <1>3, Places, RefusedKind DEF AcquireFails, Outcome
<1>4. CASE Admit(i)
  BY <1>4, Places, RefusedKind DEF Admit, Outcome
<1>5. CASE LookUp(i)
  BY <1>5, Places, RefusedKind DEF LookUp, Outcome
<1>6. CASE Parse(i)
  BY <1>6, Places, RefusedKind DEF Parse, Outcome
<1>7. CASE Insert(i)
  <2>1. CASE RowsOf(Hash(i)) = {} /\ InsertOrIgnore(i)
             /\ End(i, [kind |-> "imported", id |-> nextId])
    BY <2>1, Places DEF InsertOrIgnore, Listing, Outcome
  <2>2. ASSUME NEW r \in RowsOf(Hash(i)), InsertOrIgnore(i), Found(i, r), Plan(i, Duplicate(r))
        PROVE  Outcome(i)
    BY <2>2, Places DEF InsertOrIgnore, Outcome
  <2>3. CASE GoTo(i, "recovering")
             /\ (Plan(i, Refused("storage_failed")) \/ Plan(i, Refused("cancelled")))
    BY <2>3, Places, RefusedKind DEF Outcome
  <2> QED BY <1>7, <2>1, <2>2, <2>3 DEF Insert
<1>8. CASE Recover(i)
  BY <1>8, Places DEF Recover, Outcome, Planned
<1>9. CASE Clean(i)
  BY <1>0, <1>9, Places, RefusedKind DEF Clean, CatalogMatch, Outcome, Planned
<1>10. CASE Resolve(i)
  BY <1>10, Places, RefusedKind DEF Resolve, Unlink, Outcome
<1>11. CASE Delete(i)
  BY <1>0, <1>11, Places DEF Delete, Unlink, Outcome, Planned
<1> QED BY <1>1, <1>2, <1>3, <1>4, <1>5, <1>6, <1>7, <1>8, <1>9, <1>10, <1>11 DEF Step

\* Rows that stay are found by their hash as before.
LEMMA RowsGrow ==
  ASSUME NEW i \in Importers, rows \subseteq rows', Hash(i)' = Hash(i)
  PROVE  RowsOf(Hash(i)) \subseteq RowsOf(Hash(i))'
  BY DEF RowsOf

\* A step of an import keeps what is known of the answers.
LEMMA AnswersStep ==
  ASSUME TypeOK, Planned, Named, Shown, NEW i \in Importers, Step(i)
  PROVE  Planned' /\ Named' /\ Shown'
<1>1. /\ UNCHANGED <<job, removal, crashes, updates, removals>> /\ rows \subseteq rows'
      /\ \A j \in Importers : Hash(j)' = Hash(j)
      /\ Untouched' = Untouched
  BY StepFrame DEF Hash, Untouched
<1>2. Outcome(i)
  BY StepOutcome
<1>3. \A j \in Importers : j # i =>
        pc'[j] = pc[j] /\ match'[j] = match[j] /\ answer'[j] = answer[j] /\ own'[j] = own[j]
  BY OthersStay, OthersAnswer
<1>4. \A j \in Importers : RowsOf(Hash(j)) \subseteq RowsOf(Hash(j))'
  BY <1>1, RowsGrow
<1>5. Planned'
  <2>1. /\ pc'[i] \in {"recovering", "cleaning", "deleting"} => answer'[i].kind \in Refusals
        /\ pc'[i] # "idle"
    BY <1>2 DEF Outcome
  <2> QED BY <1>3, <2>1 DEF Planned
<1>6. Named'
  <2>1. SUFFICES ASSUME Untouched, NEW j \in Importers, pc'[j] \in {"resolving", "done"},
                        answer'[j].kind \in {"imported", "duplicate"}
                 PROVE  \E r \in RowsOf(Hash(j))' : r.id = answer'[j].id
    BY <1>1 DEF Named
  <2>2. CASE j # i
    BY <1>3, <1>4, <2>1, <2>2 DEF Named
  <2>3. CASE j = i
    <3>1. answer'[i].kind \notin Refusals
      BY <2>1, <2>3 DEF Refusals
    <3>2. CASE match'[i] \in RowsOf(Hash(i)) /\ answer'[i] = Duplicate(match'[i])
      <4>1. answer'[i].id = match'[i].id
        BY <3>2 DEF Duplicate
      <4> QED BY <1>4, <2>3, <3>2, <4>1
    <3>3. CASE answer'[i] = [kind |-> "imported", id |-> nextId] /\ Listing(i) \in rows'
      <4>1. Listing(i) \in RowsOf(Hash(i))' /\ Listing(i).id = answer'[i].id
        BY <1>1, <3>3 DEF Listing, RowsOf
      <4> QED BY <2>3, <4>1
    <3>4. CASE pc[i] = "resolving" /\ answer'[i] = answer[i]
      BY <1>4, <2>1, <2>3, <3>4 DEF Named
    <3> QED BY <1>2, <2>1, <2>3, <3>1, <3>2, <3>3, <3>4 DEF Outcome
  <2> QED BY <2>2, <2>3
<1>7. Shown'
  <2>1. ASSUME NEW j \in Importers, pc'[j] = "resolving", Untouched
        PROVE  match'[j] \in RowsOf(Hash(j))'
    <3>1. CASE j = i
      BY <1>4, <2>1, <3>1, FindsRow
    <3>2. CASE j # i
      BY <1>3, <1>4, <2>1, <3>2 DEF Shown
    <3> QED BY <3>1, <3>2
  <2>2. ASSUME NEW j \in Importers, pc'[j] = "resolving", removals = 0
        PROVE  \E r \in rows' : r.file = match'[j].file
    <3>1. CASE j = i
      <4>1. match'[i] \in rows'
        BY <2>2, <3>1, FindsRow DEF RowsOf
      <4> QED BY <3>1, <4>1
    <3>2. CASE j # i
      BY <1>1, <1>3, <2>2, <3>2 DEF Shown
    <3> QED BY <3>1, <3>2
  <2>3. removals = 0 => removal' = None
    BY <1>1 DEF Shown
  <2> QED BY <1>1, <2>1, <2>2, <2>3 DEF Shown
<1> QED BY <1>5, <1>6, <1>7

\* As long as nothing goes wrong, no step of its own takes an import off its course.
LEMMA SmoothStep ==
  ASSUME TypeOK, Present, Shown, Untouched, mishaps = 0, mishaps' = 0,
         NEW i \in Importers, Smooth(i), Step(i)
  PROVE  Smooth(i)'
<1>1. \A kind : ~ Mishap(kind)
  BY DEF Mishap
<1>2. rows \subseteq rows' /\ Hash(i)' = Hash(i) /\ job'[i] = job[i]
  BY StepFrame DEF Hash
<1>3. RowsOf(Hash(i)) # {} => RowsOf(Hash(i))' # {}
  BY <1>2, RowsGrow
<1> USE DEF Smooth
<1>4. CASE Store(i)
  BY <1>1, <1>2, <1>4, Places DEF Store
<1>5. CASE Compare(i)
  BY <1>1, <1>2, <1>3, <1>5, Places, RefusedKind DEF Compare, SameBook
<1>6. CASE AcquireFails(i)
  BY <1>1, <1>6 DEF AcquireFails
<1>7. CASE Admit(i)
  BY <1>1, <1>2, <1>3, <1>7, Places, RefusedKind DEF Admit
<1>8. CASE LookUp(i)
  <2>1. \A r : Duplicate(r).kind = "duplicate"
    BY DEF Duplicate
  <2> QED BY <1>1, <1>2, <1>8, <2>1, Places DEF LookUp
<1>9. CASE Parse(i)
  BY <1>1, <1>2, <1>9, Places DEF Parse
<1>10. CASE Insert(i)
  <2>1. \A r : Duplicate(r).kind = "duplicate"
    BY DEF Duplicate
  <2>2. \A n : [kind |-> "imported", id |-> n].kind = "imported"
    OBVIOUS
  <2> QED BY <1>1, <1>10, <2>1, <2>2, Places DEF Insert
<1>11. CASE Resolve(i)
  <2>1. match[i] \in RowsOf(Hash(i)) /\ match[i] \in rows
    BY <1>11 DEF Resolve, Shown, RowsOf
  <2>2. Spoilt(answer[i]).kind = "storage_failed"
    BY <1>11, RefusedKind DEF Resolve, Spoilt
  <2> QED BY <1>1, <1>3, <1>11, <2>1, <2>2, Places DEF Resolve, Unlink
<1>12. CASE Recover(i) \/ Clean(i) \/ Delete(i)
  BY <1>12 DEF Recover, Clean, Delete
<1> QED BY <1>4, <1>5, <1>6, <1>7, <1>8, <1>9, <1>10, <1>11, <1>12 DEF Step

\* Nor does the step of another import: it takes the copy only of an import outside the
\* lock, and only when their content is listed.
LEMMA SmoothOther ==
  ASSUME TypeOK, Knows, Present, Shown, Untouched, NEW i \in Importers, Smooth(i), Step(i),
         NEW j \in Importers, j # i, Smooth(j)
  PROVE  Smooth(j)'
<1>1. rows \subseteq rows' /\ Hash(j)' = Hash(j) /\ job'[j] = job[j]
  BY StepFrame DEF Hash
<1>2. RowsOf(Hash(j)) # {} => RowsOf(Hash(j))' # {}
  BY <1>1, RowsGrow
<1>3. pc'[j] = pc[j] /\ answer'[j] = answer[j]
  BY OthersStay, OthersAnswer
<1>4. job[j] \in disk => \/ job[j] \in disk'
                         \/ RowsOf(Hash(j)) # {} /\ pc[j] \notin Locked
  <2>1. SUFFICES ASSUME job[j] \in disk, job[j] \notin disk'
                 PROVE  RowsOf(Hash(j)) # {} /\ pc[j] \notin Locked
    OBVIOUS
  <2>2. pc[i] = "resolving" /\ job[i] = job[j]
    BY <2>1, StepDisk DEF Smooth
  <2>3. Hash(i) = Hash(j)
    BY <2>2 DEF Hash
  <2>4. pc[j] \notin Locked
    BY <2>2, <2>3, Exclusion DEF Knows, Locked
  <2>5. match[i] \in RowsOf(Hash(i))
    BY <2>2 DEF Shown
  <2> QED BY <2>3, <2>4, <2>5
<1> QED BY <1>1, <1>2, <1>3, <1>4 DEF Smooth, Locked

\* Every step keeps what the answers rest on.
LEMMA AnsweringStep ==
  ASSUME TypeOK, Knows, Present, Answering, [Next]_vars
  PROVE  Answering'
<1>0. Planned /\ Named /\ Shown /\ Faultless
  BY DEF Answering
<1>1. ASSUME NEW i \in Importers, Step(i) PROVE Answering'
  <2>1. Faultless'
    <3>1. SUFFICES ASSUME Untouched', mishaps' = 0, NEW j \in Importers
                   PROVE  Smooth(j)'
      BY DEF Faultless
    <3>2. mishaps = 0
      <4>1. mishaps' = mishaps \/ mishaps' = mishaps + 1
        BY <1>1 DEF Step, Store, Compare, AcquireFails, Admit, LookUp, Parse, Insert, Recover, Clean,
                    Resolve, Delete, Unlink, Fine, Mishap
      <4> QED BY <3>1, <4>1 DEF TypeOK
    <3>3. Untouched
      BY <1>1, <3>1, StepFrame DEF Untouched
    <3>4. Smooth(i) /\ Smooth(j)
      BY <1>0, <3>2, <3>3 DEF Faultless
    <3>5. CASE j = i
      BY <1>0, <1>1, <3>1, <3>2, <3>3, <3>4, <3>5, SmoothStep
    <3>6. CASE j # i
      BY <1>0, <1>1, <3>3, <3>4, <3>6, SmoothOther
    <3> QED BY <3>5, <3>6
  <2> QED BY <1>0, <1>1, <2>1, AnswersStep DEF Answering
<1>2. ASSUME NEW i \in Importers, NEW f \in Files, Execute(i, f) PROVE Answering'
  <2>1. /\ UNCHANGED <<disk, rows, removal, updates, removals>> /\ own'[i] = FALSE
        /\ \A j \in Importers : j # i =>
             /\ pc'[j] = pc[j] /\ job'[j] = job[j] /\ match'[j] = match[j]
             /\ answer'[j] = answer[j] /\ own'[j] = own[j]
    BY <1>2 DEF Execute, GoTo, Plan, TypeOK
  <2>2. \/ pc'[i] = "storing" /\ mishaps' = mishaps
        \/ pc'[i] = "done" /\ answer'[i].kind = "unreadable" /\ mishaps' # 0
    BY <1>2, Places, RefusedKind DEF Execute, Fine, Mishap, TypeOK
  <2>3. \A j \in Importers : j # i => Hash(j)' = Hash(j) /\ RowsOf(Hash(j))' = RowsOf(Hash(j))
    BY <2>1 DEF Hash, RowsOf
  <2>4. Planned'
    BY <1>0, <2>1, <2>2 DEF Planned
  <2>5. Named'
    BY <1>0, <2>1, <2>2, <2>3 DEF Named, Untouched
  <2>6. Shown'
    BY <1>0, <2>1, <2>2, <2>3 DEF Shown, Untouched
  <2>7. Faultless'
    <3>1. SUFFICES ASSUME Untouched', mishaps' = 0, NEW j \in Importers
                   PROVE  Smooth(j)'
      BY DEF Faultless
    <3>2. Untouched /\ mishaps = 0 /\ pc'[i] = "storing"
      BY <2>1, <2>2, <3>1 DEF Untouched
    <3>3. Smooth(i)'
      BY <3>2 DEF Smooth
    <3>4. Smooth(j)
      BY <1>0, <3>2 DEF Faultless
    <3>5. CASE j # i
      BY <2>1, <2>3, <3>4, <3>5 DEF Smooth
    <3> QED BY <3>3, <3>5
  <2> QED BY <2>4, <2>5, <2>6, <2>7 DEF Answering
<1>3. ASSUME NEW i \in Importers, Acquire(i) PROVE Answering'
  <2>1. /\ UNCHANGED <<disk, rows, removal, mishaps, updates, removals, job, own, match, answer>>
        /\ pc[i] = "locking" /\ pc'[i] = "admitting"
        /\ \A j \in Importers : j # i => pc'[j] = pc[j]
    BY <1>3 DEF Acquire, GoTo, TypeOK, counts
  <2>2. \A j \in Importers : Hash(j)' = Hash(j) /\ RowsOf(Hash(j))' = RowsOf(Hash(j))
    BY <2>1 DEF Hash, RowsOf
  <2>3. Planned' /\ Named' /\ Shown'
    BY <1>0, <2>1, <2>2 DEF Planned, Named, Shown, Untouched
  <2>4. ASSUME NEW j \in Importers, Smooth(j) PROVE Smooth(j)'
    BY <2>1, <2>2, <2>4 DEF Smooth
  <2>5. Faultless'
    BY <1>0, <2>1, <2>4 DEF Faultless, Untouched
  <2> QED BY <2>3, <2>5 DEF Answering
<1>4. CASE UpdateBook
  <2>1. UNCHANGED <<importer, removal, removals>> /\ ~ Untouched'
    BY <1>4 DEF UpdateBook, Untouched, TypeOK
  <2>2. PICK r \in rows : rows' = (rows \ {r}) \cup {[r EXCEPT !.sha = None]}
    BY <1>4 DEF UpdateBook
  <2>3. [r EXCEPT !.sha = None].file = r.file
    BY <2>2 DEF TypeOK, Rows
  <2>4. \A s \in rows : \E t \in rows' : t.file = s.file
    BY <2>2, <2>3
  <2>5. Planned' /\ Named' /\ Faultless'
    BY <1>0, <2>1 DEF Planned, Named, Faultless, importer
  <2>6. Shown'
    BY <1>0, <2>1, <2>4 DEF Shown, importer
  <2> QED BY <2>5, <2>6 DEF Answering
<1>5. CASE RemoveFile \/ RemoveRow
  <2>1. UNCHANGED importer /\ removals' # 0 /\ ~ Untouched'
    BY <1>0, <1>5 DEF RemoveFile, RemoveRow, Untouched, TypeOK, counts, Shown
  <2> QED BY <1>0, <2>1 DEF Answering, Planned, Named, Shown, Faultless, importer
<1>6. CASE Crash
  BY <1>6 DEF Crash, Answering, Planned, Named, Shown, Faultless, Smooth
<1>7. CASE UNCHANGED vars
  <2>1. UNCHANGED <<disk, rows, importer, removal, mishaps, updates, removals>>
    BY <1>7 DEF vars, counts
  <2>2. \A j \in Importers : Hash(j)' = Hash(j) /\ RowsOf(Hash(j))' = RowsOf(Hash(j))
    BY <2>1 DEF Hash, RowsOf, importer
  <2>3. Planned' /\ Named' /\ Shown'
    BY <1>0, <2>1, <2>2 DEF Planned, Named, Shown, Untouched, importer
  <2>4. ASSUME NEW j \in Importers, Smooth(j) PROVE Smooth(j)'
    BY <2>1, <2>2, <2>4 DEF Smooth, importer
  <2>5. Faultless'
    BY <1>0, <2>1, <2>4 DEF Faultless, Untouched
  <2> QED BY <2>3, <2>5 DEF Answering
<1> QED BY <1>1, <1>2, <1>3, <1>4, <1>5, <1>6, <1>7 DEF Next

\* A step with which an import ends as a duplicate, or refused for what the book is.
LEMMA LeavesNothing ==
  ASSUME TypeOK, Answering, NEW i \in Importers, Step(i), pc'[i] = "done", own[i], removals = 0,
         answer'[i].kind \in {"duplicate", "protected", "unreadable", "parse_failed"}
  PROVE  job[i] \notin disk' \/ \E r \in rows' : r.file = job[i]
<1>1. \A a : ~ End(i, Spoilt(a))
  BY Places, RefusedKind
<1>2. /\ ~ End(i, Refused("storage_failed")) /\ ~ End(i, Refused("cancelled"))
      /\ ~ End(i, [kind |-> "imported", id |-> nextId])
  BY Places, RefusedKind
<1>3. \A place : GoTo(i, place) => place = "done"
  BY Places
<1>4. (\A kind : ~ StartCleaning(i, kind)) /\ (\A r : ~ Found(i, r))
  BY Places
<1>5. CASE Resolve(i)
  <2>1. CASE Unlink(i)
    BY <1>1, <2>1 DEF Unlink
  <2>2. CASE ~ Redundant(i)
    <3>1. match[i].file = job[i]
      BY <2>2 DEF Redundant
    <3>2. UNCHANGED rows /\ pc[i] = "resolving"
      BY <1>5 DEF Resolve
    <3> QED BY <3>1, <3>2 DEF Answering, Shown
  <2> QED BY <1>1, <1>5, <2>1, <2>2 DEF Resolve
<1>6. CASE Delete(i)
  BY <1>1, <1>6 DEF Delete, Unlink
<1>7. CASE Clean(i)
  <2>1. ~ GoTo(i, "deleting")
    BY <1>3
  <2> QED BY <1>1, <1>4, <1>7, <2>1 DEF Clean
<1>8. CASE Store(i) \/ Compare(i) \/ AcquireFails(i) \/ Admit(i)
  <2>1. ~ (\E place \in {"locking", "comparing", "looking"} : GoTo(i, place))
    BY <1>3
  <2> QED BY <1>2, <1>4, <1>8, <2>1 DEF Store, Compare, AcquireFails, Admit
<1>9. CASE LookUp(i) \/ Parse(i) \/ Insert(i) \/ Recover(i)
  <2>1. ~ (\E place \in {"parsing", "inserting", "deleting", "recovering", "cleaning"} : GoTo(i, place))
    BY <1>3
  <2> QED BY <1>2, <1>4, <1>9, <2>1 DEF LookUp, Parse, Insert, Recover
<1> QED BY <1>5, <1>6, <1>7, <1>8, <1>9 DEF Step

-----------------------------------------------------------------------------
(* Theorems *)

IInv == TypeOK /\ Knows /\ Present /\ RowHasFile /\ Answering

\* The inductive invariant holds of every state.
THEOREM Inductive == Spec => []IInv
<1>1. Init => IInv
  <2> SUFFICES ASSUME Init PROVE IInv
    OBVIOUS
  <2>1. Refused("none") \in Answers
    BY RefusedTyped
  <2>2. TypeOK
    BY <2>1 DEF Init, TypeOK
  <2>3. Knows /\ Present /\ RowHasFile
    BY DEF Init, Knows, HoldsLock, RowsOk, Matched, Unlisted, Present, RowHasFile, Locked
  <2>4. Answering
    BY DEF Init, Answering, Planned, Named, Shown, Faultless, Smooth
  <2> QED BY <2>2, <2>3, <2>4 DEF IInv
<1>2. IInv /\ [Next]_vars => IInv'
  BY TypeStep, KnowsStep, PresentStep, RowHasFileStep, AnsweringStep DEF IInv
<1> QED BY <1>1, <1>2, PTL DEF Spec

\* As long as only imports are at work, whatever fails, is cancelled or dies, every
\* listed book has its file.
THEOREM BooksOpen == Spec => []RowHasFile
<1>1. IInv => RowHasFile
  BY DEF IInv
<1> QED BY <1>1, Inductive, PTL

\* No step of an import takes the file of a row that has a hash; only the shelf's
\* removal of a book does.
THEOREM KeepsFiles == Spec => KeepsListedFiles
<1>1. IInv /\ [Next]_vars =>
        [\A r \in rows : (r.sha # None /\ r.file \in disk /\ removals' = removals)
            => r.file \in disk']_vars
  <2> SUFFICES ASSUME IInv, [Next]_vars, NEW r \in rows, r.sha # None, r.file \in disk,
                      removals' = removals
               PROVE  r.file \in disk'
    OBVIOUS
  <2>1. ASSUME NEW i \in Importers, Step(i) PROVE r.file \in disk'
    BY <2>1, KeepsFile DEF IInv
  <2>2. CASE RemoveFile
    BY <2>2 DEF RemoveFile, IInv, TypeOK
  <2>3. CASE \/ \E i \in Importers : (\E f \in Files : Execute(i, f)) \/ Acquire(i)
             \/ UpdateBook \/ RemoveRow \/ Crash \/ UNCHANGED vars
    BY <2>3 DEF Execute, Acquire, UpdateBook, RemoveRow, Crash, vars
  <2> QED BY <2>1, <2>2, <2>3 DEF Next
<1> QED BY <1>1, Inductive, PTL DEF Spec, KeepsListedFiles

\* As long as only imports are at work, an import that says Imported or Duplicate
\* names a row of its content, and the row's file is there.
THEOREM AnswersTrue == Spec => []AnswerIsTrue
<1>1. IInv => AnswerIsTrue
  <2> SUFFICES ASSUME IInv, Untouched, NEW i \in Importers, pc[i] = "done",
                      answer[i].kind \in {"imported", "duplicate"}
               PROVE  \E r \in rows : r.id = answer[i].id /\ r.sha = Hash(i) /\ r.file \in disk
    BY DEF AnswerIsTrue
  <2>1. PICK r \in RowsOf(Hash(i)) : r.id = answer[i].id
    BY DEF IInv, Answering, Named
  <2>2. r \in rows /\ r.sha = Hash(i)
    BY DEF RowsOf
  <2>3. r.file \in disk
    BY <2>2 DEF IInv, RowHasFile
  <2> QED BY <2>1, <2>2, <2>3
<1> QED BY <1>1, Inductive, PTL

\* When nothing goes wrong but the process dying, an import fails only because its
\* content is listed already.
THEOREM FaultlessKept == Spec => []FaultlessImportIsKept
<1>1. IInv => FaultlessImportIsKept
  BY DEF IInv, Answering, Faultless, Smooth, FaultlessImportIsKept
<1> QED BY <1>1, Inductive, PTL

\* An import that ends as a duplicate, or refused for what the book is, leaves no
\* copy of its own that no row names.
THEOREM RefusedLeaves == Spec => RefusedLeavesNothing
<1>1. IInv /\ [Next]_vars =>
        [\A i \in Importers :
           (/\ pc[i] # "done" /\ pc'[i] = "done" /\ own[i] /\ removals = 0
            /\ answer'[i].kind \in {"duplicate", "protected", "unreadable", "parse_failed"})
             => job[i] \notin disk' \/ \E r \in rows' : r.file = job[i]]_vars
  <2> SUFFICES ASSUME IInv, [Next]_vars, NEW i \in Importers, pc[i] # "done", pc'[i] = "done",
                      own[i], removals = 0,
                      answer'[i].kind \in {"duplicate", "protected", "unreadable", "parse_failed"}
               PROVE  job[i] \notin disk' \/ \E r \in rows' : r.file = job[i]
    OBVIOUS
  <2>0. TypeOK /\ Answering
    BY DEF IInv
  <2>1. ASSUME NEW j \in Importers, Step(j)
        PROVE  job[i] \notin disk' \/ \E r \in rows' : r.file = job[i]
    <3>1. j = i
      BY <2>0, <2>1, OthersStay
    <3> QED BY <2>0, <2>1, <3>1, LeavesNothing
  <2>2. ASSUME NEW j \in Importers, NEW f \in Files, Execute(j, f)
        PROVE  FALSE
    <3>1. j = i
      BY <2>0, <2>2 DEF Execute, GoTo, TypeOK
    <3> QED BY <2>0, <2>2, <3>1 DEF Execute, Answering, Planned
  <2>3. ASSUME NEW j \in Importers, Acquire(j)
        PROVE  FALSE
    BY <2>0, <2>3 DEF Acquire, GoTo, TypeOK
  <2>4. CASE UpdateBook \/ RemoveFile \/ RemoveRow \/ Crash \/ UNCHANGED vars
    BY <2>4 DEF UpdateBook, RemoveFile, RemoveRow, Crash, vars, importer
  <2> QED BY <2>1, <2>2, <2>3, <2>4 DEF Next
<1> QED BY <1>1, Inductive, PTL DEF Spec, RefusedLeavesNothing

\* The lock of a hash belongs to the import that is past it, and to nobody else.
LockIsExact ==
  \A c \in Contents, i \in Importers : lock[c] = i <=> pc[i] \in Locked /\ Hash(i) = c

\* Two imports of one content are never past the lock together, and no outcome of an
\* import, not its failure, cancellation or death either, leaves a lock behind: what
\* EveryImportEnds needs beside fairness (withHashLock, BookImportCoordinator.kt).
THEOREM LockReleased == Spec => []LockIsExact
<1> DEFINE Held == \A c \in Contents, i \in Importers : lock[c] = i => pc[i] \in Locked /\ Hash(i) = c
<1>1. Init => Held
  BY ImportAssumption DEF Init
<1>2. IInv /\ Held /\ [Next]_vars => Held'
  <2> SUFFICES ASSUME TypeOK, Held, [Next]_vars,
                      NEW c \in Contents, NEW i \in Importers, lock'[c] = i
               PROVE  pc'[i] \in Locked /\ job'[i][1] = c
    BY DEF IInv, Hash
  <2>0. i # None
    BY ImportAssumption
  <2>1. ASSUME NEW j \in Importers, NEW f \in Files, Execute(j, f) PROVE pc'[i] \in Locked /\ job'[i][1] = c
    <3>1. lock[c] = i /\ pc[j] \notin Locked
      BY <2>1 DEF Execute, Locked
    <3>2. pc[i] \in Locked /\ Hash(i) = c /\ i # j
      BY <3>1
    <3> QED BY <2>1, <3>2 DEF Execute, GoTo, TypeOK, Hash
  <2>2. ASSUME NEW j \in Importers, Acquire(j) PROVE pc'[i] \in Locked /\ job'[i][1] = c
    <3>1. Hash(j) \in Contents /\ UNCHANGED job /\ pc' = [pc EXCEPT ![j] = "admitting"]
          /\ lock' = [lock EXCEPT ![Hash(j)] = j]
      BY <2>2, HashTyped DEF Acquire, GoTo
    <3>2. CASE c = Hash(j)
      BY <3>1, <3>2 DEF TypeOK, Locked, Hash
    <3>3. CASE c # Hash(j)
      <4>1. lock[c] = i
        BY <3>1, <3>3 DEF TypeOK
      <4> QED BY <3>1, <4>1 DEF TypeOK, Locked, Hash
    <3> QED BY <3>2, <3>3
  <2>3. ASSUME NEW j \in Importers, Step(j) PROVE pc'[i] \in Locked /\ job'[i][1] = c
    <3>1. Moves(j) /\ Hash(j) \in Contents
      BY <2>3, StepMoves, HashTyped
    <3>2. lock[c] = i
      BY <2>0, <3>1 DEF Moves, Released, TypeOK
    <3>3. pc[i] \in Locked /\ Hash(i) = c
      BY <3>2
    <3>4. ~ (i = j /\ lock' = Released(j))
      BY <2>0, <3>1, <3>3 DEF Released, TypeOK
    <3>5. pc'[i] \in Locked
      BY <3>1, <3>3, <3>4 DEF Moves, GoTo, TypeOK
    <3> QED BY <3>1, <3>3, <3>5 DEF Moves, Hash
  <2>4. CASE UpdateBook \/ RemoveFile \/ RemoveRow \/ UNCHANGED vars
    <3>1. UNCHANGED <<lock, pc, job>>
      BY <2>4 DEF UpdateBook, RemoveFile, RemoveRow, vars, importer
    <3> QED BY <3>1 DEF Hash
  <2>5. CASE Crash
    BY <2>0, <2>5 DEF Crash
  <2> QED BY <2>1, <2>2, <2>3, <2>4, <2>5 DEF Next
<1>3. IInv /\ Held => LockIsExact
  <2> SUFFICES ASSUME HoldsLock, Held PROVE LockIsExact
    BY DEF IInv, Knows
  <2> QED BY DEF HoldsLock, LockIsExact
<1> QED BY <1>1, <1>2, <1>3, Inductive, PTL DEF Spec
=============================================================================
