--------------------------- MODULE SpeechAudioCache ---------------------------
(***************************************************************************)
(* FileSpeechAudioCache: synthesised speech on disk, for the chapter being *)
(* read and no other.  A request retains its chapter with a generation and *)
(* gets a token; only the newest token may read or write.  Every operation *)
(* runs under one mutex and is one step here.                              *)
(*                                                                         *)
(* An entry stands for a text with a voice and a rate in a chapter; its    *)
(* bytes, its checksum and its size are left out (all entries are equally  *)
(* large), and which entries have expired or are oldest is open.  Files    *)
(* are deleted: that File.delete() answers false, or fails with the new    *)
(* token set (77-82), is left out; what it leaves is in the directory of   *)
(* another chapter, where no token of this one looks (161-169, 180-183).   *)
(***************************************************************************)
EXTENDS SpeechRequests

CONSTANTS
  Scope,      \* the chapter of each request
  Text,       \* its text
  MaxEntries  \* maxBytes

ASSUME CacheAssumption == MaxEntries \in Nat

VARIABLES activeGeneration, activeToken, files

cache == <<activeGeneration, activeToken, files>>

File(r) == <<Scope[r], Text[r]>>

Files == {<<Scope[r], Text[q]>> : r, q \in Requests}

CacheTypeOK ==
  /\ activeGeneration \in Nat
  /\ activeToken \in Requests \union {None}
  /\ files \subseteq Files

\* An earlier process may have left files of any chapter.
CacheInit ==
  /\ activeGeneration = 0 /\ activeToken = None
  /\ files \in {kept \in SUBSET Files : Cardinality(kept) <= MaxEntries}

-----------------------------------------------------------------------------
\* A request that is not the newest, or whose caller is gone, gets a token that
\* is good for nothing.
Retain(r, generation, live) ==
  IF generation > activeGeneration /\ live
  THEN /\ activeGeneration' = generation
       /\ activeToken' = r
       /\ files' = {f \in files : f[1] = Scope[r]}
  ELSE UNCHANGED cache

MutantIsActive(r) == activeToken # None

\* A token is compared by identity; its chapter is its request's.
IsActive(r) == activeToken = r

Unexpired == {kept \in SUBSET files : \A f \in files \ kept : f[1] = Scope[activeToken]}

Get(r, hit) ==
  /\ IF IsActive(r)
     THEN /\ files' \in Unexpired
          /\ hit = (File(r) \in files')
     ELSE UNCHANGED files /\ ~hit
  /\ UNCHANGED <<activeGeneration, activeToken>>

\* Room is made by deleting other entries; an entry that is there already takes
\* room while its successor is staged, and the new one may not fit.
AfterPut(present, r) ==
  LET others == present \ {File(r)}
      room == MaxEntries - Cardinality(present \ others)
  IN IF room = 0 THEN {present \ others}
     ELSE {kept \union {File(r)} : kept \in
             {k \in SUBSET others : IF Cardinality(others) < room THEN k = others ELSE Cardinality(k) = room - 1}}

Put(r) ==
  /\ IF IsActive(r)
     THEN \E present \in Unexpired : files' \in AfterPut(present, r)
     ELSE UNCHANGED files
  /\ UNCHANGED <<activeGeneration, activeToken>>

Evict(r) ==
  /\ files' = IF IsActive(r) THEN files \ {File(r)} ELSE files
  /\ UNCHANGED <<activeGeneration, activeToken>>

Clear ==
  /\ activeToken' = None
  /\ files' = {}
  /\ UNCHANGED activeGeneration
==============================================================================
