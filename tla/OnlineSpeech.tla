----------------------------- MODULE OnlineSpeech -----------------------------
(***************************************************************************)
(* SpeechEngineRouter with the audio cache, the encoded audio player and   *)
(* the two engines under it.  A request retains its chapter in the cache,  *)
(* plays what is cached, or has it synthesised, with retries, plays it and *)
(* caches it; in automatic mode it falls back to the system voice.         *)
(*                                                                         *)
(* Requests run on the main thread and are suspended in between; a cache   *)
(* operation runs on the I/O dispatcher and goes on when its caller is     *)
(* cancelled.  They come as SpeechSession sends them: one at a time, the   *)
(* one before answered, or cancelled and stopped; but stop may come at any *)
(* time, from a session that is being closed.  The system voice is what    *)
(* SpeechEngine promises of it, the online service answers as it likes.    *)
(***************************************************************************)
EXTENDS SpeechAudioCache, EncodedAudioPlayer

CONSTANTS
  Stops,
  Retries,     \* length of RetryPolicy.delaysMillis
  MaxClears    \* bound: times the cache is cleared

Modes == {"OFFLINE", "ONLINE", "AUTO"}

ASSUME RouterAssumption ==
  /\ DOMAIN Scope = Requests /\ DOMAIN Text = Requests
  /\ Retries \in Nat /\ MaxClears \in Nat

VARIABLES
  asked, withdrawn, answer, heard, covers, stopped,   \* as in SpeechEngine
  step,         \* where each request is in the router
  mode,         \* the mode it was asked in
  generation,   \* its requestSequence
  cached,       \* whether it plays what was cached
  retries,      \* its retries so far
  systemVoice,  \* the request the system voice is speaking
  stopping,     \* how far each stop has come
  clears

contract == <<asked, withdrawn, answer, heard, covers, stopped>>
router == <<step, mode, generation, cached, retries>>
vars == <<cache, player, contract, router, systemVoice, stopping, clears>>

RouterSteps == {"new", "retaining", "getting", "playing", "removing", "synthesizing", "delaying", "putting",
                "speaking", "over"}

TypeOK ==
  /\ CacheTypeOK /\ PlayerTypeOK
  /\ asked \subseteq Requests /\ withdrawn \subseteq asked /\ heard \subseteq asked
  /\ answer \in [Requests -> Results \union {None}]
  /\ covers \in [Stops -> SUBSET Requests] /\ stopped \subseteq Stops
  /\ step \in [Requests -> RouterSteps]
  /\ mode \in [Requests -> Modes \union {None}]
  /\ generation \in [Requests -> Nat] /\ retries \in [Requests -> 0..Retries]
  /\ cached \in [Requests -> BOOLEAN]
  /\ systemVoice \in Requests \union {None}
  /\ stopping \in [Stops -> {"idle", "system", "online", "returned"}]
  /\ clears \in 0..MaxClears

Init ==
  /\ CacheInit /\ PlayerInit
  /\ asked = {} /\ withdrawn = {} /\ heard = {} /\ stopped = {}
  /\ answer = [r \in Requests |-> None]
  /\ covers = [s \in Stops |-> {}]
  /\ step = [r \in Requests |-> "new"]
  /\ mode = [r \in Requests |-> None]
  /\ generation = [r \in Requests |-> 0] /\ retries = [r \in Requests |-> 0]
  /\ cached = [r \in Requests |-> FALSE]
  /\ systemVoice = None
  /\ stopping = [s \in Stops |-> "idle"]
  /\ clears = 0

-----------------------------------------------------------------------------
Go(r, from, to) == step[r] = from /\ step' = [step EXCEPT ![r] = to]

Live(r) == r \in asked \ withdrawn

\* A cancelled request comes back from a suspension only to end.
IfLive(r, to) == IF Live(r) THEN to ELSE "over"

Answer(r, value) == answer' = [answer EXCEPT ![r] = value]

\* How one session sends its requests (SpeechSession.kt 281-286): see above.  When
\* a session takes over from another, its first request may be asked while the
\* stop of the other is on its way; that order is left out.
Settled(r) == answer[r] # None \/ (r \in withdrawn /\ \E s \in stopped : r \in covers[s])

Ask(r) ==
  /\ r \notin asked /\ \A q \in asked : Settled(q)
  /\ asked' = asked \union {r}
  /\ Go(r, "new", "retaining")
  /\ generation' = [generation EXCEPT ![r] = Cardinality(asked) + 1]
  /\ \E chosen \in Modes : mode' = [mode EXCEPT ![r] = chosen]
  /\ UNCHANGED <<cache, player, withdrawn, answer, heard, covers, stopped, cached, retries, systemVoice, stopping,
                 clears>>

\* Cancellation reaches a request at once where it is suspended, except in a
\* cache operation; the system engine learns of it later.
Withdraw(r) ==
  /\ Live(r) /\ answer[r] = None
  /\ withdrawn' = withdrawn \union {r}
  /\ step' = [step EXCEPT ![r] = IF @ \in {"retaining", "getting", "removing", "putting"} THEN @ ELSE "over"]
  /\ CancelPlayback(r)
  /\ UNCHANGED <<cache, asked, answer, heard, covers, stopped, mode, generation, cached, retries, systemVoice,
                 stopping, clears>>

-----------------------------------------------------------------------------
(* The route of a request                                                  *)

\* Cache maintenance that fails leaves the request without a token.
RetainScope(r) ==
  /\ Go(r, "retaining", IF ~Live(r) THEN "over" ELSE IF mode[r] = "OFFLINE" THEN "speaking" ELSE "getting")
  /\ Retain(r, generation[r], Live(r)) \/ UNCHANGED cache
  /\ UNCHANGED <<player, contract, mode, generation, cached, retries, systemVoice, stopping, clears>>

\* What is cached is played; otherwise, or when reading it fails, synthesise.
GetCached(r) ==
  /\ step[r] = "getting"
  /\ \/ \E hit \in BOOLEAN :
          /\ Get(r, hit)
          /\ cached' = [cached EXCEPT ![r] = hit /\ Live(r)]
     \/ UNCHANGED cache /\ cached' = [cached EXCEPT ![r] = FALSE]
  /\ IF cached'[r]
     THEN Go(r, "getting", "playing") /\ PlayMp3(r)
     ELSE Go(r, "getting", IfLive(r, "synthesizing")) /\ UNCHANGED player
  /\ UNCHANGED <<contract, mode, generation, retries, systemVoice, stopping, clears>>

Synthesised(r) ==
  /\ Go(r, "synthesizing", "playing")
  /\ PlayMp3(r)
  /\ UNCHANGED <<cache, contract, mode, generation, cached, retries, systemVoice, stopping, clears>>

MutantSynthesisFails(r) ==
  /\ mode[r] = "AUTO"
  /\ Go(r, "synthesizing", "delaying")
  /\ retries' = [retries EXCEPT ![r] = @ + 1]
  /\ UNCHANGED <<cache, player, contract, mode, generation, cached, systemVoice, stopping, clears>>

\* In automatic mode a failure that may pass is tried again, any other is left
\* to the system voice.
SynthesisFails(r) ==
  /\ \/ /\ mode[r] = "ONLINE"
        /\ Go(r, "synthesizing", "over") /\ Answer(r, "Failed")
        /\ UNCHANGED retries
     \/ /\ mode[r] = "AUTO" /\ retries[r] < Retries
        /\ Go(r, "synthesizing", "delaying")
        /\ retries' = [retries EXCEPT ![r] = @ + 1]
        /\ UNCHANGED answer
     \/ /\ mode[r] = "AUTO"
        /\ Go(r, "synthesizing", "speaking")
        /\ UNCHANGED <<answer, retries>>
  /\ UNCHANGED <<cache, player, asked, withdrawn, heard, covers, stopped, mode, generation, cached, systemVoice,
                 stopping, clears>>

DelayEnds(r) ==
  /\ Go(r, "delaying", "synthesizing")
  /\ UNCHANGED <<cache, player, contract, mode, generation, cached, retries, systemVoice, stopping, clears>>

\* playMp3 has returned.  Audio that failed is not kept, and what came from the
\* cache is synthesised anew; audio that was heard is put into the cache.
Played(r) ==
  /\ TakeResult(r)
  /\ \/ /\ result[r] = "Failed"
        /\ Go(r, "playing", "removing") /\ UNCHANGED answer
     \/ /\ result[r] = "Completed" /\ ~cached[r]
        /\ Go(r, "playing", "putting") /\ UNCHANGED answer
     \/ /\ result[r] = "Cancelled" \/ (result[r] = "Completed" /\ cached[r])
        /\ Go(r, "playing", "over") /\ Answer(r, result[r])
  /\ UNCHANGED <<cache, asked, withdrawn, heard, covers, stopped, mode, generation, cached, retries,
                 systemVoice, stopping, clears>>

PutCached(r) ==
  /\ Go(r, "putting", "over")
  /\ Put(r) \/ UNCHANGED cache
  /\ IF Live(r) THEN Answer(r, "Completed") ELSE UNCHANGED answer
  /\ UNCHANGED <<player, asked, withdrawn, heard, covers, stopped, mode, generation, cached, retries, systemVoice,
                 stopping, clears>>

RemoveCached(r) ==
  /\ Evict(r) \/ UNCHANGED cache
  /\ cached' = [cached EXCEPT ![r] = FALSE]
  /\ \/ /\ ~Live(r)
        /\ Go(r, "removing", "over") /\ UNCHANGED answer
     \/ /\ Live(r) /\ cached[r]
        /\ Go(r, "removing", "synthesizing") /\ UNCHANGED answer
     \/ /\ Live(r) /\ ~cached[r] /\ mode[r] = "ONLINE"
        /\ Go(r, "removing", "over") /\ Answer(r, "Failed")
     \/ /\ Live(r) /\ ~cached[r] /\ mode[r] = "AUTO"
        /\ Go(r, "removing", "speaking") /\ UNCHANGED answer
  /\ UNCHANGED <<player, asked, withdrawn, heard, covers, stopped, mode, generation, retries, systemVoice, stopping,
                 clears>>

-----------------------------------------------------------------------------
(* The system engine, by its contract (external)                           *)

SystemSpeaks(r) ==
  /\ step[r] = "speaking" /\ r \notin heard /\ systemVoice # r
  /\ systemVoice' = r
  /\ UNCHANGED <<cache, player, contract, router, stopping, clears>>

SystemFallsSilent ==
  /\ systemVoice # None
  /\ systemVoice' = None
  /\ heard' \in {heard, heard \union {systemVoice}}
  /\ UNCHANGED <<cache, player, asked, withdrawn, answer, covers, stopped, router, stopping, clears>>

\* Cancelled: the platform has stopped the utterance by itself.
SystemAnswers(r) ==
  /\ systemVoice # r
  /\ Go(r, "speaking", "over")
  /\ \E value \in Results :
       /\ value = "Completed" => r \in heard
       /\ Answer(r, value)
  /\ UNCHANGED <<cache, player, asked, withdrawn, heard, covers, stopped, mode, generation, cached, retries,
                 systemVoice, stopping, clears>>

-----------------------------------------------------------------------------
(* Stop                                                                    *)

\* Those who stop have cancelled the request they no longer want.
BeginStop(s) ==
  /\ stopping[s] = "idle"
  /\ stopping' = [stopping EXCEPT ![s] = "system"]
  /\ covers' = [covers EXCEPT ![s] = withdrawn]
  /\ UNCHANGED <<cache, player, asked, withdrawn, answer, heard, stopped, router, systemVoice, clears>>

SystemStopped(s) ==
  /\ stopping[s] = "system"
  /\ stopping' = [stopping EXCEPT ![s] = "online"]
  /\ systemVoice' = None
  /\ LET speaking == {r \in Requests : step[r] = "speaking"}
     IN /\ answer' = [r \in Requests |-> IF r \in speaking THEN "Cancelled" ELSE answer[r]]
        /\ step' = [r \in Requests |-> IF r \in speaking THEN "over" ELSE step[r]]
  /\ UNCHANGED <<cache, player, asked, withdrawn, heard, covers, stopped, mode, generation, cached, retries, clears>>

OnlineStopped(s) ==
  /\ stopping[s] = "online"
  /\ stopping' = [stopping EXCEPT ![s] = "returned"]
  /\ stopped' = stopped \union {s}
  /\ StopPlayer
  /\ UNCHANGED <<cache, asked, withdrawn, answer, heard, covers, router, systemVoice, clears>>

\* The user clears the cache.
ClearCache ==
  /\ clears < MaxClears /\ clears' = clears + 1
  /\ Clear
  /\ UNCHANGED <<player, contract, router, systemVoice, stopping>>

-----------------------------------------------------------------------------
(* The player                                                              *)

WorkerNext ==
  /\ \E r \in Requests : WorkerPlays(r) \/ WorkerWasCancelled(r) \/ FinishPlayback(r)
  /\ UNCHANGED <<cache, contract, router, systemVoice, stopping, clears>>

LooperNext ==
  /\ LooperPrepares \/ LooperStops
  /\ UNCHANGED <<cache, contract, router, systemVoice, stopping, clears>>

\* The player is as good as silent once it has let go of a playback and posted
\* a stop: posts are handled in order.
ExoVoice ==
  IF exo # activePlayback /\ \E i \in DOMAIN looper : looper[i].kind = "stop" THEN None ELSE exo

PlaybackEnds ==
  /\ \E how \in {"Completed", "Failed"} :
       /\ ExoEnds(how)
       /\ heard' = IF how = "Completed" THEN heard \union ({ExoVoice} \ {None}) ELSE heard
  /\ UNCHANGED <<cache, asked, withdrawn, answer, covers, stopped, router, systemVoice, stopping, clears>>

-----------------------------------------------------------------------------
RequestNext(r) ==
  \/ Ask(r)
  \/ Withdraw(r)
  \/ RetainScope(r) \/ GetCached(r) \/ Synthesised(r) \/ SynthesisFails(r) \/ DelayEnds(r)
  \/ Played(r) \/ PutCached(r) \/ RemoveCached(r)
  \/ SystemSpeaks(r) \/ SystemAnswers(r)

Next ==
  \/ \E r \in Requests : RequestNext(r)
  \/ SystemFallsSilent
  \/ \E s \in Stops : BeginStop(s) \/ SystemStopped(s) \/ OnlineStopped(s)
  \/ ClearCache
  \/ WorkerNext \/ LooperNext \/ PlaybackEnds

Spec == Init /\ [][Next]_vars

-----------------------------------------------------------------------------
OneVoice == systemVoice = None \/ ExoVoice = None

\* The router keeps what SpeechEngine promises of one engine: through retries,
\* cached audio, fall-back and cancellation in any of them, no request speaks
\* or answers after its caller has left, none is answered Completed unheard,
\* after stop a cancelled request is silent for good, and the two voices never
\* sound together.
Engine == INSTANCE SpeechEngine WITH Calls <- Requests,
            voice <- IF systemVoice # None THEN systemVoice ELSE ExoVoice
RoutedContract == []OneVoice /\ Engine!Spec

\* What is on disk belongs to the chapter of the newest request and fits; an
\* older request, or one from before a clear, cannot write it back.
CacheWithinScope ==
  activeGeneration > 0 =>
    /\ Cardinality(files) <= MaxEntries
    /\ \A f \in files : activeToken # None /\ f[1] = Scope[activeToken]
==============================================================================
