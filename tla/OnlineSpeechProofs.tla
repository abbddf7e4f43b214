-------------------------- MODULE OnlineSpeechProofs --------------------------
(***************************************************************************)
(* Proofs about OnlineSpeech: router, audio cache, encoded audio player and *)
(* the two engines together implement SpeechEngine, the two voices never    *)
(* sound together, and the cache stays within its chapter and its size, for *)
(* any number of requests, stops and retries.                               *)
(*                                                                         *)
(* The argument.  One request at a time is unsettled (Turn).  The player's  *)
(* active playback is that request's, and whatever else the ExoPlayer still *)
(* plays has a stop posted behind it (Silencing); the system voice is that  *)
(* request's too, or one that is cancelled and whose stop has not come back *)
(* (Voiced).  So whichever of them sounds, sounds for the request that may. *)
(***************************************************************************)
EXTENDS OnlineSpeech, FiniteSetTheorems, TLAPS

StopPosted == \E i \in DOMAIN looper : looper[i].kind = "stop"

\* A request that will not be played again.
Spent(r) == r \in withdrawn \/ result[r] = "Cancelled" \/ answer[r] # None

\* A request is answered as it leaves the router; cancelled, it waits at most for
\* a cache operation.
Routing ==
  \A r \in Requests :
    /\ step[r] # "new" => r \in asked
    /\ answer[r] # None => step[r] = "over"
    /\ r \in withdrawn =>
         answer[r] = None /\ step[r] \in {"retaining", "getting", "removing", "putting", "over"}

\* The player works for a request whose caller waits for it.
Playing ==
  \A r \in Requests :
    /\ activePlayback = r => step[r] = "playing" /\ r \notin withdrawn /\ result[r] = None
    /\ worker[r] \in {"started", "playing", "ended"} => activePlayback = r
    /\ result[r] # None => step[r] = "playing"

\* What the ExoPlayer plays and the player has let go of is about to be stopped.
Silencing ==
  exo # None =>
    /\ exo # activePlayback => StopPosted
    /\ worker[exo] # "playing" => Spent(exo)

\* What ended well was heard.
Listened ==
  \A r \in Requests :
    ending[r] = "Completed" \/ result[r] = "Completed" \/ step[r] = "putting" => r \in heard

\* The system voice is that of an unanswered request, and silenced by a stop
\* before the stop goes on to the player.
Voiced ==
  systemVoice # None =>
    /\ answer[systemVoice] = None
    /\ step[systemVoice] = "speaking" \/ systemVoice \in withdrawn
    /\ \A s \in Stops : systemVoice \in covers[s] => stopping[s] \notin {"online", "returned"}

Stopping ==
  \A s \in Stops : /\ s \in stopped <=> stopping[s] = "returned"
                   /\ covers[s] \subseteq withdrawn

\* One request at a time is unsettled.
Turn == \A p, q \in asked : Settled(p) \/ Settled(q) \/ p = q

\* What is on disk, also before the first request of this process.
Kept ==
  /\ IsFiniteSet(files) /\ Cardinality(files) <= MaxEntries
  /\ activeGeneration > 0 => \A f \in files : activeToken # None /\ f[1] = Scope[activeToken]
  /\ activeToken # None => activeGeneration > 0

\* The types of what the contract is about, and of the rest of the router.
ContractTyped ==
  /\ asked \subseteq Requests /\ withdrawn \subseteq asked /\ heard \subseteq asked
  /\ answer \in [Requests -> Results \union {None}]
  /\ covers \in [Stops -> SUBSET Requests] /\ stopped \subseteq Stops
  /\ step \in [Requests -> RouterSteps]
  /\ systemVoice \in Requests \union {None}
  /\ stopping \in [Stops -> {"idle", "system", "online", "returned"}]

Counted ==
  /\ mode \in [Requests -> Modes \union {None}]
  /\ generation \in [Requests -> Nat] /\ retries \in [Requests -> 0..Retries]
  /\ cached \in [Requests -> BOOLEAN] /\ clears \in 0..MaxClears

Core ==
  /\ ContractTyped /\ PlayerTypeOK
  /\ Routing /\ Playing /\ Silencing /\ Listened /\ Voiced /\ Stopping /\ Turn

IInv == Core /\ CacheTypeOK /\ Kept /\ Counted

-----------------------------------------------------------------------------
(* Kinds of step: what the actions do to the state of Core *)

others == <<asked, withdrawn, heard, covers, stopped, systemVoice, stopping>>

\* A request goes on in the router, and is answered if that is its end.
Moves(r, to, value) ==
  /\ step[r] \notin {"new", "playing", "over"}
  /\ step[r] = "speaking" => systemVoice # r
  /\ to \in RouterSteps \ {"new", "playing", "putting"}
  /\ value \in Results \union {None}
  /\ value # None => to = "over" /\ Live(r)
  /\ value = "Completed" => r \in heard
  /\ r \in withdrawn => to = "over"
  /\ step' = [step EXCEPT ![r] = to]
  /\ answer' = [answer EXCEPT ![r] = value]
  /\ UNCHANGED <<player, others>>

\* A request has audio, and has it played.
Plays(r) ==
  /\ step[r] \in {"getting", "synthesizing"} /\ Live(r)
  /\ step' = [step EXCEPT ![r] = "playing"]
  /\ PlayMp3(r)
  /\ UNCHANGED <<answer, others>>

\* Nothing of Core changes but the player.
Elsewhere == UNCHANGED <<contract, step, systemVoice, stopping>>

-----------------------------------------------------------------------------
(* The main thread's queue and the voice of the player *)

Posts == [kind : {"prepare", "stop"}, request : Requests \union {None}]

(* What is posted comes behind what is posted already.                        *)
LEMMA PostedBehind ==
  ASSUME looper \in Seq(Posts), NEW more \in Seq(Posts), looper' = looper \o more
  PROVE  /\ looper' \in Seq(Posts)
         /\ StopPosted => StopPosted'
         /\ (\E i \in DOMAIN more : more[i].kind = "stop") => StopPosted'
<1>1. /\ looper' \in Seq(Posts) /\ Len(looper') = Len(looper) + Len(more)
      /\ Len(looper) \in Nat /\ Len(more) \in Nat
      /\ DOMAIN looper = 1..Len(looper) /\ DOMAIN more = 1..Len(more)
      /\ DOMAIN looper' = 1..(Len(looper) + Len(more))
      /\ \A i \in 1..Len(looper) : looper'[i] = looper[i]
      /\ \A i \in 1..Len(more) : looper'[Len(looper) + i] = more[i]
  OBVIOUS
<1>2. ASSUME StopPosted PROVE StopPosted'
  <2>1. PICK i \in 1..Len(looper) : looper[i].kind = "stop"
    BY <1>1, <1>2 DEF StopPosted
  <2>2. i \in 1..(Len(looper) + Len(more))
    BY <1>1
  <2> QED
    BY <1>1, <2>1, <2>2 DEF StopPosted
<1>3. ASSUME NEW i \in DOMAIN more, more[i].kind = "stop" PROVE StopPosted'
  <2>1. Len(looper) + i \in 1..(Len(looper) + Len(more))
    BY <1>1
  <2> QED
    BY <1>1, <1>3, <2>1 DEF StopPosted
<1> QED
  BY <1>1, <1>2, <1>3

(* The main thread takes the first post; a stop further back stays.           *)
LEMMA TakenFirst ==
  ASSUME looper \in Seq(Posts), looper # <<>>, looper' = Tail(looper)
  PROVE  /\ looper' \in Seq(Posts) /\ Head(looper) \in Posts
         /\ StopPosted /\ Head(looper).kind = "prepare" => StopPosted'
<1>1. /\ looper' \in Seq(Posts) /\ Head(looper) \in Posts /\ Head(looper) = looper[1]
      /\ Len(looper) \in Nat \ {0} /\ DOMAIN looper = 1..Len(looper)
      /\ DOMAIN looper' = 1..(Len(looper) - 1)
      /\ \A i \in 1..(Len(looper) - 1) : looper'[i] = looper[i + 1]
  OBVIOUS
<1>2. ASSUME StopPosted, Head(looper).kind = "prepare" PROVE StopPosted'
  <2>1. PICK i \in 1..Len(looper) : looper[i].kind = "stop"
    BY <1>1, <1>2 DEF StopPosted
  <2>2. i # 1
    BY <1>1, <1>2, <2>1
  <2>3. i - 1 \in 1..(Len(looper) - 1) /\ looper'[i - 1] = looper[i]
    BY <1>1, <2>1, <2>2
  <2> QED
    BY <1>1, <2>1, <2>3 DEF StopPosted
<1> QED
  BY <1>1, <1>2

(* Stopping the backend posts at least one stop.                              *)
LEMMA BackendStops ==
  ASSUME looper \in Seq(Posts), NEW r, StopBackend(r)
  PROVE  looper' \in Seq(Posts) /\ StopPosted'
<1> DEFINE stop == <<Post("stop", None)>>
<1>1. Post("stop", None) \in Posts /\ Post("stop", None).kind = "stop"
  BY DEF Post, Posts
<1>2. /\ stop \in Seq(Posts) /\ looper \o stop \in Seq(Posts)
      /\ StopsOf(r) \in Seq(Posts) /\ stop \o StopsOf(r) \in Seq(Posts)
      /\ 1 \in DOMAIN (stop \o StopsOf(r)) /\ (stop \o StopsOf(r))[1] = Post("stop", None)
  BY <1>1 DEF StopsOf
<1>3. looper' = looper \o (stop \o StopsOf(r))
  BY <1>2 DEF StopBackend
<1> HIDE DEF stop
<1> QED
  BY <1>1, <1>2, <1>3, PostedBehind

(* If the player sounds at all it sounds for the playback it works on.        *)
LEMMA SoundsForActive ==
  ASSUME Core
  PROVE  /\ ExoVoice \in Requests \union {None}
         /\ exo = activePlayback => ExoVoice = exo
         /\ exo # activePlayback => ExoVoice = None
  BY DEF Core, PlayerTypeOK, Silencing, StopPosted, ExoVoice

(* A request that the player works for waits for it, and is not spent.        *)
LEMMA ActiveWaits ==
  ASSUME Core, NEW r \in Requests, activePlayback = r
  PROVE  /\ r \in asked \ withdrawn /\ step[r] = "playing"
         /\ result[r] = None /\ answer[r] = None /\ ~Spent(r)
<1>1. None \notin Requests /\ None \notin Results
  BY RequestsAssumption, ResultsAssumption
<1> QED
  BY <1>1 DEF Core, Routing, Playing, Spent, Results

-----------------------------------------------------------------------------
(* Every kind of step keeps Core *)

(* A request arrives when all the earlier ones are settled.                   *)
LEMMA Asking ==
  ASSUME Core, NEW r \in Requests, Ask(r)
  PROVE  Core'
<1>0. None \notin Requests /\ None \notin Results /\ ContractTyped /\ PlayerTypeOK
  BY RequestsAssumption, ResultsAssumption DEF Core
<1>1. ContractTyped'
  BY <1>0 DEF ContractTyped, RouterSteps, Ask, Go
<1>2. PlayerTypeOK'
  BY <1>0 DEF PlayerTypeOK, Ask, player
<1>3. Routing'
  BY DEF Core, Routing, Ask, Go
<1>4. Playing'
  BY DEF Core, Playing, Ask, Go, player
<1>5. Silencing'
  BY DEF Core, Silencing, Spent, StopPosted, Ask, player
<1>6. Listened'
  BY DEF Core, Listened, Ask, Go, player
<1>7. Voiced'
  BY DEF Core, Voiced, Ask, Go
<1>8. Stopping'
  BY DEF Core, Stopping, Ask
<1>9. Turn'
  BY DEF Turn, Settled, Ask
<1> QED
  BY <1>1, <1>2, <1>3, <1>4, <1>5, <1>6, <1>7, <1>8, <1>9 DEF Core

(* A caller leaves: its playback is let go and a stop posted.                 *)
LEMMA Withdrawing ==
  ASSUME Core, NEW r \in Requests, Withdraw(r)
  PROVE  Core'
<1>0. None \notin Requests /\ None \notin Results /\ ContractTyped /\ PlayerTypeOK
  BY RequestsAssumption, ResultsAssumption DEF Core
<1>1. ContractTyped'
  BY <1>0 DEF ContractTyped, RouterSteps, Withdraw, Live
<1>2. PlayerTypeOK'
  <2>1. looper \in Seq(Posts)
    BY <1>0 DEF PlayerTypeOK, Posts
  <2>2. looper' \in Seq(Posts)
    BY <2>1, BackendStops DEF Withdraw, CancelPlayback
  <2> QED
    BY <1>0, <2>2 DEF PlayerTypeOK, WorkerSteps, Results, Withdraw, CancelPlayback, CancelledWorker,
       Posts
<1>3. Routing'
  BY DEF Core, ContractTyped, Routing, Withdraw, Live
<1>4. Playing'
  BY <1>0 DEF Core, PlayerTypeOK, Playing, Withdraw, CancelPlayback, CancelledWorker
<1>5. Silencing'
  <2>1. looper \in Seq(Posts)
    BY <1>0 DEF PlayerTypeOK, Posts
  <2>2. withdrawn \subseteq withdrawn' /\ r \in withdrawn' /\ answer' = answer /\ exo' = exo
        /\ result' = [result EXCEPT ![r] = None]
    BY DEF Withdraw, CancelPlayback
  <2>3. \A q \in Requests : Spent(q) => Spent(q)'
    BY <1>0, <2>2 DEF PlayerTypeOK, Spent
  <2>4. CASE activePlayback = r
    <3>1. StopPosted' /\ worker' = [worker EXCEPT ![r] = CancelledWorker(r)] /\ Spent(r)'
      BY <2>1, <2>2, <2>4, BackendStops DEF Withdraw, CancelPlayback, Spent
    <3> QED
      BY <1>0, <2>2, <2>3, <3>1 DEF Core, PlayerTypeOK, Silencing
  <2>5. CASE activePlayback # r
    <3>1. UNCHANGED <<activePlayback, worker, looper>>
      BY <2>5 DEF Withdraw, CancelPlayback
    <3> QED
      BY <1>0, <2>2, <2>3, <3>1 DEF Core, PlayerTypeOK, Silencing, StopPosted
  <2> QED
    BY <2>4, <2>5
<1>6. Listened'
  <2>1. /\ heard' = heard /\ ending' = ending /\ result' = [result EXCEPT ![r] = None]
        /\ \A q \in Requests : step'[q] = "putting" => step[q] = "putting"
    BY <1>0 DEF ContractTyped, Withdraw, CancelPlayback
  <2> QED
    BY <1>0, <2>1 DEF Core, PlayerTypeOK, Listened, Results
<1>7. Voiced'
  BY DEF Core, Voiced, Withdraw
<1>8. Stopping'
  BY DEF Core, Stopping, Withdraw
<1>9. Turn'
  BY DEF Core, Turn, Settled, Withdraw
<1> QED
  BY <1>1, <1>2, <1>3, <1>4, <1>5, <1>6, <1>7, <1>8, <1>9 DEF Core

(* A request goes on in the router.                                           *)
LEMMA Moving ==
  ASSUME Core, NEW r \in Requests, NEW to, NEW value, Moves(r, to, value)
  PROVE  Core'
<1>0. None \notin Requests /\ None \notin Results /\ ContractTyped /\ PlayerTypeOK
  BY RequestsAssumption, ResultsAssumption DEF Core
<1>1. ContractTyped'
  BY <1>0 DEF ContractTyped, Moves, others
<1>2. PlayerTypeOK'
  BY <1>0 DEF PlayerTypeOK, Moves, player
<1>3. Routing'
  BY DEF Core, ContractTyped, Routing, Moves, Live, others
<1>4. Playing'
  BY DEF Core, Playing, Moves, others, player
<1>5. Silencing'
  BY DEF Core, Silencing, Routing, Spent, StopPosted, Moves, others, player
<1>6. Listened'
  BY DEF Core, Listened, Moves, others, player
<1>7. Voiced'
  BY DEF Core, Voiced, Moves, Live, others
<1>8. Stopping'
  BY DEF Core, Stopping, Moves, others
<1>9. Turn'
  BY DEF Core, Turn, Routing, Settled, Moves, others
<1> QED
  BY <1>1, <1>2, <1>3, <1>4, <1>5, <1>6, <1>7, <1>8, <1>9 DEF Core

(* A request has its audio played.                                            *)
LEMMA Starting ==
  ASSUME Core, NEW r \in Requests, Plays(r)
  PROVE  Core'
<1>0. None \notin Requests /\ None \notin Results /\ ContractTyped /\ PlayerTypeOK
  BY RequestsAssumption, ResultsAssumption DEF Core
<1>1. ContractTyped'
  BY <1>0 DEF ContractTyped, RouterSteps, Plays, others
<1>2. PlayerTypeOK'
  BY <1>0 DEF PlayerTypeOK, WorkerSteps, Results, Plays, PlayMp3
<1>3. Routing'
  BY DEF Core, Routing, Plays, Live, others
<1>4. Playing'
  BY <1>0 DEF Core, ContractTyped, PlayerTypeOK, Playing, Plays, Live, PlayMp3, others
<1>5. Silencing'
  <2>1. ~Spent(r) /\ exo' = exo /\ looper' = looper /\ withdrawn' = withdrawn /\ answer' = answer
    BY <1>0 DEF Core, Routing, Playing, Plays, PlayMp3, Spent, Live, Results, others
  <2>2. CASE /\ activePlayback = None /\ activePlayback' = r
             /\ worker' = [worker EXCEPT ![r] = "started"] /\ result' = result
    <3>1. exo # None => exo # r
      BY <1>0, <2>1, <2>2 DEF Core, Silencing, Playing
    <3> QED
      BY <1>0, <2>1, <2>2, <3>1 DEF Core, PlayerTypeOK, Silencing, StopPosted, Spent
  <2>3. CASE /\ activePlayback' = activePlayback /\ worker' = worker
             /\ result' = [result EXCEPT ![r] = "Failed"]
    <3>1. result[r] # "Cancelled"
      BY <2>1 DEF Spent
    <3> QED
      BY <1>0, <2>1, <2>3, <3>1 DEF Core, PlayerTypeOK, Silencing, StopPosted, Spent
  <2> QED
    BY <2>2, <2>3 DEF Plays, PlayMp3
<1>6. Listened'
  BY DEF Core, PlayerTypeOK, Listened, Plays, PlayMp3, others
<1>7. Voiced'
  BY DEF Core, Voiced, Plays, others
<1>8. Stopping'
  BY DEF Core, Stopping, Plays, others
<1>9. Turn'
  BY DEF Core, Turn, Settled, Plays, others
<1> QED
  BY <1>1, <1>2, <1>3, <1>4, <1>5, <1>6, <1>7, <1>8, <1>9 DEF Core

(* playMp3 has returned: what is not kept or answered is removed.             *)
LEMMA Returning ==
  ASSUME Core, NEW r \in Requests, Played(r)
  PROVE  Core'
<1>0. None \notin Requests /\ None \notin Results /\ ContractTyped /\ PlayerTypeOK
  BY RequestsAssumption, ResultsAssumption DEF Core
<1>1. ContractTyped'
  BY <1>0 DEF ContractTyped, PlayerTypeOK, RouterSteps, Played, TakeResult, Go, Answer
<1>2. PlayerTypeOK'
  BY <1>0 DEF PlayerTypeOK, Played, TakeResult
<1>3. Routing'
  BY DEF Core, ContractTyped, Routing, Played, Go, Answer
<1>4. Playing'
  BY DEF Core, ContractTyped, PlayerTypeOK, Playing, Played, TakeResult, Go
<1>5. Silencing'
  BY DEF Core, ContractTyped, PlayerTypeOK, Silencing, Spent, StopPosted, Played, TakeResult,
     Answer
<1>6. Listened'
  <2>1. /\ heard' = heard /\ ending' = ending /\ result' = [result EXCEPT ![r] = None]
        /\ step'[r] = "putting" => result[r] = "Completed"
        /\ \A q \in Requests \ {r} : step'[q] = step[q]
    BY <1>0 DEF ContractTyped, RouterSteps, Played, TakeResult, Go
  <2>2. "Completed" # None
    BY <1>0 DEF Results
  <2>3. ASSUME NEW q \in Requests,
               ending'[q] = "Completed" \/ result'[q] = "Completed" \/ step'[q] = "putting"
        PROVE  q \in heard'
    <3>1. CASE q = r
      BY <1>0, <2>1, <2>2, <2>3, <3>1 DEF Core, PlayerTypeOK, Listened
    <3>2. CASE q # r
      BY <1>0, <2>1, <2>3, <3>2 DEF Core, PlayerTypeOK, Listened
    <3> QED
      BY <3>1, <3>2
  <2> QED
    BY <2>3 DEF Listened
<1>7. Voiced'
  BY DEF Core, ContractTyped, Voiced, Routing, Played, Go, Answer
<1>8. Stopping'
  BY DEF Core, Stopping, Played
<1>9. Turn'
  BY DEF Core, ContractTyped, Turn, Settled, Played, TakeResult, Answer
<1> QED
  BY <1>1, <1>2, <1>3, <1>4, <1>5, <1>6, <1>7, <1>8, <1>9 DEF Core

(* The system voice begins.                                                   *)
LEMMA Speaking ==
  ASSUME Core, NEW r \in Requests, SystemSpeaks(r)
  PROVE  Core'
<1>0. None \notin Requests /\ None \notin Results /\ ContractTyped /\ PlayerTypeOK
  BY RequestsAssumption, ResultsAssumption DEF Core
<1>1. ContractTyped'
  BY <1>0 DEF ContractTyped, SystemSpeaks, router, contract
<1>2. PlayerTypeOK'
  BY <1>0 DEF PlayerTypeOK, SystemSpeaks, player
<1>3. Routing'
  BY DEF Core, Routing, SystemSpeaks, router, contract
<1>4. Playing'
  BY DEF Core, Playing, SystemSpeaks, router, player, contract
<1>5. Silencing'
  BY DEF Core, Silencing, Spent, StopPosted, SystemSpeaks, player, contract
<1>6. Listened'
  BY DEF Core, Listened, SystemSpeaks, router, player, contract
<1>7. Voiced'
  BY DEF Core, Voiced, Routing, Stopping, SystemSpeaks, router, contract
<1>8. Stopping'
  BY DEF Core, Stopping, SystemSpeaks, contract
<1>9. Turn'
  BY DEF Core, Turn, Settled, SystemSpeaks, contract
<1> QED
  BY <1>1, <1>2, <1>3, <1>4, <1>5, <1>6, <1>7, <1>8, <1>9 DEF Core

(* The system voice ends, or is cut short.                                    *)
LEMMA Silenced ==
  ASSUME Core, SystemFallsSilent
  PROVE  Core'
<1>0. None \notin Requests /\ None \notin Results /\ ContractTyped /\ PlayerTypeOK
  BY RequestsAssumption, ResultsAssumption DEF Core
<1>1. ContractTyped'
  <2>1. systemVoice \in asked
    BY <1>0 DEF Core, ContractTyped, Voiced, Routing, SystemFallsSilent
  <2> QED
    BY <1>0, <2>1 DEF ContractTyped, SystemFallsSilent, router
<1>2. PlayerTypeOK'
  BY <1>0 DEF PlayerTypeOK, SystemFallsSilent, player
<1>3. Routing'
  BY DEF Core, Routing, SystemFallsSilent, router
<1>4. Playing'
  BY DEF Core, Playing, SystemFallsSilent, router, player
<1>5. Silencing'
  BY DEF Core, Silencing, Spent, StopPosted, SystemFallsSilent, player
<1>6. Listened'
  BY DEF Core, Listened, SystemFallsSilent, router, player
<1>7. Voiced'
  BY DEF Voiced, SystemFallsSilent
<1>8. Stopping'
  BY DEF Core, Stopping, SystemFallsSilent
<1>9. Turn'
  BY DEF Core, Turn, Settled, SystemFallsSilent
<1> QED
  BY <1>1, <1>2, <1>3, <1>4, <1>5, <1>6, <1>7, <1>8, <1>9 DEF Core

(* A stop covers those who have left.                                         *)
LEMMA StopBegins ==
  ASSUME Core, NEW s \in Stops, BeginStop(s)
  PROVE  Core'
<1>0. None \notin Requests /\ None \notin Results /\ ContractTyped /\ PlayerTypeOK
  BY RequestsAssumption, ResultsAssumption DEF Core
<1>1. ContractTyped'
  BY <1>0 DEF ContractTyped, BeginStop, router
<1>2. PlayerTypeOK'
  BY <1>0 DEF PlayerTypeOK, BeginStop, player
<1>3. Routing'
  BY DEF Core, Routing, BeginStop, router
<1>4. Playing'
  BY DEF Core, Playing, BeginStop, router, player
<1>5. Silencing'
  BY DEF Core, Silencing, Spent, StopPosted, BeginStop, player
<1>6. Listened'
  BY DEF Core, Listened, BeginStop, router, player
<1>7. Voiced'
  BY DEF Core, Voiced, BeginStop, router
<1>8. Stopping'
  BY DEF Core, Stopping, BeginStop
<1>9. Turn'
  BY DEF Core, Turn, Settled, BeginStop
<1> QED
  BY <1>1, <1>2, <1>3, <1>4, <1>5, <1>6, <1>7, <1>8, <1>9 DEF Core

(* The stop reaches the system engine, whose calls are cancelled.             *)
LEMMA SystemStops ==
  ASSUME Core, NEW s \in Stops, SystemStopped(s)
  PROVE  Core'
<1>0. None \notin Requests /\ None \notin Results /\ ContractTyped /\ PlayerTypeOK
  BY RequestsAssumption, ResultsAssumption DEF Core
<1>1. ContractTyped'
  BY <1>0 DEF ContractTyped, RouterSteps, Results, SystemStopped
<1>2. PlayerTypeOK'
  BY <1>0 DEF PlayerTypeOK, SystemStopped, player
<1>3. Routing'
  BY DEF Core, Routing, SystemStopped
<1>4. Playing'
  BY DEF Core, Playing, SystemStopped, player
<1>5. Silencing'
  BY DEF Core, PlayerTypeOK, Silencing, Routing, Spent, StopPosted, SystemStopped, player
<1>6. Listened'
  BY DEF Core, Listened, SystemStopped, player
<1>7. Voiced'
  BY DEF Voiced, SystemStopped
<1>8. Stopping'
  BY DEF Core, Stopping, SystemStopped
<1>9. Turn'
  BY DEF Core, ContractTyped, Turn, Routing, Settled, SystemStopped
<1> QED
  BY <1>1, <1>2, <1>3, <1>4, <1>5, <1>6, <1>7, <1>8, <1>9 DEF Core

(* The stop reaches the player, whose playback is let go.                     *)
LEMMA PlayerStops ==
  ASSUME Core, NEW s \in Stops, OnlineStopped(s)
  PROVE  Core'
<1>0. None \notin Requests /\ None \notin Results /\ ContractTyped /\ PlayerTypeOK
  BY RequestsAssumption, ResultsAssumption DEF Core
<1>1. ContractTyped'
  BY <1>0 DEF ContractTyped, OnlineStopped, router
<1>2. PlayerTypeOK'
  <2>1. looper \in Seq(Posts)
    BY <1>0 DEF PlayerTypeOK, Posts
  <2>2. looper' \in Seq(Posts)
    BY <2>1, BackendStops DEF OnlineStopped, StopPlayer
  <2> QED
    BY <1>0, <2>2 DEF PlayerTypeOK, WorkerSteps, Results, OnlineStopped, StopPlayer, CancelledWorker,
       Posts
<1>3. Routing'
  BY DEF Core, Routing, OnlineStopped, router
<1>4. Playing'
  BY <1>0 DEF Core, PlayerTypeOK, Playing, OnlineStopped, router, StopPlayer, CancelledWorker
<1>5. Silencing'
  <2>1. looper \in Seq(Posts)
    BY <1>0 DEF PlayerTypeOK, Posts
  <2>2. StopPosted' /\ exo' = exo /\ withdrawn' = withdrawn /\ answer' = answer
    BY <2>1, BackendStops DEF OnlineStopped, StopPlayer
  <2>3. CASE activePlayback = None
    BY <1>0, <2>2, <2>3 DEF Core, Silencing, Spent, OnlineStopped, StopPlayer
  <2>4. CASE activePlayback # None
    <3>1. PICK p \in Requests : p = activePlayback
      BY <1>0, <2>4 DEF PlayerTypeOK
    <3>2. /\ worker' = [worker EXCEPT ![p] = CancelledWorker(p)]
          /\ result' = [result EXCEPT ![p] = "Cancelled"]
      BY <2>4, <3>1 DEF OnlineStopped, StopPlayer
    <3>3. Spent(p)' /\ \A q \in Requests : Spent(q) => Spent(q)'
      BY <1>0, <2>2, <3>2 DEF PlayerTypeOK, Spent
    <3> QED
      BY <1>0, <2>2, <3>1, <3>2, <3>3 DEF Core, PlayerTypeOK, Silencing
  <2> QED
    BY <2>3, <2>4
<1>6. Listened'
  BY DEF Core, PlayerTypeOK, Listened, OnlineStopped, router, StopPlayer
<1>7. Voiced'
  BY DEF Core, Voiced, OnlineStopped, router
<1>8. Stopping'
  BY DEF Core, ContractTyped, Stopping, OnlineStopped
<1>9. Turn'
  BY DEF Core, Turn, Settled, OnlineStopped
<1> QED
  BY <1>1, <1>2, <1>3, <1>4, <1>5, <1>6, <1>7, <1>8, <1>9 DEF Core

(* Nothing of it changes.                                                     *)
LEMMA Still ==
  ASSUME Core, UNCHANGED player, Elsewhere
  PROVE  Core'
<1>0. None \notin Requests /\ None \notin Results /\ ContractTyped /\ PlayerTypeOK
  BY RequestsAssumption, ResultsAssumption DEF Core
<1>1. ContractTyped'
  BY <1>0 DEF ContractTyped, Elsewhere, contract
<1>2. PlayerTypeOK'
  BY <1>0 DEF PlayerTypeOK, player
<1>3. Routing'
  BY DEF Core, Routing, Elsewhere, contract
<1>4. Playing'
  BY DEF Core, Playing, Elsewhere, player, contract
<1>5. Silencing'
  BY DEF Core, Silencing, Spent, StopPosted, Elsewhere, player, contract
<1>6. Listened'
  BY DEF Core, Listened, Elsewhere, player, contract
<1>7. Voiced'
  BY DEF Core, Voiced, Elsewhere, contract
<1>8. Stopping'
  BY DEF Core, Stopping, Elsewhere, contract
<1>9. Turn'
  BY DEF Core, Turn, Settled, Elsewhere, contract
<1> QED
  BY <1>1, <1>2, <1>3, <1>4, <1>5, <1>6, <1>7, <1>8, <1>9 DEF Core

(* The worker asks the main thread to prepare its audio.                      *)
LEMMA WorkerStarts ==
  ASSUME Core, NEW r \in Requests, WorkerPlays(r), Elsewhere
  PROVE  Core'
<1>0. None \notin Requests /\ None \notin Results /\ ContractTyped /\ PlayerTypeOK
  BY RequestsAssumption, ResultsAssumption DEF Core
<1>1. ContractTyped'
  BY <1>0 DEF ContractTyped, Elsewhere, contract
<1>2. PlayerTypeOK'
  BY <1>0 DEF PlayerTypeOK, WorkerSteps, WorkerPlays, Post
<1>3. Routing'
  BY DEF Core, Routing, Elsewhere, contract
<1>4. Playing'
  BY DEF Core, Playing, WorkerPlays, Elsewhere, contract
<1>5. Silencing'
  BY DEF Core, Silencing, Routing, Playing, Spent, StopPosted, WorkerPlays, Elsewhere, Post,
     contract
<1>6. Listened'
  BY DEF Core, Listened, WorkerPlays, Elsewhere, contract
<1>7. Voiced'
  BY DEF Core, Voiced, Elsewhere, contract
<1>8. Stopping'
  BY DEF Core, Stopping, Elsewhere, contract
<1>9. Turn'
  BY DEF Core, Turn, Settled, Elsewhere, contract
<1> QED
  BY <1>1, <1>2, <1>3, <1>4, <1>5, <1>6, <1>7, <1>8, <1>9 DEF Core

(* A cancelled worker posts its stop, however late.                           *)
LEMMA WorkerStops ==
  ASSUME Core, NEW r \in Requests, WorkerWasCancelled(r), Elsewhere
  PROVE  Core'
<1>0. None \notin Requests /\ None \notin Results /\ ContractTyped /\ PlayerTypeOK
  BY RequestsAssumption, ResultsAssumption DEF Core
<1>1. ContractTyped'
  BY <1>0 DEF ContractTyped, Elsewhere, contract
<1>2. PlayerTypeOK'
  <2>1. looper \in Seq(Posts)
    BY <1>0 DEF PlayerTypeOK, Posts
  <2>2. looper' = looper \/ (\E more \in Seq(Posts) : looper' = looper \o more)
    <3>1. Post("stop", None) \in Posts /\ Post("prepare", r) \in Posts
      BY DEF Post, Posts
    <3>2. /\ <<Post("stop", None), Post("prepare", r)>> \in Seq(Posts)
          /\ <<Post("stop", None)>> \in Seq(Posts)
          /\ Append(looper, Post("stop", None)) = looper \o <<Post("stop", None)>>
      BY <2>1, <3>1
    <3> QED
      BY <3>2 DEF WorkerWasCancelled
  <2>3. looper' \in Seq(Posts)
    BY <2>1, <2>2, PostedBehind
  <2> QED
    BY <1>0, <2>3 DEF PlayerTypeOK, WorkerSteps, WorkerWasCancelled, Posts
<1>3. Routing'
  BY DEF Core, Routing, Elsewhere, contract
<1>4. Playing'
  BY DEF Core, Playing, WorkerWasCancelled, Elsewhere, contract
<1>5. Silencing'
  <2>1. looper \in Seq(Posts)
    BY <1>0 DEF PlayerTypeOK, Posts
  <2>2. looper' = looper \/ (\E more \in Seq(Posts) : looper' = looper \o more)
    <3>1. Post("stop", None) \in Posts /\ Post("prepare", r) \in Posts
      BY DEF Post, Posts
    <3>2. /\ <<Post("stop", None), Post("prepare", r)>> \in Seq(Posts)
          /\ <<Post("stop", None)>> \in Seq(Posts)
          /\ Append(looper, Post("stop", None)) = looper \o <<Post("stop", None)>>
      BY <2>1, <3>1
    <3> QED
      BY <3>2 DEF WorkerWasCancelled
  <2>3. StopPosted => StopPosted'
    BY <2>1, <2>2, PostedBehind DEF StopPosted
  <2> QED
    BY <1>0, <2>3 DEF Core, PlayerTypeOK, Silencing, Spent, WorkerWasCancelled, Elsewhere, contract
<1>6. Listened'
  <2>1. /\ heard' = heard /\ result' = result /\ step' = step
        /\ ending' = [ending EXCEPT ![r] = None]
    BY DEF WorkerWasCancelled, Elsewhere, contract
  <2>2. \A q \in Requests : ending'[q] = "Completed" => ending[q] = "Completed"
    BY <1>0, <2>1 DEF PlayerTypeOK, Results
  <2> QED
    BY <2>1, <2>2 DEF Core, Listened
<1>7. Voiced'
  BY DEF Core, Voiced, Elsewhere, contract
<1>8. Stopping'
  BY DEF Core, Stopping, Elsewhere, contract
<1>9. Turn'
  BY DEF Core, Turn, Settled, Elsewhere, contract
<1> QED
  BY <1>1, <1>2, <1>3, <1>4, <1>5, <1>6, <1>7, <1>8, <1>9 DEF Core

(* The worker of a playback that has ended finishes it.                       *)
LEMMA WorkerEnds ==
  ASSUME Core, NEW r \in Requests, FinishPlayback(r), Elsewhere
  PROVE  Core'
<1>0. None \notin Requests /\ None \notin Results /\ ContractTyped /\ PlayerTypeOK
  BY RequestsAssumption, ResultsAssumption DEF Core
<1>1. ContractTyped'
  BY <1>0 DEF ContractTyped, Elsewhere, contract
<1>2. PlayerTypeOK'
  BY <1>0 DEF PlayerTypeOK, WorkerSteps, Results, FinishPlayback
<1>3. Routing'
  BY DEF Core, Routing, Elsewhere, contract
<1>4. Playing'
  BY <1>0 DEF Core, PlayerTypeOK, Playing, FinishPlayback, Elsewhere
<1>5. Silencing'
  <2>1. activePlayback = r /\ exo # r
    BY <1>0, ActiveWaits DEF Core, Playing, Silencing, FinishPlayback
  <2>2. /\ activePlayback' = None /\ looper' = looper /\ exo' = exo
        /\ worker' = [worker EXCEPT ![r] = "over"] /\ result' = [result EXCEPT ![r] = ending[r]]
        /\ withdrawn' = withdrawn /\ answer' = answer
    BY <2>1 DEF FinishPlayback, Elsewhere, contract
  <2> QED
    BY <1>0, <2>1, <2>2 DEF Core, PlayerTypeOK, Silencing, StopPosted, Spent
<1>6. Listened'
  BY DEF Core, PlayerTypeOK, Listened, Playing, FinishPlayback, Elsewhere, contract
<1>7. Voiced'
  BY DEF Core, Voiced, Elsewhere, contract
<1>8. Stopping'
  BY DEF Core, Stopping, Elsewhere, contract
<1>9. Turn'
  BY DEF Core, Turn, Settled, Elsewhere, contract
<1> QED
  BY <1>1, <1>2, <1>3, <1>4, <1>5, <1>6, <1>7, <1>8, <1>9 DEF Core

(* The main thread prepares what is still wanted.                             *)
LEMMA Prepared ==
  ASSUME Core, LooperPrepares, Elsewhere
  PROVE  Core'
<1>0. None \notin Requests /\ None \notin Results /\ ContractTyped /\ PlayerTypeOK
  BY RequestsAssumption, ResultsAssumption DEF Core
<1>1. ContractTyped'
  BY <1>0 DEF ContractTyped, Elsewhere, contract
<1>2. PlayerTypeOK'
  <2>1. looper \in Seq(Posts)
    BY <1>0 DEF PlayerTypeOK, Posts
  <2>2. looper' \in Seq(Posts) /\ Head(looper) \in Posts
    BY <2>1, TakenFirst DEF LooperPrepares
  <2> QED
    BY <1>0, <2>2 DEF PlayerTypeOK, LooperPrepares, Posts
<1>3. Routing'
  BY DEF Core, Routing, Elsewhere, contract
<1>4. Playing'
  BY DEF Core, Playing, LooperPrepares, Elsewhere, contract
<1>5. Silencing'
  <2>1. looper \in Seq(Posts)
    BY <1>0 DEF PlayerTypeOK, Posts
  <2>2. /\ Head(looper) \in Posts
        /\ StopPosted => StopPosted'
        /\ exo' = IF worker[Head(looper).request] = "playing" THEN Head(looper).request ELSE exo
        /\ activePlayback' = activePlayback /\ worker' = worker /\ result' = result
        /\ withdrawn' = withdrawn /\ answer' = answer
    BY <2>1, TakenFirst DEF LooperPrepares, Elsewhere, contract
  <2>3. Head(looper).request \in Requests \union {None}
    BY <2>2 DEF Posts
  <2> HIDE <2>1
  <2>4. CASE worker[Head(looper).request] = "playing"
    BY <1>0, <2>2, <2>3, <2>4 DEF Core, Playing, Silencing
  <2>5. CASE worker[Head(looper).request] # "playing"
    BY <1>0, <2>2, <2>5 DEF Core, Silencing, Spent
  <2> QED
    BY <2>4, <2>5
<1>6. Listened'
  BY DEF Core, Listened, LooperPrepares, Elsewhere, contract
<1>7. Voiced'
  BY DEF Core, Voiced, Elsewhere, contract
<1>8. Stopping'
  BY DEF Core, Stopping, Elsewhere, contract
<1>9. Turn'
  BY DEF Core, Turn, Settled, Elsewhere, contract
<1> QED
  BY <1>1, <1>2, <1>3, <1>4, <1>5, <1>6, <1>7, <1>8, <1>9 DEF Core

(* The main thread stops the ExoPlayer.                                       *)
LEMMA LooperSilences ==
  ASSUME Core, LooperStops, Elsewhere
  PROVE  Core'
<1>0. None \notin Requests /\ None \notin Results /\ ContractTyped /\ PlayerTypeOK
  BY RequestsAssumption, ResultsAssumption DEF Core
<1>1. ContractTyped'
  BY <1>0 DEF ContractTyped, Elsewhere, contract
<1>2. PlayerTypeOK'
  BY <1>0 DEF PlayerTypeOK, LooperStops
<1>3. Routing'
  BY DEF Core, Routing, Elsewhere, contract
<1>4. Playing'
  BY DEF Core, Playing, LooperStops, Elsewhere, contract
<1>5. Silencing'
  BY DEF Silencing, LooperStops
<1>6. Listened'
  BY DEF Core, Listened, LooperStops, Elsewhere, contract
<1>7. Voiced'
  BY DEF Core, Voiced, Elsewhere, contract
<1>8. Stopping'
  BY DEF Core, Stopping, Elsewhere, contract
<1>9. Turn'
  BY DEF Core, Turn, Settled, Elsewhere, contract
<1> QED
  BY <1>1, <1>2, <1>3, <1>4, <1>5, <1>6, <1>7, <1>8, <1>9 DEF Core

(* The audio ends, or cannot be decoded.                                      *)
LEMMA AudioEnds ==
  ASSUME Core, PlaybackEnds
  PROVE  Core'
<1>0. None \notin Requests /\ None \notin Results /\ ContractTyped /\ PlayerTypeOK
  BY RequestsAssumption, ResultsAssumption DEF Core
<1>1. ContractTyped'
  <2>1. {ExoVoice} \ {None} \subseteq asked
    BY <1>0, SoundsForActive, ActiveWaits DEF PlayerTypeOK
  <2> QED
    BY <1>0, <2>1 DEF ContractTyped, PlaybackEnds, router
<1>2. PlayerTypeOK'
  BY <1>0 DEF PlayerTypeOK, WorkerSteps, PlaybackEnds, ExoEnds
<1>3. Routing'
  BY DEF Core, Routing, PlaybackEnds, router
<1>4. Playing'
  BY DEF Core, PlayerTypeOK, Playing, PlaybackEnds, router, ExoEnds
<1>5. Silencing'
  BY DEF Silencing, PlaybackEnds, ExoEnds
<1>6. Listened'
  BY DEF Core, PlayerTypeOK, Listened, Playing, PlaybackEnds, router, ExoEnds, ExoVoice
<1>7. Voiced'
  BY DEF Core, Voiced, PlaybackEnds, router
<1>8. Stopping'
  BY DEF Core, Stopping, PlaybackEnds
<1>9. Turn'
  BY DEF Core, Turn, Settled, PlaybackEnds
<1> QED
  BY <1>1, <1>2, <1>3, <1>4, <1>5, <1>6, <1>7, <1>8, <1>9 DEF Core

-----------------------------------------------------------------------------
(* Which kind each action of the router is *)

LEMMA Retaining ==
  ASSUME Core, NEW r \in Requests, RetainScope(r)
  PROVE  \E to, value : Moves(r, to, value)
<1>1. answer[r] = None /\ answer \in [Requests -> Results \union {None}] /\ r \in asked
  BY DEF Core, ContractTyped, Routing, RetainScope, Go
<1> DEFINE to == IF ~Live(r) THEN "over" ELSE IF mode[r] = "OFFLINE" THEN "speaking" ELSE "getting"
<1>2. to \in {"over", "speaking", "getting"} /\ (r \in withdrawn => to = "over")
  BY DEF Live
<1>3. /\ step[r] = "retaining" /\ step' = [step EXCEPT ![r] = to]
      /\ answer' = answer /\ UNCHANGED <<player, others>>
  BY DEF RetainScope, Go, contract, others
<1> HIDE DEF to
<1>4. answer' = [answer EXCEPT ![r] = None]
  BY <1>1, <1>3
<1>5. Moves(r, to, None)
  BY <1>2, <1>3, <1>4, ResultsAssumption DEF Moves, RouterSteps, Results
<1> QED
  BY <1>5

LEMMA Getting ==
  ASSUME Core, Counted, NEW r \in Requests, GetCached(r)
  PROVE  Plays(r) \/ \E to, value : Moves(r, to, value)
<1>1. answer[r] = None /\ answer \in [Requests -> Results \union {None}] /\ r \in asked
  BY DEF Core, ContractTyped, Routing, GetCached
<1>2. step[r] = "getting" /\ answer' = answer /\ UNCHANGED others
  BY DEF GetCached, contract, others
<1>3. CASE cached'[r]
  <2>1. step' = [step EXCEPT ![r] = "playing"] /\ PlayMp3(r)
    BY <1>3 DEF GetCached, Go
  <2>2. Live(r)
    <3>1. CASE \E hit \in BOOLEAN : cached' = [cached EXCEPT ![r] = hit /\ Live(r)]
      BY <1>3, <3>1 DEF Counted
    <3>2. CASE cached' = [cached EXCEPT ![r] = FALSE]
      BY <1>3, <3>2 DEF Counted
    <3> QED
      BY <3>1, <3>2 DEF GetCached
  <2> QED
    BY <1>2, <2>1, <2>2 DEF Plays
<1>4. CASE ~cached'[r]
  <2> DEFINE to == IfLive(r, "synthesizing")
  <2>1. step' = [step EXCEPT ![r] = to] /\ UNCHANGED player
    BY <1>4 DEF GetCached, Go
  <2>2. to \in {"over", "synthesizing"} /\ (r \in withdrawn => to = "over")
    BY DEF IfLive, Live
  <2> HIDE DEF to
  <2>3. answer' = [answer EXCEPT ![r] = None]
    BY <1>1, <1>2
  <2>4. Moves(r, to, None)
    BY <1>2, <2>1, <2>2, <2>3, ResultsAssumption DEF Moves, RouterSteps, Results
  <2> QED
    BY <2>4
<1> QED
  BY <1>3, <1>4

LEMMA Synthesising ==
  ASSUME Core, NEW r \in Requests, Synthesised(r)
  PROVE  Plays(r)
<1>1. Live(r)
  BY DEF Core, ContractTyped, Routing, Synthesised, Go, Live
<1> QED
  BY <1>1 DEF Synthesised, Go, Plays, contract, others

LEMMA Failing ==
  ASSUME Core, NEW r \in Requests, SynthesisFails(r) \/ DelayEnds(r)
  PROVE  \E to, value : Moves(r, to, value)
<1>1. /\ answer[r] = None /\ answer \in [Requests -> Results \union {None}] /\ Live(r)
      /\ step[r] \in {"synthesizing", "delaying"} /\ UNCHANGED <<player, others>>
  BY DEF Core, ContractTyped, Routing, SynthesisFails, DelayEnds, Go, Live, contract, others
<1>2. PICK to \in {"over", "delaying", "speaking", "synthesizing"} :
        /\ step' = [step EXCEPT ![r] = to]
        /\ answer' = answer \/ (to = "over" /\ answer' = [answer EXCEPT ![r] = "Failed"])
  BY DEF SynthesisFails, DelayEnds, Go, Answer, contract
<1>3. CASE answer' = answer
  <2>1. answer' = [answer EXCEPT ![r] = None]
    BY <1>1, <1>3
  <2>2. Moves(r, to, None)
    BY <1>1, <1>2, <2>1, ResultsAssumption DEF Moves, RouterSteps, Results, Live
  <2> QED
    BY <2>2
<1>4. CASE to = "over" /\ answer' = [answer EXCEPT ![r] = "Failed"]
  <2>1. Moves(r, to, "Failed")
    BY <1>1, <1>2, <1>4 DEF Moves, RouterSteps, Live, Results
  <2> QED
    BY <2>1
<1> QED
  BY <1>2, <1>3, <1>4

LEMMA Keeping ==
  ASSUME Core, NEW r \in Requests, PutCached(r)
  PROVE  \E to, value : Moves(r, to, value)
<1>1. /\ answer[r] = None /\ answer \in [Requests -> Results \union {None}]
      /\ step[r] = "putting" /\ step' = [step EXCEPT ![r] = "over"] /\ r \in heard
      /\ UNCHANGED <<player, others>>
  BY DEF Core, ContractTyped, Routing, Listened, PutCached, Go, others
<1>2. CASE Live(r)
  <2>1. answer' = [answer EXCEPT ![r] = "Completed"]
    BY <1>2 DEF PutCached, Answer
  <2>2. Moves(r, "over", "Completed")
    BY <1>1, <1>2, <2>1 DEF Moves, RouterSteps, Results
  <2> QED
    BY <2>2
<1>3. CASE ~Live(r)
  <2>1. answer' = [answer EXCEPT ![r] = None]
    BY <1>1, <1>3 DEF PutCached
  <2>2. Moves(r, "over", None)
    BY <1>1, <2>1, ResultsAssumption DEF Moves, RouterSteps, Results
  <2> QED
    BY <2>2
<1> QED
  BY <1>2, <1>3

LEMMA Removing ==
  ASSUME Core, NEW r \in Requests, RemoveCached(r)
  PROVE  \E to, value : Moves(r, to, value)
<1>1. /\ answer[r] = None /\ answer \in [Requests -> Results \union {None}] /\ r \in asked
      /\ step[r] = "removing" /\ UNCHANGED <<player, others>>
  BY DEF Core, ContractTyped, Routing, RemoveCached, Go, others
<1>2. PICK to \in {"over", "speaking", "synthesizing"} :
        /\ step' = [step EXCEPT ![r] = to] /\ (~Live(r) => to = "over")
        /\ answer' = answer
             \/ (to = "over" /\ Live(r) /\ answer' = [answer EXCEPT ![r] = "Failed"])
  BY DEF RemoveCached, Go, Answer
<1>3. CASE answer' = answer
  <2>1. answer' = [answer EXCEPT ![r] = None]
    BY <1>1, <1>3
  <2>2. Moves(r, to, None)
    BY <1>1, <1>2, <2>1, ResultsAssumption DEF Moves, RouterSteps, Results, Live
  <2> QED
    BY <2>2
<1>4. CASE to = "over" /\ Live(r) /\ answer' = [answer EXCEPT ![r] = "Failed"]
  <2>1. Moves(r, to, "Failed")
    BY <1>1, <1>2, <1>4 DEF Moves, RouterSteps, Live, Results
  <2> QED
    BY <2>1
<1> QED
  BY <1>2, <1>3, <1>4

LEMMA SystemAnswering ==
  ASSUME Core, NEW r \in Requests, SystemAnswers(r)
  PROVE  \E to, value : Moves(r, to, value)
<1>1. PICK value \in Results :
        (value = "Completed" => r \in heard) /\ answer' = [answer EXCEPT ![r] = value]
  BY DEF SystemAnswers, Answer
<1>2. Live(r)
  BY DEF Core, ContractTyped, Routing, SystemAnswers, Go, Live
<1>3. /\ step[r] = "speaking" /\ step' = [step EXCEPT ![r] = "over"] /\ systemVoice # r
      /\ UNCHANGED <<player, others>>
  BY DEF SystemAnswers, Go, others
<1>4. Moves(r, "over", value)
  BY <1>1, <1>2, <1>3 DEF Moves, RouterSteps, Results, Live
<1> QED
  BY <1>4

(* Every step is of one of the kinds.                                         *)
LEMMA Kinds ==
  ASSUME Core, Counted, [Next]_vars
  PROVE  \/ \E r \in Requests : \/ Ask(r) \/ Withdraw(r) \/ Plays(r) \/ Played(r) \/ SystemSpeaks(r)
                                \/ \E to, value : Moves(r, to, value)
         \/ SystemFallsSilent
         \/ \E s \in Stops : BeginStop(s) \/ SystemStopped(s) \/ OnlineStopped(s)
         \/ Elsewhere /\ \/ UNCHANGED player
                         \/ \E r \in Requests :
                              WorkerPlays(r) \/ WorkerWasCancelled(r) \/ FinishPlayback(r)
                         \/ LooperPrepares \/ LooperStops
         \/ PlaybackEnds
<1>1. ASSUME NEW r \in Requests, RequestNext(r)
      PROVE  \/ Ask(r) \/ Withdraw(r) \/ Plays(r) \/ Played(r) \/ SystemSpeaks(r)
             \/ \E to, value : Moves(r, to, value)
  BY <1>1, Retaining, Getting, Synthesising, Failing, Keeping, Removing, SystemAnswering
     DEF RequestNext
<1>2. CASE ClearCache
  BY <1>2 DEF ClearCache, Elsewhere, router
<1>3. CASE UNCHANGED vars
  BY <1>3 DEF vars, Elsewhere, router
<1>4. CASE WorkerNext \/ LooperNext
  BY <1>4 DEF WorkerNext, LooperNext, Elsewhere, router
<1> QED
  BY <1>1, <1>2, <1>3, <1>4 DEF Next

LEMMA CoreKept == Core /\ Counted /\ [Next]_vars => Core'
<1> SUFFICES ASSUME Core, Counted, [Next]_vars PROVE Core'
  OBVIOUS
<1>1. ASSUME NEW r \in Requests,
             Ask(r) \/ Withdraw(r) \/ Plays(r) \/ Played(r) \/ SystemSpeaks(r)
      PROVE  Core'
  BY <1>1, Asking, Withdrawing, Starting, Returning, Speaking
<1>2. ASSUME NEW r \in Requests, NEW to, NEW value, Moves(r, to, value) PROVE Core'
  BY <1>2, Moving
<1>3. ASSUME NEW s \in Stops, BeginStop(s) \/ SystemStopped(s) \/ OnlineStopped(s) PROVE Core'
  BY <1>3, StopBegins, SystemStops, PlayerStops
<1>4. CASE SystemFallsSilent \/ PlaybackEnds
  BY <1>4, Silenced, AudioEnds
<1>5. CASE Elsewhere /\ (UNCHANGED player \/ LooperPrepares \/ LooperStops)
  BY <1>5, Still, Prepared, LooperSilences
<1>6. ASSUME Elsewhere, NEW r \in Requests,
             WorkerPlays(r) \/ WorkerWasCancelled(r) \/ FinishPlayback(r)
      PROVE  Core'
  BY <1>6, WorkerStarts, WorkerStops, WorkerEnds
<1> QED
  BY <1>1, <1>2, <1>3, <1>4, <1>5, <1>6, Kinds

-----------------------------------------------------------------------------
(* The cache *)

(* What there is on disk is finite, and so is every part of it.               *)
LEMMA FilesFinite ==
  ASSUME Kept, NEW kept \in SUBSET files
  PROVE  IsFiniteSet(kept) /\ Cardinality(kept) \in Nat /\ Cardinality(kept) <= MaxEntries
<1>1. /\ IsFiniteSet(files) /\ Cardinality(files) \in Nat /\ Cardinality(files) <= MaxEntries
      /\ MaxEntries \in Nat
  BY FS_CardinalityType, CacheAssumption DEF Kept
<1>2. IsFiniteSet(kept) /\ Cardinality(kept) <= Cardinality(files)
  BY <1>1, FS_Subset
<1>3. Cardinality(kept) \in Nat
  BY <1>2, FS_CardinalityType
<1> QED
  BY <1>1, <1>2, <1>3

(* Making room leaves at most MaxEntries, of what was there and the new one.  *)
LEMMA RoomMade ==
  ASSUME Kept, NEW present \in SUBSET files, NEW r \in Requests, NEW after \in AfterPut(present, r)
  PROVE  /\ after \subseteq files \cup {File(r)}
         /\ IsFiniteSet(after) /\ Cardinality(after) <= MaxEntries
<1> DEFINE kept1 == present \ {File(r)}
           room == MaxEntries - Cardinality(present \ kept1)
<1>1. /\ IsFiniteSet(present) /\ Cardinality(present) \in Nat /\ Cardinality(present) <= MaxEntries
      /\ IsFiniteSet(kept1) /\ Cardinality(kept1) \in Nat
      /\ IsFiniteSet(present \ kept1) /\ Cardinality(present \ kept1) \in Nat
      /\ Cardinality(present \ kept1) <= MaxEntries /\ MaxEntries \in Nat
  BY FilesFinite, CacheAssumption
<1>2. CASE room = 0
  <2>1. after = present \ kept1
    BY <1>2 DEF AfterPut
  <2> QED
    BY <1>1, <2>1
<1>3. CASE room # 0
  <2>1. PICK k \in SUBSET kept1 : /\ after = k \union {File(r)}
                                  /\ IF Cardinality(kept1) < room THEN k = kept1
                                                                  ELSE Cardinality(k) = room - 1
    BY <1>3 DEF AfterPut
  <2>2. room \in Nat \ {0} /\ room <= MaxEntries
    BY <1>1, <1>3
  <2>3. IsFiniteSet(k) /\ Cardinality(k) \in Nat
    BY <1>1, FS_Subset, FS_CardinalityType
  <2>4. Cardinality(k) <= room - 1
    <3> HIDE DEF kept1, room
    <3> QED
      BY <1>1, <2>1, <2>2, <2>3
  <2>5. IsFiniteSet(after) /\ Cardinality(after) <= Cardinality(k) + 1
    <3>1. /\ IsFiniteSet(k \cup {File(r)})
          /\ Cardinality(k \cup {File(r)}) =
               IF File(r) \in k THEN Cardinality(k) ELSE Cardinality(k) + 1
      BY <2>3, FS_AddElement
    <3> QED
      BY <2>1, <2>3, <3>1
  <2>6. Cardinality(after) \in Nat
    BY <2>5, FS_CardinalityType
  <2>7. Cardinality(after) <= MaxEntries
    <3> HIDE DEF kept1, room
    <3> QED
      BY <1>1, <2>2, <2>3, <2>4, <2>5, <2>6
  <2>8. after \subseteq files \cup {File(r)}
    BY <2>1
  <2> QED
    BY <2>5, <2>7, <2>8
<1> QED
  BY <1>2, <1>3

(* The five operations, and nothing else, touch the cache.                    *)
LEMMA CacheOperations ==
  ASSUME [Next]_vars
  PROVE  \/ UNCHANGED cache
         \/ Clear
         \/ \E r \in Requests : \/ Retain(r, generation[r], Live(r)) \/ Put(r) \/ Evict(r)
                                \/ \E hit \in BOOLEAN : Get(r, hit)
<1>1. ASSUME NEW r \in Requests, RequestNext(r)
      PROVE  \/ UNCHANGED cache
             \/ Retain(r, generation[r], Live(r)) \/ Put(r) \/ Evict(r)
             \/ \E hit \in BOOLEAN : Get(r, hit)
  BY <1>1 DEF RequestNext, Ask, Withdraw, RetainScope, GetCached, Synthesised, SynthesisFails, DelayEnds,
     Played, PutCached, RemoveCached, SystemSpeaks, SystemAnswers
<1>2. ASSUME NEW s \in Stops, BeginStop(s) \/ SystemStopped(s) \/ OnlineStopped(s)
      PROVE  UNCHANGED cache
  BY <1>2 DEF BeginStop, SystemStopped, OnlineStopped
<1>3. CASE SystemFallsSilent \/ WorkerNext \/ LooperNext \/ PlaybackEnds \/ UNCHANGED vars
  BY <1>3 DEF SystemFallsSilent, WorkerNext, LooperNext, PlaybackEnds, vars
<1>4. CASE ClearCache
  BY <1>4 DEF ClearCache
<1> QED
  BY <1>1, <1>2, <1>3, <1>4 DEF Next

(* Each operation leaves what belongs to the chapter of the newest token, and *)
(* no more of it than there is room for.                                      *)
LEMMA CacheKept ==
  ASSUME CacheTypeOK, Kept, Counted, [Next]_vars
  PROVE  CacheTypeOK' /\ Kept'
<1>0. /\ activeGeneration \in Nat /\ activeToken \in Requests \union {None} /\ files \subseteq Files
      /\ None \notin Requests
      /\ activeToken # None => activeGeneration > 0
      /\ activeGeneration > 0 => \A f \in files : activeToken # None /\ f[1] = Scope[activeToken]
  BY RequestsAssumption DEF CacheTypeOK, Kept
<1>1. CASE UNCHANGED cache
  BY <1>1 DEF cache, CacheTypeOK, Kept
<1>2. CASE Clear
  BY <1>0, <1>2, FS_EmptySet, CacheAssumption DEF Clear, CacheTypeOK, Kept
\* What a read, an eviction or expiry leaves.
<1>3. ASSUME files' \in SUBSET files, UNCHANGED <<activeGeneration, activeToken>>
      PROVE  CacheTypeOK' /\ Kept'
  <2>1. IsFiniteSet(files') /\ Cardinality(files') <= MaxEntries
    BY <1>3, FilesFinite
  <2> QED
    BY <1>0, <1>3, <2>1 DEF CacheTypeOK, Kept
<1>4. ASSUME NEW r \in Requests, Retain(r, generation[r], Live(r)) PROVE CacheTypeOK' /\ Kept'
  <2>1. CASE generation[r] > activeGeneration /\ Live(r)
    <3>1. /\ activeGeneration' = generation[r] /\ activeToken' = r
          /\ files' = {f \in files : f[1] = Scope[r]}
      BY <1>4, <2>1 DEF Retain
    <3>2. IsFiniteSet(files') /\ Cardinality(files') <= MaxEntries
      BY <3>1, FilesFinite
    <3>3. generation[r] \in Nat /\ generation[r] > 0
      BY <1>0, <2>1 DEF Counted
    <3> QED
      BY <1>0, <3>1, <3>2, <3>3 DEF CacheTypeOK, Kept
  <2>2. CASE ~(generation[r] > activeGeneration /\ Live(r))
    BY <1>1, <1>4, <2>2 DEF Retain
  <2> QED
    BY <2>1, <2>2
<1>5. ASSUME NEW r \in Requests, NEW hit \in BOOLEAN, Get(r, hit) PROVE CacheTypeOK' /\ Kept'
  <2>1. files' \in SUBSET files /\ UNCHANGED <<activeGeneration, activeToken>>
    BY <1>5 DEF Get, Unexpired
  <2> QED
    BY <1>3, <2>1
<1>6. ASSUME NEW r \in Requests, Evict(r) PROVE CacheTypeOK' /\ Kept'
  <2>1. files' \in SUBSET files /\ UNCHANGED <<activeGeneration, activeToken>>
    BY <1>6 DEF Evict
  <2> QED
    BY <1>3, <2>1
<1>7. ASSUME NEW r \in Requests, Put(r) PROVE CacheTypeOK' /\ Kept'
  <2>1. UNCHANGED <<activeGeneration, activeToken>>
    BY <1>7 DEF Put
  <2>2. CASE ~IsActive(r)
    BY <1>3, <1>7, <2>1, <2>2 DEF Put
  <2>3. CASE IsActive(r)
    <3>1. activeToken = r
      BY <2>3 DEF IsActive
    <3>2. PICK present \in SUBSET files : files' \in AfterPut(present, r)
      BY <1>7, <2>3 DEF Put, Unexpired
    <3>3. /\ files' \subseteq files \cup {File(r)}
          /\ IsFiniteSet(files') /\ Cardinality(files') <= MaxEntries
      BY <3>2, RoomMade
    <3>4. File(r) \in Files /\ File(r)[1] = Scope[r]
      BY DEF File, Files
    <3> QED
      BY <1>0, <2>1, <3>1, <3>3, <3>4 DEF CacheTypeOK, Kept
  <2> QED
    BY <2>2, <2>3
<1> QED
  BY <1>1, <1>2, <1>4, <1>5, <1>6, <1>7, CacheOperations

-----------------------------------------------------------------------------
(* The invariant *)

LEMMA CountsKept ==
  ASSUME Core, Counted, [Next]_vars
  PROVE  Counted'
<1>0. Retries \in Nat /\ MaxClears \in Nat
  BY RouterAssumption
<1>1. CASE UNCHANGED <<mode, generation, retries, cached, clears>>
  BY <1>1 DEF Counted
<1>2. ASSUME NEW r \in Requests, Ask(r) PROVE Counted'
  <2>1. asked \in SUBSET Requests
    BY DEF Core, ContractTyped
  <2>2. IsFiniteSet(asked) /\ Cardinality(asked) \in Nat
    BY <2>1, RequestsAssumption, FS_Subset, FS_CardinalityType
  <2> QED
    BY <1>2, <2>2 DEF Ask, Counted
<1>3. ASSUME NEW r \in Requests, SynthesisFails(r) PROVE Counted'
  <2>1. retries' = retries \/ (retries[r] < Retries /\ retries' = [retries EXCEPT ![r] = @ + 1])
    BY <1>3 DEF SynthesisFails
  <2>2. UNCHANGED <<mode, generation, cached, clears>>
    BY <1>3 DEF SynthesisFails
  <2> QED
    BY <1>0, <2>1, <2>2 DEF Counted
<1>4. ASSUME NEW r \in Requests, GetCached(r) PROVE Counted'
  <2>1. PICK hit \in BOOLEAN : cached' = [cached EXCEPT ![r] = hit]
    BY <1>4 DEF GetCached, Live
  <2> QED
    BY <1>4, <2>1 DEF GetCached, Counted
<1>5. ASSUME NEW r \in Requests, RemoveCached(r) PROVE Counted'
  BY <1>5 DEF RemoveCached, Counted
<1>6. CASE ClearCache
  BY <1>0, <1>6 DEF ClearCache, Counted, router
<1>7. ASSUME NEW r \in Requests,
             \/ Withdraw(r) \/ RetainScope(r) \/ Synthesised(r) \/ DelayEnds(r) \/ Played(r)
             \/ PutCached(r) \/ SystemSpeaks(r) \/ SystemAnswers(r)
      PROVE  Counted'
  BY <1>1, <1>7 DEF Withdraw, RetainScope, Synthesised, DelayEnds, Played, PutCached, SystemSpeaks,
     SystemAnswers, router
<1>8. ASSUME NEW s \in Stops, BeginStop(s) \/ SystemStopped(s) \/ OnlineStopped(s) PROVE Counted'
  BY <1>1, <1>8 DEF BeginStop, SystemStopped, OnlineStopped, router
<1>9. CASE SystemFallsSilent \/ WorkerNext \/ LooperNext \/ PlaybackEnds \/ UNCHANGED vars
  BY <1>1, <1>9 DEF SystemFallsSilent, WorkerNext, LooperNext, PlaybackEnds, vars, router
<1> QED
  BY <1>2, <1>3, <1>4, <1>5, <1>6, <1>7, <1>8, <1>9 DEF Next, RequestNext

LEMMA Starts == Init => IInv
<1> SUFFICES ASSUME Init PROVE IInv
  OBVIOUS
<1>0. None \notin Requests /\ None \notin Results /\ Retries \in Nat /\ MaxClears \in Nat
  BY RequestsAssumption, ResultsAssumption, RouterAssumption
<1>1. ContractTyped
  BY <1>0 DEF Init, ContractTyped, RouterSteps
<1>2. PlayerTypeOK
  <2>1. looper = <<>> => looper \in Seq([kind : {"prepare", "stop"}, request : Requests \union {None}])
    OBVIOUS
  <2> QED
    BY <1>0, <2>1 DEF Init, PlayerInit, PlayerTypeOK, WorkerSteps
<1>3. Routing /\ Playing
  BY <1>0 DEF Init, PlayerInit, Routing, Playing
<1>4. Silencing /\ Voiced /\ Turn
  BY DEF Init, PlayerInit, Silencing, Voiced, Turn
<1>5. Listened
  BY <1>0 DEF Init, PlayerInit, Listened, Results
<1>6. Stopping
  BY DEF Init, Stopping
<1>7. CacheTypeOK /\ Kept
  <2>1. files \in SUBSET Files /\ Cardinality(files) <= MaxEntries
    BY DEF Init, CacheInit
  <2>2. IsFiniteSet(Files)
    <3>1. IsFiniteSet(Requests)
      BY RequestsAssumption
    <3> DEFINE Pairs == Requests \X Requests
               F == [p \in Pairs |-> <<Scope[p[1]], Text[p[2]]>>]
    <3>2. IsFiniteSet(Pairs)
      BY <3>1, FS_Product
    <3>3. \A p \in Pairs : F[p] \in Files
      BY DEF Files
    <3>4. ASSUME NEW f \in Files PROVE \E p \in Pairs : F[p] = f
      <4>1. PICK r \in Requests, q \in Requests : f = <<Scope[r], Text[q]>>
        BY <3>4 DEF Files
      <4>2. <<r, q>> \in Pairs /\ F[<<r, q>>] = f
        BY <4>1
      <4> QED
        BY <4>2
    <3>5. F \in [Pairs -> Files]
      BY <3>3
    <3> HIDE DEF F, Pairs
    <3>6. F \in Surjection(Pairs, Files)
      BY <3>4, <3>5 DEF Surjection
    <3> QED
      BY <3>2, <3>6, FS_Surjection
  <2>3. IsFiniteSet(files)
    BY <2>1, <2>2, FS_Subset
  <2> QED
    BY <2>1, <2>3 DEF Init, CacheInit, CacheTypeOK, Kept
<1>8. Counted
  BY <1>0 DEF Init, Counted
<1> QED
  BY <1>1, <1>2, <1>3, <1>4, <1>5, <1>6, <1>7, <1>8 DEF IInv, Core

(* The invariant is inductive: what the player, the two voices and the stops  *)
(* do is tied to the one request that is not settled, and the cache to the    *)
(* newest token.                                                              *)
THEOREM InvariantKept == Spec => []IInv
<1>1. IInv /\ [Next]_vars => IInv'
  BY CoreKept, CacheKept, CountsKept DEF IInv
<1> QED
  BY Starts, <1>1, PTL DEF Spec

(* Types, for any number of requests, stops and retries.                      *)
THEOREM TypeCorrect == Spec => []TypeOK
<1>1. IInv => TypeOK
  BY DEF IInv, Core, ContractTyped, Counted, TypeOK
<1> QED
  BY InvariantKept, <1>1, PTL

(* What is on disk belongs to the chapter of the newest request and fits: an  *)
(* older token writes nothing back (FileSpeechAudioCache.kt 65-159).          *)
THEOREM CacheInScope == Spec => []CacheWithinScope
<1>1. IInv => CacheWithinScope
  BY DEF IInv, Kept, CacheWithinScope
<1> QED
  BY InvariantKept, <1>1, PTL

-----------------------------------------------------------------------------
(* The contract *)

\* What Engine calls the voice.
RoutedVoice == IF systemVoice # None THEN systemVoice ELSE ExoVoice

(* The two voices never sound together: the one that sounds is that of the    *)
(* unsettled request, which is in the player or with the system, not in both. *)
LEMMA VoiceRule ==
  Core => /\ OneVoice
          /\ RoutedVoice \in Requests \union {None}
          /\ RoutedVoice = IF systemVoice # None THEN systemVoice
                           ELSE IF exo = activePlayback THEN exo ELSE None
          /\ RoutedVoice # None => RoutedVoice \in asked /\ answer[RoutedVoice] = None
          /\ systemVoice # None /\ activePlayback # None => exo # activePlayback
<1> SUFFICES ASSUME Core
             PROVE  /\ OneVoice
                    /\ RoutedVoice \in Requests \union {None}
                    /\ RoutedVoice = IF systemVoice # None THEN systemVoice
                                     ELSE IF exo = activePlayback THEN exo ELSE None
                    /\ RoutedVoice # None => RoutedVoice \in asked /\ answer[RoutedVoice] = None
                    /\ systemVoice # None /\ activePlayback # None => exo # activePlayback
  OBVIOUS
<1>0. /\ systemVoice \in Requests \union {None} /\ exo \in Requests \union {None}
      /\ activePlayback \in Requests \union {None}
  BY DEF Core, ContractTyped, PlayerTypeOK
<1>1. ASSUME systemVoice # None, activePlayback # None, exo = activePlayback PROVE FALSE
  <2> DEFINE q == systemVoice
             p == activePlayback
  <2>1. p \in asked /\ p \notin withdrawn /\ step[p] = "playing" /\ answer[p] = None
    BY <1>0, <1>1, ActiveWaits
  <2>2. q \in asked /\ answer[q] = None /\ (step[q] = "speaking" \/ q \in withdrawn)
    BY <1>0, <1>1 DEF Core, ContractTyped, Voiced, Routing
  <2>3. ~Settled(p)
    BY <2>1 DEF Settled
  <2>4. ~Settled(q)
    BY <1>1, <2>2 DEF Core, Voiced, Stopping, ContractTyped, Settled
  <2> HIDE DEF p, q
  <2>5. p = q
    BY <2>1, <2>2, <2>3, <2>4 DEF Core, Turn
  <2> QED
    BY <2>1, <2>2, <2>5
<1>2. OneVoice
  BY <1>0, <1>1, SoundsForActive DEF OneVoice
<1>3. RoutedVoice = IF systemVoice # None THEN systemVoice
                    ELSE IF exo = activePlayback THEN exo ELSE None
  BY SoundsForActive DEF RoutedVoice
<1>4. RoutedVoice \in Requests \union {None}
  BY <1>0, <1>3
<1>5. RoutedVoice # None => RoutedVoice \in asked /\ answer[RoutedVoice] = None
  <2>1. CASE systemVoice # None
    BY <1>0, <1>3, <2>1 DEF Core, ContractTyped, Voiced, Routing
  <2>2. CASE systemVoice = None
    BY <1>0, <1>3, <2>2, ActiveWaits
  <2> QED
    BY <2>1, <2>2
<1> QED
  BY <1>1, <1>2, <1>3, <1>4, <1>5

LEMMA VoiceRuleNext ==
  (Core => /\ OneVoice
           /\ RoutedVoice \in Requests \union {None}
           /\ RoutedVoice = IF systemVoice # None THEN systemVoice
                            ELSE IF exo = activePlayback THEN exo ELSE None
           /\ RoutedVoice # None => RoutedVoice \in asked /\ answer[RoutedVoice] = None
           /\ systemVoice # None /\ activePlayback # None => exo # activePlayback)'
  BY VoiceRule, PTL

(* What the contract sees of a step that only answers, gives the voice to an  *)
(* open request or takes it away, or lets a stop return.                      *)
LEMMA Serves ==
  ASSUME Core, Core', UNCHANGED <<asked, withdrawn, heard, covers>>,
         \A c \in Requests : answer'[c] # answer[c] =>
           Engine!Open(c) /\ (answer'[c] = "Completed" => c \in heard),
         RoutedVoice' \notin {None, RoutedVoice} => Engine!Open(RoutedVoice'),
         stopped \subseteq stopped',
         \A s \in stopped' \ stopped : \A c \in covers[s] :
           RoutedVoice' # c /\ (c \in withdrawn \/ answer'[c] # None)
  PROVE  Engine!Next
<1>1. answer' \in [Requests -> Results \union {None}] /\ stopped' \subseteq Stops
  BY DEF Core, ContractTyped
<1>2. /\ RoutedVoice' \in Requests \union {None}
      /\ RoutedVoice' # None => answer'[RoutedVoice'] = None
  BY VoiceRuleNext
<1>3. Engine!Serve
  BY <1>1, <1>2 DEF Engine!Serve, Engine!Open, Engine!Results, Results, RoutedVoice
<1> QED
  BY <1>3 DEF Engine!Next

Unseen == UNCHANGED <<contract, RoutedVoice>>

LEMMA UnseenStutters == Unseen => UNCHANGED Engine!vars
  BY DEF Unseen, Engine!vars, contract, RoutedVoice

(* The voice ends.                                                            *)
LEMMA FallsSilent ==
  ASSUME UNCHANGED <<asked, withdrawn, answer, covers, stopped>>, RoutedVoice' = None,
         heard' \in {heard, heard \union ({RoutedVoice} \ {None})}
  PROVE  Engine!Next
<1>1. Engine!FallSilent
  BY DEF Engine!FallSilent, RoutedVoice
<1> QED
  BY <1>1 DEF Engine!Next

-----------------------------------------------------------------------------
(* Every kind of step is one of the contract's, or unseen *)

LEMMA AskSeen ==
  ASSUME Core, Core', NEW r \in Requests, Ask(r)
  PROVE  Engine!Next
<1>1. RoutedVoice' = RoutedVoice
  BY DEF Ask, player, RoutedVoice, ExoVoice
<1>2. Engine!Ask(r)
  BY <1>1 DEF Ask, Engine!Ask, RoutedVoice
<1> QED
  BY <1>2 DEF Engine!Next

(* Whoever leaves while being heard is cut short.                             *)
LEMMA WithdrawSeen ==
  ASSUME Core, Core', NEW r \in Requests, Withdraw(r)
  PROVE  Engine!Next
<1>1. /\ r \in asked \ withdrawn /\ answer[r] = None /\ withdrawn' = withdrawn \union {r}
      /\ UNCHANGED <<asked, answer, heard, covers, stopped>>
      /\ systemVoice' = systemVoice /\ exo' = exo
      /\ activePlayback' = IF activePlayback = r THEN None ELSE activePlayback
  BY DEF Withdraw, Live, CancelPlayback
<1>2. r # None
  BY RequestsAssumption
<1>3. RoutedVoice' = RoutedVoice \/ (RoutedVoice = r /\ RoutedVoice' = None)
  BY <1>1, <1>2, VoiceRule, VoiceRuleNext
<1>4. Engine!Withdraw(r)
  BY <1>1, <1>3 DEF Engine!Withdraw, Engine!Open, RoutedVoice
<1> QED
  BY <1>4 DEF Engine!Next

LEMMA MoveSeen ==
  ASSUME Core, Core', NEW r \in Requests, NEW to, NEW value, Moves(r, to, value)
  PROVE  Engine!Next
<1>1. /\ answer' = [answer EXCEPT ![r] = value] /\ answer \in [Requests -> Results \union {None}]
      /\ answer[r] = None
      /\ value # None => r \in asked \ withdrawn
      /\ value = "Completed" => r \in heard
      /\ UNCHANGED <<player, asked, withdrawn, heard, covers, stopped, systemVoice>>
  BY DEF Core, ContractTyped, Routing, Moves, Live, others
<1>2. RoutedVoice' = RoutedVoice
  BY <1>1 DEF player, RoutedVoice, ExoVoice
<1>3. \A c \in Requests : answer'[c] # answer[c] =>
        Engine!Open(c) /\ (answer'[c] = "Completed" => c \in heard)
  BY <1>1 DEF Engine!Open
<1> QED
  BY <1>1, <1>2, <1>3, Serves

LEMMA StartSeen ==
  ASSUME Core, Core', NEW r \in Requests, Plays(r)
  PROVE  Engine!Next
<1>1. /\ UNCHANGED <<asked, withdrawn, answer, heard, covers, stopped, systemVoice, exo>>
      /\ activePlayback # None => activePlayback' = activePlayback
      /\ activePlayback = None => activePlayback' \in {r, None}
      /\ r \in asked \ withdrawn /\ r # None /\ answer[r] = None
  BY RequestsAssumption DEF Core, Routing, Plays, PlayMp3, Live, others
<1>2. RoutedVoice' \notin {None, RoutedVoice} => Engine!Open(RoutedVoice')
  BY <1>1, VoiceRule, VoiceRuleNext DEF Engine!Open
<1> QED
  BY <1>1, <1>2, Serves

LEMMA ReturnSeen ==
  ASSUME Core, Core', NEW r \in Requests, Played(r)
  PROVE  Engine!Next
<1>1. /\ UNCHANGED <<asked, withdrawn, heard, covers, stopped, systemVoice, exo, activePlayback, looper>>
      /\ answer \in [Requests -> Results \union {None}]
      /\ answer' = answer \/ answer' = [answer EXCEPT ![r] = result[r]]
      /\ result[r] # None /\ step[r] = "playing" /\ (result[r] = "Completed" => r \in heard)
  BY DEF Core, ContractTyped, Playing, Listened, Played, TakeResult, Answer
<1>2. r \in asked \ withdrawn /\ answer[r] = None
  BY <1>1 DEF Core, Routing
<1>3. RoutedVoice' = RoutedVoice
  BY <1>1 DEF RoutedVoice, ExoVoice
<1>4. \A c \in Requests : answer'[c] # answer[c] =>
        Engine!Open(c) /\ (answer'[c] = "Completed" => c \in heard)
  BY <1>1, <1>2 DEF Engine!Open
<1> QED
  BY <1>1, <1>3, <1>4, Serves

LEMMA SpeakSeen ==
  ASSUME Core, Core', NEW r \in Requests, SystemSpeaks(r)
  PROVE  Engine!Next
<1>1. UNCHANGED <<asked, withdrawn, answer, heard, covers, stopped>> /\ systemVoice' = r
  BY DEF SystemSpeaks, contract
<1>2. r \in asked \ withdrawn /\ answer[r] = None
  BY DEF Core, Routing, SystemSpeaks
<1>3. RoutedVoice' = r
  BY <1>1, RequestsAssumption DEF RoutedVoice
<1>4. Engine!Open(RoutedVoice')
  BY <1>2, <1>3 DEF Engine!Open
<1> QED
  BY <1>1, <1>4, Serves

LEMMA SilenceSeen ==
  ASSUME Core, Core', SystemFallsSilent
  PROVE  Engine!Next
<1>1. /\ UNCHANGED <<asked, withdrawn, answer, covers, stopped, exo, activePlayback>>
      /\ systemVoice # None /\ systemVoice' = None
      /\ heard' \in {heard, heard \union {systemVoice}}
  BY DEF SystemFallsSilent, player
<1>2. RoutedVoice = systemVoice /\ RoutedVoice' = None
  BY <1>1, VoiceRule, VoiceRuleNext
<1>3. {RoutedVoice} \ {None} = {systemVoice}
  BY <1>1, <1>2
<1> QED
  BY <1>1, <1>2, <1>3, FallsSilent

LEMMA StopBeginSeen ==
  ASSUME Core, Core', NEW s \in Stops, BeginStop(s)
  PROVE  Engine!Next
<1>1. RoutedVoice' = RoutedVoice
  BY DEF BeginStop, player, RoutedVoice, ExoVoice
<1>2. s \notin stopped /\ covers' = [covers EXCEPT ![s] = withdrawn]
      /\ UNCHANGED <<asked, withdrawn, answer, heard, stopped>>
  BY DEF Core, Stopping, BeginStop
<1>3. covers' \in [Stops -> SUBSET asked]
  BY <1>2 DEF Core, ContractTyped, Stopping
<1>4. \A t \in Stops \ {s} : covers'[t] = covers[t]
  BY <1>2 DEF Core, ContractTyped
<1>5. Engine!BeginStop(s)
  BY <1>1, <1>2, <1>3, <1>4 DEF Engine!BeginStop, RoutedVoice
<1> QED
  BY <1>5 DEF Engine!Next

LEMMA SystemStopSeen ==
  ASSUME Core, Core', NEW s \in Stops, SystemStopped(s)
  PROVE  Engine!Next
<1>1. /\ UNCHANGED <<asked, withdrawn, heard, covers, stopped, exo, activePlayback>>
      /\ systemVoice' = None
      /\ answer' = [r \in Requests |-> IF step[r] = "speaking" THEN "Cancelled" ELSE answer[r]]
  BY DEF SystemStopped, player
<1>2. RoutedVoice' \in {None, RoutedVoice}
  BY <1>1, VoiceRule, VoiceRuleNext
<1>3. \A c \in Requests : answer'[c] # answer[c] =>
        Engine!Open(c) /\ (answer'[c] = "Completed" => c \in heard)
  BY <1>1 DEF Core, Routing, Engine!Open
<1> QED
  BY <1>1, <1>2, <1>3, Serves

(* A stop returns when both engines are silent for those it covers.           *)
LEMMA PlayerStopSeen ==
  ASSUME Core, Core', NEW s \in Stops, OnlineStopped(s)
  PROVE  Engine!Next
<1>1. /\ UNCHANGED <<asked, withdrawn, answer, heard, covers, systemVoice, exo>>
      /\ activePlayback' = None /\ stopped' = stopped \union {s} /\ stopping[s] = "online"
  BY DEF OnlineStopped, StopPlayer
<1>2. RoutedVoice' \in {None, systemVoice} /\ RoutedVoice' \in {None, RoutedVoice}
  BY <1>1, VoiceRule, VoiceRuleNext
<1>3. ASSUME NEW c \in covers[s] PROVE RoutedVoice' # c /\ (c \in withdrawn \/ answer'[c] # None)
  <2>1. c \in withdrawn /\ c \in Requests
    BY DEF Core, ContractTyped, Stopping
  <2>2. systemVoice # c /\ c # None
    BY <1>1, <2>1, RequestsAssumption DEF Core, Voiced
  <2> QED
    BY <1>2, <2>1, <2>2
<1> QED
  BY <1>1, <1>2, <1>3, Serves

(* What workers and the main thread's queue do is heard only as the voice     *)
(* beginning, for the request that waits, or as its end.                      *)
LEMMA PlayerSeen ==
  ASSUME Core, Core', Elsewhere,
         \/ UNCHANGED player \/ LooperPrepares \/ LooperStops
         \/ \E r \in Requests : WorkerPlays(r) \/ WorkerWasCancelled(r) \/ FinishPlayback(r)
  PROVE  Engine!Next \/ UNCHANGED Engine!vars
<1>0. UNCHANGED <<asked, withdrawn, answer, heard, covers, stopped, systemVoice>>
  BY DEF Elsewhere, contract
<1>1. CASE UNCHANGED <<exo, activePlayback>>
  <2>1. RoutedVoice' = RoutedVoice
    BY <1>0, <1>1, VoiceRule, VoiceRuleNext
  <2> QED
    BY <1>0, <2>1, UnseenStutters DEF Unseen, contract
<1>2. CASE UNCHANGED player
  BY <1>1, <1>2 DEF player
<1>3. ASSUME NEW r \in Requests, WorkerPlays(r) \/ WorkerWasCancelled(r)
      PROVE  Engine!Next \/ UNCHANGED Engine!vars
  BY <1>1, <1>3 DEF WorkerPlays, WorkerWasCancelled
<1>4. ASSUME NEW r \in Requests, FinishPlayback(r)
      PROVE  Engine!Next \/ UNCHANGED Engine!vars
  <2>1. activePlayback = r /\ activePlayback' = None /\ exo' = exo /\ worker[r] = "ended"
    BY <1>4 DEF Core, Playing, FinishPlayback
  <2>2. exo # r
    BY <2>1, ActiveWaits, RequestsAssumption DEF Core, Silencing
  <2>3. RoutedVoice' = RoutedVoice
    BY <1>0, <2>1, <2>2, VoiceRule, VoiceRuleNext
  <2> QED
    BY <1>0, <2>3, UnseenStutters DEF Unseen, contract
<1>5. CASE LooperStops
  <2>1. exo' = None /\ activePlayback' = activePlayback
    BY <1>5 DEF LooperStops
  <2>2. RoutedVoice' = RoutedVoice \/ RoutedVoice' = None
    BY <1>0, <2>1, VoiceRule, VoiceRuleNext
  <2> QED
    BY <1>0, <2>2, FallsSilent, UnseenStutters DEF Unseen, contract
<1>6. CASE LooperPrepares
  <2>1. activePlayback' = activePlayback
    BY <1>6 DEF LooperPrepares
  <2>2. RoutedVoice' \notin {None, RoutedVoice} => RoutedVoice' = activePlayback
    BY <1>0, <2>1, VoiceRule, VoiceRuleNext
  <2>3. RoutedVoice' \notin {None, RoutedVoice} => Engine!Open(RoutedVoice')
    BY <2>1, <2>2, VoiceRuleNext, ActiveWaits DEF Engine!Open
  <2> QED
    BY <1>0, <2>3, Serves
<1> QED
  BY <1>2, <1>3, <1>4, <1>5, <1>6

LEMMA AudioEndSeen ==
  ASSUME Core, Core', PlaybackEnds
  PROVE  Engine!Next \/ UNCHANGED Engine!vars
<1>1. /\ UNCHANGED <<asked, withdrawn, answer, covers, stopped, systemVoice, activePlayback>>
      /\ exo # None /\ exo' = None
      /\ heard' \in {heard, heard \union ({ExoVoice} \ {None})}
  BY DEF PlaybackEnds, ExoEnds
<1>2. CASE ExoVoice = None
  <2>1. RoutedVoice' = RoutedVoice
    BY <1>1, <1>2, VoiceRule, VoiceRuleNext DEF RoutedVoice
  <2>2. heard' = heard
    BY <1>1, <1>2
  <2> QED
    BY <1>1, <2>1, <2>2, UnseenStutters DEF Unseen, contract
<1>3. CASE ExoVoice # None
  <2>1. systemVoice = None
    BY <1>3, VoiceRule DEF OneVoice
  <2>2. RoutedVoice = ExoVoice /\ RoutedVoice' = None
    BY <1>1, <2>1, VoiceRuleNext DEF RoutedVoice
  <2> QED
    BY <1>1, <2>2, FallsSilent
<1> QED
  BY <1>2, <1>3

LEMMA StepServes ==
  Core /\ Core' /\ Counted /\ [Next]_vars => [Engine!Next]_(Engine!vars)
<1> SUFFICES ASSUME Core, Core', Counted, [Next]_vars PROVE Engine!Next \/ UNCHANGED Engine!vars
  OBVIOUS
<1>1. ASSUME NEW r \in Requests,
             Ask(r) \/ Withdraw(r) \/ Plays(r) \/ Played(r) \/ SystemSpeaks(r)
      PROVE  Engine!Next
  BY <1>1, AskSeen, WithdrawSeen, StartSeen, ReturnSeen, SpeakSeen
<1>2. ASSUME NEW r \in Requests, NEW to, NEW value, Moves(r, to, value) PROVE Engine!Next
  BY <1>2, MoveSeen
<1>3. ASSUME NEW s \in Stops, BeginStop(s) \/ SystemStopped(s) \/ OnlineStopped(s)
      PROVE  Engine!Next
  BY <1>3, StopBeginSeen, SystemStopSeen, PlayerStopSeen
<1>4. CASE SystemFallsSilent
  BY <1>4, SilenceSeen
<1>5. CASE PlaybackEnds
  BY <1>5, AudioEndSeen
<1>6. CASE Elsewhere /\ \/ UNCHANGED player \/ LooperPrepares \/ LooperStops
                        \/ \E r \in Requests :
                             WorkerPlays(r) \/ WorkerWasCancelled(r) \/ FinishPlayback(r)
  BY <1>6, PlayerSeen
<1> QED
  BY <1>1, <1>2, <1>3, <1>4, <1>5, <1>6, Kinds

(* The router with its cache, its player and its two engines keeps what       *)
(* SpeechEngine promises of one engine, and the two voices never sound        *)
(* together (SpeechEngineRouter.kt 51-64, Media3EncodedAudioPlayer.kt 55-152).*)
THEOREM KeepsContract == Spec => RoutedContract
<1>1. Init => Engine!Init
  <2> SUFFICES ASSUME Init PROVE Engine!Init
    OBVIOUS
  <2>1. systemVoice = None /\ ExoVoice = None
    BY DEF Init, PlayerInit, ExoVoice
  <2> QED
    BY <2>1 DEF Init, Engine!Init
<1>2. IInv => OneVoice
  BY VoiceRule DEF IInv
<1>3. IInv /\ IInv' /\ [Next]_vars => [Engine!Next]_(Engine!vars)
  BY StepServes DEF IInv
<1> QED
  BY <1>1, <1>2, <1>3, InvariantKept, PTL DEF Spec, RoutedContract, Engine!Spec

===============================================================================
