-------------------------- MODULE EncodedAudioPlayer --------------------------
(***************************************************************************)
(* Media3EncodedAudioPlayer and its ExoPlayer backend.  playMp3, stop and  *)
(* cancellation run on the main thread; each playback has a worker on a    *)
(* thread pool; whatever touches the ExoPlayer is posted to the main       *)
(* thread's queue.  A worker that is cancelled before it has suspended in  *)
(* the backend posts its stop when it gets there, however late.            *)
(***************************************************************************)
EXTENDS SpeechRequests

VARIABLES
  activePlayback,
  worker,   \* of each playback
  looper,   \* what is posted to the main thread
  exo,      \* the playback the ExoPlayer is playing
  ending,   \* how the audio of a playback ended
  result    \* what playMp3 returns, before its caller takes it

player == <<activePlayback, worker, looper, exo, ending, result>>

Results == {"Completed", "Cancelled", "Failed"}

ASSUME ResultsAssumption == None \notin Results

\* A worker is created and started; it suspends in the backend until the player
\* ends, and then finishes the playback, unless it is cancelled first.
WorkerSteps == {"none", "started", "playing", "ended", "cancelled", "over"}

Post(kind, r) == [kind |-> kind, request |-> r]

PlayerTypeOK ==
  /\ activePlayback \in Requests \union {None}
  /\ worker \in [Requests -> WorkerSteps]
  /\ looper \in Seq([kind : {"prepare", "stop"}, request : Requests \union {None}])
  /\ exo \in Requests \union {None}
  /\ ending \in [Requests -> {"Completed", "Failed", None}]
  /\ result \in [Requests -> Results \union {None}]

PlayerInit ==
  /\ activePlayback = None
  /\ worker = [r \in Requests |-> "none"]
  /\ looper = <<>>
  /\ exo = None
  /\ ending = [r \in Requests |-> None]
  /\ result = [r \in Requests |-> None]

-----------------------------------------------------------------------------
\* One playback at a time: a second one fails at once, as does audio that is
\* empty or too large.
PlayMp3(r) ==
  /\ \/ /\ activePlayback = None
        /\ activePlayback' = r
        /\ worker' = [worker EXCEPT ![r] = "started"]
        /\ UNCHANGED result
     \/ /\ result' = [result EXCEPT ![r] = "Failed"]
        /\ UNCHANGED <<activePlayback, worker>>
  /\ UNCHANGED <<looper, exo, ending>>

\* backend.play: suspend and have the main thread prepare the player.
WorkerPlays(r) ==
  /\ worker[r] = "started"
  /\ worker' = [worker EXCEPT ![r] = "playing"]
  /\ looper' = Append(looper, Post("prepare", r))
  /\ UNCHANGED <<activePlayback, exo, ending, result>>

\* A cancelled worker that had not suspended yet does so now and posts what a
\* suspended one posts; one that was about to go on after the audio ended posts
\* its stop; either may have been cancelled too early or too late for that.
WorkerWasCancelled(r) ==
  /\ worker[r] = "cancelled"
  /\ worker' = [worker EXCEPT ![r] = "over"]
  /\ \/ UNCHANGED looper
     \/ /\ ending[r] = None
        /\ looper' = looper \o <<Post("stop", None), Post("prepare", r)>>
     \/ /\ ending[r] # None
        /\ looper' = Append(looper, Post("stop", None))
  /\ ending' = [ending EXCEPT ![r] = None]
  /\ UNCHANGED <<activePlayback, exo, result>>

\* The worker is cancelled; suspended in the backend, it posts its stop at once.
CancelledWorker(r) == IF worker[r] = "playing" THEN "over" ELSE "cancelled"

StopsOf(r) == IF r # None /\ worker[r] = "playing" THEN <<Post("stop", None)>> ELSE <<>>

StopBackend(r) == looper' = looper \o <<Post("stop", None)>> \o StopsOf(r)

\* cancelPlayback: the caller of playMp3 was cancelled.
CancelPlayback(r) ==
  /\ IF activePlayback = r
     THEN /\ StopBackend(r)
          /\ activePlayback' = None
          /\ worker' = [worker EXCEPT ![r] = CancelledWorker(r)]
     ELSE UNCHANGED <<activePlayback, worker, looper>>
  /\ result' = [result EXCEPT ![r] = None]
  /\ UNCHANGED <<exo, ending>>

StopPlayer ==
  /\ StopBackend(activePlayback)
  /\ IF activePlayback = None
     THEN UNCHANGED <<worker, result>>
     ELSE /\ worker' = [worker EXCEPT ![activePlayback] = CancelledWorker(activePlayback)]
          /\ result' = [result EXCEPT ![activePlayback] = "Cancelled"]
  /\ activePlayback' = None
  /\ UNCHANGED <<exo, ending>>

\* The main thread takes the next post; it does not prepare for a worker that has
\* been cancelled.
MutantLooperPrepares ==
  /\ looper # <<>> /\ Head(looper).kind = "prepare"
  /\ looper' = Tail(looper)
  /\ exo' = Head(looper).request
  /\ UNCHANGED <<activePlayback, worker, ending, result>>

LooperPrepares ==
  /\ looper # <<>> /\ Head(looper).kind = "prepare"
  /\ looper' = Tail(looper)
  /\ exo' = IF worker[Head(looper).request] = "playing" THEN Head(looper).request ELSE exo
  /\ UNCHANGED <<activePlayback, worker, ending, result>>

LooperStops ==
  /\ looper # <<>> /\ Head(looper).kind = "stop"
  /\ looper' = Tail(looper)
  /\ exo' = None
  /\ UNCHANGED <<activePlayback, worker, ending, result>>

\* The audio ends or cannot be decoded; a listener that is still attached
\* resumes the worker.
ExoEnds(how) ==
  /\ exo # None
  /\ exo' = None
  /\ IF worker[exo] = "playing"
     THEN /\ worker' = [worker EXCEPT ![exo] = "ended"]
          /\ ending' = [ending EXCEPT ![exo] = how]
     ELSE UNCHANGED <<worker, ending>>
  /\ UNCHANGED <<activePlayback, looper, result>>

FinishPlayback(r) ==
  /\ worker[r] = "ended"
  /\ worker' = [worker EXCEPT ![r] = "over"]
  /\ ending' = [ending EXCEPT ![r] = None]
  /\ IF activePlayback = r
     THEN /\ activePlayback' = None
          /\ result' = [result EXCEPT ![r] = ending[r]]
     ELSE UNCHANGED <<activePlayback, result>>
  /\ UNCHANGED <<looper, exo>>

\* The caller of playMp3 goes on.
TakeResult(r) ==
  /\ result[r] # None
  /\ result' = [result EXCEPT ![r] = None]
  /\ UNCHANGED <<activePlayback, worker, looper, exo, ending>>
==============================================================================
