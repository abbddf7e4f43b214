--------------------------- MODULE SystemTtsEngine ---------------------------
(***************************************************************************)
(* SystemTtsEngine.kt: one owner coroutine takes commands from a channel   *)
(* and alone touches the platform's TextToSpeech.  Callers speak, are      *)
(* cancelled, stop, ask for voices and close from any thread; a job of its *)
(* own creates the platform; utterance callbacks arrive on binder threads. *)
(*                                                                         *)
(* A handler is one action, except that starting an utterance is a second  *)
(* one: the caller may be cancelled between the two (startIfLive).  The    *)
(* platform is external: it ends an utterance when it likes, reports it    *)
(* once and late, and falls silent when told to stop.  Voices, languages   *)
(* and rates only decide whether an utterance starts.  The owner's scope   *)
(* is cancelled, if at all, before the owner first runs.                   *)
(***************************************************************************)
EXTENDS Sequences, FiniteSets, Naturals

CONSTANTS
  Calls,    \* calls of speak
  Stops,    \* calls of stop
  Queries,  \* calls of voices
  MaxRequests,  \* bound: calls of speak, stop and voices in a run
  None

Results == {"Completed", "Cancelled", "Failed"}

ASSUME NoneIsNoCall == None \notin Calls \union Stops \union Queries \union Results

VARIABLES
  asked, withdrawn, answer,   \* of each call: made, caller cancelled, returned
  submitted,                  \* calls past admission
  signalled,                  \* cancelled calls whose CancelCaller was sent
  covers, stopped,            \* of each stop: the calls admitted before it; returned
  queried, replied,           \* queries admitted and answered
  commands, channelOpen, closeRequested,
  initialization,             \* where initializationJob is
  initializationCancelled,
  owner,                      \* where the owner coroutine is
  starting,                   \* the call start() was entered with
  platform,                   \* ownerState.platform is set
  initializationFinished, pendingSpeech, activeSpeech, pendingVoiceQueries,
  closer,                     \* a call of close from another thread
  tts, voice, heard,          \* the platform: its life, its utterance, those it finished
  callbacks                   \* utterance callbacks on their way

callers == <<asked, withdrawn, answer, submitted, signalled, covers, stopped, queried, replied>>
channel == <<commands, channelOpen, closeRequested>>
job == <<initialization, initializationCancelled>>
ownerState == <<owner, starting, platform, initializationFinished, pendingSpeech, activeSpeech, pendingVoiceQueries>>
device == <<tts, voice, heard, callbacks>>
vars == <<callers, channel, job, ownerState, closer, device>>

Command(kind, about, result) == [kind |-> kind, about |-> about, result |-> result]

CommandKinds == {"Initialized", "Voices", "Speak", "CancelCaller", "Progress", "Stop", "Close"}

TypeOK ==
  /\ asked \subseteq Calls /\ withdrawn \subseteq asked /\ submitted \subseteq asked /\ signalled \subseteq withdrawn
  /\ answer \in [Calls -> Results \union {None}]
  /\ covers \in [Stops -> SUBSET submitted] /\ stopped \subseteq Stops
  /\ queried \subseteq Queries /\ replied \subseteq queried
  /\ commands \in Seq([kind : CommandKinds, about : Calls \union Stops \union Queries \union {None},
                       result : Results \union {"platform", "null", None}])
  /\ channelOpen \in BOOLEAN /\ closeRequested \in BOOLEAN
  /\ initialization \in {"unstarted", "creating", "created", "failed", "completed"}
  /\ initializationCancelled \in BOOLEAN
  /\ owner \in {"unstarted", "receiving", "starting", "suppressed", "closed"}
  /\ starting \in Calls \union {None}
  /\ platform \in BOOLEAN /\ initializationFinished \in BOOLEAN
  /\ pendingSpeech \in Calls \union {None} /\ activeSpeech \in Calls \union {None}
  /\ pendingVoiceQueries \subseteq queried
  /\ closer \in {"idle", "waiting", "returned"}
  /\ tts \in {"none", "live", "shut"}
  /\ voice \in Calls \union {None} /\ heard \subseteq asked
  /\ callbacks \subseteq (Calls \X Results)

Init ==
  /\ asked = {} /\ withdrawn = {} /\ submitted = {} /\ signalled = {}
  /\ answer = [c \in Calls |-> None]
  /\ covers = [s \in Stops |-> {}] /\ stopped = {} /\ queried = {} /\ replied = {}
  /\ commands = <<>> /\ channelOpen = TRUE /\ closeRequested = FALSE
  /\ initialization = "unstarted" /\ initializationCancelled = FALSE
  /\ owner = "unstarted" /\ starting = None
  /\ platform = FALSE /\ initializationFinished = FALSE
  /\ pendingSpeech = None /\ activeSpeech = None /\ pendingVoiceQueries = {}
  /\ closer = "idle"
  /\ tts = "none" /\ voice = None /\ heard = {} /\ callbacks = {}

-----------------------------------------------------------------------------
\* SpeechCall.complete: the first to end a call answers it, if its caller is
\* still there.
Live(c) == c \in asked \ withdrawn /\ answer[c] = None

Complete(calls, result) == [c \in Calls |-> IF c \in calls /\ Live(c) THEN result ELSE answer[c]]

Send(command) == commands' = IF channelOpen THEN Append(commands, command) ELSE commands

\* Mutant: what is drained is not told apart by kind.
MutantQueued(kind) == {commands[i].about : i \in DOMAIN commands}

Queued(kind) == {commands[i].about : i \in {j \in DOMAIN commands : commands[j].kind = kind}}

\* TextToSpeech.stop: the utterance is cut and its onStop is on the way.
SilencePlatform ==
  /\ voice' = None
  /\ callbacks' = callbacks \union {<<c, "Cancelled">> : c \in {voice} \ {None}}

-----------------------------------------------------------------------------
(* Callers                                                                 *)

\* Bound on what callers ask for.
Room == Cardinality(asked) + Cardinality(queried) + Cardinality(stopped \union Queued("Stop")) < MaxRequests

Speak(c) ==
  /\ c \notin asked /\ Room
  /\ asked' = asked \union {c}
  /\ UNCHANGED <<withdrawn, answer, submitted, signalled, covers, stopped, queried, replied,
                 channel, job, ownerState, closer, device>>

AdmitSpeak(c) ==
  /\ c \in asked \ submitted
  /\ submitted' = submitted \union {c}
  /\ IF closeRequested
     THEN answer' = Complete({c}, "Failed") /\ UNCHANGED commands
     ELSE Send(Command("Speak", c, None)) /\ UNCHANGED answer
  /\ UNCHANGED <<asked, withdrawn, signalled, covers, stopped, queried, replied,
                 channelOpen, closeRequested, job, ownerState, closer, device>>

CancelCall(c) ==
  /\ Live(c)
  /\ withdrawn' = withdrawn \union {c}
  /\ UNCHANGED <<asked, answer, submitted, signalled, covers, stopped, queried, replied,
                 channel, job, ownerState, closer, device>>

SignalCancel(c) ==
  /\ c \in withdrawn \ signalled
  /\ signalled' = signalled \union {c}
  /\ Send(Command("CancelCaller", c, None))
  /\ UNCHANGED <<asked, withdrawn, answer, submitted, covers, stopped, queried, replied,
                 channelOpen, closeRequested, job, ownerState, closer, device>>

\* Once close has begun a stop is not admitted: it returns and promises nothing.
Stop(s) ==
  /\ s \notin stopped \union Queued("Stop") /\ Room
  /\ IF closeRequested
     THEN stopped' = stopped \union {s} /\ UNCHANGED <<covers, commands>>
     ELSE /\ covers' = [covers EXCEPT ![s] = submitted]
          /\ Send(Command("Stop", s, None))
          /\ UNCHANGED stopped
  /\ UNCHANGED <<asked, withdrawn, answer, submitted, signalled, queried, replied,
                 channelOpen, closeRequested, job, ownerState, closer, device>>

Voices(q) ==
  /\ q \notin queried /\ Room
  /\ queried' = queried \union {q}
  /\ IF closeRequested
     THEN replied' = replied \union {q} /\ UNCHANGED commands
     ELSE Send(Command("Voices", q, None)) /\ UNCHANGED replied
  /\ UNCHANGED <<asked, withdrawn, answer, submitted, signalled, covers, stopped,
                 channelOpen, closeRequested, job, ownerState, closer, device>>

\* close() from a thread that is not the owner's: ask once, then wait.
Close ==
  /\ closer = "idle"
  /\ closer' = "waiting"
  /\ closeRequested' = TRUE
  /\ IF closeRequested THEN UNCHANGED commands ELSE Send(Command("Close", None, None))
  /\ UNCHANGED <<callers, channelOpen, job, ownerState, device>>

\* Mutant: close does not wait for the initialisation job.
MutantCloseFinished == owner = "closed"

\* closeFinished counts down when the owner is done and so is the job, which
\* may still be holding a platform.
CloseFinished == owner = "closed" /\ initialization = "completed"

CloseReturns ==
  /\ closer = "waiting" /\ CloseFinished
  /\ closer' = "returned"
  /\ UNCHANGED <<callers, channel, job, ownerState, device>>

-----------------------------------------------------------------------------
(* initializationJob                                                       *)

InitializationStarts ==
  /\ initialization = "unstarted"
  /\ initialization' = IF initializationCancelled THEN "completed" ELSE "creating"
  /\ UNCHANGED <<callers, channel, initializationCancelled, ownerState, closer, device>>

\* factory.create() returns a platform or none; cancelled, it may also throw,
\* having shut down what it had made.
PlatformCreated ==
  /\ initialization = "creating"
  /\ \/ initialization' = "created" /\ tts' = "live"
     \/ initialization' = "failed" /\ UNCHANGED tts
     \/ initializationCancelled /\ initialization' = "completed" /\ UNCHANGED tts
  /\ UNCHANGED <<callers, channel, initializationCancelled, ownerState, closer, voice, heard, callbacks>>

\* The platform goes to the owner or, if the channel is closed, is released here.
PlatformDelivered ==
  /\ initialization \in {"created", "failed"}
  /\ initialization' = "completed"
  /\ Send(Command("Initialized", None, IF initialization = "created" THEN "platform" ELSE "null"))
  /\ tts' = IF initialization = "created" /\ ~channelOpen THEN "shut" ELSE tts
  /\ UNCHANGED <<callers, channelOpen, closeRequested, initializationCancelled, ownerState, closer,
                 voice, heard, callbacks>>

-----------------------------------------------------------------------------
(* The owner                                                               *)

OwnerStarts ==
  /\ owner = "unstarted"
  /\ owner' = "receiving"
  /\ UNCHANGED <<callers, channel, job, starting, platform, initializationFinished, pendingSpeech,
                 activeSpeech, pendingVoiceQueries, closer, device>>

Receive(kind, about) ==
  /\ owner = "receiving" /\ commands # <<>>
  /\ Head(commands).kind = kind /\ Head(commands).about = about
  /\ commands' = Tail(commands)
  /\ UNCHANGED <<channelOpen, closeRequested>>

\* Mutant: the call that waited is dropped without an answer.
MutantInitializationFails ==
  /\ pendingSpeech' = None
  /\ platform' = FALSE
  /\ UNCHANGED <<answer, owner, starting>>

\* The platform is unusable: whatever waited for it is answered.
InitializationFails ==
  /\ answer' = Complete({pendingSpeech}, "Failed")
  /\ pendingSpeech' = None
  /\ platform' = FALSE
  /\ UNCHANGED <<owner, starting>>

ReceiveInitialized ==
  /\ Receive("Initialized", None)
  /\ initializationFinished' = TRUE
  /\ replied' = replied \union pendingVoiceQueries
  /\ pendingVoiceQueries' = {}
  /\ \/ /\ Head(commands).result = "platform"
        /\ platform' = TRUE
        /\ owner' = IF pendingSpeech = None THEN owner ELSE "starting"
        /\ starting' = pendingSpeech
        /\ pendingSpeech' = None
        /\ UNCHANGED <<answer, tts>>
     \/ /\ Head(commands).result = "platform"   \* setProgressListener throws
        /\ InitializationFails
        /\ tts' = "shut"
     \/ /\ Head(commands).result = "null"
        /\ InitializationFails
        /\ UNCHANGED tts
  /\ UNCHANGED <<asked, withdrawn, submitted, signalled, covers, stopped, queried, job, activeSpeech,
                 closer, voice, heard, callbacks>>

ReceiveVoices(q) ==
  /\ Receive("Voices", q)
  /\ IF platform \/ initializationFinished
     THEN replied' = replied \union {q} /\ UNCHANGED pendingVoiceQueries
     ELSE pendingVoiceQueries' = pendingVoiceQueries \union {q} /\ UNCHANGED replied
  /\ UNCHANGED <<asked, withdrawn, answer, submitted, signalled, covers, stopped, queried, job, owner, starting,
                 platform, initializationFinished, pendingSpeech, activeSpeech, closer, device>>

\* A new call replaces the one that waits and the one that is heard, which is
\* cut before the new one can start.
ReceiveSpeak(c) ==
  /\ Receive("Speak", c)
  /\ Live(c)
  /\ activeSpeech' = None
  /\ IF activeSpeech # None THEN SilencePlatform ELSE UNCHANGED <<voice, callbacks>>
  /\ LET replaced == Complete({pendingSpeech, activeSpeech}, "Cancelled")
     IN CASE platform ->
               /\ owner' = "starting" /\ starting' = c /\ pendingSpeech' = None
               /\ answer' = replaced
          [] ~platform /\ initializationFinished ->
               /\ pendingSpeech' = None
               /\ answer' = [replaced EXCEPT ![c] = "Failed"]
               /\ UNCHANGED <<owner, starting>>
          [] ~platform /\ ~initializationFinished ->
               /\ pendingSpeech' = c
               /\ answer' = replaced
               /\ UNCHANGED <<owner, starting>>
  /\ UNCHANGED <<asked, withdrawn, submitted, signalled, covers, stopped, queried, replied, job, platform,
                 initializationFinished, pendingVoiceQueries, closer, tts, heard>>

\* The caller was gone before its command was received.
ReceiveSpeakOfGoneCaller(c) ==
  /\ Receive("Speak", c)
  /\ ~Live(c)
  /\ UNCHANGED <<callers, job, ownerState, closer, device>>

\* start() from startIfLive on: the utterance starts unless its caller has
\* left, or fails because of its language, its voice or the platform.
StartSpeech ==
  /\ owner = "starting"
  /\ owner' = "receiving" /\ starting' = None
  /\ \/ /\ Live(starting)
        /\ activeSpeech' = starting /\ voice' = starting
        /\ UNCHANGED answer
     \/ /\ answer' = Complete({starting}, "Failed")
        /\ UNCHANGED <<activeSpeech, voice>>
  /\ UNCHANGED <<asked, withdrawn, submitted, signalled, covers, stopped, queried, replied, channel, job,
                 platform, initializationFinished, pendingSpeech, pendingVoiceQueries, closer,
                 tts, heard, callbacks>>

ReceiveCancel(c) ==
  /\ Receive("CancelCaller", c)
  /\ pendingSpeech' = IF pendingSpeech = c THEN None ELSE pendingSpeech
  /\ IF activeSpeech = c
     THEN activeSpeech' = None /\ SilencePlatform
     ELSE UNCHANGED <<activeSpeech, voice, callbacks>>
  /\ UNCHANGED <<callers, job, owner, starting, platform, initializationFinished, pendingVoiceQueries,
                 closer, tts, heard>>

\* Mutant: any callback ends the active call.
MutantReceiveProgress(c) ==
  /\ Receive("Progress", c)
  /\ activeSpeech' = None /\ answer' = Complete({activeSpeech}, Head(commands).result)
  /\ UNCHANGED <<asked, withdrawn, submitted, signalled, covers, stopped, queried, replied, job, owner, starting,
                 platform, initializationFinished, pendingSpeech, pendingVoiceQueries, closer, device>>

\* Utterance ids are unique: only the active call's own callback ends it.
ReceiveProgress(c) ==
  /\ Receive("Progress", c)
  /\ IF activeSpeech = c
     THEN activeSpeech' = None /\ answer' = Complete({c}, Head(commands).result)
     ELSE UNCHANGED <<activeSpeech, answer>>
  /\ UNCHANGED <<asked, withdrawn, submitted, signalled, covers, stopped, queried, replied, job, owner, starting,
                 platform, initializationFinished, pendingSpeech, pendingVoiceQueries, closer, device>>

ReceiveStop(s) ==
  /\ Receive("Stop", s)
  /\ answer' = Complete({pendingSpeech, activeSpeech}, "Cancelled")
  /\ pendingSpeech' = None /\ activeSpeech' = None
  /\ IF platform THEN SilencePlatform ELSE UNCHANGED <<voice, callbacks>>
  /\ stopped' = stopped \union {s}
  /\ UNCHANGED <<asked, withdrawn, submitted, signalled, covers, queried, replied, job, owner, starting, platform,
                 initializationFinished, pendingVoiceQueries, closer, tts, heard>>

-----------------------------------------------------------------------------
(* Closing                                                                 *)

\* A platform the job delivered but the owner never received.
Undelivered == \E i \in DOMAIN commands : commands[i].kind = "Initialized" /\ commands[i].result = "platform"

\* finishCloseOnOwner: the channel is closed and drained, the platform
\* released, and everybody who still waits is answered.
FinishClose ==
  /\ owner' = "closed" /\ starting' = None
  /\ closeRequested' = TRUE /\ channelOpen' = FALSE /\ commands' = <<>>
  /\ initializationCancelled' = TRUE
  /\ answer' = Complete({pendingSpeech, activeSpeech} \union Queued("Speak"), "Cancelled")
  /\ stopped' = stopped \union Queued("Stop")
  /\ replied' = replied \union pendingVoiceQueries \union Queued("Voices")
  /\ pendingSpeech' = None /\ activeSpeech' = None /\ pendingVoiceQueries' = {}
  /\ platform' = FALSE
  /\ IF platform \/ Undelivered
     THEN tts' = "shut" /\ SilencePlatform
     ELSE UNCHANGED <<tts, voice, callbacks>>
  /\ UNCHANGED <<asked, withdrawn, submitted, signalled, covers, queried, initializationFinished, closer, heard>>

ReceiveClose ==
  /\ owner = "receiving" /\ commands # <<>> /\ Head(commands).kind = "Close"
  /\ FinishClose
  /\ UNCHANGED initialization

\* close() on the owner's thread, between two handlers.
CloseOnOwner ==
  /\ owner = "receiving"
  /\ FinishClose
  /\ UNCHANGED initialization

\* The scope is cancelled before the owner first runs.  If the job has not
\* run either, nothing was made and the close is finished on the spot.
CancelScope ==
  /\ owner = "unstarted"
  /\ IF initialization = "unstarted"
     THEN FinishClose /\ initialization' = "completed"
     ELSE /\ owner' = "suppressed" /\ initializationCancelled' = TRUE
          /\ UNCHANGED <<callers, channel, initialization, starting, platform, initializationFinished,
                         pendingSpeech, activeSpeech, pendingVoiceQueries, closer, device>>

FallbackCloses ==
  /\ owner = "suppressed"
  /\ FinishClose
  /\ UNCHANGED initialization

-----------------------------------------------------------------------------
(* The platform (external)                                                 *)

\* The utterance is spoken to its end, fails, or is stopped by the system.
UtteranceEnds ==
  /\ voice # None
  /\ voice' = None
  /\ \E result \in Results :
       /\ callbacks' = callbacks \union {<<voice, result>>}
       /\ heard' = IF result = "Completed" THEN heard \union {voice} ELSE heard
  /\ UNCHANGED <<callers, channel, job, ownerState, closer, tts>>

DeliverCallback ==
  /\ \E report \in callbacks :
       /\ callbacks' = callbacks \ {report}
       /\ Send(Command("Progress", report[1], report[2]))
  /\ UNCHANGED <<callers, channelOpen, closeRequested, job, ownerState, closer, tts, voice, heard>>

-----------------------------------------------------------------------------
InitializationNext == InitializationStarts \/ PlatformCreated \/ PlatformDelivered

OwnerNext ==
  \/ OwnerStarts
  \/ ReceiveInitialized
  \/ \E q \in Queries : ReceiveVoices(q)
  \/ \E c \in Calls : ReceiveSpeak(c) \/ ReceiveSpeakOfGoneCaller(c) \/ ReceiveCancel(c) \/ ReceiveProgress(c)
  \/ StartSpeech
  \/ \E s \in Stops : ReceiveStop(s)
  \/ ReceiveClose
  \/ FallbackCloses

CallerNext ==
  \/ \E c \in Calls : Speak(c) \/ AdmitSpeak(c) \/ CancelCall(c) \/ SignalCancel(c)
  \/ \E s \in Stops : Stop(s)
  \/ \E q \in Queries : Voices(q)
  \/ Close \/ CloseReturns \/ CloseOnOwner \/ CancelScope

Next == CallerNext \/ InitializationNext \/ OwnerNext \/ UtteranceEnds \/ DeliverCallback

\* Threads that have work do it, and the platform ends and reports what it was
\* given.  Nobody has to speak, stop, ask, cancel or close.
Fairness ==
  /\ WF_vars(InitializationNext) /\ WF_vars(OwnerNext)
  /\ WF_vars(UtteranceEnds) /\ WF_vars(DeliverCallback)
  /\ WF_vars(CloseReturns)
  /\ \A c \in Calls : WF_vars(AdmitSpeak(c)) /\ WF_vars(SignalCancel(c))

Spec == Init /\ [][Next]_vars

FairSpec == Spec /\ Fairness

-----------------------------------------------------------------------------
\* What SpeechEngine promises (SpeechEngine.tla) survives the queue, late and
\* stale utterance callbacks, cancellation in the middle of starting, and close.
Engine == INSTANCE SpeechEngine
Contract == Engine!Spec

\* When close returns the platform is shut, whichever of the owner, its
\* stand-in and the initialisation job was left holding it, and nothing sounds.
CloseReleases == closer = "returned" => tts # "live" /\ voice = None

\* No caller waits for ever, whatever fails, is cancelled or closes meanwhile:
\* not one that speaks, stops, asks for voices, or closes.
EveryCallEnds ==
  /\ \A c \in Calls : c \in asked ~> ~Live(c)
  /\ \A s \in Stops : s \in Queued("Stop") ~> s \in stopped
  /\ \A q \in Queries : q \in queried ~> q \in replied
  /\ closer = "waiting" ~> closer = "returned"
==============================================================================
