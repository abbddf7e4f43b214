---------------------------- MODULE SpeechSession ----------------------------
(***************************************************************************)
(* The owner actor of one read-aloud session (speech/session/              *)
(* SpeechSession.kt).  Callers submit commands to an unlimited channel;    *)
(* one owner coroutine takes them one at a time, together with the results *)
(* that playback jobs and sleep timers post to the same channel.  A        *)
(* handler is split at its suspension points (a content-source call,       *)
(* engine.stop(), the progress commit, highlightSink.show()): between two  *)
(* of them jobs finish, timers fire, callers submit and the session may be *)
(* closed or its scope cancelled.                                          *)
(*                                                                         *)
(* Abstracted: a segment is its source and its index there; deadlines are  *)
(* "some" or "none" (a timer may fire at any moment after it is set); the  *)
(* highlight's own failures, and the voice parameters of the options.      *)
(***************************************************************************)
EXTENDS Naturals, Sequences, FiniteSets

CONSTANTS
  Callers,       \* coroutines that call the session, one command each
  Sources,       \* SpeechContentSource objects
  SegmentCount,  \* how many segments each source yields
  Commands,      \* the commands the callers may submit
  Faults,        \* externals that may throw: "source", "engineStop", "commit"
  None           \* null

Ops == {"Start", "Pause", "Resume", "Next", "Previous", "Seek",
        "SetTimer", "ClearTimer", "UpdateOptions", "Stop"}

Segments == [source : Sources, index : Nat]

VARIABLES
  closing,       \* admission is closed and so is the channel
  queue,         \* the channel's buffer
  delivered,     \* a message handed to the suspended owner, not yet dispatched
  ack,           \* what each caller's acknowledgement holds
  cancelled,     \* "none", "owner" (ownerJob.cancel) or "scope" (parent scope)
  owner,         \* where the owner coroutine is suspended
  current,       \* the message its handler works on
  target,        \* the segment the handler is about to begin
  state,         \* the published SpeechPlaybackState
  source, hasOptions, generation, playbackJob, timerVersion, deadline,
  jobs,          \* playback coroutines that have not ended
  timers,        \* versions of the timer coroutines that have not ended
  cursor, closedSources,           \* the content sources
  highlight, progress,             \* highlight sink, last committed segment
  lost, torn                \* history, see the properties and Damage

admission == <<closing, queue, delivered, ack>>
playback  == <<state, source, hasOptions, generation, playbackJob, jobs>>
timing    == <<timerVersion, deadline, timers>>
outside   == <<cursor, closedSources, highlight, progress>>
history   == <<lost, torn>>
vars == <<admission, cancelled, owner, current, target, playback, timing,
          outside, history>>

-----------------------------------------------------------------------------
(* Values *)

Results == {"Completed", "Cancelled", "Failed"}

CommandMessage(c, m)     == [type |-> "Command", caller |-> c, command |-> m]
FinishedMessage(g, s, r) == [type |-> "PlaybackFinished", generation |-> g,
                             segment |-> s, result |-> r]
ExpiredMessage(v)        == [type |-> "TimerExpired", version |-> v]

CommandMessages  == [type : {"Command"}, caller : Callers, command : Commands]
FinishedMessages == [type : {"PlaybackFinished"}, generation : Nat,
                     segment : Segments, result : Results]
ExpiredMessages  == [type : {"TimerExpired"}, version : Nat]
Messages         == CommandMessages \cup FinishedMessages \cup ExpiredMessages

JobIds == [generation : Nat, segment : Segments]

ASSUME SessionAssumption ==
  /\ SegmentCount \in [Sources -> Nat]
  /\ Commands \subseteq [op : Ops, arg : Sources \cup Nat]
  /\ \A c \in Commands : c.op = "Start" <=> c.arg \in Sources
  /\ Faults \subseteq {"source", "engineStop", "commit"}
  /\ None \notin Sources \cup Segments \cup Callers \cup Messages \cup JobIds

PlaybackState(kind, segment) == [kind |-> kind, segment |-> segment]
Idle      == PlaybackState("Idle", None)
Completed == PlaybackState("Completed", None)

JobId(g, s)    == [generation |-> g, segment |-> s]
NewJob(g, s)   == [id |-> JobId(g, s), phase |-> "launched", cancelled |-> FALSE]

IsCommand(m)  == m.type = "Command"
IsFinished(m) == m.type = "PlaybackFinished"
IsOp(m, ops)  == IsCommand(m) /\ m.command.op \in ops

-----------------------------------------------------------------------------
(* The channel and its acknowledgements *)

\* trySend: an element offered while the owner is suspended on an empty channel
\* goes straight to its continuation, which is still to be dispatched.
Post(m) ==
  IF owner = "wait" /\ cancelled = "none" /\ delivered = None /\ queue = <<>>
    THEN delivered' = m /\ UNCHANGED queue
    ELSE queue' = Append(queue, m) /\ UNCHANGED delivered

Queued(q) == {m.caller : m \in {q[i] : i \in {k \in DOMAIN q : IsCommand(q[k])}}}

Acknowledged(c, outcome) == [ack EXCEPT ![c] = outcome]

MutantNoDrain(a, outcome) == a

\* drainAcknowledgements(failure), after the handler's own acknowledgement `a`.
Drained(a, outcome) ==
  [c \in Callers |-> IF c \in Queued(queue) THEN outcome ELSE a[c]]

\* closeAdmission(failure): only the first call closes the channel and drains it.
CloseAdmission(a, outcome) ==
  /\ closing' = TRUE
  /\ IF closing
       THEN ack' = a /\ UNCHANGED queue
       ELSE ack' = Drained(a, outcome) /\ queue' = <<>>

-----------------------------------------------------------------------------
(* Jobs and timers *)

\* Job.cancel(): a coroutine not yet dispatched never runs; one that is inside
\* engine.speak() goes on until it notices.
CancelJobs(js) ==
  (jobs \ js) \cup {[j EXCEPT !.cancelled = TRUE] : j \in {k \in js : k.phase # "launched"}}

MutantNoCancel == UNCHANGED jobs
CancelPlaybackJob == jobs' = CancelJobs({j \in jobs : j.id = playbackJob})

\* What is left of the timer coroutines when timerJob (the one of version
\* timerVersion) is cancelled: it may be past its await, and then still posts.
TimersAfterCancel == {timers, timers \ {timerVersion}}

MutantUnfenced == UNCHANGED generation /\ CancelPlaybackJob /\ playbackJob' = None

\* invalidatePlayback() up to its call of engine.stop().
Invalidate ==
  /\ generation' = generation + 1
  /\ CancelPlaybackJob
  /\ playbackJob' = None

MutantNotSilenced == jobs

\* engine.stop() returned: whatever was being spoken is silent.
Silenced == {[j EXCEPT !.phase = IF @ = "speaking" THEN "stopped" ELSE @] : j \in jobs}

-----------------------------------------------------------------------------
(* Content source: a cursor over the segments, 0 before the first one *)

SegmentAt(s, i) == [source |-> s, index |-> i]

\* What current(), next(), previous() and seek() return as the new cursor, 0 for
\* null.
CurrentIndex(s)  == IF cursor[s] = 0 /\ SegmentCount[s] > 0 THEN 1 ELSE cursor[s]
MutantPastTheEnd(s) == IF cursor[s] = 0 THEN CurrentIndex(s) ELSE cursor[s] + 1
NextIndex(s) ==
  IF cursor[s] = 0 THEN CurrentIndex(s)
  ELSE IF cursor[s] < SegmentCount[s] THEN cursor[s] + 1 ELSE 0
PreviousIndex(s) == IF cursor[s] = 0 THEN CurrentIndex(s) ELSE cursor[s] - 1
SeekIndex(s, i)  == IF i \in 1..SegmentCount[s] THEN i ELSE 0

MutantRepeats(m, s) ==
  IF IsFinished(m) \/ m.command.op = "Start" THEN CurrentIndex(s)
  ELSE CASE m.command.op = "Next"     -> NextIndex(s)
         [] m.command.op = "Previous" -> PreviousIndex(s)
         [] m.command.op = "Seek"     -> SeekIndex(s, m.command.arg)

SourceIndex(m, s) ==
  IF IsFinished(m) THEN NextIndex(s)
  ELSE CASE m.command.op = "Start"    -> CurrentIndex(s)
         [] m.command.op = "Next"     -> NextIndex(s)
         [] m.command.op = "Previous" -> PreviousIndex(s)
         [] m.command.op = "Seek"     -> SeekIndex(s, m.command.arg)

MoveCursor(s, i) == cursor' = IF i = 0 THEN cursor ELSE [cursor EXCEPT ![s] = i]

-----------------------------------------------------------------------------
Init ==
  /\ closing = FALSE /\ queue = <<>> /\ delivered = None
  /\ ack = [c \in Callers |-> "none"]
  /\ cancelled = "none" /\ owner = "created" /\ current = None /\ target = None
  /\ state = Idle /\ source = None /\ hasOptions = FALSE
  /\ generation = 0 /\ playbackJob = None /\ jobs = {}
  /\ timerVersion = 0 /\ deadline = FALSE /\ timers = {}
  /\ cursor = [s \in Sources |-> 0] /\ closedSources = {}
  /\ highlight = None /\ progress = None
  /\ lost = {} /\ torn = {}

-----------------------------------------------------------------------------
(* Callers and the session's life cycle *)

Submit(c, m) ==
  /\ ack[c] = "none"
  /\ IF closing
       THEN ack' = Acknowledged(c, "rejected") /\ UNCHANGED <<queue, delivered>>
       ELSE ack' = Acknowledged(c, "pending") /\ Post(CommandMessage(c, m))
  /\ UNCHANGED <<closing, cancelled, owner, current, target, playback, timing, outside, history>>

\* close() / closeAndJoin(), first half.
RequestClose ==
  /\ ~closing
  /\ CloseAdmission(ack, "cancelled")
  /\ UNCHANGED <<delivered, cancelled, owner, current, target, playback, timing, outside, history>>

\* Cancellation reaches an owner suspended in its receive at once: it resumes only
\* to throw, what it was handed included.
AbortReceive ==
  owner' = IF owner = "wait" /\ (delivered # None \/ queue = <<>>) THEN "aborted" ELSE owner

\* ... second half: ownerJob.cancel(failure).
CancelOwner ==
  /\ closing /\ cancelled = "none" /\ owner # "dead"
  /\ cancelled' = "owner"
  /\ AbortReceive
  /\ UNCHANGED <<admission, current, target, playback, timing, outside, history>>

\* The reader's scope is cancelled: every coroutine of the session with it.
CancelScope ==
  /\ cancelled # "scope" /\ owner # "dead"
  /\ cancelled' = "scope"
  /\ AbortReceive
  /\ jobs' = CancelJobs(jobs)
  /\ timers' \in {timers, {}}
  /\ UNCHANGED <<admission, current, target, state, source, hasOptions, generation,
                 playbackJob, timerVersion, deadline, outside, history>>

OwnerStarts ==
  /\ owner = "created" /\ cancelled = "none"
  /\ owner' = "wait"
  /\ UNCHANGED <<admission, cancelled, current, target, playback, timing, outside, history>>

\* Cancelled before its first dispatch: only the completion handler runs.
OwnerNeverStarts ==
  /\ owner = "created" /\ cancelled # "none"
  /\ owner' = "dead"
  /\ CloseAdmission(ack, "cancelled")
  /\ UNCHANGED <<delivered, cancelled, current, target, playback, timing, outside, history>>

-----------------------------------------------------------------------------
(* The owner's loop *)

HasIncoming == owner = "wait" /\ (delivered # None \/ queue # <<>>)
Incoming    == IF delivered # None THEN delivered ELSE Head(queue)

Take ==
  /\ HasIncoming
  /\ IF delivered # None THEN delivered' = None /\ UNCHANGED queue
                         ELSE queue' = Tail(queue) /\ UNCHANGED delivered
  /\ UNCHANGED <<closing, cancelled, lost>>

\* The handler of `m` is done and the owner goes back to the channel.
Finish(m) ==
  /\ owner' = "wait" /\ current' = None /\ target' = None
  /\ ack' = IF IsCommand(m) THEN Acknowledged(m.caller, "ok") ELSE ack

\* The handler of `m` suspends in `place`, on its way to begin `segment`.
Suspend(m, place, segment) ==
  /\ owner' = place /\ current' = m /\ target' = segment
  /\ UNCHANGED ack

\* beginPlayback(segment) up to highlightSink.show().
BeginPlayback(m, segment) ==
  /\ state' = PlaybackState("Preparing", segment)
  /\ torn' = IF IsOp(m, {"Resume", "UpdateOptions"}) THEN torn \ {"silent"} ELSE {}
  /\ Suspend(m, "show", segment)

MutantLeakSource(s) == source' = s /\ hasOptions' = TRUE /\ UNCHANGED closedSources

AdoptSource(s) ==
  /\ closedSources' = IF source \in {None, s} THEN closedSources ELSE closedSources \cup {source}
  /\ source' = s
  /\ hasOptions' = TRUE

ReceiveStart ==
  /\ Take
  /\ IsOp(Incoming, {"Start"})
  /\ IF source # None \/ playbackJob # None \/ state.kind # "Idle"
       THEN /\ Invalidate
            /\ Suspend(Incoming, "engineStop", None)
            /\ UNCHANGED <<source, hasOptions, closedSources>>
       ELSE /\ generation' = generation + 1
            /\ AdoptSource(Incoming.command.arg)
            /\ Suspend(Incoming, "source", None)
            /\ UNCHANGED <<playbackJob, jobs>>
  /\ UNCHANGED <<state, timing, cursor, highlight, progress, torn>>

\* pause() and updateOptions() act only where the state names a segment.
ReceivePauseOrUpdate ==
  /\ Take
  /\ IsOp(Incoming, {"Pause", "UpdateOptions"})
  /\ hasOptions' = (hasOptions \/ Incoming.command.op = "UpdateOptions")
  /\ IF state.segment = None
       THEN Finish(Incoming) /\ UNCHANGED <<generation, playbackJob, jobs>>
       ELSE Invalidate /\ Suspend(Incoming, "engineStop", state.segment)
  /\ UNCHANGED <<state, source, timing, outside, torn>>

ReceiveResume ==
  /\ Take
  /\ IsOp(Incoming, {"Resume"})
  /\ IF state.kind = "Paused"
       THEN generation' = generation + 1 /\ BeginPlayback(Incoming, state.segment)
       ELSE Finish(Incoming) /\ UNCHANGED <<generation, state, torn>>
  /\ UNCHANGED <<source, hasOptions, playbackJob, jobs, timing, outside>>

\* next(), previous() and seek() ask the source first and touch playback after.
ReceiveMove ==
  /\ Take
  /\ IsOp(Incoming, {"Next", "Previous", "Seek"})
  /\ IF source = None THEN Finish(Incoming) ELSE Suspend(Incoming, "source", None)
  /\ UNCHANGED <<playback, timing, outside, torn>>

\* The coroutine a set deadline launches; in a cancelled scope it never runs.
ArmedTimer == {timerVersion + 1}

ReceiveTimer ==
  /\ Take
  /\ IsOp(Incoming, {"SetTimer", "ClearTimer"})
  /\ LET set == Incoming.command.op = "SetTimer" IN
       /\ timerVersion' = timerVersion + 1
       /\ deadline' = set
       /\ \E kept \in TimersAfterCancel :
            timers' = kept \cup IF set /\ cancelled # "scope" THEN ArmedTimer ELSE {}
  /\ Finish(Incoming)
  /\ UNCHANGED <<playback, outside, torn>>

ReceiveStop ==
  /\ Take
  /\ IsOp(Incoming, {"Stop"})
  /\ Invalidate
  /\ Suspend(Incoming, "engineStop", None)
  /\ UNCHANGED <<state, source, hasOptions, timing, outside, torn>>

MutantAnyVersion(m) == ~deadline

\* The timer was replaced or cancelled since.
Superseded(m) == m.version # timerVersion \/ ~deadline

MutantOnlyDisarms ==
  /\ Take
  /\ Incoming.type = "TimerExpired"
  /\ IF Superseded(Incoming)
       THEN UNCHANGED <<timerVersion, deadline>>
       ELSE timerVersion' = timerVersion + 1 /\ deadline' = FALSE
  /\ Finish(Incoming)
  /\ UNCHANGED <<playback, timers, outside, torn>>

\* handleTimerExpired: stale versions are dropped, the current one stops.
ReceiveExpired ==
  /\ Take
  /\ Incoming.type = "TimerExpired"
  /\ IF Superseded(Incoming)
       THEN Finish(Incoming) /\ UNCHANGED <<generation, playbackJob, jobs, timerVersion, deadline>>
       ELSE /\ timerVersion' = timerVersion + 1
            /\ deadline' = FALSE
            /\ Invalidate
            /\ Suspend(Incoming, "engineStop", None)
  /\ UNCHANGED <<state, source, hasOptions, timers, outside, torn>>

MutantNeverStale(m) == FALSE

Stale(m) == m.generation # generation

\* handlePlaybackFinished: the result of an older generation is dropped.
ReceiveFinished ==
  /\ Take
  /\ IsFinished(Incoming)
  /\ IF Stale(Incoming)
       THEN Finish(Incoming) /\ UNCHANGED <<state, playbackJob, highlight, torn>>
       ELSE /\ playbackJob' = None
            /\ \/ /\ Incoming.result = "Completed"
                  /\ Suspend(Incoming, "commit", None)
                  /\ UNCHANGED <<state, highlight, torn>>
               \/ /\ Incoming.result = "Cancelled"
                  /\ state' = PlaybackState("Paused", Incoming.segment)
                  /\ torn' = torn \ {"silent"}
                  /\ Finish(Incoming)
                  /\ UNCHANGED highlight
               \/ /\ Incoming.result = "Failed"
                  /\ state' = PlaybackState("Error", Incoming.segment)
                  /\ highlight' = None
                  /\ torn' = torn \ {"silent"}
                  /\ Finish(Incoming)
  /\ UNCHANGED <<source, hasOptions, generation, jobs, timing, cursor, closedSources, progress>>

-----------------------------------------------------------------------------
(* The suspended calls return *)

\* finally: admission is closed before the session is cleaned up.  `mine` is what
\* the handler's own acknowledgement got, `outcome` what queued commands get.
Terminate(mine, outcome) ==
  /\ CloseAdmission(IF current # None /\ IsCommand(current)
                      THEN Acknowledged(current.caller, mine) ELSE ack, outcome)
  /\ owner' = "cleanup" /\ current' = None /\ target' = None
  /\ generation' = generation + 1
  /\ CancelPlaybackJob
  /\ timers' \in TimersAfterCancel
  /\ UNCHANGED <<cancelled, state, source, hasOptions, playbackJob, timerVersion, deadline,
                 outside, torn>>

\* What a command that failed half-way leaves behind: "Playing" with nothing that
\* plays ("silent"), and a source that is not at the segment of the state ("skewed").
Damage ==
  (IF playbackJob = None /\ state.kind = "Playing" THEN {"silent"} ELSE {})
    \cup (IF \/ owner = "source" /\ IsOp(current, {"Start"})
             \/ owner = "engineStop" /\ IsOp(current, {"Next", "Previous", "Seek"})
            THEN {"skewed"} ELSE {})

\* A failure of an external call: the command gets it; a callback's ends the owner.
HandlerFails ==
  IF IsCommand(current)
    THEN /\ ack' = Acknowledged(current.caller, "failed")
         /\ owner' = "wait" /\ current' = None /\ target' = None
         /\ torn' = torn \cup Damage
         /\ UNCHANGED <<closing, queue, delivered, cancelled, playback, timing, outside, lost>>
    ELSE Terminate("failed", "failed") /\ UNCHANGED <<delivered, lost>>

SourceFails ==
  /\ owner = "source"
  /\ source \in closedSources \/ "source" \in Faults
  /\ HandlerFails

\* The source has nothing more: a Start or an exhausted source completes.
Exhausted ==
  IF IsOp(current, {"Next", "Previous", "Seek"})
    THEN UNCHANGED <<state, highlight, torn>>
    ELSE state' = Completed /\ highlight' = None /\ torn' = {}

SourceReturns ==
  /\ owner = "source" /\ source \notin closedSources
  /\ LET i == SourceIndex(current, source)
         s == SegmentAt(source, i) IN
       /\ MoveCursor(source, i)
       /\ \/ /\ i = 0
             /\ Exhausted
             /\ Finish(current)
             /\ UNCHANGED <<generation, playbackJob, jobs>>
          \/ /\ i # 0 /\ IsOp(current, {"Next", "Previous", "Seek"})
             /\ Invalidate
             /\ Suspend(current, "engineStop", s)
             /\ UNCHANGED <<state, highlight, torn>>
          \/ /\ i # 0 /\ ~IsOp(current, {"Next", "Previous", "Seek"})
             /\ BeginPlayback(current, s)
             /\ UNCHANGED <<generation, playbackJob, jobs, highlight>>
  /\ UNCHANGED <<closing, queue, delivered, cancelled, source, hasOptions, timing,
                 closedSources, progress, lost>>

EngineStopFails ==
  /\ owner = "engineStop" /\ "engineStop" \in Faults
  /\ HandlerFails

MutantKeepSource ==
  /\ closedSources' = IF source = None THEN closedSources ELSE closedSources \cup {source}
  /\ UNCHANGED source

\* source?.close(); source = null
ReleaseSource ==
  /\ closedSources' = IF source = None THEN closedSources ELSE closedSources \cup {source}
  /\ source' = None

\* stopOnOwner() after invalidatePlayback().
StopSession ==
  /\ timerVersion' = timerVersion + 1
  /\ timers' \in TimersAfterCancel
  /\ deadline' = FALSE
  /\ ReleaseSource
  /\ hasOptions' = FALSE
  /\ highlight' = None
  /\ state' = Idle /\ torn' = {}
  /\ Finish(current)

EngineStopReturns ==
  /\ owner = "engineStop"
  /\ jobs' = Silenced
  /\ \/ /\ IsOp(current, {"Start"})
        /\ AdoptSource(current.command.arg)
        /\ Suspend(current, "source", None)
        /\ UNCHANGED <<state, highlight, timing, torn>>
     \/ /\ IsOp(current, {"Pause"})
        /\ state' = PlaybackState("Paused", target)
        /\ torn' = torn \ {"silent"}
        /\ Finish(current)
        /\ UNCHANGED <<source, hasOptions, closedSources, highlight, timing>>
     \/ /\ IsOp(current, {"Next", "Previous", "Seek", "UpdateOptions"})
        /\ BeginPlayback(current, target)
        /\ UNCHANGED <<source, hasOptions, closedSources, highlight, timing>>
     \/ /\ IsOp(current, {"Stop"}) \/ current.type = "TimerExpired"
        /\ StopSession
  /\ UNCHANGED <<closing, queue, delivered, cancelled, generation, playbackJob, cursor,
                 progress, lost>>

CommitReturns ==
  /\ owner = "commit"
  /\ progress' = current.segment
  /\ Suspend(current, "source", None)
  /\ UNCHANGED <<closing, queue, delivered, cancelled, playback, timing, cursor, closedSources,
                 highlight, history>>

CommitFails ==
  /\ owner = "commit" /\ "commit" \in Faults
  /\ HandlerFails

\* The rest of beginPlayback(): the job is born cancelled in a cancelled scope.
ShowReturns ==
  /\ owner = "show"
  /\ highlight' = target
  /\ state' = PlaybackState("Playing", target)
  /\ playbackJob' = JobId(generation, target)
  /\ jobs' = IF cancelled = "scope" THEN jobs ELSE jobs \cup {NewJob(generation, target)}
  /\ Finish(current)
  /\ UNCHANGED <<closing, queue, delivered, cancelled, source, hasOptions, generation, timing,
                 cursor, closedSources, progress, history>>

\* A cancelled owner throws at its suspension point.  A message already handed to
\* it, but not dispatched, is dropped with it.
OwnerThrows ==
  /\ cancelled # "none"
  /\ owner \in {"aborted", "source", "engineStop", "commit", "show"} \/ (owner = "wait" /\ queue = <<>>)
  /\ Terminate("cancelled", "cancelled")
  /\ delivered' = None
  /\ lost' = IF delivered # None /\ IsCommand(delivered) THEN lost \cup {delivered.caller} ELSE lost

\* The closed channel is empty: the owner's loop throws its cause.
ChannelClosed ==
  /\ owner = "wait" /\ closing /\ delivered = None /\ queue = <<>>
  /\ Terminate("cancelled", "cancelled")
  /\ UNCHANGED <<delivered, lost>>

\* The NonCancellable cleanup, then the completion handler cancels what is left: if
\* engine.stop() throws, that is all that ends what is being spoken ("unstopped").
CleanupReturns ==
  /\ owner = "cleanup"
  /\ owner' = "dead"
  /\ ReleaseSource
  /\ highlight' = None /\ deadline' = FALSE /\ state' = Idle
  /\ \/ /\ jobs' = {[j EXCEPT !.cancelled = TRUE] : j \in {k \in Silenced : k.phase # "launched"}}
        /\ torn' = {}
     \/ /\ "engineStop" \in Faults
        /\ jobs' = CancelJobs(jobs)
        /\ torn' = {"unstopped"}
  /\ timers' \in {timers, {}}
  /\ UNCHANGED <<admission, cancelled, current, target, hasOptions, generation, playbackJob,
                 timerVersion, cursor, progress, lost>>

-----------------------------------------------------------------------------
(* Playback and timer coroutines *)

\* The channel is closed: trySend and send fail, the message is gone.
PostIfOpen(m) == IF closing THEN UNCHANGED <<queue, delivered>> ELSE Post(m)

JobSpeaks(j) ==
  /\ j.phase = "launched"
  /\ jobs' = (jobs \ {j}) \cup {[j EXCEPT !.phase = "speaking"]}
  /\ UNCHANGED <<admission, cancelled, owner, current, target, state, source, hasOptions,
                 generation, playbackJob, timing, outside, history>>

\* engine.speak() returned before the job noticed a cancellation, if there was one.
JobFinishes(j, r) ==
  /\ j.phase = "speaking" \/ (j.phase = "stopped" /\ r = "Cancelled")
  /\ jobs' = jobs \ {j}
  /\ PostIfOpen(FinishedMessage(j.id.generation, j.id.segment, r))
  /\ UNCHANGED <<closing, ack, cancelled, owner, current, target, state, source, hasOptions,
                 generation, playbackJob, timing, outside, history>>

JobAborts(j) ==
  /\ j.cancelled
  /\ jobs' = jobs \ {j}
  /\ UNCHANGED <<admission, cancelled, owner, current, target, state, source, hasOptions,
                 generation, playbackJob, timing, outside, history>>

TimerFires(v) ==
  /\ v \in timers
  /\ timers' = timers \ {v}
  /\ PostIfOpen(ExpiredMessage(v))
  /\ UNCHANGED <<closing, ack, cancelled, owner, current, target, playback, timerVersion,
                 deadline, outside, history>>

-----------------------------------------------------------------------------
OwnerReceives ==
  \/ ReceiveStart \/ ReceivePauseOrUpdate \/ ReceiveResume \/ ReceiveMove \/ ReceiveTimer
  \/ ReceiveStop \/ ReceiveExpired \/ ReceiveFinished

OwnerContinues ==
  \/ SourceReturns \/ SourceFails \/ EngineStopReturns \/ EngineStopFails
  \/ CommitReturns \/ CommitFails \/ ShowReturns

OwnerEnds == OwnerThrows \/ ChannelClosed \/ CleanupReturns \/ OwnerNeverStarts

OwnerStep == OwnerStarts \/ OwnerReceives \/ OwnerContinues \/ OwnerEnds

JobEnds(j) == JobAborts(j) \/ \E r \in Results : JobFinishes(j, r)

Next ==
  \/ \E c \in Callers, m \in Commands : Submit(c, m)
  \/ RequestClose \/ CancelOwner \/ CancelScope
  \/ OwnerStep
  \/ \E j \in jobs : JobSpeaks(j) \/ JobEnds(j)
  \/ \E v \in timers : TimerFires(v)

Spec == Init /\ [][Next]_vars

-----------------------------------------------------------------------------
(* Properties *)

StateKinds == {"Idle", "Preparing", "Playing", "Paused", "Completed", "Error"}

States     == [kind : StateKinds, segment : Segments \cup {None}]
JobRecords == [id : JobIds, phase : {"launched", "speaking", "stopped"}, cancelled : BOOLEAN]

Outcomes == {"none", "pending", "ok", "failed", "cancelled", "rejected"}

ChannelTypes ==
  /\ closing \in BOOLEAN
  /\ queue \in Seq(Messages)
  /\ delivered \in Messages \cup {None}
  /\ ack \in [Callers -> Outcomes]
  /\ lost \subseteq Callers

OwnerTypes ==
  /\ cancelled \in {"none", "owner", "scope"}
  /\ owner \in {"created", "wait", "aborted", "source", "engineStop", "commit", "show", "cleanup", "dead"}
  /\ current \in Messages \cup {None}
  /\ target \in Segments \cup {None}

PlaybackTypes ==
  /\ state \in States
  /\ source \in Sources \cup {None}
  /\ hasOptions \in BOOLEAN
  /\ generation \in Nat
  /\ playbackJob \in JobIds \cup {None}
  /\ jobs \subseteq JobRecords
  /\ torn \subseteq {"silent", "skewed", "unstopped"}

OutsideTypes ==
  /\ timerVersion \in Nat /\ deadline \in BOOLEAN /\ timers \subseteq Nat
  /\ cursor \in [Sources -> Nat]
  /\ \A s \in Sources : cursor[s] <= SegmentCount[s]
  /\ closedSources \subseteq Sources
  /\ highlight \in Segments \cup {None} /\ progress \in Segments \cup {None}

(* Every variable has its type; a cursor never runs past its source (34-66 of *)
(* the content sources).                                                      *)
TypeOK == ChannelTypes /\ OwnerTypes /\ PlaybackTypes /\ OutsideTypes

(* A result that the owner will act on, waiting in the channel or, at index 0, *)
(* in the hand-off to the owner.                                              *)
IsFresh(m)   == m # None /\ IsFinished(m) /\ m.generation = generation
MessageAt(i) == IF i = 0 THEN delivered ELSE queue[i]
Fresh == {i \in DOMAIN queue : IsFresh(queue[i])} \cup {i \in {0} : IsFresh(delivered)}

LiveJobs    == {j \in jobs : ~j.cancelled}
CurrentJobs == {j \in jobs : j.id.generation = generation}

(* A listener hears one voice: at most one playback can still report into the *)
(* current generation, be it a running job or a result waiting in the         *)
(* channel, and none while a handler replaces it (SpeechSession.kt 281-320).  *)
OneLivePlayback ==
  /\ LiveJobs \subseteq CurrentJobs
  /\ \A j, k \in CurrentJobs : j = k
  /\ \A i, k \in Fresh : i = k
  /\ CurrentJobs # {} => Fresh = {}
  /\ owner \in {"engineStop", "commit", "show"} => CurrentJobs = {} /\ Fresh = {}

(* "Playing" is never shown over silence: between commands the playing        *)
(* segment has a job or a result on its way, unless the last command          *)
(* failed half-way (torn), or the coroutines were cancelled from outside; and  *)
(* nothing plays when the state is another one.                               *)
PlayingIsLive ==
  owner = "wait" /\ cancelled # "scope" /\ ~closing =>
    IF state.kind = "Playing" /\ "silent" \notin torn
      THEN /\ \A j \in LiveJobs : j.id.segment = state.segment
           /\ \A i \in Fresh : MessageAt(i).segment = state.segment
           /\ LiveJobs # {} \/ Fresh # {}
      ELSE LiveJobs = {} /\ Fresh = {}

(* Progress is committed only for the segment the reader is at: not for one   *)
(* that a seek, a move, a pause or a stop has left (319-325); the source is   *)
(* at that segment too, unless a command failed between the two.              *)
CommitIsCurrent ==
  owner = "commit" =>
    /\ state = PlaybackState("Playing", current.segment)
    /\ "skewed" \notin torn => /\ current.segment = SegmentAt(source, cursor[source])
                              /\ source \notin closedSources

SomethingSpoken == \E j \in jobs : j.phase = "speaking"

(* Once pause, stop, completion or an error is shown, no request is being     *)
(* spoken, not even one that was cancelled (213-217, 268-286); nor once the    *)
(* session has ended, unless the last engine.stop() threw, and then whatever   *)
(* is still heard has been cancelled (173-182, 82-87).                        *)
Silence ==
  /\ owner = "wait" /\ state.kind \in {"Idle", "Paused", "Completed", "Error"} => ~SomethingSpoken
  /\ owner = "dead" => LiveJobs = {} /\ (SomethingSpoken => "unstopped" \in torn)

(* A published sleep deadline has exactly one coroutine or message of the     *)
(* current version behind it: the timer can neither be forgotten nor fire     *)
(* twice; and what stops the session is the timer of the last deadline, never *)
(* one that was replaced or cancelled and fired late (240-266).               *)
TimerArmed ==
  /\ owner = "wait" /\ deadline /\ cancelled # "scope" /\ ~closing =>
       LET expired == {i \in {0} \cup DOMAIN queue : MessageAt(i) = ExpiredMessage(timerVersion)}
       IN Cardinality(expired) = IF timerVersion \in timers THEN 0 ELSE 1
  /\ owner = "engineStop" /\ current.type = "TimerExpired" => timerVersion = current.version + 1

(* Every source that a Start has handed over, be it read or not, is closed     *)
(* when the session lets go of it (207, 178, 274), and the session lets go of *)
(* it before it ends; no playback is begun without options (298).             *)
NoLeakedSource ==
  /\ [][source' # source /\ source # None => source \in closedSources']_vars
  /\ [](owner = "dead" => source = None)
  /\ [](owner = "show" => hasOptions /\ source # None)

FollowingSegment(s) ==
  IF s.index < SegmentCount[s.source] THEN SegmentAt(s.source, s.index + 1) ELSE None

Interrupted ==
  \/ owner \in {"engineStop", "cleanup", "dead"}
  \/ owner = "source" /\ IsOp(current, {"Start"})
  \/ torn # {}

Playback == INSTANCE SpeechPlayback WITH
  Following   <- FollowingSegment,
  shown       <- state,
  heard       <- owner = "source" /\ IsFinished(current),
  interrupted <- Interrupted

(* The session implements the listener's view: whatever the interleaving of   *)
(* results, timers and commands, uninterrupted reading skips nothing, repeats *)
(* nothing and commits each segment before the next one begins.               *)
ReadsInOrder == Playback!Spec

-----------------------------------------------------------------------------
(* Liveness.  The owner is a coroutine that is dispatched and whose calls     *)
(* return or throw; a timer's delay ends; the two halves of close() are one   *)
(* call.  Callers, and how long a segment is spoken, are not constrained.     *)
Fairness ==
  /\ WF_vars(OwnerStep)
  /\ WF_vars(\E v \in timers : TimerFires(v))
  /\ WF_vars(CancelOwner)

FairSpec == Spec /\ Fairness

(* A command that was admitted is answered, except one lost in the hand-off   *)
(* to a cancelled owner (111-121).                                            *)
EveryCommandAnswered ==
  \A c \in Callers : ack[c] = "pending" ~> (ack[c] # "pending" \/ c \in lost)

Due == deadline /\ HasIncoming /\ Incoming = ExpiredMessage(timerVersion)

Stopped ==
  /\ state = Idle /\ source = None /\ LiveJobs = {}
  /\ owner # "dead" => ~SomethingSpoken

(* A sleep deadline that nobody replaces comes due, and once it is due the     *)
(* session stops: the voice is silent, the source closed, the state Idle,      *)
(* whatever the engine does and whoever closes the session (240-279).          *)
SleepTimerEnds ==
  /\ \A v \in 1..Cardinality(Callers) :
       (deadline /\ timerVersion = v) ~> (Due \/ timerVersion # v \/ ~deadline \/ cancelled = "scope")
  /\ Due ~> Stopped

(* close() and a cancelled scope end the owner, with source and state         *)
(* released (124-128, 171-183).                                               *)
CloseReleases ==
  (closing \/ cancelled # "none") ~> (owner = "dead" /\ source = None /\ state = Idle)

-----------------------------------------------------------------------------
(* What the source's comments promise and the code does not keep.             *)

(* The class comment's promise: "No admitted acknowledgement is left pending  *)
(* when the session terminates" (57-58).                                      *)
NoAckLeftPending == owner = "dead" => \A c \in Callers : ack[c] # "pending"
==============================================================================
