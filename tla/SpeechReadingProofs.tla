------------------------ MODULE SpeechReadingProofs ------------------------
(***************************************************************************)
(* What the listener of a session hears and what its reader sees, proved   *)
(* on top of the fence of SpeechSessionProofs: that the two agree, that    *)
(* what was replaced is silent, that progress and sleep timer belong to    *)
(* what is read now, and that the session implements SpeechPlayback.       *)
(***************************************************************************)
EXTENDS SpeechSessionProofs, FiniteSetTheorems

(* Where the owner is, by what the published state still says: the segment   *)
(* of the state may sound, has just ended, or is given up for another source. *)
Sounding  == Receiving \/ (owner = "source" /\ IsOp(current, Moves))
Finishing == owner = "commit" \/ (owner = "source" /\ IsFinished(current))
Starting  == owner = "source" /\ IsOp(current, {"Start"})
Moving    == owner = "engineStop" /\ IsOp(current, Moves)
Ending    == owner \in {"cleanup", "dead"}

(* The results in the channel that the owner will act on. *)
Pending == {m \in Waiting : IsFinished(m) /\ m.generation = generation}

Speaking == {j \in jobs : j.phase = "speaking"}
Echoes   == Speaking \ CurrentJobs

(* What can still report is the playback of the published segment. *)
Named ==
  /\ ~Quiet => playbackJob # None /\ "silent" \notin torn
  /\ \A j \in CurrentJobs : j.id.segment = state.segment
  /\ \A m \in Pending : m.segment = state.segment

(* Only a cancellation from outside or a failed command leaves "Playing"      *)
(* with nothing that can report.                                             *)
Alive ==
  /\ \A j \in jobs : j.phase = "launched" => ~j.cancelled
  /\ Sounding /\ state.kind = "Playing" /\ "silent" \notin torn /\ cancelled # "scope" /\ ~closing =>
       LiveJobs # {} \/ Pending # {}

(* What the state says where the owner is suspended. *)
Places ==
  /\ owner = "created" => state.kind = "Idle"
  /\ owner = "engineStop" \/ Starting => playbackJob = None
  /\ state.kind = "Preparing" => owner \in {"show", "cleanup", "dead"}
  /\ owner = "show" => state = PlaybackState("Preparing", target) /\ "silent" \notin torn
  /\ Finishing => state = PlaybackState("Playing", current.segment)
  /\ owner = "engineStop" /\ IsOp(current, {"Pause", "UpdateOptions"}) => target = state.segment

(* A replaced playback is heard only until engine.stop() has returned. *)
Echo ==
  /\ Echoes # {} /\ ~Ending =>
       state.kind = "Playing" /\ (owner = "engineStop" \/ "silent" \in torn)
  /\ owner = "show" \/ Finishing \/ Starting => Speaking = {}

(* The source is open and at this segment. *)
AtCursor(segment) ==
  /\ segment = SegmentAt(source, cursor[source])
  /\ cursor[source] # 0 /\ source \notin closedSources

(* The source is at the published segment, or at the one about to replace it. *)
Aligned ==
  /\ Moving => AtCursor(target)
  /\ state.segment # None /\ "skewed" \notin torn /\ ~Starting /\ ~Moving /\ ~Ending =>
       AtCursor(state.segment)

(* Before the owner runs there is nothing to hear or to close; when it has    *)
(* ended, the source is closed and only a failed engine.stop() leaves a sound. *)
Ended ==
  /\ owner = "created" => jobs = {}
  /\ owner \in {"created", "dead"} => source = None
  /\ owner = "dead" => Speaking = {} \/ "unstopped" \in torn

Reading == Named /\ Alive /\ Places /\ Echo /\ Aligned /\ Ended

-----------------------------------------------------------------------------
(* The results in the channel *)

LEMMA PendingFresh ==
  ASSUME ChannelTypes
  PROVE  /\ Fresh = {} <=> Pending = {}
         /\ \A i \in Fresh : MessageAt(i) \in Pending
<1>1. \A i \in Fresh : MessageAt(i) \in Pending
  BY QueueIndices DEF Fresh, IsFresh, MessageAt, Pending, Waiting
<1>2. \A m \in Pending : \E i \in {0} \cup DOMAIN queue : i \in Fresh
  BY QueueIndices DEF Fresh, IsFresh, Pending, Waiting
<1> QED BY <1>1, <1>2

LEMMA QuietPending ==
  ASSUME ChannelTypes
  PROVE  Quiet <=> CurrentJobs = {} /\ Pending = {}
  BY PendingFresh DEF Quiet

LEMMA TypedPrimed ==
  ASSUME TypeOK'
  PROVE  (Fresh = {} <=> Pending = {})' /\ (Quiet <=> CurrentJobs = {} /\ Pending = {})'
<1>1. ChannelTypes'
  BY DEF TypeOK
<1> QED BY <1>1, PendingFresh, QuietPending, PTL

-----------------------------------------------------------------------------
(* Named *)

(* With nothing left to report there is nothing to name. *)
LEMMA QuietNamed ==
  ASSUME TypeOK', Quiet'
  PROVE  Named'
<1>1. CurrentJobs' = {} /\ Pending' = {}
  BY TypedPrimed
<1> QED BY <1>1 DEF Named

(* Anywhere else than "Playing", and while a handler replaces the playback,   *)
(* nothing can report.                                                       *)
LEMMA GoneNamed ==
  ASSUME TypeOK', Live', ~Sounding' \/ state'.kind # "Playing"
  PROVE  Named'
<1>1. Quiet'
  BY DEF Live, Sounding
<1> QED BY <1>1, QuietNamed

(* A step within the published segment that begins no playback. *)
LEMMA SameNamed ==
  ASSUME TypeOK, TypeOK', Named, UNCHANGED <<state, generation, playbackJob>>,
         torn' = torn \/ playbackJob = None, Fewer,
         \A m \in Pending' : m \in Pending \/ \E j \in CurrentJobs : m.segment = j.id.segment
  PROVE  Named'
<1>1. \A j \in CurrentJobs' : \E k \in CurrentJobs : j.id = k.id
  BY DEF CurrentJobs, Fewer
<1>2. ~Quiet' => ~Quiet
  <2>1. CASE CurrentJobs' # {}
    BY <1>1, <2>1 DEF Quiet
  <2>2. CASE Pending' # {}
    BY <2>2, QuietPending DEF TypeOK
  <2> QED BY <2>1, <2>2, TypedPrimed
<1> QED BY <1>1, <1>2 DEF Named

LEMMA NoPendingAdded ==
  ASSUME Waiting' \subseteq Waiting, UNCHANGED generation
  PROVE  Pending' \subseteq Pending
  BY DEF Pending, IsFinished

LEMMA JobsKept ==
  ASSUME UNCHANGED jobs
  PROVE  Fewer
  BY DEF Fewer

LEMMA TakeSameNamed ==
  ASSUME TypeOK, TypeOK', Named, Take, UNCHANGED <<state, generation, playbackJob, jobs, torn>>
  PROVE  Named'
<1>1. Pending' \subseteq Pending
  BY TakeWaiting, NoPendingAdded DEF TypeOK
<1> QED BY <1>1, JobsKept, SameNamed

LEMMA ReceiveNamed ==
  ASSUME TypeOK, TypeOK', Control, Live, Live', Reading, OwnerReceives
  PROVE  Named'
<1>0. Named
  BY DEF Reading
<1>a. Sounding' /\ Take /\ UNCHANGED <<state, generation, playbackJob, jobs, torn>> => Named'
  BY <1>0, TakeSameNamed
<1>1. CASE ReceiveStart
  BY <1>1, GoneNamed DEF ReceiveStart, Suspend, Sounding, IsOp, IsCommand, Moves, Receiving
<1>2. CASE ReceivePauseOrUpdate
  BY <1>2, <1>a, GoneNamed DEF ReceivePauseOrUpdate, Suspend, Sounding, Receiving
<1>3. CASE ReceiveResume
  BY <1>3, <1>a, GoneNamed DEF ReceiveResume, BeginPlayback, Suspend, Sounding, Receiving
<1>4. CASE ReceiveMove
  BY <1>4, <1>a, GoneNamed DEF ReceiveMove, playback
<1>5. CASE ReceiveTimer
  BY <1>5, <1>a, GoneNamed DEF ReceiveTimer, playback
<1>6. CASE ReceiveStop
  BY <1>6, GoneNamed DEF ReceiveStop, Suspend, Sounding, Receiving
<1>7. CASE ReceiveExpired
  BY <1>7, <1>a, GoneNamed DEF ReceiveExpired, Suspend, Sounding, Receiving
<1>8. CASE ReceiveFinished
  <2>1. CASE Stale(Incoming)
    BY <1>8, <1>a, <2>1, GoneNamed DEF ReceiveFinished
  <2>2. CASE ~Stale(Incoming)
    BY <1>8, <2>2, GoneNamed DEF ReceiveFinished, Suspend, Sounding, PlaybackState, Receiving
  <2> QED BY <2>1, <2>2
<1> QED BY <1>1, <1>2, <1>3, <1>4, <1>5, <1>6, <1>7, <1>8 DEF OwnerReceives

(* The channel is not added to by a handler's return. *)
LEMMA ContinueWaiting ==
  ASSUME OwnerContinues
  PROVE  Waiting' \subseteq Waiting /\ delivered' = delivered /\ queue' \in {queue, <<>>}
<1>1. delivered' = delivered /\ queue' \in {queue, <<>>}
  BY DEF OwnerContinues, SourceReturns, SourceFails, EngineStopReturns, EngineStopFails,
         CommitReturns, CommitFails, ShowReturns, HandlerFails, Terminate, CloseAdmission
<1> QED BY <1>1 DEF Waiting

LEMMA ContinueNamed ==
  ASSUME TypeOK, TypeOK', Control, Live, Live', Reading, OwnerContinues
  PROVE  Named'
<1>0. Named /\ Waiting' \subseteq Waiting
  BY ContinueWaiting DEF Reading
<1>a. /\ UNCHANGED <<state, generation, playbackJob, jobs>>
      /\ torn' = torn \/ playbackJob = None
      => Named'
  BY <1>0, NoPendingAdded, JobsKept, SameNamed
<1>1. CASE SourceReturns
  <2> DEFINE i == SourceIndex(current, source)
             s == SegmentAt(source, i)
  <2> HIDE DEF i, s
  <2>1. CASE Exhausted /\ UNCHANGED <<generation, playbackJob, jobs>>
    BY <1>a, <2>1, GoneNamed DEF Exhausted, Completed, PlaybackState
  <2>2. CASE Suspend(current, "engineStop", s)
    BY <2>2, GoneNamed DEF Suspend, Sounding, Receiving
  <2>3. CASE BeginPlayback(current, s)
    BY <2>3, GoneNamed DEF BeginPlayback, Suspend, Sounding, Receiving
  <2> QED BY <1>1, <2>1, <2>2, <2>3 DEF SourceReturns, i, s
<1>2. CASE SourceFails \/ EngineStopFails \/ CommitFails
  <2>1. CASE IsCommand(current)
    <3>2. UNCHANGED <<state, generation, playbackJob, jobs, closing>> /\ torn' = torn \cup Damage
      BY <1>2, <2>1 DEF SourceFails, EngineStopFails, CommitFails, HandlerFails, playback
    <3>3. CASE playbackJob = None
      BY <1>a, <3>2, <3>3
    <3>4. CASE playbackJob # None
      <4>1. ~Starting /\ owner # "engineStop"
        BY <3>4 DEF Reading, Places
      <4>2. torn' = torn
        BY <3>2, <3>4, <4>1 DEF Damage, Starting
      <4> QED BY <1>a, <3>2, <4>2
    <3> QED BY <3>3, <3>4
  <2>2. CASE Terminate("failed", "failed")
    BY <2>2, GoneNamed DEF Terminate, Sounding, Receiving
  <2> QED BY <1>2, <2>1, <2>2 DEF SourceFails, EngineStopFails, CommitFails, HandlerFails
<1>3. CASE EngineStopReturns
  <2>1. CASE owner' = "source" /\ IsOp(current, {"Start"}) /\ UNCHANGED current
    BY <2>1, GoneNamed DEF Sounding, IsOp, IsCommand, Moves, Receiving
  <2>2. CASE owner' = "show" \/ state'.kind # "Playing"
    BY <2>2, GoneNamed DEF Sounding, Receiving
  <2> QED BY <1>3, <2>1, <2>2
          DEF EngineStopReturns, Suspend, BeginPlayback, StopSession, PlaybackState, Idle
<1>4. CASE CommitReturns
  <2>1. owner' = "source" /\ UNCHANGED current /\ IsFinished(current)
    BY <1>4, MessageFacts DEF CommitReturns, Suspend, Control
  <2> QED BY <2>1, GoneNamed DEF Sounding, IsOp, IsCommand, IsFinished, Receiving
<1>5. CASE ShowReturns
  <2>1. Quiet /\ UNCHANGED generation
    BY <1>5 DEF ShowReturns, Live, Receiving
  <2>2. Pending' = {} /\ CurrentJobs = {}
    BY <1>0, <2>1, QuietPending, NoPendingAdded DEF TypeOK
  <2>3. NewJob(generation, target).id.segment = target /\ JobId(generation, target) # None
    <3>1. JobId(generation, target) \in JobIds
      BY <1>5 DEF ShowReturns, Control, JobId, JobIds, TypeOK, PlaybackTypes
    <3> QED BY <3>1, SessionAssumption DEF NewJob, JobId
  <2>4. \A j \in CurrentJobs' : j = NewJob(generation, target)
    BY <1>5, <2>2 DEF ShowReturns, CurrentJobs
  <2>5. state'.segment = target /\ playbackJob' = JobId(generation, target) /\ torn' = torn
    BY <1>5 DEF ShowReturns, PlaybackState, history
  <2>6. "silent" \notin torn
    BY <1>5 DEF ShowReturns, Reading, Places
  <2> QED BY <2>2, <2>3, <2>4, <2>5, <2>6 DEF Named
<1> QED BY <1>1, <1>2, <1>3, <1>4, <1>5 DEF OwnerContinues

(* A step of somebody else than the owner. *)
Others ==
  \/ \E c \in Callers, m \in Commands : Submit(c, m)
  \/ RequestClose \/ CancelOwner \/ CancelScope
  \/ \E j \in jobs : JobSpeaks(j) \/ JobEnds(j)
  \/ \E v \in timers : TimerFires(v)
  \/ UNCHANGED vars

Undisturbed ==
  /\ SamePlace
  /\ UNCHANGED <<current, target, state, source, hasOptions, generation, playbackJob,
                 cursor, closedSources, progress, torn>>

LEMMA OthersUndisturbed == Others => Undisturbed
  BY AbortReceiveSame DEF Others, Undisturbed, SamePlace, Submit, RequestClose, CancelOwner, CancelScope, JobSpeaks, JobEnds,
         JobAborts, JobFinishes, TimerFires, vars, playback, outside, history

LEMMA SpeaksFewer ==
  ASSUME jobs \subseteq JobRecords, NEW j \in jobs, JobSpeaks(j)
  PROVE  Fewer
<1> DEFINE s == [j EXCEPT !.phase = "speaking"]
<1>1. s.id = j.id /\ s.cancelled = j.cancelled
  BY DEF JobRecords
<1>2. jobs' = (jobs \ {j}) \cup {s}
  BY DEF JobSpeaks
<1> HIDE DEF s
<1> QED BY <1>1, <1>2 DEF Fewer

LEMMA OthersFewer ==
  ASSUME TypeOK, Others
  PROVE  Fewer
<1>0. jobs \subseteq JobRecords
  BY DEF TypeOK, PlaybackTypes
<1>1. CASE CancelScope
  BY <1>0, <1>1, CancelJobsFewer DEF CancelScope
<1>2. CASE jobs' \subseteq jobs
  BY <1>2 DEF Fewer
<1> QED BY <1>0, <1>1, <1>2, SpeaksFewer
        DEF Others, Submit, RequestClose, CancelOwner, JobEnds, JobAborts, JobFinishes, TimerFires,
            vars, playback

(* A message that somebody posts, if it is a result of the current            *)
(* generation, is that of its playback.                                      *)
LEMMA OthersPending ==
  ASSUME TypeOK, Others
  PROVE  \A m \in Pending' : m \in Pending \/ \E j \in CurrentJobs : m.segment = j.id.segment
<1>0. UNCHANGED generation
  BY OthersUndisturbed DEF Undisturbed
<1>1. ASSUME NEW m \in Messages, Waiting' \subseteq Waiting \cup {m}, ~IsFinished(m)
      PROVE  Pending' \subseteq Pending
  BY <1>0, <1>1 DEF Pending, IsFinished
<1>2. ASSUME NEW j \in jobs, NEW r \in Results, JobFinishes(j, r)
      PROVE  \A m \in Pending' : m \in Pending \/ \E k \in CurrentJobs : m.segment = k.id.segment
  <2> DEFINE m == FinishedMessage(j.id.generation, j.id.segment, r)
  <2>1. m \in Messages /\ m.generation = j.id.generation /\ m.segment = j.id.segment
    BY DEF TypeOK, PlaybackTypes, JobRecords, JobIds, FinishedMessage, FinishedMessages, Messages
  <2>2. PostIfOpen(m)
    BY <1>2 DEF JobFinishes
  <2> HIDE DEF m
  <2>3. Waiting' \subseteq Waiting \cup {m}
    BY <2>1, <2>2, PostWaiting DEF PostIfOpen, Waiting, TypeOK
  <2> QED BY <1>0, <2>1, <2>3 DEF Pending, CurrentJobs, IsFinished
<1>3. ASSUME NEW c \in Callers, NEW m \in Commands, Submit(c, m) PROVE Pending' \subseteq Pending
  <2>1. CommandMessage(c, m) \in Messages /\ ~IsFinished(CommandMessage(c, m))
    BY DEF CommandMessage, CommandMessages, Messages, IsFinished
  <2>2. Waiting' \subseteq Waiting \cup {CommandMessage(c, m)}
    BY <1>3, <2>1, PostWaiting DEF Submit, Waiting, TypeOK
  <2> QED BY <1>1, <2>1, <2>2
<1>4. ASSUME NEW v \in timers, TimerFires(v) PROVE Pending' \subseteq Pending
  <2>1. ExpiredMessage(v) \in Messages /\ ~IsFinished(ExpiredMessage(v))
    BY DEF TypeOK, OutsideTypes, ExpiredMessage, ExpiredMessages, Messages, IsFinished
  <2>2. Waiting' \subseteq Waiting \cup {ExpiredMessage(v)}
    BY <1>4, <2>1, PostWaiting DEF TimerFires, PostIfOpen, Waiting, TypeOK
  <2> QED BY <1>1, <2>1, <2>2
<1>5. CASE UNCHANGED delivered /\ queue' \in {queue, <<>>}
  <2>1. Waiting' \subseteq Waiting
    BY <1>5 DEF Waiting
  <2> QED BY <1>0, <2>1, NoPendingAdded
<1> QED BY <1>2, <1>3, <1>4, <1>5
        DEF Others, RequestClose, CancelOwner, CancelScope, CloseAdmission, JobSpeaks, JobEnds,
            JobAborts, vars, admission

LEMMA OthersNamed ==
  ASSUME TypeOK, TypeOK', Reading, Others
  PROVE  Named'
  BY OthersUndisturbed, OthersFewer, OthersPending, SameNamed DEF Undisturbed, Reading

(* The handler is cancelled, or the channel closed, under the owner. *)
LEMMA TerminatesFrom ==
  ASSUME OwnerThrows \/ ChannelClosed
  PROVE  Terminate("cancelled", "cancelled")
  BY DEF OwnerThrows, ChannelClosed

LEMMA OwnerEndNamed ==
  ASSUME TypeOK, TypeOK', Live', Reading, OwnerStarts \/ OwnerEnds
  PROVE  Named'
<1>1. CASE OwnerStarts
  <2>1. UNCHANGED <<queue, delivered>>
    BY <1>1 DEF OwnerStarts, admission
  <2>2. Pending' \subseteq Pending
    BY <1>1, <2>1, NoPendingAdded DEF OwnerStarts, playback, Waiting
  <2> QED BY <1>1, <2>2, JobsKept, SameNamed DEF OwnerStarts, playback, history, Reading
<1>2. CASE OwnerEnds
  <2>1. owner' \in {"cleanup", "dead"}
    BY <1>2, TerminatesFrom DEF OwnerEnds, Terminate, CleanupReturns, OwnerNeverStarts
  <2> QED BY <2>1, GoneNamed DEF Sounding, Receiving
<1> QED BY <1>1, <1>2

LEMMA NextSplits ==
  ASSUME [Next]_vars
  PROVE  Others \/ OwnerReceives \/ OwnerContinues \/ OwnerStarts \/ OwnerEnds
  BY DEF Next, OwnerStep, Others

-----------------------------------------------------------------------------
(* Places *)

LEMMA OthersPlaces ==
  ASSUME Places, Undisturbed
  PROVE  Places'
  BY DEF Places, Undisturbed, SamePlace, Starting, Finishing, IsOp, IsCommand, IsFinished

(* Back at the channel, or at the end, there is no handler to speak of. *)
LEMMA IdlePlaces ==
  ASSUME owner' \in {"wait", "cleanup", "dead"}, owner' = "wait" => state'.kind # "Preparing"
  PROVE  Places'
  BY DEF Places, Starting, Finishing

LEMMA ReceivePlaces ==
  ASSUME TypeOK, Control, Live, Reading, OwnerReceives
  PROVE  Places'
<1>0. Incoming \in Messages /\ Take /\ owner = "wait" /\ state.kind # "Preparing"
  BY TakeTyped DEF TypeOK, OwnerReceives, ReceiveStart, ReceivePauseOrUpdate, ReceiveResume,
     ReceiveMove, ReceiveTimer, ReceiveStop, ReceiveExpired, ReceiveFinished, Take, HasIncoming,
     Reading, Places
<1>a. Finish(Incoming) /\ UNCHANGED state => Places'
  BY <1>0, IdlePlaces DEF Finish
<1>b. /\ Suspend(Incoming, "engineStop", None) /\ playbackJob' = None /\ UNCHANGED state
      /\ ~IsOp(Incoming, {"Pause", "UpdateOptions"})
      => Places'
  BY <1>0 DEF Places, Suspend, Starting, Finishing, IsOp, IsCommand
<1>1. CASE ReceiveStart
  <2>1. ~IsOp(Incoming, {"Pause", "UpdateOptions"}) /\ ~IsFinished(Incoming) /\ UNCHANGED state
    BY <1>1 DEF ReceiveStart, IsOp, IsCommand, IsFinished
  <2>2. CASE Suspend(Incoming, "source", None) /\ playbackJob = None /\ UNCHANGED playbackJob
    BY <1>0, <2>1, <2>2 DEF Places, Suspend, Starting, Finishing, IsFinished
  <2> QED BY <1>1, <1>b, <2>1, <2>2 DEF ReceiveStart, Invalidate
<1>2. CASE ReceivePauseOrUpdate
  <2>1. CASE Invalidate /\ Suspend(Incoming, "engineStop", state.segment)
    BY <1>0, <1>2, <2>1
       DEF ReceivePauseOrUpdate, Places, Invalidate, Suspend, Starting, Finishing
  <2> QED BY <1>2, <1>a, <2>1 DEF ReceivePauseOrUpdate
<1>3. CASE ReceiveResume
  <2>1. CASE state.kind = "Paused" /\ BeginPlayback(Incoming, state.segment)
    BY <1>3, <2>1
       DEF ReceiveResume, BeginPlayback, Suspend, Places, PlaybackState, Starting, Finishing
  <2> QED BY <1>3, <1>a, <2>1 DEF ReceiveResume
<1>4. CASE ReceiveMove
  <2>1. UNCHANGED state /\ IsOp(Incoming, Moves)
    BY <1>4 DEF ReceiveMove, playback, Moves
  <2>2. CASE Suspend(Incoming, "source", None)
    BY <1>0, <2>1, <2>2
       DEF Places, Suspend, Starting, Finishing, IsOp, IsCommand, IsFinished, Moves
  <2> QED BY <1>4, <1>a, <2>1, <2>2 DEF ReceiveMove
<1>5. CASE ReceiveTimer
  BY <1>5, <1>a DEF ReceiveTimer, playback
<1>6. CASE ReceiveStop
  BY <1>6, <1>b DEF ReceiveStop, Invalidate, IsOp
<1>7. CASE ReceiveExpired
  BY <1>7, <1>a, <1>b DEF ReceiveExpired, Invalidate, IsOp, IsCommand
<1>8. CASE ReceiveFinished
  <2>1. CASE Stale(Incoming)
    BY <1>8, <1>a, <2>1 DEF ReceiveFinished
  <2>2. CASE ~Stale(Incoming)
    <3>1. CASE Suspend(Incoming, "commit", None) /\ UNCHANGED state
      <4>1. ~Quiet
        BY <1>8, <2>2, TakeFresh DEF TypeOK, ReceiveFinished, Quiet
      <4>2. Incoming \in Pending
        BY <1>0, <1>8, <2>2, TakeShifts, QueueIndices
           DEF ReceiveFinished, Stale, Pending, Waiting, MessageAt, TypeOK
      <4>3. state.kind = "Playing" /\ state.segment = Incoming.segment
        BY <4>1, <4>2 DEF Live, Reading, Named
      <4>4. state = PlaybackState("Playing", Incoming.segment)
        BY <4>3 DEF TypeOK, PlaybackTypes, States, PlaybackState
      <4> QED BY <3>1, <4>3, <4>4 DEF Places, Suspend, Starting, Finishing
    <3>2. CASE /\ Finish(Incoming)
               /\ state' \in {PlaybackState("Paused", Incoming.segment),
                              PlaybackState("Error", Incoming.segment)}
      BY <3>2, IdlePlaces DEF Finish, PlaybackState
    <3> QED BY <1>8, <2>2, <3>1, <3>2 DEF ReceiveFinished
  <2> QED BY <2>1, <2>2
<1> QED BY <1>1, <1>2, <1>3, <1>4, <1>5, <1>6, <1>7, <1>8 DEF OwnerReceives

LEMMA BeginPlaces ==
  ASSUME NEW m, NEW segment, BeginPlayback(m, segment), "silent" \notin torn'
  PROVE  Places'
  BY DEF BeginPlayback, Suspend, Places, PlaybackState, Starting, Finishing

LEMMA ContinuePlaces ==
  ASSUME TypeOK, Control, Reading, OwnerContinues
  PROVE  Places'
<1>1. CASE SourceReturns
  <2> DEFINE i == SourceIndex(current, source)
             s == SegmentAt(source, i)
  <2>0. owner = "source" /\ state.kind # "Preparing"
    BY <1>1 DEF SourceReturns, Reading, Places
  <2> HIDE DEF i, s
  <2>1. CASE Exhausted /\ Finish(current)
    BY <2>0, <2>1, IdlePlaces DEF Exhausted, Finish, Completed, PlaybackState
  <2>2. CASE /\ IsOp(current, Moves) /\ Invalidate /\ Suspend(current, "engineStop", s)
             /\ UNCHANGED state
    BY <2>0, <2>2
       DEF Places, Invalidate, Suspend, Starting, Finishing, IsOp, IsCommand, Moves
  <2>3. CASE BeginPlayback(current, s) /\ ~IsOp(current, Moves)
    <3>1. torn' = {}
      BY <2>0, <2>3, MessageFacts
         DEF BeginPlayback, Control, IsOp, IsCommand, Moves
    <3> QED BY <2>3, <3>1, BeginPlaces
  <2> QED BY <1>1, <2>1, <2>2, <2>3 DEF SourceReturns, i, s, Moves
<1>2. CASE SourceFails \/ EngineStopFails \/ CommitFails
  <2>1. owner' \in {"wait", "cleanup"} /\ UNCHANGED state
    BY <1>2 DEF SourceFails, EngineStopFails, CommitFails, HandlerFails, Terminate, playback
  <2>2. state.kind # "Preparing"
    BY <1>2 DEF SourceFails, EngineStopFails, CommitFails, Reading, Places
  <2> QED BY <2>1, <2>2, IdlePlaces
<1>3. CASE EngineStopReturns
  <2>0. playbackJob' = None /\ current \in Messages /\ state.kind # "Preparing"
    BY <1>3 DEF EngineStopReturns, Reading, Places, Control
  <2>1. CASE Suspend(current, "source", None) /\ IsOp(current, {"Start"}) /\ UNCHANGED state
    BY <2>0, <2>1, MessageFacts
       DEF Places, Suspend, Starting, Finishing, IsOp, IsCommand, IsFinished
  <2>2. CASE BeginPlayback(current, target) /\ IsOp(current, Moves \cup {"UpdateOptions"})
    <3>1. "silent" \notin torn'
      BY <2>2 DEF BeginPlayback
    <3> QED BY <2>2, <3>1, BeginPlaces
  <2>3. CASE Finish(current) /\ state' \in {Idle, PlaybackState("Paused", target)}
    BY <2>3, IdlePlaces DEF Finish, Idle, PlaybackState
  <2> QED BY <1>3, <2>1, <2>2, <2>3 DEF EngineStopReturns, StopSession, Moves
<1>4. CASE CommitReturns
  <2>1. UNCHANGED <<state, current>> /\ owner' = "source" /\ owner = "commit"
    BY <1>4 DEF CommitReturns, Suspend, playback
  <2>2. IsFinished(current)
    BY <2>1, MessageFacts DEF Control
  <2> QED BY <2>1, <2>2
          DEF Reading, Places, Starting, Finishing, IsOp, IsCommand, IsFinished, PlaybackState
<1>5. CASE ShowReturns
  BY <1>5, IdlePlaces DEF ShowReturns, Finish, PlaybackState
<1> QED BY <1>1, <1>2, <1>3, <1>4, <1>5 DEF OwnerContinues

LEMMA OwnerEndPlaces ==
  ASSUME Reading, OwnerStarts \/ OwnerEnds
  PROVE  Places'
<1>1. CASE OwnerStarts
  BY <1>1, IdlePlaces DEF OwnerStarts, playback, Reading, Places
<1>2. CASE OwnerEnds
  BY <1>2, TerminatesFrom, IdlePlaces DEF OwnerEnds, Terminate, CleanupReturns, OwnerNeverStarts
<1> QED BY <1>1, <1>2

-----------------------------------------------------------------------------
(* Aligned *)

LEMMA OthersAligned ==
  ASSUME Aligned, Undisturbed
  PROVE  Aligned'
  BY DEF Aligned, Undisturbed, SamePlace, AtCursor, Moving, Starting, Ending, IsOp, IsCommand

LEMMA ReceiveAligned ==
  ASSUME TypeOK, Control, Live, Reading, OwnerReceives
  PROVE  Aligned'
<1>0. Incoming \in Messages /\ Take /\ owner = "wait" /\ Aligned
  BY TakeTyped DEF TypeOK, OwnerReceives, ReceiveStart, ReceivePauseOrUpdate, ReceiveResume,
     ReceiveMove, ReceiveTimer, ReceiveStop, ReceiveExpired, ReceiveFinished, Take, HasIncoming,
     Reading
<1>1. state.segment # None /\ "skewed" \notin torn => AtCursor(state.segment)
  BY <1>0 DEF Aligned, Starting, Moving, Ending
(* The source does not move; the state names the segment it named, or none.  *)
<1>a. ASSUME UNCHANGED <<source, cursor, closedSources>>,
             "skewed" \in torn => "skewed" \in torn',
             state'.segment \in {state.segment, None} 
      PROVE  ~Moving' => Aligned'
  BY <1>1, <1>a DEF Aligned, AtCursor
<1>2. CASE ReceiveStart
  <2>1. IsOp(Incoming, {"Start"}) /\ UNCHANGED <<state, torn, cursor>>
    BY <1>2 DEF ReceiveStart
  <2>2. CASE Suspend(Incoming, "engineStop", None) /\ UNCHANGED <<source, closedSources>>
    BY <1>a, <2>1, <2>2 DEF Suspend, Moving, IsOp, IsCommand, Moves
  <2>3. CASE Suspend(Incoming, "source", None)
    BY <2>1, <2>3 DEF Suspend, Aligned, Moving, Starting, IsOp, IsCommand
  <2> QED BY <1>2, <2>2, <2>3 DEF ReceiveStart
<1>3. CASE ReceivePauseOrUpdate
  <2>1. UNCHANGED <<source, cursor, closedSources, state, torn>>
    BY <1>3 DEF ReceivePauseOrUpdate, outside
  <2>2. ~Moving'
    BY <1>3 DEF ReceivePauseOrUpdate, Finish, Suspend, Moving, IsOp, IsCommand, Moves
  <2> QED BY <1>a, <2>1, <2>2
<1>4. CASE ReceiveResume
  <2>1. UNCHANGED <<source, cursor, closedSources>>
    BY <1>4 DEF ReceiveResume, outside
  <2>2. ~Moving' /\ state'.segment = state.segment /\ ("skewed" \in torn => "skewed" \in torn')
    BY <1>4 DEF ReceiveResume, Finish, BeginPlayback, Suspend, Moving, PlaybackState, IsOp, IsCommand
  <2> QED BY <1>a, <2>1, <2>2
<1>5. CASE ReceiveMove
  <2>1. UNCHANGED <<source, cursor, closedSources, state, torn>>
    BY <1>5 DEF ReceiveMove, outside, playback
  <2>2. ~Moving'
    BY <1>5 DEF ReceiveMove, Finish, Suspend, Moving
  <2> QED BY <1>a, <2>1, <2>2
<1>6. CASE ReceiveTimer
  BY <1>6, <1>a DEF ReceiveTimer, outside, playback, Finish, Moving
<1>7. CASE ReceiveStop
  BY <1>7, <1>a DEF ReceiveStop, outside, Suspend, Moving, IsOp, IsCommand, Moves
<1>8. CASE ReceiveExpired
  BY <1>8, <1>a DEF ReceiveExpired, outside, Finish, Suspend, Moving, IsOp, IsCommand
<1>9. CASE ReceiveFinished
  <2>1. UNCHANGED <<source, cursor, closedSources>> /\ ~Moving' /\ ("skewed" \in torn => "skewed" \in torn')
    BY <1>9 DEF ReceiveFinished, Finish, Suspend, Moving
  <2>2. state'.segment = state.segment
    <3>1. CASE UNCHANGED state
      BY <3>1
    <3>2. CASE ~Stale(Incoming) /\ state'.segment = Incoming.segment
      <4>1. Incoming \in Pending
        BY <1>0, <1>9, <3>2, TakeShifts, QueueIndices
           DEF ReceiveFinished, Stale, Pending, Waiting, MessageAt, TypeOK
      <4> QED BY <3>2, <4>1 DEF Reading, Named
    <3> QED BY <1>9, <3>1, <3>2 DEF ReceiveFinished, PlaybackState
  <2> QED BY <1>a, <2>1, <2>2
<1> QED BY <1>2, <1>3, <1>4, <1>5, <1>6, <1>7, <1>8, <1>9 DEF OwnerReceives

LEMMA ContinueAligned ==
  ASSUME TypeOK, Control, Reading, OwnerContinues
  PROVE  Aligned'
<1>0. Aligned
  BY DEF Reading
<1>a. ASSUME UNCHANGED <<source, cursor, closedSources>>,
             state.segment # None /\ "skewed" \notin torn => AtCursor(state.segment),
             "skewed" \in torn => "skewed" \in torn',
             state'.segment \in {state.segment, None}
      PROVE  ~Moving' => Aligned'
  BY <1>a DEF Aligned, AtCursor
<1>1. CASE SourceReturns
  <2> DEFINE i == SourceIndex(current, source)
             s == SegmentAt(source, i)
  <2>0. /\ owner = "source" /\ source \in Sources /\ source \notin closedSources
        /\ UNCHANGED <<source, closedSources>> /\ MoveCursor(source, i)
        /\ cursor \in [Sources -> Nat]
    BY <1>1 DEF SourceReturns, Control, TypeOK, PlaybackTypes, OutsideTypes
  <2>1. CASE i = 0 /\ Exhausted /\ Finish(current)
    <3>1. UNCHANGED cursor /\ owner' = "wait"
      BY <2>0, <2>1 DEF MoveCursor, Finish
    <3>2. CASE IsOp(current, Moves)
      <4>1. state.segment # None /\ "skewed" \notin torn => AtCursor(state.segment)
        BY <1>0, <2>0, <3>2 DEF Aligned, Starting, Moving, Ending, IsOp, Moves
      <4>2. UNCHANGED <<state, torn>>
        BY <2>1, <3>2 DEF Exhausted, Moves
      <4> QED BY <1>a, <2>0, <3>1, <4>1, <4>2 DEF Moving
    <3>3. CASE ~IsOp(current, Moves)
      BY <2>1, <3>1, <3>3 DEF Exhausted, Aligned, Moving, Completed, PlaybackState, Moves
    <3> QED BY <3>2, <3>3
  <2>2. i # 0 => /\ s = SegmentAt(source', cursor'[source'])
                 /\ cursor'[source'] # 0 /\ source' \notin closedSources'
    <3> HIDE DEF i
    <3> QED BY <2>0 DEF MoveCursor, SegmentAt
  <2> HIDE DEF i, s
  <2>3. CASE i # 0 /\ Suspend(current, "engineStop", s) /\ IsOp(current, Moves)
    <3>1. Moving' /\ target' = s
      BY <2>3 DEF Suspend, Moving, IsOp, IsCommand
    <3> QED BY <2>2, <2>3, <3>1 DEF Aligned, AtCursor
  <2>4. CASE i # 0 /\ BeginPlayback(current, s)
    <3>1. ~Moving' /\ state'.segment = s
      BY <2>4 DEF BeginPlayback, Suspend, Moving, PlaybackState
    <3> QED BY <2>2, <2>4, <3>1 DEF Aligned, AtCursor
  <2> QED BY <1>1, <2>1, <2>3, <2>4 DEF SourceReturns, i, s, Moves
<1>2. CASE SourceFails \/ EngineStopFails \/ CommitFails
  <2>1. CASE owner' = "cleanup"
    BY <2>1 DEF Aligned, Moving, Ending
  <2>2. CASE IsCommand(current) /\ owner' = "wait" /\ torn' = torn \cup Damage /\ HandlerFails
    <3>1. UNCHANGED <<state, source, cursor, closedSources>>
      BY <2>2 DEF HandlerFails, playback, outside
    <3>2. owner \in {"source", "engineStop", "commit"}
      BY <1>2 DEF SourceFails, EngineStopFails, CommitFails
    <3>3. CASE Starting \/ Moving
      <4>1. "skewed" \in torn'
        BY <2>2, <3>3 DEF Damage, Starting, Moving, Moves
      <4> QED BY <2>2, <4>1 DEF Aligned, Moving
    <3>4. CASE ~Starting /\ ~Moving
      BY <1>0, <1>a, <2>2, <3>1, <3>2, <3>4 DEF Aligned, Moving, Ending
    <3> QED BY <3>3, <3>4
  <2> QED BY <1>2, <2>1, <2>2 DEF SourceFails, EngineStopFails, CommitFails, HandlerFails, Terminate
<1>3. CASE EngineStopReturns
  <2>0. owner = "engineStop" /\ UNCHANGED cursor
    BY <1>3 DEF EngineStopReturns
  <2>1. CASE IsOp(current, {"Start"}) /\ Suspend(current, "source", None)
    BY <2>1 DEF Suspend, Aligned, Moving, Starting, IsOp, IsCommand
  <2>2. CASE IsOp(current, {"Pause"}) /\ state' = PlaybackState("Paused", target) /\ Finish(current)
             /\ torn' = torn \ {"silent"} /\ UNCHANGED <<source, closedSources>>
    <3>1. target = state.segment
      BY <2>0, <2>2 DEF Reading, Places, IsOp
    <3>2. ~Moving /\ ~Starting /\ ~Ending
      BY <2>0, <2>2 DEF Moving, Starting, Ending, IsOp, Moves
    <3> QED BY <1>0, <1>a, <2>0, <2>2, <3>1, <3>2 DEF Aligned, Finish, Moving, PlaybackState
  <2>3. CASE /\ IsOp(current, Moves \cup {"UpdateOptions"}) /\ BeginPlayback(current, target)
             /\ UNCHANGED <<source, closedSources>>
    <3>1. ~Moving' /\ state'.segment = target
      BY <2>3 DEF BeginPlayback, Suspend, Moving, PlaybackState
    <3>2. CASE Moving
      BY <1>0, <2>0, <2>3, <3>1, <3>2 DEF Aligned, AtCursor
    <3>3. CASE ~Moving
      <4>1. IsOp(current, {"UpdateOptions"})
        BY <2>0, <2>3, <3>3 DEF Moving, IsOp
      <4>2. target = state.segment
        BY <2>0, <4>1 DEF Reading, Places, IsOp
      <4>3. "skewed" \in torn => "skewed" \in torn'
        BY <2>3, <4>1 DEF BeginPlayback, IsOp
      <4>4. ~Starting /\ ~Ending
        BY <2>0 DEF Starting, Ending
      <4> QED BY <1>0, <1>a, <2>0, <2>3, <3>1, <3>3, <4>2, <4>3, <4>4 DEF Aligned
    <3> QED BY <3>2, <3>3
  <2>4. CASE StopSession
    BY <2>4 DEF StopSession, Finish, Aligned, Moving, Idle, PlaybackState
  <2> QED BY <1>3, <2>1, <2>2, <2>3, <2>4 DEF EngineStopReturns, Moves
<1>4. CASE CommitReturns
  <2>1. UNCHANGED <<source, cursor, closedSources, state, torn>> /\ owner = "commit" /\ owner' = "source"
    BY <1>4 DEF CommitReturns, Suspend, playback, history
  <2> QED BY <1>0, <1>a, <2>1 DEF Aligned, Moving, Starting, Ending
<1>5. CASE ShowReturns
  <2>1. UNCHANGED <<source, cursor, closedSources, torn>> /\ owner = "show" /\ owner' = "wait"
    BY <1>5 DEF ShowReturns, Finish, history
  <2>2. state'.segment = state.segment
    BY <1>5 DEF ShowReturns, PlaybackState, Reading, Places
  <2> QED BY <1>0, <1>a, <2>1, <2>2 DEF Aligned, Moving, Starting, Ending
<1> QED BY <1>1, <1>2, <1>3, <1>4, <1>5 DEF OwnerContinues

LEMMA OwnerEndAligned ==
  ASSUME Reading, OwnerStarts \/ OwnerEnds
  PROVE  Aligned'
<1>1. CASE OwnerStarts
  BY <1>1 DEF OwnerStarts, playback, outside, history, Reading, Aligned, AtCursor, Moving, Starting, Ending
<1>2. CASE OwnerEnds
  <2>1. owner' \in {"cleanup", "dead"}
    BY <1>2, TerminatesFrom DEF OwnerEnds, Terminate, CleanupReturns, OwnerNeverStarts
  <2> QED BY <2>1 DEF Aligned, Moving, Ending
<1> QED BY <1>1, <1>2

-----------------------------------------------------------------------------
(* Echo *)

(* Nothing begins to speak in jobs'. *)
Quieter == \A j \in Speaking' : \E k \in Speaking : j.id = k.id

LEMMA CancelJobsQuieter ==
  ASSUME jobs \subseteq JobRecords, NEW js \in SUBSET jobs, jobs' = CancelJobs(js),
         \A j \in jobs : j.phase = "launched" => ~j.cancelled
  PROVE  Quieter /\ \A j \in jobs' : j.phase = "launched" => ~j.cancelled
<1>1. \A k \in jobs : /\ [k EXCEPT !.cancelled = TRUE].id = k.id
                      /\ [k EXCEPT !.cancelled = TRUE].phase = k.phase
  BY DEF JobRecords
<1>2. \A j \in jobs' : \/ j \in jobs
                       \/ \E k \in jobs : j.id = k.id /\ j.phase = k.phase /\ k.phase # "launched"
  BY <1>1 DEF CancelJobs
<1> QED BY <1>2 DEF Quieter, Speaking

LEMMA SilencedQuiet ==
  ASSUME jobs \subseteq JobRecords, jobs' = Silenced,
         \A j \in jobs : j.phase = "launched" => ~j.cancelled
  PROVE  Speaking' = {} /\ \A j \in jobs' : j.phase = "launched" => ~j.cancelled
<1>1. \A k \in jobs : LET s == [k EXCEPT !.phase = IF @ = "speaking" THEN "stopped" ELSE @]
                      IN  /\ s.cancelled = k.cancelled
                          /\ s.phase # "speaking" /\ (s.phase = "launched" => k.phase = "launched")
  BY DEF JobRecords
<1>2. \A j \in jobs' : \E k \in jobs : /\ j.cancelled = k.cancelled /\ j.phase # "speaking"
                                       /\ j.phase = "launched" => k.phase = "launched"
  BY <1>1 DEF Silenced
<1> QED BY <1>2 DEF Speaking

LEMMA EchoesKept ==
  ASSUME Quieter, UNCHANGED generation
  PROVE  Echoes' # {} => Echoes # {}
  BY DEF Quieter, Echoes, Speaking, CurrentJobs

LEMMA SameQuieter ==
  ASSUME jobs' \subseteq jobs
  PROVE  Quieter
  BY DEF Quieter, Speaking

(* Where nothing but "Playing" can be heard. *)
LEMMA HeardPlaying ==
  ASSUME Live, Echo, ~Ending, Speaking # {}
  PROVE  state.kind = "Playing"
<1>1. Echoes # {} \/ CurrentJobs # {}
  BY DEF Echoes
<1> QED BY <1>1 DEF Live, Quiet, Echo

LEMMA OthersEcho ==
  ASSUME TypeOK, Live, Reading, Others
  PROVE  Echo'
<1>0. Undisturbed /\ Echo /\ jobs \subseteq JobRecords /\ \A j \in jobs : j.phase = "launched" => ~j.cancelled
  BY OthersUndisturbed DEF Reading, Alive, TypeOK, PlaybackTypes
<1>1. /\ Starting' = Starting /\ Finishing' = Finishing /\ Ending' = Ending
      /\ UNCHANGED <<state, torn, generation>> /\ SamePlace
  BY <1>0 DEF Undisturbed, SamePlace, Starting, Finishing, Ending, IsOp, IsCommand, IsFinished
<1>2. CASE Quieter
  <2>1. (Speaking' # {} => Speaking # {}) /\ (Echoes' # {} => Echoes # {})
    BY <1>1, <1>2, EchoesKept DEF Quieter
  <2> QED BY <1>0, <1>1, <2>1 DEF Echo, SamePlace
<1>3. ASSUME NEW j \in jobs, JobSpeaks(j) PROVE Echo'
  <2> DEFINE s == [j EXCEPT !.phase = "speaking"]
  <2>1. s.id = j.id
    BY <1>0 DEF JobRecords
  <2>2. jobs' = (jobs \ {j}) \cup {s} /\ j.phase = "launched"
    BY <1>3 DEF JobSpeaks
  <2>3. j \in CurrentJobs
    BY <1>0, <2>2 DEF Live, OneLivePlayback, LiveJobs
  <2>4. Receiving \/ (owner = "source" /\ IsOp(current, Moves))
    BY <2>3 DEF Live, Quiet
  <2>5. owner # "show" /\ ~Finishing /\ ~Starting
    BY <2>4 DEF Receiving, Finishing, Starting, IsOp, IsCommand, IsFinished, Moves
  <2> HIDE DEF s
  <2>6. Echoes' # {} => Echoes # {}
    BY <1>1, <2>1, <2>2, <2>3 DEF Echoes, Speaking, CurrentJobs
  <2> QED BY <1>0, <1>1, <2>5, <2>6 DEF Echo, SamePlace
<1>4. CASE CancelScope
  BY <1>0, <1>2, <1>4, CancelJobsQuieter DEF CancelScope
<1>5. CASE jobs' \subseteq jobs
  BY <1>2, <1>5, SameQuieter
<1> QED BY <1>3, <1>4, <1>5
        DEF Others, Submit, RequestClose, CancelOwner, JobEnds, JobAborts, JobFinishes, TimerFires,
            vars, playback

LEMMA InvalidateQuieter ==
  ASSUME TypeOK, Alive, Invalidate
  PROVE  Quieter
<1>1. jobs \subseteq JobRecords /\ \A j \in jobs : j.phase = "launched" => ~j.cancelled
  BY DEF TypeOK, PlaybackTypes, Alive
<1> QED BY <1>1, CancelJobsQuieter DEF Invalidate, CancelPlaybackJob

LEMMA InvalidateEcho ==
  ASSUME TypeOK, Live, Alive, Echo, ~Ending, Invalidate, owner' = "engineStop", UNCHANGED state
  PROVE  Echo'
<1>1. Echoes' # {} => state.kind = "Playing"
  BY InvalidateQuieter, HeardPlaying DEF Quieter, Echoes
<1> QED BY <1>1 DEF Echo, Starting, Finishing

LEMMA SilentEcho ==
  ASSUME Speaking' = {}
  PROVE  Echo'
  BY DEF Echo, Echoes

(* Nothing begins to speak, and nothing is replaced. *)
LEMMA SameEcho ==
  ASSUME Echo, owner \in {"wait", "source", "created"},
         owner' = "wait" \/ (owner' = "source" /\ IsOp(current', Moves)),
         UNCHANGED <<state, generation, jobs>>, torn \subseteq torn'
  PROVE  Echo'
<1>1. Echoes' = Echoes /\ ~Ending
  BY DEF Echoes, Speaking, CurrentJobs, Ending
<1>2. owner' # "show" /\ ~Finishing' /\ ~Starting'
  BY DEF Finishing, Starting, IsOp, IsCommand, IsFinished, Moves
<1> QED BY <1>1, <1>2 DEF Echo

LEMMA ReceiveEcho ==
  ASSUME TypeOK, Live, Reading, OwnerReceives
  PROVE  Echo'
<1>0. Incoming \in Messages /\ Take /\ owner = "wait" /\ ~Ending /\ Echo /\ Alive
  BY TakeTyped DEF TypeOK, OwnerReceives, ReceiveStart, ReceivePauseOrUpdate, ReceiveResume,
     ReceiveMove, ReceiveTimer, ReceiveStop, ReceiveExpired, ReceiveFinished, Take, HasIncoming,
     Reading, Ending
<1>a. CASE Invalidate /\ Suspend(Incoming, "engineStop", target') /\ UNCHANGED state
  BY <1>0, <1>a, InvalidateEcho DEF Suspend
<1>b. CASE Finish(Incoming) /\ UNCHANGED <<state, generation, jobs, torn>>
  BY <1>0, <1>b, SameEcho DEF Finish
<1>c. ASSUME Speaking = {}, UNCHANGED jobs PROVE Echo'
  <2>1. Speaking' = {}
    BY <1>c DEF Speaking
  <2> QED BY <2>1, SilentEcho
<1>1. CASE ReceiveStart
  <2>1. CASE state.kind = "Idle" /\ UNCHANGED jobs
    BY <1>0, <1>c, <2>1, HeardPlaying
  <2> QED BY <1>1, <1>a, <2>1 DEF ReceiveStart, Suspend
<1>2. CASE ReceivePauseOrUpdate
  BY <1>2, <1>a, <1>b DEF ReceivePauseOrUpdate, Suspend
<1>3. CASE ReceiveResume
  <2>1. CASE state.kind = "Paused"
    BY <1>0, <1>3, <1>c, <2>1, HeardPlaying DEF ReceiveResume
  <2> QED BY <1>3, <1>b, <2>1 DEF ReceiveResume
<1>4. CASE ReceiveMove
  <2>1. UNCHANGED <<state, generation, jobs, torn>> /\ IsOp(Incoming, Moves)
    BY <1>4 DEF ReceiveMove, playback, Moves
  <2>2. CASE Suspend(Incoming, "source", None)
    BY <1>0, <2>1, <2>2, SameEcho DEF Suspend
  <2> QED BY <1>4, <1>b, <2>1, <2>2 DEF ReceiveMove
<1>5. CASE ReceiveTimer
  BY <1>5, <1>b DEF ReceiveTimer, playback
<1>6. CASE ReceiveStop
  BY <1>6, <1>a DEF ReceiveStop, Suspend
<1>7. CASE ReceiveExpired
  BY <1>7, <1>a, <1>b DEF ReceiveExpired, Suspend
<1>8. CASE ReceiveFinished
  <2>1. CASE Stale(Incoming)
    BY <1>8, <1>b, <2>1 DEF ReceiveFinished
  <2>2. CASE ~Stale(Incoming)
    <3>1. Fresh # {} /\ UNCHANGED jobs
      BY <1>8, <2>2, TakeFresh DEF TypeOK, ReceiveFinished
    <3>2. CurrentJobs = {} /\ ~Quiet
      BY <3>1 DEF Live, OneLivePlayback, Quiet
    <3>3. Echoes = {}
      BY <1>0, <3>2 DEF Reading, Named, Echo
    <3> QED BY <1>c, <3>1, <3>2, <3>3 DEF Echoes
  <2> QED BY <2>1, <2>2
<1> QED BY <1>1, <1>2, <1>3, <1>4, <1>5, <1>6, <1>7, <1>8 DEF OwnerReceives

LEMMA ContinueEcho ==
  ASSUME TypeOK, Control, Live, Reading, OwnerContinues
  PROVE  Echo'
<1>0. /\ Echo /\ Alive /\ jobs \subseteq JobRecords
      /\ \A j \in jobs : j.phase = "launched" => ~j.cancelled
  BY DEF Reading, Alive, TypeOK, PlaybackTypes
<1>c. ASSUME Speaking = {}, UNCHANGED jobs PROVE Echo'
  <2>1. Speaking' = {}
    BY <1>c DEF Speaking
  <2> QED BY <2>1, SilentEcho
<1>1. CASE SourceReturns
  <2> DEFINE i == SourceIndex(current, source)
             s == SegmentAt(source, i)
  <2>0. owner = "source" /\ ~Ending
    BY <1>1 DEF SourceReturns, Ending
  <2> HIDE DEF i, s
  <2>1. CASE IsOp(current, Moves) /\ Exhausted /\ Finish(current) /\ UNCHANGED <<generation, jobs>>
    BY <1>0, <2>0, <2>1, SameEcho DEF Exhausted, Finish, Moves
  <2>2. CASE Invalidate /\ Suspend(current, "engineStop", s) /\ UNCHANGED state
    BY <1>0, <2>0, <2>2, InvalidateEcho DEF Suspend
  <2>3. CASE ~IsOp(current, Moves) /\ UNCHANGED jobs
    <3>1. Finishing \/ Starting
      BY <2>0, <2>3, MessageFacts DEF Control, Finishing, Starting, IsOp, Moves
    <3> QED BY <1>0, <1>c, <2>3, <3>1 DEF Echo
  <2> QED BY <1>1, <2>1, <2>2, <2>3 DEF SourceReturns, i, s, Moves
<1>2. CASE SourceFails \/ EngineStopFails \/ CommitFails
  <2>1. CASE owner' = "cleanup"
    BY <2>1 DEF Echo, Ending, Finishing, Starting
  <2>2. CASE owner' = "wait" /\ torn' = torn \cup Damage /\ UNCHANGED playback
    <3>1. Echoes' = Echoes /\ UNCHANGED state
      BY <2>2 DEF playback, Echoes, Speaking, CurrentJobs
    <3>2. owner \in {"source", "engineStop", "commit"} /\ ~Ending
      BY <1>2 DEF SourceFails, EngineStopFails, CommitFails, Ending
    <3>3. owner = "engineStop" /\ state.kind = "Playing" => "silent" \in torn'
      BY <2>2 DEF Damage, Reading, Places
    <3> QED BY <1>0, <2>2, <3>1, <3>2, <3>3 DEF Echo, Finishing, Starting
  <2> QED BY <1>2, <2>1, <2>2 DEF SourceFails, EngineStopFails, CommitFails, HandlerFails, Terminate
<1>3. CASE EngineStopReturns
  BY <1>0, <1>3, SilencedQuiet, SilentEcho DEF EngineStopReturns
<1>4. CASE CommitReturns
  BY <1>0, <1>4, <1>c DEF CommitReturns, Echo, Finishing, playback
<1>5. CASE ShowReturns
  <2>1. Speaking = {} /\ NewJob(generation, target).phase # "speaking"
    BY <1>0, <1>5 DEF ShowReturns, Echo, NewJob
  <2>2. Speaking' = {}
    BY <1>5, <2>1 DEF ShowReturns, Speaking
  <2> QED BY <2>2, SilentEcho
<1> QED BY <1>1, <1>2, <1>3, <1>4, <1>5 DEF OwnerContinues

LEMMA OwnerEndEcho ==
  ASSUME Reading, OwnerStarts \/ OwnerEnds
  PROVE  Echo'
<1>1. CASE OwnerStarts
  BY <1>1, SameEcho DEF OwnerStarts, playback, history, Reading
<1>2. CASE OwnerEnds
  <2>1. owner' \in {"cleanup", "dead"}
    BY <1>2, TerminatesFrom DEF OwnerEnds, Terminate, CleanupReturns, OwnerNeverStarts
  <2> QED BY <2>1 DEF Echo, Ending, Finishing, Starting
<1> QED BY <1>1, <1>2

-----------------------------------------------------------------------------
(* Alive *)

LEMMA TakeRest ==
  ASSUME ChannelTypes, Take
  PROVE  Waiting \subseteq Waiting' \cup {Incoming}
<1>1. CASE delivered # None
  BY <1>1 DEF Take, Incoming, Waiting
<1>2. CASE delivered = None
  <2>1. queue # <<>> /\ queue \in Seq(Messages) /\ queue' = Tail(queue) /\ delivered' = None
        /\ Incoming = Head(queue)
    BY <1>2 DEF Take, HasIncoming, ChannelTypes, Incoming
  <2>2. /\ Tail(queue) \in Seq(Messages) /\ Len(Tail(queue)) = Len(queue) - 1
        /\ \A i \in 1..Len(Tail(queue)) : Tail(queue)[i] = queue[i + 1]
        /\ Head(queue) = queue[1]
    BY <2>1, HeadTailProperties
  <2>3. /\ Len(queue) \in Nat /\ DOMAIN queue = 1..Len(queue)
        /\ DOMAIN Tail(queue) = 1..Len(Tail(queue))
    BY <2>1, <2>2, LenProperties
  <2>4. ASSUME NEW i \in DOMAIN queue, i # 1
        PROVE  i - 1 \in DOMAIN queue' /\ queue'[i - 1] = queue[i]
    BY <2>1, <2>2, <2>3, <2>4
  <2>5. \A i \in DOMAIN queue : queue[i] = Incoming \/ \E k \in DOMAIN queue' : queue'[k] = queue[i]
    BY <2>1, <2>2, <2>4
  <2> QED BY <1>2, <2>5 DEF Waiting
<1> QED BY <1>1, <1>2

LEMMA PostAdds ==
  ASSUME ChannelTypes, NEW m \in Messages, Post(m)
  PROVE  Waiting' = Waiting \cup {m}
<1>0. m # None /\ Waiting' \subseteq Waiting \cup {m}
  BY PostWaiting, SessionAssumption
<1>1. CASE delivered' = m /\ UNCHANGED queue /\ delivered = None
  BY <1>0, <1>1 DEF Waiting
<1>2. CASE queue' = Append(queue, m) /\ UNCHANGED delivered
  <2>1. /\ Append(queue, m) \in Seq(Messages) /\ Len(Append(queue, m)) = Len(queue) + 1
        /\ \A i \in 1..Len(queue) : Append(queue, m)[i] = queue[i]
        /\ Append(queue, m)[Len(queue) + 1] = m
    BY AppendProperties DEF ChannelTypes
  <2>2. DOMAIN queue' = 1..(Len(queue) + 1) /\ DOMAIN queue = 1..Len(queue) /\ Len(queue) \in Nat
    BY <1>2, <2>1, QueueIndices, LenProperties
  <2>3. \A i \in DOMAIN queue : i \in DOMAIN queue' /\ queue'[i] = queue[i]
    BY <1>2, <2>1, <2>2
  <2>4. Len(queue) + 1 \in DOMAIN queue' /\ queue'[Len(queue) + 1] = m
    BY <1>2, <2>1, <2>2
  <2> QED BY <1>0, <1>2, <2>3, <2>4 DEF Waiting
<1> QED BY <1>1, <1>2 DEF Post

Launched == \A j \in jobs : j.phase = "launched" => ~j.cancelled

LEMMA OthersLaunched ==
  ASSUME TypeOK, Launched, Others
  PROVE  Launched'
<1>0. jobs \subseteq JobRecords
  BY DEF TypeOK, PlaybackTypes
<1>1. CASE CancelScope
  BY <1>0, <1>1, CancelJobsQuieter DEF CancelScope, Launched
<1>2. CASE jobs' \subseteq jobs
  BY <1>2 DEF Launched
<1>3. ASSUME NEW j \in jobs, JobSpeaks(j) PROVE Launched'
  <2>1. [j EXCEPT !.phase = "speaking"].phase # "launched"
    BY <1>0 DEF JobRecords
  <2> QED BY <1>3, <2>1 DEF JobSpeaks, Launched
<1> QED BY <1>1, <1>2, <1>3
        DEF Others, Submit, RequestClose, CancelOwner, JobEnds, JobAborts, JobFinishes, TimerFires,
            vars, playback

LEMMA OwnerLaunched ==
  ASSUME TypeOK, Launched, OwnerReceives \/ OwnerContinues \/ OwnerStarts \/ OwnerEnds
  PROVE  Launched'
<1>0. jobs \subseteq JobRecords
  BY DEF TypeOK, PlaybackTypes
<1>1. CASE \E js \in SUBSET jobs : jobs' = CancelJobs(js)
  BY <1>0, <1>1, CancelJobsQuieter DEF Launched
<1>2. CASE CancelPlaybackJob
  BY <1>1, <1>2 DEF CancelPlaybackJob
<1>3. CASE jobs' = Silenced
  BY <1>0, <1>3, SilencedQuiet DEF Launched
<1>4. CASE UNCHANGED jobs
  BY <1>4 DEF Launched
<1>5. CASE jobs' = {[j EXCEPT !.cancelled = TRUE] : j \in {k \in Silenced : k.phase # "launched"}}
  <2>1. \A j \in Silenced : [j EXCEPT !.cancelled = TRUE].phase = j.phase
    BY <1>0, SilencedTyped DEF JobRecords
  <2> QED BY <1>5, <2>1 DEF Launched
<1>6. CASE jobs' = jobs \cup {NewJob(generation, target)}
  BY <1>6 DEF Launched, NewJob
<1>7. CASE OwnerReceives
  BY <1>2, <1>4, <1>7
     DEF OwnerReceives, ReceiveStart, ReceivePauseOrUpdate, ReceiveResume, ReceiveMove, ReceiveTimer,
         ReceiveStop, ReceiveExpired, ReceiveFinished, Invalidate, playback
<1>8. CASE OwnerContinues
  BY <1>2, <1>3, <1>4, <1>6, <1>8
     DEF OwnerContinues, SourceReturns, SourceFails, EngineStopReturns, EngineStopFails,
         CommitReturns, CommitFails, ShowReturns, HandlerFails, Terminate, Invalidate, playback
<1>9. CASE CleanupReturns
  BY <1>1, <1>5, <1>9 DEF CleanupReturns
<1> QED BY <1>2, <1>4, <1>7, <1>8, <1>9, TerminatesFrom
        DEF OwnerStarts, OwnerEnds, Terminate, OwnerNeverStarts, playback

(* The obligation of Alive, and the steps that keep what can report. *)
Reports == LiveJobs # {} \/ Pending # {}

LEMMA AliveByReports ==
  ASSUME Launched',
         Sounding' /\ state'.kind = "Playing" /\ "silent" \notin torn' /\ cancelled' # "scope" /\ ~closing'
           => Reports'
  PROVE  Alive'
  BY DEF Alive, Launched, Reports

LEMMA OthersReports ==
  ASSUME TypeOK, Live, Others, Reports, cancelled' # "scope", ~closing'
  PROVE  Reports'
<1>0. jobs \subseteq JobRecords /\ UNCHANGED generation
  BY OthersUndisturbed DEF Undisturbed, TypeOK, PlaybackTypes
<1>1. Waiting \subseteq Waiting' => Pending \subseteq Pending'
  BY <1>0 DEF Pending, IsFinished
<1>2. ASSUME NEW m \in Messages, Post(m) PROVE Pending \subseteq Pending' /\ m \in Waiting'
  BY <1>1, <1>2, PostAdds DEF TypeOK
<1>3. ASSUME NEW c \in Callers, NEW m \in Commands, Submit(c, m) PROVE Reports'
  <2>1. CommandMessage(c, m) \in Messages
    BY DEF CommandMessage, CommandMessages, Messages
  <2>2. Pending \subseteq Pending'
    BY <1>1, <1>2, <1>3, <2>1 DEF Submit, Waiting
  <2> QED BY <1>3, <2>2 DEF Submit, Reports, LiveJobs, playback
<1>4. CASE RequestClose \/ CancelScope
  BY <1>4 DEF RequestClose, CancelScope, CloseAdmission
<1>5. CASE CancelOwner \/ UNCHANGED vars
  <2>1. Waiting' = Waiting /\ UNCHANGED jobs
    BY <1>5 DEF CancelOwner, vars, admission, playback, Waiting
  <2> QED BY <1>1, <2>1 DEF Reports, LiveJobs
<1>6. ASSUME NEW j \in jobs, JobSpeaks(j) PROVE Reports'
  <2> DEFINE s == [j EXCEPT !.phase = "speaking"]
  <2>1. s.cancelled = j.cancelled
    BY <1>0 DEF JobRecords
  <2>2. jobs' = (jobs \ {j}) \cup {s} /\ Waiting' = Waiting
    BY <1>6 DEF JobSpeaks, admission, Waiting
  <2> HIDE DEF s
  <2> QED BY <1>1, <2>1, <2>2 DEF Reports, LiveJobs
<1>7. ASSUME NEW j \in jobs, JobAborts(j) PROVE Reports'
  <2>1. Waiting' = Waiting /\ LiveJobs' = LiveJobs
    BY <1>7 DEF JobAborts, admission, Waiting, LiveJobs
  <2> QED BY <1>1, <2>1 DEF Reports
<1>8. ASSUME NEW j \in jobs, NEW r \in Results, JobFinishes(j, r) PROVE Reports'
  <2> DEFINE m == FinishedMessage(j.id.generation, j.id.segment, r)
  <2>1. m \in Messages /\ IsFinished(m) /\ m.generation = j.id.generation
    BY <1>0 DEF JobRecords, JobIds, FinishedMessage, FinishedMessages, Messages, IsFinished
  <2>2. Post(m) /\ jobs' = jobs \ {j}
    BY <1>8 DEF JobFinishes, PostIfOpen
  <2> HIDE DEF m
  <2>3. Pending \subseteq Pending' /\ m \in Waiting'
    BY <1>2, <2>1, <2>2
  <2>4. CASE j \in LiveJobs
    <3>1. m \in Pending'
      BY <1>0, <2>1, <2>3, <2>4 DEF Pending, IsFinished, Live, OneLivePlayback, CurrentJobs
    <3> QED BY <3>1 DEF Reports
  <2>5. CASE j \notin LiveJobs
    BY <2>2, <2>3, <2>5 DEF Reports, LiveJobs
  <2> QED BY <2>4, <2>5
<1>9. ASSUME NEW v \in timers, TimerFires(v) PROVE Reports'
  <2>1. ExpiredMessage(v) \in Messages
    BY DEF TypeOK, OutsideTypes, ExpiredMessage, ExpiredMessages, Messages
  <2>2. Pending \subseteq Pending'
    BY <1>2, <1>9, <2>1 DEF TimerFires, PostIfOpen
  <2> QED BY <1>9, <2>2 DEF TimerFires, Reports, LiveJobs, playback
<1> QED BY <1>3, <1>4, <1>5, <1>6, <1>7, <1>8, <1>9 DEF Others, JobEnds

LEMMA OthersAlive ==
  ASSUME TypeOK, Live, Reading, Others
  PROVE  Alive'
<1>1. Undisturbed /\ Launched'
  BY OthersUndisturbed, OthersLaunched DEF Reading, Alive, Launched
<1>2. Sounding' = Sounding
  BY <1>1 DEF Undisturbed, Sounding, IsOp, IsCommand, Receiving, SamePlace
<1>3. (cancelled' # "scope" => cancelled # "scope") /\ (~closing' => ~closing)
  BY DEF Others, Submit, RequestClose, CancelOwner, CancelScope, CloseAdmission, JobSpeaks, JobEnds,
         JobAborts, JobFinishes, TimerFires, vars, admission
<1>4. Sounding /\ state.kind = "Playing" /\ "silent" \notin torn /\ cancelled # "scope" /\ ~closing
        => Reports
  BY DEF Reading, Alive, Reports
<1> QED BY <1>1, <1>2, <1>3, <1>4, OthersReports, AliveByReports DEF Undisturbed

(* A received message that changes no playback. *)
LEMMA TakeReports ==
  ASSUME TypeOK, Take, Reports, UNCHANGED <<generation, jobs>>, Incoming \notin Pending
  PROVE  Reports'
<1>1. Pending \subseteq Pending'
  BY TakeRest DEF TypeOK, Pending, IsFinished
<1> QED BY <1>1 DEF Reports, LiveJobs

LEMMA ReceiveAlive ==
  ASSUME TypeOK, Live, Reading, OwnerReceives
  PROVE  Alive'
<1>0. Take /\ owner = "wait" /\ UNCHANGED <<closing, cancelled>> /\ Launched'
  BY OwnerLaunched DEF OwnerReceives, ReceiveStart, ReceivePauseOrUpdate, ReceiveResume,
     ReceiveMove, ReceiveTimer, ReceiveStop, ReceiveExpired, ReceiveFinished, Take, HasIncoming,
     Reading, Alive, Launched
<1>a. ~Sounding' \/ state'.kind # "Playing" => Alive'
  BY <1>0, AliveByReports
<1>b. UNCHANGED <<state, generation, jobs, torn>> /\ Incoming \notin Pending => Alive'
  <2>1. state.kind = "Playing" /\ "silent" \notin torn /\ cancelled # "scope" /\ ~closing => Reports
    BY <1>0 DEF Reading, Alive, Reports, Sounding, Receiving
  <2> QED BY <1>0, <2>1, TakeReports, AliveByReports
<1>1. CASE ReceiveStart
  BY <1>1, <1>a DEF ReceiveStart, Suspend, Sounding, IsOp, IsCommand, Moves, Receiving
<1>2. CASE ReceivePauseOrUpdate
  BY <1>2, <1>a, <1>b DEF ReceivePauseOrUpdate, Suspend, Sounding, IsOp, IsCommand, Pending, IsFinished, Receiving
<1>3. CASE ReceiveResume
  BY <1>3, <1>a, <1>b
     DEF ReceiveResume, BeginPlayback, Suspend, Sounding, IsOp, IsCommand, Pending, IsFinished, Receiving
<1>4. CASE ReceiveMove
  BY <1>4, <1>b DEF ReceiveMove, playback, IsOp, IsCommand, Pending, IsFinished
<1>5. CASE ReceiveTimer
  BY <1>5, <1>b DEF ReceiveTimer, playback, IsOp, IsCommand, Pending, IsFinished
<1>6. CASE ReceiveStop
  BY <1>6, <1>a DEF ReceiveStop, Suspend, Sounding, Receiving
<1>7. CASE ReceiveExpired
  BY <1>7, <1>a, <1>b DEF ReceiveExpired, Suspend, Sounding, Pending, IsFinished, Receiving
<1>8. CASE ReceiveFinished
  <2>1. CASE Stale(Incoming)
    BY <1>8, <1>b, <2>1 DEF ReceiveFinished, Stale, Pending
  <2>2. CASE ~Stale(Incoming)
    BY <1>8, <1>a, <2>2 DEF ReceiveFinished, Suspend, Sounding, PlaybackState, Receiving
  <2> QED BY <2>1, <2>2
<1> QED BY <1>1, <1>2, <1>3, <1>4, <1>5, <1>6, <1>7, <1>8 DEF OwnerReceives

LEMMA ContinueAlive ==
  ASSUME TypeOK, Control, Live, Reading, OwnerContinues
  PROVE  Alive'
<1>0. Launched'
  BY OwnerLaunched DEF Reading, Alive, Launched
<1>a. ~Sounding' \/ state'.kind # "Playing" => Alive'
  BY <1>0, AliveByReports
<1>b. /\ owner = "source" /\ IsOp(current, Moves)
      /\ UNCHANGED <<state, generation, jobs, queue, delivered, closing, cancelled>>
      /\ torn \subseteq torn'
      => Alive'
  <2>1. /\ owner = "source" /\ IsOp(current, Moves) /\ state.kind = "Playing"
        /\ "silent" \notin torn /\ cancelled # "scope" /\ ~closing
        => Reports
    BY DEF Reading, Alive, Reports, Sounding
  <2>2. UNCHANGED <<generation, jobs, queue, delivered>> => Reports' = Reports
    BY DEF Reports, LiveJobs, Pending, Waiting, IsFinished
  <2> QED BY <1>0, <2>1, <2>2, AliveByReports
<1>1. CASE SourceReturns
  <2> DEFINE i == SourceIndex(current, source)
             s == SegmentAt(source, i)
  <2>0. owner = "source" /\ UNCHANGED <<queue, delivered, closing, cancelled>>
    BY <1>1 DEF SourceReturns
  <2> HIDE DEF i, s
  <2>1. CASE Exhausted /\ UNCHANGED <<generation, jobs>>
    BY <1>a, <1>b, <2>0, <2>1 DEF Exhausted, Completed, PlaybackState, Moves
  <2>2. CASE Suspend(current, "engineStop", s)
    BY <1>a, <2>2 DEF Suspend, Sounding, Receiving
  <2>3. CASE BeginPlayback(current, s)
    BY <1>a, <2>3 DEF BeginPlayback, Suspend, Sounding, Receiving
  <2> QED BY <1>1, <2>1, <2>2, <2>3 DEF SourceReturns, i, s
<1>2. CASE SourceFails \/ EngineStopFails \/ CommitFails
  <2>1. CASE IsCommand(current)
    <3>1. /\ UNCHANGED <<state, generation, jobs, playbackJob, queue, delivered, closing, cancelled>>
          /\ torn' = torn \cup Damage
      BY <1>2, <2>1 DEF SourceFails, EngineStopFails, CommitFails, HandlerFails, playback
    <3>2. CASE owner = "source" /\ IsOp(current, Moves)
      BY <1>b, <3>1, <3>2
    <3>3. CASE owner = "engineStop" \/ Starting
      <4>1. state.kind = "Playing" => "silent" \in torn'
        BY <3>1, <3>3 DEF Damage, Reading, Places
      <4> QED BY <1>0, <3>1, <4>1, AliveByReports
    <3>4. owner # "commit"
      BY <1>2, <2>1, MessageFacts DEF Control
    <3> QED BY <1>2, <2>1, <3>2, <3>3, <3>4, MessageFacts
            DEF SourceFails, EngineStopFails, CommitFails, Control, Starting, IsOp, Moves
  <2>2. CASE Terminate("failed", "failed")
    BY <1>a, <2>2 DEF Terminate, Sounding, Receiving
  <2> QED BY <1>2, <2>1, <2>2 DEF SourceFails, EngineStopFails, CommitFails, HandlerFails
<1>3. CASE EngineStopReturns
  <2>1. CASE owner' = "source" /\ IsOp(current, {"Start"}) /\ UNCHANGED current
    BY <1>a, <2>1 DEF Sounding, IsOp, IsCommand, Moves, Receiving
  <2>2. CASE owner' = "show" \/ state'.kind # "Playing"
    BY <1>a, <2>2 DEF Sounding, Receiving
  <2> QED BY <1>3, <2>1, <2>2
          DEF EngineStopReturns, Suspend, BeginPlayback, StopSession, PlaybackState, Idle
<1>4. CASE CommitReturns
  <2>1. owner' = "source" /\ UNCHANGED current /\ IsFinished(current)
    BY <1>4, MessageFacts DEF CommitReturns, Suspend, Control
  <2> QED BY <1>a, <2>1 DEF Sounding, IsOp, IsCommand, IsFinished, Receiving
<1>5. CASE ShowReturns
  <2>1. ~NewJob(generation, target).cancelled
    BY DEF NewJob
  <2>2. cancelled' # "scope" => LiveJobs' # {}
    BY <1>5, <2>1 DEF ShowReturns, LiveJobs
  <2> QED BY <1>0, <2>2, AliveByReports DEF Reports
<1> QED BY <1>1, <1>2, <1>3, <1>4, <1>5 DEF OwnerContinues

LEMMA OwnerEndAlive ==
  ASSUME TypeOK, Reading, OwnerStarts \/ OwnerEnds
  PROVE  Alive'
<1>0. Launched'
  BY OwnerLaunched DEF Reading, Alive, Launched
<1>1. CASE OwnerStarts
  BY <1>0, <1>1, AliveByReports DEF OwnerStarts, playback, Reading, Places
<1>2. CASE OwnerEnds
  <2>1. owner' \in {"cleanup", "dead"}
    BY <1>2, TerminatesFrom DEF OwnerEnds, Terminate, CleanupReturns, OwnerNeverStarts
  <2> QED BY <1>0, <2>1, AliveByReports DEF Sounding, Receiving
<1> QED BY <1>1, <1>2

-----------------------------------------------------------------------------
(* Ended *)

LEMMA OthersEnded ==
  ASSUME TypeOK, Live, Reading, Others
  PROVE  Ended'
<1>0. Undisturbed /\ Ended /\ jobs \subseteq JobRecords /\ Launched
  BY OthersUndisturbed DEF Reading, Alive, Launched, TypeOK, PlaybackTypes
<1>1. UNCHANGED <<source, torn>> /\ \A p \in {"created", "dead"} : owner' = p => owner = p
  BY <1>0 DEF Undisturbed, SamePlace
<1>2. owner \in {"created", "dead"} => jobs' \subseteq jobs
  <2>1. ASSUME NEW j \in jobs, JobSpeaks(j) PROVE owner \notin {"created", "dead"}
    <3>1. j \in CurrentJobs
      BY <1>0, <2>1 DEF JobSpeaks, Launched, Live, OneLivePlayback, LiveJobs
    <3> QED BY <3>1 DEF Live, Quiet, Receiving
  <2>2. CASE CancelScope
    <3>1. owner = "created" => jobs' = {}
      BY <1>0, <2>2 DEF CancelScope, CancelJobs, Ended
    <3> QED BY <2>2, <3>1 DEF CancelScope
  <2> QED BY <2>1, <2>2
          DEF Others, Submit, RequestClose, CancelOwner, JobEnds, JobAborts, JobFinishes, TimerFires,
              vars, playback
<1> QED BY <1>0, <1>1, <1>2 DEF Ended, Speaking

LEMMA OwnerEnded ==
  ASSUME TypeOK, Reading, OwnerReceives \/ OwnerContinues \/ OwnerStarts \/ OwnerEnds
  PROVE  Ended'
<1>0. jobs \subseteq JobRecords /\ Launched /\ Ended
  BY DEF Reading, Alive, Launched, TypeOK, PlaybackTypes
<1>1. CASE owner' \notin {"created", "dead"}
  BY <1>1 DEF Ended
<1>2. CASE OwnerNeverStarts
  BY <1>0, <1>2 DEF OwnerNeverStarts, playback, Ended, Speaking
<1>3. CASE CleanupReturns
  <2>1. owner' = "dead" /\ source' = None
    BY <1>3 DEF CleanupReturns, ReleaseSource
  <2>2. CASE jobs' = {[j EXCEPT !.cancelled = TRUE] : j \in {k \in Silenced : k.phase # "launched"}}
    <3>1. \A j \in Silenced : [j EXCEPT !.cancelled = TRUE].phase = j.phase
      BY <1>0, SilencedTyped DEF JobRecords
    <3>2. \A k \in jobs : [k EXCEPT !.phase = IF @ = "speaking" THEN "stopped" ELSE @].phase # "speaking"
      BY <1>0 DEF JobRecords
    <3>3. \A j \in Silenced : j.phase # "speaking"
      BY <3>2 DEF Silenced
    <3>4. \A j \in jobs' : j.phase # "speaking"
      BY <2>2, <3>1, <3>3
    <3> QED BY <2>1, <3>4 DEF Ended, Speaking
  <2>3. CASE torn' = {"unstopped"}
    BY <2>1, <2>3 DEF Ended
  <2> QED BY <1>3, <2>2, <2>3 DEF CleanupReturns
<1>4. CASE OwnerReceives
  BY <1>1, <1>4
     DEF OwnerReceives, ReceiveStart, ReceivePauseOrUpdate, ReceiveResume, ReceiveMove, ReceiveTimer,
         ReceiveStop, ReceiveExpired, ReceiveFinished, Finish, BeginPlayback, Suspend
<1>5. CASE OwnerContinues
  BY <1>1, <1>5
     DEF OwnerContinues, SourceReturns, SourceFails, EngineStopReturns, EngineStopFails,
         CommitReturns, CommitFails, ShowReturns, HandlerFails, Terminate, StopSession, Finish,
         BeginPlayback, Suspend
<1> QED BY <1>1, <1>2, <1>3, <1>4, <1>5, TerminatesFrom DEF OwnerStarts, OwnerEnds, Terminate

-----------------------------------------------------------------------------
(* What a listener and a reader are promised *)

LEMMA InitReading == Init => Reading
<1> SUFFICES ASSUME Init PROVE Reading OBVIOUS
<1>1. state.kind = "Idle" /\ state.segment = None
  BY DEF Init, Idle, PlaybackState
<1>2. Waiting = {} /\ jobs = {}
  BY DEF Init, Waiting
<1>3. Pending = {} /\ CurrentJobs = {} /\ Speaking = {}
  BY <1>2 DEF Pending, CurrentJobs, Speaking
<1>4. Fresh = {}
  BY DEF Init, Fresh, IsFresh
<1>5. Named
  BY <1>3, <1>4 DEF Named, Quiet
<1>6. Alive /\ Places /\ Echo /\ Aligned /\ Ended
  BY <1>1, <1>2, <1>3
     DEF Init, Alive, Places, Echo, Echoes, Aligned, Ended, Sounding, Receiving, Finishing, Starting,
         Moving
<1> QED BY <1>5, <1>6 DEF Reading

LEMMA NextReading == IInv /\ IInv' /\ Reading /\ [Next]_vars => Reading'
<1> SUFFICES ASSUME IInv, IInv', Reading, [Next]_vars PROVE Reading' OBVIOUS
<1>1. TypeOK /\ Control /\ Live /\ TypeOK' /\ Live'
  BY DEF IInv
<1>2. CASE Others
  <2>1. Undisturbed /\ Places /\ Aligned
    BY <1>2, OthersUndisturbed DEF Reading
  <2> QED BY <1>1, <1>2, <2>1, OthersNamed, OthersAlive, OthersPlaces, OthersEcho, OthersAligned,
          OthersEnded
          DEF Reading
<1>3. CASE OwnerReceives
  BY <1>1, <1>3, ReceiveNamed, ReceiveAlive, ReceivePlaces, ReceiveEcho, ReceiveAligned, OwnerEnded
     DEF Reading
<1>4. CASE OwnerContinues
  BY <1>1, <1>4, ContinueNamed, ContinueAlive, ContinuePlaces, ContinueEcho, ContinueAligned, OwnerEnded
     DEF Reading
<1>5. CASE OwnerStarts \/ OwnerEnds
  BY <1>1, <1>5, OwnerEndNamed, OwnerEndAlive, OwnerEndPlaces, OwnerEndEcho, OwnerEndAligned, OwnerEnded
     DEF Reading
<1> QED BY <1>2, <1>3, <1>4, <1>5, NextSplits

(* The strengthening of the three invariants below is kept by every step. *)
THEOREM ReadingKept == Spec => []Reading
  BY InitReading, NextReading, Inductive, PTL DEF Spec

LEMMA PlayingIsLiveHolds == IInv /\ Reading => PlayingIsLive
<1> SUFFICES ASSUME IInv, Reading, owner = "wait", cancelled # "scope", ~closing
             PROVE  IF state.kind = "Playing" /\ "silent" \notin torn
                      THEN /\ \A j \in LiveJobs : j.id.segment = state.segment
                           /\ \A i \in Fresh : MessageAt(i).segment = state.segment
                           /\ LiveJobs # {} \/ Fresh # {}
                      ELSE LiveJobs = {} /\ Fresh = {}
  BY DEF PlayingIsLive
<1>1. ChannelTypes /\ LiveJobs \subseteq CurrentJobs
  BY DEF IInv, TypeOK, Live, OneLivePlayback
<1>2. CASE state.kind = "Playing" /\ "silent" \notin torn
  <2>1. LiveJobs # {} \/ Pending # {}
    BY <1>2 DEF Reading, Alive, Sounding, Receiving
  <2> QED BY <1>1, <1>2, <2>1, PendingFresh DEF Reading, Named
<1>3. CASE ~(state.kind = "Playing" /\ "silent" \notin torn)
  <2>1. Quiet
    BY <1>3 DEF Reading, Named, IInv, Live
  <2> QED BY <1>1, <1>3, <2>1 DEF Quiet
<1> QED BY <1>2, <1>3

(* "Playing" is never shown over silence, and nothing plays under another     *)
(* state: between commands the playback that can still report is that of the  *)
(* published segment (beginPlayback, invalidatePlayback,                      *)
(* handlePlaybackFinished).                                                   *)
THEOREM ShownIsHeard == Spec => []PlayingIsLive
  BY Inductive, ReadingKept, PlayingIsLiveHolds, PTL

LEMMA CommitIsCurrentHolds == IInv /\ Reading => CommitIsCurrent
<1> SUFFICES ASSUME IInv, Reading, owner = "commit" PROVE CommitIsCurrent
  BY DEF CommitIsCurrent
<1>1. state = PlaybackState("Playing", current.segment)
  BY DEF Reading, Places, Finishing
<1>2. current.segment \in Segments
  BY MessageFacts DEF IInv, Control
<1>3. state.segment # None /\ state.segment = current.segment
  BY <1>1, <1>2, NotNone DEF PlaybackState
<1>4. "skewed" \notin torn => AtCursor(current.segment)
  BY <1>3 DEF Reading, Aligned, Starting, Moving, Ending
<1> QED BY <1>1, <1>4 DEF CommitIsCurrent, AtCursor

(* Only the segment the reader is at is committed as progress, with the       *)
(* source at it and still open (handlePlaybackFinished 319-325).              *)
THEOREM ProgressIsRead == Spec => []CommitIsCurrent
  BY Inductive, ReadingKept, CommitIsCurrentHolds, PTL

LEMMA SilenceHolds == IInv /\ Reading => Silence
<1> SUFFICES ASSUME IInv, Reading PROVE Silence OBVIOUS
<1>0. SomethingSpoken <=> Speaking # {}
  BY DEF SomethingSpoken, Speaking
<1>1. owner = "wait" /\ state.kind \in {"Idle", "Paused", "Completed", "Error"} => Speaking = {}
  BY HeardPlaying DEF IInv, Reading, Ending
<1>2. owner = "dead" => LiveJobs = {}
  BY DEF IInv, Live, OneLivePlayback, Quiet, Receiving
<1>3. owner = "dead" => Speaking = {} \/ "unstopped" \in torn
  BY DEF Reading, Ended
<1> QED BY <1>0, <1>1, <1>2, <1>3 DEF Silence

(* Once another state than "Playing" is shown no request is being spoken, not *)
(* even one that was replaced and had not yet noticed (engine.stop() in       *)
(* pause, stop and the moves); and a session that has ended has no playback   *)
(* that is not cancelled, and none that is still spoken unless the last       *)
(* engine.stop() threw (its cleanup, 171-183, and completion handler, 82-87). *)
THEOREM QuietWhenStopped == Spec => []Silence
  BY Inductive, ReadingKept, SilenceHolds, PTL

-----------------------------------------------------------------------------
(* Sources *)

(* A source that the session lets go of is closed in the same step. *)
LetGo == source' # source /\ source # None => source \in closedSources'

LEMMA NextLetsGo == [Next]_vars => LetGo
<1> SUFFICES ASSUME [Next]_vars PROVE LetGo OBVIOUS
<1>1. CASE UNCHANGED source
  BY <1>1 DEF LetGo
<1>2. ASSUME NEW s, AdoptSource(s) PROVE LetGo
  BY <1>2 DEF AdoptSource, LetGo
<1>3. CASE ReleaseSource
  BY <1>3 DEF ReleaseSource, LetGo
<1>4. CASE Others
  BY <1>1, <1>4, OthersUndisturbed DEF Undisturbed
<1>5. CASE OwnerReceives
  BY <1>1, <1>2, <1>5
     DEF OwnerReceives, ReceiveStart, ReceivePauseOrUpdate, ReceiveResume, ReceiveMove, ReceiveTimer,
         ReceiveStop, ReceiveExpired, ReceiveFinished, playback
<1>6. CASE EngineStopReturns
  BY <1>1, <1>2, <1>3, <1>6 DEF EngineStopReturns, StopSession
<1>7. CASE OwnerContinues
  BY <1>1, <1>6, <1>7
     DEF OwnerContinues, SourceReturns, SourceFails, EngineStopFails, CommitReturns, CommitFails,
         ShowReturns, HandlerFails, Terminate, playback
<1>8. CASE OwnerStarts \/ OwnerEnds
  BY <1>1, <1>3, <1>8, TerminatesFrom
     DEF OwnerStarts, OwnerEnds, Terminate, CleanupReturns, OwnerNeverStarts, playback
<1> QED BY <1>4, <1>5, <1>7, <1>8, NextSplits

(* Every source that a Start has handed over is closed in the step in which   *)
(* the session lets go of it, the session has let go of it when it ends, and  *)
(* no playback is begun without a source and options (207, 178, 274, 298).    *)
THEOREM SourcesClosed == Spec => NoLeakedSource
<1>1. [Next]_vars => [source' # source /\ source # None => source \in closedSources']_vars
  BY NextLetsGo DEF LetGo
<1>2. Reading => (owner = "dead" => source = None)
  BY DEF Reading, Ended
<1>3. IInv => (owner = "show" => hasOptions /\ source # None)
  BY DEF IInv, Control
<1> QED BY <1>1, <1>2, <1>3, Inductive, ReadingKept, PTL DEF Spec, NoLeakedSource

-----------------------------------------------------------------------------
(* The sleep timer *)

(* What the timer of the current version posts, and where it waits. *)
Tick    == ExpiredMessage(timerVersion)
Expired == {i \in {0} \cup DOMAIN queue : MessageAt(i) = Tick}

Armed ==
  /\ \A v \in timers : v <= timerVersion
  /\ \A m \in Waiting : m.type = "TimerExpired" => m.version <= timerVersion
  /\ \A i, k \in Expired : i = k
  /\ timerVersion \in timers => Expired = {}
  /\ deadline /\ cancelled # "scope" /\ ~closing => timerVersion \in timers \/ Expired # {}

LEMMA TickTyped ==
  ASSUME TypeOK
  PROVE  Tick \in Messages /\ Tick # None /\ Tick.type = "TimerExpired" /\ Tick.version = timerVersion
<1>1. Tick \in Messages
  BY DEF TypeOK, OutsideTypes, Tick, ExpiredMessage, ExpiredMessages, Messages
<1> QED BY <1>1, SessionAssumption DEF Tick, ExpiredMessage

LEMMA ExpiredWaits ==
  ASSUME TypeOK
  PROVE  Expired # {} <=> Tick \in Waiting
<1>1. 0 \notin DOMAIN queue
  BY QueueIndices DEF TypeOK
<1> QED BY <1>1, TickTyped DEF Expired, MessageAt, Waiting

LEMMA ExpiredWaitsPrimed ==
  ASSUME TypeOK'
  PROVE  (Expired # {} <=> Tick \in Waiting)'
  BY ExpiredWaits, PTL

LEMMA TakeExpired ==
  ASSUME TypeOK, TypeOK', Take, UNCHANGED timerVersion, \A i, k \in Expired : i = k
  PROVE  \A i, k \in Expired' : i = k
<1>1. PICK d \in {0, 1}, t \in Nat :
           /\ MessageAt(t) = Incoming /\ Incoming # None
           /\ delivered' = None
           /\ \A i \in DOMAIN queue' : /\ i \in Nat \ {0} /\ i + d \in DOMAIN queue /\ i + d # t
                                       /\ queue'[i] = queue[i + d]
  BY TakeShifts DEF TypeOK
<1>2. Tick' = Tick /\ Tick # None
  BY TickTyped DEF Tick, ExpiredMessage
<1>3. \A i \in Expired' : i \in Nat /\ i + d \in Expired
  BY <1>1, <1>2 DEF Expired, MessageAt
<1>4. \A i, k \in Nat : i + d = k + d => i = k
  BY <1>1
<1> QED BY <1>3, <1>4

LEMMA PostExpired ==
  ASSUME TypeOK, NEW m \in Messages, Post(m), UNCHANGED timerVersion
  PROVE  /\ m # Tick => Expired' = Expired
         /\ Expired = {} => \A i, k \in Expired' : i = k
<1>0. Tick' = Tick /\ Tick # None
  BY TickTyped DEF Tick, ExpiredMessage
<1>1. CASE delivered' = m /\ UNCHANGED queue /\ delivered = None /\ queue = <<>>
  BY <1>0, <1>1 DEF Expired, MessageAt
<1>2. CASE queue' = Append(queue, m) /\ UNCHANGED delivered
  <2>1. /\ Append(queue, m) \in Seq(Messages) /\ Len(Append(queue, m)) = Len(queue) + 1
        /\ \A i \in 1..Len(queue) : Append(queue, m)[i] = queue[i]
        /\ Append(queue, m)[Len(queue) + 1] = m
    BY AppendProperties DEF TypeOK, ChannelTypes
  <2>2. DOMAIN queue' = DOMAIN queue \cup {Len(queue) + 1} /\ Len(queue) \in Nat
        /\ DOMAIN queue = 1..Len(queue)
    BY <1>2, <2>1, QueueIndices, LenProperties DEF TypeOK
  <2>3. \A i \in DOMAIN queue' : queue'[i] = IF i = Len(queue) + 1 THEN m ELSE queue[i]
    BY <1>2, <2>1, <2>2
  <2>4. Len(queue) + 1 \notin {0} \cup DOMAIN queue
    BY <2>2
  <2>5. Expired' = Expired \cup {i \in {Len(queue) + 1} : m = Tick}
    BY <1>0, <1>2, <2>2, <2>3, <2>4 DEF Expired, MessageAt
  <2> QED BY <2>5
<1> QED BY <1>1, <1>2 DEF Post

(* A step that neither sets nor posts: timers may only go, and messages. *)
LEMMA FewerArmed ==
  ASSUME TypeOK, TypeOK', Armed, UNCHANGED timerVersion, timers' \subseteq timers,
         Take \/ (delivered' \in {delivered, None} /\ queue' \in {queue, <<>>}),
         deadline' /\ cancelled' # "scope" /\ ~closing' =>
           /\ deadline /\ cancelled # "scope" /\ ~closing
           /\ timers' = timers /\ (Tick \in Waiting => Tick \in Waiting')
  PROVE  Armed'
<1>1. Tick' = Tick
  BY DEF Tick, ExpiredMessage
<1>2. Waiting' \subseteq Waiting
  <2>1. CASE Take
    BY <2>1, TakeWaiting DEF TypeOK
  <2>2. CASE delivered' \in {delivered, None} /\ queue' \in {queue, <<>>}
    BY <2>2 DEF Waiting
  <2> QED BY <2>1, <2>2
<1>3. \A i, k \in Expired' : i = k
  <2>1. CASE delivered' \in {delivered, None} /\ queue' \in {queue, <<>>}
    <3>1. Expired' \subseteq Expired
      BY <1>1, <2>1, TickTyped DEF Expired, MessageAt
    <3> QED BY <3>1 DEF Armed
  <2> QED BY <2>1, TakeExpired DEF Armed
<1>4. Expired' # {} => Expired # {}
  BY <1>1, <1>2, ExpiredWaits, ExpiredWaitsPrimed
<1>5. Tick \in Waiting' => Expired' # {}
  BY <1>1, ExpiredWaitsPrimed
<1> QED BY <1>2, <1>3, <1>4, <1>5, ExpiredWaits DEF Armed

(* A new version is one that no coroutine and no message is of. *)
LEMMA NewVersionArmed ==
  ASSUME TypeOK, TypeOK', Armed, timerVersion' = timerVersion + 1, Waiting' \subseteq Waiting,
         timers' \subseteq timers \cup {timerVersion + 1},
         deadline' /\ cancelled' # "scope" => timerVersion + 1 \in timers'
  PROVE  Armed'
<1>1. timerVersion \in Nat /\ timers \subseteq Nat
  BY DEF TypeOK, OutsideTypes
<1>2. Tick'.type = "TimerExpired" /\ Tick'.version = timerVersion + 1
  BY DEF Tick, ExpiredMessage
<1>3. \A m \in Waiting : m.type = "TimerExpired" => m.version \in Nat
  BY WaitingTyped DEF TypeOK, Messages, CommandMessages, FinishedMessages, ExpiredMessages
<1>4. Tick' \notin Waiting'
  BY <1>1, <1>2, <1>3 DEF Armed
<1>5. Expired' = {}
  BY <1>4, ExpiredWaitsPrimed
<1> QED BY <1>1, <1>3, <1>5 DEF Armed

(* A message of something else, or of the timer that has just ended. *)
LEMMA PostArmed ==
  ASSUME TypeOK, TypeOK', Armed, UNCHANGED <<timerVersion, deadline, cancelled, closing>>,
         NEW m \in Messages, Post(m),
         \/ m.type # "TimerExpired" /\ UNCHANGED timers
         \/ \E v \in timers : m = ExpiredMessage(v) /\ timers' = timers \ {v}
  PROVE  Armed'
<1>1. Tick' = Tick /\ Tick.type = "TimerExpired"
  BY DEF Tick, ExpiredMessage
<1>2. Waiting' = Waiting \cup {m}
  BY PostAdds DEF TypeOK
<1>3. CASE m # Tick
  <2>1. Expired' = Expired
    BY <1>3, PostExpired
  <2>2. timerVersion \in timers' <=> timerVersion \in timers
    BY <1>3 DEF Tick
  <2>3. timers' \subseteq timers
    OBVIOUS
  <2>4. m.type = "TimerExpired" => m.version <= timerVersion
    BY DEF Armed, ExpiredMessage
  <2> QED BY <1>2, <2>1, <2>2, <2>3, <2>4 DEF Armed
<1>4. CASE m = Tick
  <2>1. PICK v \in timers : m = ExpiredMessage(v) /\ timers' = timers \ {v}
    BY <1>1, <1>4
  <2>2. v = timerVersion /\ m.version = timerVersion
    BY <1>4, <2>1 DEF Tick, ExpiredMessage
  <2>3. Expired = {} /\ timerVersion \notin timers' /\ timers' \subseteq timers
    BY <2>1, <2>2 DEF Armed
  <2>4. \A i, k \in Expired' : i = k
    BY <2>3, PostExpired
  <2>5. Expired' # {}
    BY <1>1, <1>2, <1>4, ExpiredWaitsPrimed
  <2>6. timerVersion \in Nat
    BY DEF TypeOK, OutsideTypes
  <2> QED BY <1>2, <2>2, <2>3, <2>4, <2>5, <2>6 DEF Armed
<1> QED BY <1>3, <1>4

LEMMA OthersArmed ==
  ASSUME TypeOK, TypeOK', Armed, Others
  PROVE  Armed'
<1>1. ASSUME NEW c \in Callers, NEW m \in Commands, Submit(c, m) PROVE Armed'
  <2>1. CommandMessage(c, m) \in Messages /\ CommandMessage(c, m).type # "TimerExpired"
    BY DEF CommandMessage, CommandMessages, Messages
  <2>2. CASE Post(CommandMessage(c, m))
    BY <1>1, <2>1, <2>2, PostArmed DEF Submit, timing
  <2>3. CASE UNCHANGED <<queue, delivered>>
    BY <1>1, <2>3, FewerArmed DEF Submit, timing, Waiting
  <2> QED BY <1>1, <2>2, <2>3 DEF Submit
<1>2. CASE RequestClose
  BY <1>2, FewerArmed DEF RequestClose, CloseAdmission, timing
<1>3. CASE CancelScope
  BY <1>3, FewerArmed DEF CancelScope, admission
<1>4. CASE CancelOwner \/ UNCHANGED vars \/ \E j \in jobs : JobSpeaks(j) \/ JobAborts(j)
  <2>1. UNCHANGED <<queue, delivered, closing, timerVersion, deadline, timers>>
        /\ (cancelled' # "scope" => cancelled # "scope")
    BY <1>4 DEF CancelOwner, JobSpeaks, JobAborts, vars, admission, timing
  <2> QED BY <2>1, FewerArmed DEF Waiting
<1>5. ASSUME NEW j \in jobs, NEW r \in Results, JobFinishes(j, r) PROVE Armed'
  <2> DEFINE m == FinishedMessage(j.id.generation, j.id.segment, r)
  <2>1. m \in Messages /\ m.type # "TimerExpired"
    BY DEF TypeOK, PlaybackTypes, JobRecords, JobIds, FinishedMessage, FinishedMessages, Messages
  <2>2. PostIfOpen(m) /\ UNCHANGED <<closing, cancelled, timerVersion, deadline, timers>>
    BY <1>5 DEF JobFinishes, timing
  <2> HIDE DEF m
  <2>3. CASE Post(m)
    BY <2>1, <2>2, <2>3, PostArmed
  <2>4. CASE UNCHANGED <<queue, delivered>>
    BY <2>2, <2>4, FewerArmed DEF Waiting
  <2> QED BY <2>2, <2>3, <2>4 DEF PostIfOpen
<1>6. ASSUME NEW v \in timers, TimerFires(v) PROVE Armed'
  <2>1. ExpiredMessage(v) \in Messages
    BY DEF TypeOK, OutsideTypes, ExpiredMessage, ExpiredMessages, Messages
  <2>2. CASE Post(ExpiredMessage(v))
    BY <1>6, <2>1, <2>2, PostArmed DEF TimerFires
  <2>3. CASE closing /\ UNCHANGED <<queue, delivered>>
    BY <1>6, <2>3, FewerArmed DEF TimerFires
  <2> QED BY <1>6, <2>2, <2>3 DEF TimerFires, PostIfOpen
<1> QED BY <1>1, <1>2, <1>3, <1>4, <1>5, <1>6 DEF Others, JobEnds

LEMMA ReceiveArmed ==
  ASSUME TypeOK, TypeOK', Armed, OwnerReceives
  PROVE  Armed'
<1>0. Take /\ Waiting' \subseteq Waiting /\ Waiting \subseteq Waiting' \cup {Incoming}
      /\ UNCHANGED <<cancelled, closing>>
  BY TakeWaiting, TakeRest DEF TypeOK, OwnerReceives, ReceiveStart, ReceivePauseOrUpdate,
     ReceiveResume, ReceiveMove, ReceiveTimer, ReceiveStop, ReceiveExpired, ReceiveFinished, Take
<1>a. ASSUME UNCHANGED <<timerVersion, deadline, timers>>, Incoming = Tick => ~deadline PROVE Armed'
  BY <1>0, <1>a, FewerArmed
<1>1. CASE ReceiveTimer
  <2>1. timerVersion' = timerVersion + 1 /\ timers' \subseteq timers \cup {timerVersion + 1}
    BY <1>1 DEF ReceiveTimer, TimersAfterCancel, ArmedTimer
  <2>2. deadline' /\ cancelled' # "scope" => timerVersion + 1 \in timers'
    BY <1>0, <1>1 DEF ReceiveTimer, ArmedTimer
  <2> QED BY <1>0, <2>1, <2>2, NewVersionArmed
<1>2. CASE ReceiveExpired
  <2>1. CASE Incoming.version # timerVersion \/ ~deadline
    BY <1>2, <1>a, <2>1, TickTyped DEF ReceiveExpired, Superseded
  <2>2. CASE timerVersion' = timerVersion + 1 /\ deadline' = FALSE
    BY <1>0, <1>2, <2>2, NewVersionArmed DEF ReceiveExpired
  <2> QED BY <1>2, <2>1, <2>2 DEF ReceiveExpired, Superseded
<1>3. CASE ~ReceiveTimer /\ ~ReceiveExpired
  <2>1. UNCHANGED timing /\ Incoming.type # "TimerExpired"
    BY <1>3 DEF OwnerReceives, ReceiveStart, ReceivePauseOrUpdate, ReceiveResume, ReceiveMove,
       ReceiveStop, ReceiveFinished, IsOp, IsCommand, IsFinished
  <2> QED BY <1>a, <2>1, TickTyped DEF timing
<1> QED BY <1>1, <1>2, <1>3

LEMMA TerminateArmed ==
  ASSUME TypeOK, TypeOK', Armed, NEW mine, NEW r, Terminate(mine, r), delivered' \in {delivered, None}
  PROVE  Armed'
  BY FewerArmed DEF Terminate, CloseAdmission, TimersAfterCancel

LEMMA ContinueArmed ==
  ASSUME TypeOK, TypeOK', Armed, OwnerContinues
  PROVE  Armed'
<1>0. Waiting' \subseteq Waiting
  BY ContinueWaiting
<1>a. ASSUME UNCHANGED <<timerVersion, deadline, timers, queue, delivered, cancelled, closing>>
      PROVE  Armed'
  BY <1>a, FewerArmed DEF Waiting
<1>1. CASE SourceFails \/ EngineStopFails \/ CommitFails
  BY <1>1, <1>a, TerminateArmed
     DEF SourceFails, EngineStopFails, CommitFails, HandlerFails, timing
<1>2. CASE EngineStopReturns
  <2>1. CASE StopSession
    BY <1>0, <2>1, NewVersionArmed DEF StopSession, TimersAfterCancel
  <2> QED BY <1>2, <1>a, <2>1 DEF EngineStopReturns, timing
<1> QED BY <1>1, <1>2, <1>a
        DEF OwnerContinues, SourceReturns, CommitReturns, ShowReturns, timing

LEMMA OwnerEndArmed ==
  ASSUME TypeOK, TypeOK', Armed, OwnerStarts \/ OwnerEnds
  PROVE  Armed'
<1>1. CASE OwnerStarts
  BY <1>1, FewerArmed DEF OwnerStarts, admission, timing, Waiting
<1>2. CASE OwnerThrows \/ ChannelClosed
  BY <1>2, TerminatesFrom, TerminateArmed DEF OwnerThrows, ChannelClosed
<1>3. CASE OwnerNeverStarts
  BY <1>3, FewerArmed DEF OwnerNeverStarts, CloseAdmission, timing
<1>4. CASE CleanupReturns
  BY <1>4, FewerArmed DEF CleanupReturns, admission
<1> QED BY <1>1, <1>2, <1>3, <1>4 DEF OwnerEnds

(* The timer that stops the session was of the version it has just ended. *)
LastDeadline ==
  owner = "engineStop" /\ current.type = "TimerExpired" => timerVersion = current.version + 1

LEMMA NextLastDeadline == LastDeadline /\ [Next]_vars => LastDeadline'
<1> SUFFICES ASSUME LastDeadline, [Next]_vars PROVE LastDeadline' OBVIOUS
<1>1. CASE Others
  <2>1. Undisturbed /\ UNCHANGED timerVersion
    BY <1>1, OthersUndisturbed
       DEF Others, Submit, RequestClose, CancelOwner, CancelScope, JobSpeaks, JobEnds, JobAborts,
           JobFinishes, TimerFires, vars, timing
  <2> QED BY <2>1 DEF LastDeadline, Undisturbed, SamePlace
<1>2. CASE owner' # "engineStop" \/ current'.type # "TimerExpired"
  BY <1>2 DEF LastDeadline
<1>3. CASE ReceiveExpired
  <2>1. CASE Superseded(Incoming)
    BY <1>2, <1>3, <2>1 DEF ReceiveExpired, Finish
  <2>2. CASE ~Superseded(Incoming)
    BY <1>3, <2>2 DEF ReceiveExpired, Superseded, Suspend, LastDeadline
  <2> QED BY <2>1, <2>2
<1>4. CASE OwnerReceives
  BY <1>2, <1>3, <1>4
     DEF OwnerReceives, ReceiveStart, ReceivePauseOrUpdate, ReceiveResume, ReceiveMove, ReceiveTimer,
         ReceiveStop, ReceiveFinished, Finish, BeginPlayback, Suspend, IsOp, IsCommand
<1>5. CASE OwnerContinues
  BY <1>2, <1>5
     DEF OwnerContinues, SourceReturns, SourceFails, EngineStopReturns, EngineStopFails,
         CommitReturns, CommitFails, ShowReturns, HandlerFails, Terminate, StopSession, Finish,
         BeginPlayback, Suspend, IsOp, IsCommand
<1>6. CASE OwnerStarts \/ OwnerEnds
  BY <1>2, <1>6, TerminatesFrom
     DEF OwnerStarts, OwnerEnds, Terminate, CleanupReturns, OwnerNeverStarts
<1> QED BY <1>1, <1>4, <1>5, <1>6, NextSplits

LEMMA ArmedCounts == Armed /\ LastDeadline => TimerArmed
<1> SUFFICES ASSUME Armed, LastDeadline PROVE TimerArmed OBVIOUS
<1>1. ASSUME deadline, cancelled # "scope", ~closing
      PROVE  Cardinality(Expired) = IF timerVersion \in timers THEN 0 ELSE 1
  <2>1. CASE timerVersion \in timers
    BY <2>1, FS_EmptySet DEF Armed
  <2>2. CASE timerVersion \notin timers
    <3>1. PICK i : i \in Expired
      BY <1>1, <2>2 DEF Armed
    <3>2. Expired = {i}
      BY <3>1 DEF Armed
    <3> QED BY <2>2, <3>2, FS_Singleton
  <2> QED BY <2>1, <2>2
<1> QED BY <1>1 DEF TimerArmed, LastDeadline, Expired, Tick

(* A published sleep deadline has exactly one coroutine or one message of its *)
(* version behind it: it is neither forgotten nor does it fire twice, however *)
(* setting, clearing and firing interleave; and what stops the session is the *)
(* timer of the last deadline, never one that was replaced (240-266).         *)
THEOREM DeadlineIsArmed == Spec => []TimerArmed
<1>1. Init => Armed
  <2> SUFFICES ASSUME Init PROVE Armed OBVIOUS
  <2>1. Waiting = {} /\ timers = {} /\ deadline = FALSE
    BY DEF Init, Waiting
  <2>2. Expired = {}
    <3>1. TypeOK
      BY InitIInv DEF IInv
    <3> QED BY <2>1, <3>1, ExpiredWaits
  <2> QED BY <2>1, <2>2 DEF Armed
<1>2. IInv /\ IInv' /\ Armed /\ [Next]_vars => Armed'
  BY NextSplits, OthersArmed, ReceiveArmed, ContinueArmed, OwnerEndArmed DEF IInv
<1>3. Spec => []Armed
  BY <1>1, <1>2, Inductive, PTL DEF Spec
<1>4. Init => LastDeadline
  BY DEF Init, LastDeadline
<1>5. Spec => []LastDeadline
  BY <1>4, NextLastDeadline, PTL DEF Spec
<1> QED BY <1>3, <1>5, ArmedCounts, PTL

-----------------------------------------------------------------------------
(* The session implements SpeechPlayback *)

Heard == owner = "source" /\ IsFinished(current)
Reads == Playback!Next \/ UNCHANGED Playback!vars

(* What the variables of SpeechPlayback stand for. *)
LEMMA StutterReads ==
  ASSUME UNCHANGED <<state, progress>>, Heard' = Heard, Interrupted' = Interrupted
  PROVE  Reads
  BY DEF Reads, Heard, Playback!vars

LEMMA InterruptReads ==
  ASSUME UNCHANGED <<state, progress>>, ~Heard', Interrupted'
  PROVE  Reads
<1>1. Heard' = FALSE /\ Interrupted' = TRUE
  BY DEF Heard, Interrupted, IsFinished
<1>2. Playback!Interrupt
  BY <1>1 DEF Playback!Interrupt, Heard
<1> QED BY <1>2 DEF Reads, Playback!Next

LEMMA AnythingReads ==
  ASSUME Interrupted, UNCHANGED progress
  PROVE  Reads
<1>1. Heard' \in BOOLEAN /\ Interrupted' \in BOOLEAN
  BY DEF Heard, Interrupted, IsFinished
<1>2. Playback!ShowAnything
  BY <1>1 DEF Playback!ShowAnything, Heard
<1> QED BY <1>2 DEF Reads, Playback!Next

LEMMA OthersReads ==
  ASSUME Others
  PROVE  Reads
<1>1. Heard' = Heard /\ Interrupted' = Interrupted
  BY OthersUndisturbed DEF Undisturbed, Heard, Interrupted, IsOp, IsCommand, IsFinished, SamePlace
<1> QED BY <1>1, OthersUndisturbed, StutterReads DEF Undisturbed

LEMMA ReceiveReads ==
  ASSUME TypeOK, Live, Reading, OwnerReceives
  PROVE  Reads
<1>0. Take /\ owner = "wait" /\ UNCHANGED progress
  BY DEF OwnerReceives, ReceiveStart, ReceivePauseOrUpdate, ReceiveResume, ReceiveMove, ReceiveTimer,
         ReceiveStop, ReceiveExpired, ReceiveFinished, Take, HasIncoming, outside
<1>1. ~Heard /\ (Interrupted <=> torn # {})
  BY <1>0 DEF Heard, Interrupted
<1>a. ASSUME UNCHANGED <<state, torn>>,
             owner' \in {"wait", "commit"} \/ (owner' = "source" /\ IsOp(current', Moves))
      PROVE  Reads
  <2>1. ~Heard' /\ (Interrupted' <=> torn # {})
    BY <1>a DEF Heard, Interrupted, IsOp, IsCommand, IsFinished, Moves
  <2> QED BY <1>0, <1>1, <1>a, <2>1, StutterReads DEF Heard, Interrupted, IsFinished
<1>b. ASSUME UNCHANGED state, owner' = "engineStop" \/ (owner' = "source" /\ IsOp(current', {"Start"}))
      PROVE  Reads
  <2>1. ~Heard' /\ Interrupted'
    BY <1>b DEF Heard, Interrupted, IsOp, IsCommand, IsFinished
  <2> QED BY <1>0, <1>b, <2>1, InterruptReads
<1>c. torn # {} => Reads
  BY <1>0, <1>1, AnythingReads
<1>2. CASE ReceiveStart
  BY <1>2, <1>b DEF ReceiveStart, Suspend
<1>3. CASE ReceivePauseOrUpdate
  BY <1>3, <1>a, <1>b DEF ReceivePauseOrUpdate, Finish, Suspend
<1>4. CASE ReceiveResume
  <2>1. CASE /\ torn = {} /\ state.kind = "Paused"
             /\ BeginPlayback(Incoming, state.segment)
    <3>1. /\ owner' = "show" /\ torn' = {} /\ state' = PlaybackState("Preparing", state.segment)
      BY <2>1 DEF BeginPlayback, Suspend
    <3>2. Heard' = Heard /\ Interrupted' = Interrupted
      BY <1>0, <2>1, <3>1 DEF Heard, Interrupted
    <3>3. Playback!Resume
      BY <1>0, <2>1, <3>1, <3>2 DEF Playback!Resume, Playback!At, PlaybackState, Heard
    <3> QED BY <3>3 DEF Reads, Playback!Next
  <2> QED BY <1>4, <1>a, <1>c, <2>1 DEF ReceiveResume, Finish
<1>5. CASE ReceiveMove
  <2>1. UNCHANGED <<state, torn>> /\ IsOp(Incoming, Moves)
    BY <1>5 DEF ReceiveMove, playback, Moves
  <2> QED BY <1>5, <1>a, <2>1 DEF ReceiveMove, Finish, Suspend
<1>6. CASE ReceiveTimer
  BY <1>6, <1>a DEF ReceiveTimer, Finish, playback
<1>7. CASE ReceiveStop
  BY <1>7, <1>b DEF ReceiveStop, Suspend
<1>8. CASE ReceiveExpired
  BY <1>8, <1>a, <1>b DEF ReceiveExpired, Finish, Suspend
<1>9. CASE ReceiveFinished
  <2>1. CASE Stale(Incoming)
    BY <1>9, <1>a, <2>1 DEF ReceiveFinished, Finish
  <2>2. CASE ~Stale(Incoming) /\ Suspend(Incoming, "commit", None) /\ UNCHANGED <<state, torn>>
    BY <1>a, <2>2 DEF Suspend
  <2>3. CASE /\ ~Stale(Incoming) /\ torn = {}
             /\ state' \in {PlaybackState("Paused", Incoming.segment),
                            PlaybackState("Error", Incoming.segment)}
             /\ torn' = torn \ {"silent"} /\ Finish(Incoming)
    <3>1. Incoming \in Pending
      BY <1>0, <1>9, <2>3, TakeShifts, QueueIndices
         DEF ReceiveFinished, Stale, Pending, Waiting, MessageAt, TypeOK
    <3>2. ~Quiet
      BY <3>1, QuietPending DEF TypeOK
    <3>3. state.kind = "Playing" /\ state.segment = Incoming.segment
      BY <3>1, <3>2 DEF Live, Reading, Named
    <3>4. Heard' = Heard /\ Interrupted' = Interrupted
      BY <1>0, <2>3 DEF Heard, Interrupted, Finish
    <3>5. Playback!Leave
      BY <1>0, <1>1, <2>3, <3>3, <3>4 DEF Playback!Leave, Playback!At, PlaybackState, Heard
    <3> QED BY <3>5 DEF Reads, Playback!Next
  <2> QED BY <1>9, <1>c, <2>1, <2>2, <2>3 DEF ReceiveFinished
<1> QED BY <1>2, <1>3, <1>4, <1>5, <1>6, <1>7, <1>8, <1>9 DEF OwnerReceives

(* The source answers a finished segment: the next one, or the end. *)
LEMMA AdvanceReads ==
  ASSUME TypeOK, Control, Reading, SourceReturns, Heard, torn = {}
  PROVE  Reads
<1> DEFINE i == SourceIndex(current, source)
           s == SegmentAt(source, i)
<1>1. owner = "source" /\ IsFinished(current) /\ ~IsOp(current, Moves) /\ ~IsOp(current, {"Start"})
  BY DEF Heard, IsOp, IsCommand, IsFinished
<1>2. /\ state.kind = "Playing" /\ state.segment # None
      /\ source \in Sources /\ cursor[source] \in Nat /\ SegmentCount[source] \in Nat
      /\ cursor[source] <= SegmentCount[source]
  <2>1. state.kind = "Playing"
    BY <1>1 DEF Reading, Places, Finishing, PlaybackState
  <2>2. state.segment \in Segments
    BY <2>1 DEF Control
  <2> QED BY <1>1, <2>1, <2>2, NotNone, SessionAssumption
          DEF Control, TypeOK, PlaybackTypes, OutsideTypes
<1>3. state.segment = SegmentAt(source, cursor[source]) /\ cursor[source] # 0
  BY <1>1, <1>2 DEF Reading, Aligned, AtCursor, Starting, Moving, Ending
<1>4. i = IF cursor[source] < SegmentCount[source] THEN cursor[source] + 1 ELSE 0
  BY <1>1, <1>3 DEF SourceIndex, NextIndex
<1>5. state.segment.source = source /\ state.segment.index = cursor[source]
  BY <1>3 DEF SegmentAt
<1>6. FollowingSegment(state.segment) = IF i = 0 THEN None ELSE s
  BY <1>2, <1>4, <1>5 DEF FollowingSegment
<1>7. i # 0 => s # None
  <2>1. i # 0 => s \in Segments
    BY <1>2, <1>4 DEF SegmentAt, Segments
  <2> QED BY <2>1, NotNone
<1> HIDE DEF i, s
<1>8. /\ torn' = {} /\ owner' \in {"wait", "show"} /\ UNCHANGED progress
      /\ state' = IF i = 0 THEN Completed ELSE PlaybackState("Preparing", s)
  BY <1>1 DEF SourceReturns, Exhausted, Finish, BeginPlayback, Suspend, IsOp, IsCommand, IsFinished,
              Moves, i, s
<1>9. Heard' = FALSE /\ Interrupted' = Interrupted
  BY <1>1, <1>8 DEF Heard, Interrupted
<1>10. Playback!Advance
  BY <1>6, <1>7, <1>8, <1>9 DEF Playback!Advance, Playback!At, PlaybackState, Completed, Heard
<1> QED BY <1>10 DEF Reads, Playback!Next

LEMMA ContinueReads ==
  ASSUME TypeOK, Control, Reading, OwnerContinues
  PROVE  Reads
<1>a. ASSUME UNCHANGED <<state, progress>>, owner' \in {"engineStop", "cleanup"} PROVE Reads
  BY <1>a, InterruptReads DEF Heard, Interrupted
<1>1. CASE SourceReturns
  <2>0. owner = "source" /\ UNCHANGED progress
    BY <1>1 DEF SourceReturns
  <2>1. CASE torn # {} \/ Starting
    BY <2>0, <2>1, AnythingReads DEF Interrupted, Starting
  <2>2. CASE torn = {} /\ Heard
    BY <1>1, <2>2, AdvanceReads
  <2>3. CASE torn = {} /\ IsOp(current, Moves)
    <3>1. UNCHANGED state /\ (owner' = "engineStop" \/ (owner' = "wait" /\ UNCHANGED torn))
      BY <1>1, <2>3 DEF SourceReturns, Exhausted, Finish, Suspend, Moves
    <3>2. CASE owner' = "engineStop"
      BY <1>a, <2>0, <3>1, <3>2
    <3>3. CASE owner' = "wait" /\ UNCHANGED torn
      <4>1. Heard' = Heard /\ Interrupted' = Interrupted
        BY <2>0, <2>3, <3>3 DEF Heard, Interrupted, IsOp, IsCommand, IsFinished, Moves
      <4> QED BY <2>0, <3>1, <4>1, StutterReads
    <3> QED BY <3>1, <3>2, <3>3
  <2>4. Heard \/ Starting \/ IsOp(current, Moves)
    BY <2>0, MessageFacts DEF Control, Heard, Starting, IsOp, Moves
  <2> QED BY <2>1, <2>2, <2>3, <2>4
<1>2. CASE SourceFails \/ EngineStopFails \/ CommitFails
  <2>1. CASE Terminate("failed", "failed")
    BY <1>a, <2>1 DEF Terminate, outside
  <2>2. CASE IsCommand(current) /\ owner' = "wait" /\ torn' = torn \cup Damage
             /\ UNCHANGED <<playback, outside>>
    <3>1. UNCHANGED <<state, progress>> /\ ~Heard' /\ ~Heard
      BY <2>2 DEF playback, outside, Heard, IsCommand, IsFinished
    <3>2. CASE Interrupted
      BY <3>1, <3>2, AnythingReads
    <3>3. CASE torn' # {}
      BY <3>1, <3>3, InterruptReads DEF Interrupted
    <3>4. CASE ~Interrupted /\ torn' = {}
      <4>1. Heard' = Heard /\ Interrupted' = Interrupted
        BY <2>2, <3>1, <3>4 DEF Heard, Interrupted, IsFinished
      <4> QED BY <3>1, <4>1, StutterReads
    <3> QED BY <3>2, <3>3, <3>4
  <2> QED BY <1>2, <2>1, <2>2 DEF SourceFails, EngineStopFails, CommitFails, HandlerFails
<1>3. CASE EngineStopReturns
  BY <1>3, AnythingReads DEF EngineStopReturns, Interrupted
<1>4. CASE CommitReturns
  <2>1. /\ owner = "commit" /\ owner' = "source" /\ UNCHANGED <<current, state, torn>>
        /\ progress' = current.segment
    BY <1>4 DEF CommitReturns, Suspend, playback, history
  <2>2. IsFinished(current) /\ ~IsOp(current, {"Start"})
    BY <2>1, MessageFacts DEF Control, IsOp
  <2>3. state.kind = "Playing" /\ state.segment = current.segment
    BY <2>1 DEF Reading, Places, Finishing, PlaybackState
  <2>4. Heard' = TRUE /\ Heard = FALSE /\ Interrupted' = Interrupted
    BY <2>1, <2>2 DEF Heard, Interrupted, IsOp, IsCommand, IsFinished
  <2>5. Playback!Commit
    BY <2>1, <2>3, <2>4 DEF Playback!Commit, Heard
  <2> QED BY <2>5 DEF Reads, Playback!Next
<1>5. CASE ShowReturns
  <2>1. /\ owner = "show" /\ owner' = "wait" /\ UNCHANGED <<torn, progress>>
        /\ state' = PlaybackState("Playing", target)
    BY <1>5 DEF ShowReturns, Finish, history
  <2>2. state.kind = "Preparing" /\ state.segment = target
    BY <2>1 DEF Reading, Places, PlaybackState
  <2>3. Heard' = Heard /\ Interrupted' = Interrupted
    BY <2>1 DEF Heard, Interrupted
  <2>4. Playback!Sound
    BY <2>1, <2>2, <2>3 DEF Playback!Sound, Playback!At, PlaybackState, Heard
  <2> QED BY <2>4 DEF Reads, Playback!Next
<1> QED BY <1>1, <1>2, <1>3, <1>4, <1>5 DEF OwnerContinues

LEMMA OwnerEndReads ==
  ASSUME OwnerStarts \/ OwnerEnds
  PROVE  Reads
<1>1. CASE OwnerStarts
  <2>1. UNCHANGED <<state, progress, torn>> /\ owner = "created" /\ owner' = "wait"
    BY <1>1 DEF OwnerStarts, playback, outside, history
  <2> QED BY <2>1, StutterReads DEF Heard, Interrupted
<1>2. CASE OwnerThrows \/ ChannelClosed \/ OwnerNeverStarts
  <2>1. UNCHANGED <<state, progress>> /\ owner' \in {"cleanup", "dead"}
    BY <1>2, TerminatesFrom DEF Terminate, OwnerNeverStarts, playback, outside
  <2> QED BY <2>1, InterruptReads DEF Heard, Interrupted
<1>3. CASE CleanupReturns
  BY <1>3, AnythingReads DEF CleanupReturns, Interrupted
<1> QED BY <1>1, <1>2, <1>3 DEF OwnerEnds

LEMMA NextReads == IInv /\ Reading /\ [Next]_vars => Reads
  BY NextSplits, OthersReads, ReceiveReads, ContinueReads, OwnerEndReads DEF IInv

(* The session implements the listener's view: whatever the interleaving of   *)
(* results, timers, commands and failures, and for any sources, reading that  *)
(* no command interrupts skips nothing, repeats nothing and commits each      *)
(* segment before the next one begins.                                        *)
THEOREM SessionReadsInOrder == Spec => ReadsInOrder
<1>1. Init => Playback!Init
  BY DEF Init, Playback!Init, Playback!At, Idle, PlaybackState, Interrupted
<1>2. IInv /\ Reading /\ [Next]_vars => [Playback!Next]_(Playback!vars)
  BY NextReads DEF Reads
<1> QED BY <1>1, <1>2, Inductive, ReadingKept, PTL DEF Spec, ReadsInOrder, Playback!Spec
=============================================================================
