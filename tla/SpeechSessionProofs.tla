------------------------ MODULE SpeechSessionProofs ------------------------
(***************************************************************************)
(* Theorems about SpeechSession, for any callers, sources and commands and *)
(* any subset of failing externals.                                        *)
(***************************************************************************)
EXTENDS SpeechSession, SequenceTheorems, TLAPS

Moves == {"Next", "Previous", "Seek"}

Waiting == ({queue[i] : i \in DOMAIN queue} \cup {delivered}) \ {None}

Quiet == CurrentJobs = {} /\ Fresh = {}

(* The owner is at its channel, possibly cancelled there. *)
Receiving == owner \in {"wait", "aborted"}

(* A step of somebody else may at most cancel the owner at its channel. *)
SamePlace == owner' = owner \/ (owner = "wait" /\ owner' = "aborted")

(* What the owner's suspension points know of the variables they use. *)
Control ==
  /\ owner \in {"source", "engineStop", "commit", "show"} => current \in Messages
  /\ owner = "show" => target \in Segments
  /\ owner = "engineStop" /\ IsOp(current, Moves \cup {"Pause", "UpdateOptions"}) =>
       target \in Segments /\ source # None
  /\ state.kind \in {"Preparing", "Playing", "Paused", "Error"} => state.segment \in Segments
  /\ state.segment # None => source # None
  /\ owner = "commit" => current \in FinishedMessages
  /\ owner \in {"source", "commit", "show"} => source # None
  /\ owner = "source" => current \in FinishedMessages \/ IsOp(current, Moves \cup {"Start"})
  /\ source # None => hasOptions

(* The fencing of playback: generations only grow, the current one has one    *)
(* job or one result, and only while the state says "Playing".                *)
Live ==
  /\ OneLivePlayback
  /\ \A j \in CurrentJobs : j.id = playbackJob
  /\ ~(Receiving \/ (owner = "source" /\ IsOp(current, Moves))) => Quiet
  /\ ~Quiet => state.kind = "Playing"
  /\ \A j \in jobs : j.id.generation <= generation
  /\ \A m \in Waiting : IsFinished(m) => m.generation <= generation

-----------------------------------------------------------------------------
(* Helpers *)

LEMMA MessageFacts ==
  ASSUME NEW m \in Messages
  PROVE  /\ IsCommand(m) => /\ m.caller \in Callers /\ m.command \in Commands
         /\ IsFinished(m) => /\ m \in FinishedMessages
                             /\ m.generation \in Nat /\ m.segment \in Segments
                             /\ m.result \in Results
         /\ m \in FinishedMessages => IsFinished(m) /\ ~IsCommand(m)
  BY SMT DEF Messages, CommandMessages, FinishedMessages, ExpiredMessages, IsCommand, IsFinished

LEMMA CommandFacts ==
  ASSUME NEW c \in Commands
  PROVE  /\ c.arg \in Sources \cup Nat
         /\ c.op = "Start" <=> c.arg \in Sources
  BY SessionAssumption

LEMMA TakeTyped ==
  ASSUME ChannelTypes, Take
  PROVE  /\ Incoming \in Messages
         /\ closing' \in BOOLEAN /\ queue' \in Seq(Messages) /\ delivered' \in Messages \cup {None}
         /\ lost' \subseteq Callers
<1>1. CASE delivered # None
  <2>1. Incoming \in Messages
    BY <1>1 DEF ChannelTypes, Incoming
  <2> QED BY <1>1, <2>1, MessageFacts DEF ChannelTypes, Take
<1>2. CASE delivered = None
  <2>1. queue # <<>>
    BY <1>2 DEF Take, HasIncoming
  <2>2. Incoming \in Messages /\ Tail(queue) \in Seq(Messages)
    BY <1>2, <2>1, HeadTailProperties DEF ChannelTypes, Incoming
  <2> QED BY <1>2, <2>2, MessageFacts DEF ChannelTypes, Take
<1> QED BY <1>1, <1>2

LEMMA PostTyped ==
  ASSUME ChannelTypes, NEW m \in Messages, Post(m)
  PROVE  queue' \in Seq(Messages) /\ delivered' \in Messages \cup {None}
<1>1. Append(queue, m) \in Seq(Messages)
  BY AppendProperties DEF ChannelTypes
<1> QED BY <1>1 DEF ChannelTypes, Post

LEMMA CancelJobsTyped ==
  ASSUME jobs \subseteq JobRecords, NEW js \in SUBSET jobs
  PROVE  CancelJobs(js) \subseteq JobRecords
<1> SUFFICES ASSUME NEW j \in js PROVE [j EXCEPT !.cancelled = TRUE] \in JobRecords
  BY DEF CancelJobs
<1> QED BY DEF JobRecords

LEMMA SilencedTyped ==
  ASSUME jobs \subseteq JobRecords
  PROVE  Silenced \subseteq JobRecords
<1> SUFFICES ASSUME NEW j \in jobs
             PROVE  [j EXCEPT !.phase = IF @ = "speaking" THEN "stopped" ELSE @] \in JobRecords
  BY DEF Silenced
<1> QED BY DEF JobRecords

LEMMA InvalidateTyped ==
  ASSUME PlaybackTypes, Invalidate
  PROVE  generation' \in Nat /\ jobs' \subseteq JobRecords /\ playbackJob' = None
<1>1. jobs' \subseteq JobRecords
  BY CancelJobsTyped DEF PlaybackTypes, Invalidate, CancelPlaybackJob
<1> QED BY <1>1 DEF PlaybackTypes, Invalidate

LEMMA AnswerTyped ==
  ASSUME ack \in [Callers -> Outcomes], NEW c \in Callers, NEW r \in Outcomes
  PROVE  Acknowledged(c, r) \in [Callers -> Outcomes]
  BY DEF Acknowledged

LEMMA FinishTyped ==
  ASSUME ChannelTypes, NEW m \in Messages, Finish(m)
  PROVE  ack' \in [Callers -> Outcomes]
  BY MessageFacts, AnswerTyped DEF ChannelTypes, Finish, Outcomes

LEMMA CloseAdmissionTyped ==
  ASSUME ChannelTypes, NEW a \in [Callers -> Outcomes], NEW r \in Outcomes, CloseAdmission(a, r)
  PROVE  closing' \in BOOLEAN /\ queue' \in Seq(Messages) /\ ack' \in [Callers -> Outcomes]
  BY EmptySeq DEF ChannelTypes, CloseAdmission, Drained

(* What a received message leaves typed whatever its handler does. *)
LEMMA ReceiveTyped ==
  ASSUME TypeOK, Take, ack' \in [Callers -> Outcomes],
         owner' \in {"wait", "source", "engineStop", "commit", "show"},
         current' \in {None, Incoming}, target' \in Segments \cup {None}
  PROVE  ChannelTypes' /\ OwnerTypes'
<1>1. ChannelTypes' BY TakeTyped DEF TypeOK, ChannelTypes
<1>2. OwnerTypes' BY TakeTyped DEF TypeOK, OwnerTypes, Take
<1> QED BY <1>1, <1>2

LEMMA HandledTyped ==
  ASSUME TypeOK, Take,
         \/ Finish(Incoming)
         \/ \E p \in {"source", "engineStop", "commit", "show"}, s \in Segments \cup {None} :
              Suspend(Incoming, p, s)
  PROVE  ChannelTypes' /\ OwnerTypes'
<1>1. Incoming \in Messages
  BY TakeTyped DEF TypeOK
<1>2. CASE Finish(Incoming)
  BY <1>1, <1>2, FinishTyped, ReceiveTyped DEF TypeOK, Finish
<1>3. ASSUME NEW p \in {"source", "engineStop", "commit", "show"}, NEW s \in Segments \cup {None},
             Suspend(Incoming, p, s)
      PROVE  ChannelTypes' /\ OwnerTypes'
  BY <1>1, <1>3, ReceiveTyped DEF TypeOK, ChannelTypes, Suspend
<1> QED BY <1>2, <1>3

LEMMA ReceiveStartTyped == TypeOK /\ ReceiveStart => TypeOK'
<1> SUFFICES ASSUME TypeOK, ReceiveStart PROVE TypeOK' OBVIOUS
<1>1. Incoming \in Messages /\ IsOp(Incoming, {"Start"}) /\ Take
  BY TakeTyped DEF TypeOK, ReceiveStart
<1>2. Incoming.command.arg \in Sources
  BY <1>1, MessageFacts, CommandFacts DEF IsOp
<1>3. ChannelTypes' /\ OwnerTypes'
  BY <1>1, HandledTyped DEF ReceiveStart
<1>4. PlaybackTypes'
  <2>1. CASE Invalidate /\ UNCHANGED <<state, source, hasOptions, torn>>
    BY <2>1, InvalidateTyped DEF TypeOK, PlaybackTypes
  <2>2. CASE /\ generation' = generation + 1 /\ AdoptSource(Incoming.command.arg)
             /\ UNCHANGED <<state, playbackJob, jobs, torn>>
    BY <1>2, <2>2 DEF TypeOK, PlaybackTypes, AdoptSource
  <2> QED BY <2>1, <2>2 DEF ReceiveStart
<1>5. OutsideTypes'
  BY <1>2 DEF TypeOK, OutsideTypes, PlaybackTypes, ReceiveStart, AdoptSource, timing
<1> QED BY <1>3, <1>4, <1>5 DEF TypeOK

LEMMA ReceivePauseOrUpdateTyped == TypeOK /\ ReceivePauseOrUpdate => TypeOK'
<1> SUFFICES ASSUME TypeOK, ReceivePauseOrUpdate PROVE TypeOK' OBVIOUS
<1>1. state.segment \in Segments \cup {None}
  BY DEF TypeOK, PlaybackTypes, States
<1>2. ChannelTypes' /\ OwnerTypes'
  BY <1>1, HandledTyped DEF ReceivePauseOrUpdate
<1>3. PlaybackTypes'
  <2>1. hasOptions' \in BOOLEAN /\ UNCHANGED <<state, source, torn>>
    BY DEF TypeOK, PlaybackTypes, ReceivePauseOrUpdate
  <2>2. CASE Invalidate
    BY <2>1, <2>2, InvalidateTyped DEF TypeOK, PlaybackTypes
  <2>3. CASE UNCHANGED <<generation, playbackJob, jobs>>
    BY <2>1, <2>3 DEF TypeOK, PlaybackTypes
  <2> QED BY <2>2, <2>3 DEF ReceivePauseOrUpdate
<1>4. OutsideTypes'
  BY DEF TypeOK, OutsideTypes, ReceivePauseOrUpdate, timing, outside
<1> QED BY <1>2, <1>3, <1>4 DEF TypeOK

LEMMA BeginPlaybackTyped ==
  ASSUME PlaybackTypes, NEW m, NEW s \in Segments, BeginPlayback(m, s)
  PROVE  state' \in States /\ torn' \subseteq {"silent", "skewed", "unstopped"} /\ Suspend(m, "show", s)
  BY DEF PlaybackTypes, BeginPlayback, PlaybackState, States, StateKinds

LEMMA ReceiveResumeTyped == TypeOK /\ Control /\ ReceiveResume => TypeOK'
<1> SUFFICES ASSUME TypeOK, Control, ReceiveResume PROVE TypeOK' OBVIOUS
<1>1. CASE Finish(Incoming) /\ UNCHANGED <<generation, state, torn>>
  <2>1. ChannelTypes' /\ OwnerTypes'
    BY <1>1, HandledTyped DEF ReceiveResume
  <2> QED BY <1>1, <2>1
          DEF TypeOK, PlaybackTypes, OutsideTypes, ReceiveResume, timing, outside
<1>2. CASE /\ state.kind = "Paused" /\ generation' = generation + 1
           /\ BeginPlayback(Incoming, state.segment)
  <2>1. state.segment \in Segments
    BY <1>2 DEF Control
  <2>2. state' \in States /\ torn' \subseteq {"silent", "skewed", "unstopped"}
        /\ Suspend(Incoming, "show", state.segment)
    BY <1>2, <2>1, BeginPlaybackTyped DEF TypeOK
  <2>3. ChannelTypes' /\ OwnerTypes'
    BY <2>1, <2>2, HandledTyped DEF ReceiveResume
  <2> QED BY <1>2, <2>2, <2>3
          DEF TypeOK, PlaybackTypes, OutsideTypes, ReceiveResume, timing, outside
<1> QED BY <1>1, <1>2 DEF ReceiveResume

LEMMA ReceiveMoveTyped == TypeOK /\ ReceiveMove => TypeOK'
<1> SUFFICES ASSUME TypeOK, ReceiveMove PROVE TypeOK' OBVIOUS
<1>1. ChannelTypes' /\ OwnerTypes'
  BY HandledTyped DEF ReceiveMove
<1> QED BY <1>1 DEF TypeOK, PlaybackTypes, OutsideTypes, ReceiveMove, playback, timing, outside

LEMMA ReceiveTimerTyped == TypeOK /\ ReceiveTimer => TypeOK'
<1> SUFFICES ASSUME TypeOK, ReceiveTimer PROVE TypeOK' OBVIOUS
<1>1. ChannelTypes' /\ OwnerTypes'
  BY HandledTyped DEF ReceiveTimer
<1>2. timerVersion' \in Nat /\ deadline' \in BOOLEAN
  BY DEF TypeOK, OutsideTypes, ReceiveTimer
<1>3. timers' \subseteq timers \cup ArmedTimer
  BY DEF ReceiveTimer, TimersAfterCancel
<1>4. timers' \subseteq Nat
  BY <1>3 DEF TypeOK, OutsideTypes, ArmedTimer
<1> QED BY <1>1, <1>2, <1>4 DEF TypeOK, PlaybackTypes, OutsideTypes, ReceiveTimer, playback, outside

LEMMA ReceiveStopTyped == TypeOK /\ ReceiveStop => TypeOK'
<1> SUFFICES ASSUME TypeOK, ReceiveStop PROVE TypeOK' OBVIOUS
<1>1. ChannelTypes' /\ OwnerTypes'
  BY HandledTyped DEF ReceiveStop
<1> QED BY <1>1, InvalidateTyped
        DEF TypeOK, PlaybackTypes, OutsideTypes, ReceiveStop, timing, outside

LEMMA ReceiveExpiredTyped == TypeOK /\ ReceiveExpired => TypeOK'
<1> SUFFICES ASSUME TypeOK, ReceiveExpired PROVE TypeOK' OBVIOUS
<1>1. ChannelTypes' /\ OwnerTypes'
  BY HandledTyped DEF ReceiveExpired
<1>2. OutsideTypes'
  <2>1. timerVersion' \in Nat /\ deadline' \in BOOLEAN
    <3> timerVersion \in Nat /\ deadline \in BOOLEAN
      BY DEF TypeOK, OutsideTypes
    <3>1. CASE UNCHANGED <<timerVersion, deadline>>
      BY <3>1
    <3>2. CASE timerVersion' = timerVersion + 1 /\ deadline' = FALSE
      <4>1. timerVersion' \in Nat
        BY <3>2
      <4> QED BY <3>2, <4>1
    <3> QED BY <3>1, <3>2 DEF ReceiveExpired
  <2>2. UNCHANGED <<timers, cursor, closedSources, highlight, progress>>
    BY DEF ReceiveExpired, outside
  <2> QED BY <2>1, <2>2 DEF TypeOK, OutsideTypes
<1>3. PlaybackTypes'
  <2>1. CASE Invalidate
    BY <2>1, InvalidateTyped DEF TypeOK, PlaybackTypes, ReceiveExpired
  <2>2. CASE UNCHANGED <<generation, playbackJob, jobs>>
    BY <2>2 DEF TypeOK, PlaybackTypes, ReceiveExpired
  <2> QED BY <2>1, <2>2 DEF ReceiveExpired
<1> QED BY <1>1, <1>2, <1>3 DEF TypeOK

LEMMA ReceiveFinishedTyped == TypeOK /\ ReceiveFinished => TypeOK'
<1> SUFFICES ASSUME TypeOK, ReceiveFinished PROVE TypeOK' OBVIOUS
<1>1. Incoming \in Messages /\ Incoming.segment \in Segments
  BY TakeTyped, MessageFacts DEF TypeOK, ReceiveFinished
<1>2. ChannelTypes' /\ OwnerTypes'
  BY HandledTyped DEF ReceiveFinished
<1>3. \A k \in {"Paused", "Error"} : PlaybackState(k, Incoming.segment) \in States
  BY <1>1 DEF PlaybackState, States, StateKinds
<1>4. state' \in States /\ torn' \subseteq {"silent", "skewed", "unstopped"} /\ playbackJob' \in JobIds \cup {None}
      /\ highlight' \in Segments \cup {None}
  BY <1>3 DEF TypeOK, PlaybackTypes, OutsideTypes, ReceiveFinished
<1> QED BY <1>2, <1>4 DEF TypeOK, PlaybackTypes, OutsideTypes, ReceiveFinished, timing

LEMMA TerminateTyped ==
  ASSUME TypeOK, NEW mine \in {"failed", "cancelled"}, NEW r \in {"failed", "cancelled"},
         Terminate(mine, r), delivered' \in Messages \cup {None}, lost' \subseteq Callers
  PROVE  TypeOK'
<1> DEFINE a == IF current # None /\ IsCommand(current)
                  THEN Acknowledged(current.caller, mine) ELSE ack
<1>1. a \in [Callers -> Outcomes]
  BY MessageFacts, AnswerTyped DEF TypeOK, ChannelTypes, OwnerTypes, Outcomes
<1>2. CloseAdmission(a, r)
  BY DEF Terminate
<1>3. r \in Outcomes
  BY DEF Outcomes
<1> HIDE DEF a
<1>4. closing' \in BOOLEAN /\ queue' \in Seq(Messages) /\ ack' \in [Callers -> Outcomes]
  BY <1>1, <1>2, <1>3, CloseAdmissionTyped DEF TypeOK
<1>5. ChannelTypes'
  BY <1>4 DEF TypeOK, ChannelTypes, Terminate
<1>6. OwnerTypes'
  BY DEF TypeOK, OwnerTypes, Terminate
<1>7. PlaybackTypes'
  <2>1. jobs' \subseteq JobRecords
    BY CancelJobsTyped DEF TypeOK, PlaybackTypes, Terminate, CancelPlaybackJob
  <2> QED BY <2>1 DEF TypeOK, PlaybackTypes, Terminate
<1>8. OutsideTypes'
  BY DEF TypeOK, OutsideTypes, Terminate, TimersAfterCancel, outside
<1> QED BY <1>5, <1>6, <1>7, <1>8 DEF TypeOK

LEMMA HandlerFailsTyped ==
  ASSUME TypeOK, current \in Messages, HandlerFails
  PROVE  TypeOK'
<1>1. CASE IsCommand(current)
  <2>1. ack' \in [Callers -> Outcomes]
    BY <1>1, MessageFacts, AnswerTyped DEF TypeOK, ChannelTypes, HandlerFails, Outcomes
  <2>2. ChannelTypes'
    BY <1>1, <2>1 DEF TypeOK, ChannelTypes, HandlerFails
  <2>3. OwnerTypes'
    BY <1>1 DEF TypeOK, OwnerTypes, HandlerFails
  <2>4. PlaybackTypes' /\ OutsideTypes'
    BY <1>1 DEF TypeOK, PlaybackTypes, OutsideTypes, HandlerFails, playback, timing, outside, Damage
  <2> QED BY <2>2, <2>3, <2>4 DEF TypeOK
<1>2. CASE ~IsCommand(current)
  <2>1. delivered' \in Messages \cup {None} /\ lost' \subseteq Callers
    BY <1>2 DEF TypeOK, ChannelTypes, HandlerFails
  <2> QED BY <1>2, <2>1, TerminateTyped DEF HandlerFails
<1> QED BY <1>1, <1>2

(* A suspended handler's return leaves the channel typed. *)
LEMMA ReturnTyped ==
  ASSUME TypeOK, current \in Messages, UNCHANGED <<closing, queue, delivered, cancelled, lost>>,
         \/ Finish(current)
         \/ \E p \in {"source", "engineStop", "commit", "show"}, s \in Segments \cup {None} :
              Suspend(current, p, s)
  PROVE  ChannelTypes' /\ OwnerTypes'
<1>1. CASE Finish(current)
  BY <1>1, FinishTyped DEF TypeOK, ChannelTypes, OwnerTypes, Finish
<1>2. ASSUME NEW p \in {"source", "engineStop", "commit", "show"}, NEW s \in Segments \cup {None},
             Suspend(current, p, s)
      PROVE  ChannelTypes' /\ OwnerTypes'
  BY <1>2 DEF TypeOK, ChannelTypes, OwnerTypes, Suspend
<1> QED BY <1>1, <1>2

(* What a source returns is a position of that source. *)
LEMMA SourceIndexTyped ==
  ASSUME cursor \in [Sources -> Nat], \A s \in Sources : cursor[s] <= SegmentCount[s],
         NEW s \in Sources, NEW m \in Messages,
         m \in FinishedMessages \/ IsOp(m, Moves \cup {"Start"})
  PROVE  SourceIndex(m, s) \in 0..SegmentCount[s]
<1>1. cursor[s] \in Nat /\ SegmentCount[s] \in Nat /\ cursor[s] <= SegmentCount[s]
  BY SessionAssumption
<1>2. /\ CurrentIndex(s) \in 0..SegmentCount[s] /\ NextIndex(s) \in 0..SegmentCount[s]
      /\ PreviousIndex(s) \in 0..SegmentCount[s]
  BY <1>1 DEF CurrentIndex, NextIndex, PreviousIndex
<1>3. \A i : SeekIndex(s, i) \in 0..SegmentCount[s]
  BY <1>1 DEF SeekIndex
<1>4. CASE IsFinished(m)
  BY <1>2, <1>4 DEF SourceIndex
<1>5. CASE ~IsFinished(m)
  <2>1. m.command.op \in Moves \cup {"Start"}
    BY <1>5, MessageFacts DEF IsOp
  <2> QED BY <1>2, <1>3, <1>5, <2>1 DEF SourceIndex, Moves
<1> QED BY <1>4, <1>5

LEMMA SourceReturnsTyped == TypeOK /\ Control /\ SourceReturns => TypeOK'
<1> SUFFICES ASSUME TypeOK, Control, SourceReturns PROVE TypeOK' OBVIOUS
<1> DEFINE i == SourceIndex(current, source)
           s == SegmentAt(source, i)
<1>1. current \in Messages /\ source \in Sources
  BY DEF Control, SourceReturns, TypeOK, PlaybackTypes
<1>2. i \in 0..SegmentCount[source] /\ SegmentCount[source] \in Nat
  BY <1>1, SourceIndexTyped, SessionAssumption DEF TypeOK, OutsideTypes, Control, SourceReturns
<1>3. s \in Segments
  BY <1>1, <1>2 DEF SegmentAt, Segments
<1>4. cursor' \in [Sources -> Nat] /\ \A t \in Sources : cursor'[t] <= SegmentCount[t]
  BY <1>1, <1>2 DEF TypeOK, OutsideTypes, SourceReturns, MoveCursor
<1> HIDE DEF i, s
<1>5. CASE Exhausted /\ Finish(current) /\ UNCHANGED <<generation, playbackJob, jobs>>
  <2>1. ChannelTypes' /\ OwnerTypes'
    BY <1>1, <1>5, ReturnTyped DEF SourceReturns
  <2>2. Completed \in States
    BY DEF Completed, PlaybackState, States, StateKinds
  <2>3. state' \in States /\ highlight' \in Segments \cup {None} /\ torn' \subseteq {"silent", "skewed", "unstopped"}
    BY <1>5, <2>2 DEF Exhausted, TypeOK, PlaybackTypes, OutsideTypes
  <2> QED BY <1>4, <1>5, <2>1, <2>3 DEF TypeOK, PlaybackTypes, OutsideTypes, SourceReturns, timing
<1>6. CASE Invalidate /\ Suspend(current, "engineStop", s) /\ UNCHANGED <<state, highlight, torn>>
  <2>1. ChannelTypes' /\ OwnerTypes'
    BY <1>1, <1>3, <1>6, ReturnTyped DEF SourceReturns
  <2>2. PlaybackTypes'
    BY <1>6, InvalidateTyped DEF TypeOK, PlaybackTypes, SourceReturns
  <2> QED BY <1>4, <1>6, <2>1, <2>2 DEF TypeOK, OutsideTypes, SourceReturns, timing
<1>7. CASE BeginPlayback(current, s) /\ UNCHANGED <<generation, playbackJob, jobs, highlight>>
  <2>1. state' \in States /\ torn' \subseteq {"silent", "skewed", "unstopped"} /\ Suspend(current, "show", s)
    BY <1>3, <1>7, BeginPlaybackTyped DEF TypeOK
  <2>2. ChannelTypes' /\ OwnerTypes'
    BY <1>1, <1>3, <2>1, ReturnTyped DEF SourceReturns
  <2> QED BY <1>4, <1>7, <2>1, <2>2 DEF TypeOK, PlaybackTypes, OutsideTypes, SourceReturns, timing
<1> QED BY <1>5, <1>6, <1>7 DEF SourceReturns, i, s

LEMMA EngineStopReturnsTyped == TypeOK /\ Control /\ EngineStopReturns => TypeOK'
<1> SUFFICES ASSUME TypeOK, Control, EngineStopReturns PROVE TypeOK' OBVIOUS
<1>1. current \in Messages
  BY DEF Control, EngineStopReturns
<1>2. jobs' \subseteq JobRecords
  BY SilencedTyped DEF TypeOK, PlaybackTypes, EngineStopReturns
<1>3. CASE IsOp(current, {"Start"}) /\ AdoptSource(current.command.arg) /\ Suspend(current, "source", None)
           /\ UNCHANGED <<state, highlight, timing, torn>>
  <2>1. current.command.arg \in Sources
    BY <1>1, <1>3, MessageFacts, CommandFacts DEF IsOp
  <2>2. ChannelTypes' /\ OwnerTypes'
    BY <1>1, <1>3, ReturnTyped DEF EngineStopReturns
  <2>3. source' \in Sources /\ hasOptions' \in BOOLEAN /\ closedSources' \subseteq Sources
    BY <1>3, <2>1 DEF AdoptSource, TypeOK, PlaybackTypes, OutsideTypes
  <2> QED BY <1>2, <1>3, <2>2, <2>3
          DEF TypeOK, PlaybackTypes, OutsideTypes, EngineStopReturns, timing
<1>4. CASE /\ IsOp(current, {"Pause"}) /\ state' = PlaybackState("Paused", target)
           /\ torn' = torn \ {"silent"} /\ Finish(current)
           /\ UNCHANGED <<source, hasOptions, closedSources, highlight, timing>>
  <2>1. ChannelTypes' /\ OwnerTypes'
    BY <1>1, <1>4, ReturnTyped DEF EngineStopReturns
  <2>2. state' \in States
    BY <1>4 DEF TypeOK, OwnerTypes, PlaybackState, States, StateKinds
  <2> QED BY <1>2, <1>4, <2>1, <2>2
          DEF TypeOK, PlaybackTypes, OutsideTypes, EngineStopReturns, timing
<1>5. CASE /\ IsOp(current, {"Next", "Previous", "Seek", "UpdateOptions"})
           /\ BeginPlayback(current, target)
           /\ UNCHANGED <<source, hasOptions, closedSources, highlight, timing>>
  <2>1. target \in Segments
    BY <1>5 DEF Control, EngineStopReturns, IsOp, Moves
  <2>2. state' \in States /\ torn' \subseteq {"silent", "skewed", "unstopped"} /\ Suspend(current, "show", target)
    BY <1>5, <2>1, BeginPlaybackTyped DEF TypeOK
  <2>3. ChannelTypes' /\ OwnerTypes'
    BY <1>1, <2>1, <2>2, ReturnTyped DEF EngineStopReturns
  <2> QED BY <1>2, <1>5, <2>2, <2>3
          DEF TypeOK, PlaybackTypes, OutsideTypes, EngineStopReturns, timing
<1>6. CASE StopSession
  <2>1. ChannelTypes' /\ OwnerTypes'
    BY <1>1, <1>6, ReturnTyped DEF EngineStopReturns, StopSession
  <2>2. state' \in States /\ torn' = {}
    BY <1>6 DEF StopSession, Idle, PlaybackState, States, StateKinds
  <2>3. timers' \subseteq Nat /\ timerVersion' \in Nat /\ deadline' = FALSE
    BY <1>6 DEF StopSession, TimersAfterCancel, TypeOK, OutsideTypes
  <2>4. source' = None /\ closedSources' \subseteq Sources /\ hasOptions' = FALSE /\ highlight' = None
    BY <1>6 DEF StopSession, ReleaseSource, TypeOK, PlaybackTypes, OutsideTypes
  <2> QED BY <1>2, <2>1, <2>2, <2>3, <2>4
          DEF TypeOK, PlaybackTypes, OutsideTypes, EngineStopReturns
<1> QED BY <1>3, <1>4, <1>5, <1>6 DEF EngineStopReturns

LEMMA CommitReturnsTyped == TypeOK /\ Control /\ CommitReturns => TypeOK'
<1> SUFFICES ASSUME TypeOK, Control, CommitReturns PROVE TypeOK' OBVIOUS
<1>1. current \in Messages /\ current.segment \in Segments
  BY MessageFacts DEF Control, CommitReturns
<1>2. ChannelTypes' /\ OwnerTypes'
  BY <1>1, ReturnTyped DEF CommitReturns, history
<1> QED BY <1>1, <1>2
        DEF TypeOK, PlaybackTypes, OutsideTypes, CommitReturns, playback, timing, history

LEMMA ShowReturnsTyped == TypeOK /\ Control /\ ShowReturns => TypeOK'
<1> SUFFICES ASSUME TypeOK, Control, ShowReturns PROVE TypeOK' OBVIOUS
<1>1. current \in Messages /\ target \in Segments /\ generation \in Nat
  BY DEF Control, ShowReturns, TypeOK, PlaybackTypes
<1>2. ChannelTypes' /\ OwnerTypes'
  BY <1>1, ReturnTyped DEF ShowReturns, history
<1>3. state' \in States /\ JobId(generation, target) \in JobIds
  BY <1>1 DEF ShowReturns, PlaybackState, States, StateKinds, JobId, JobIds
<1>4. NewJob(generation, target) \in JobRecords
  BY <1>3 DEF NewJob, JobRecords
<1> QED BY <1>1, <1>2, <1>3, <1>4
        DEF TypeOK, PlaybackTypes, OutsideTypes, ShowReturns, timing, history

LEMMA CallerStepTyped ==
  ASSUME TypeOK, \/ \E c \in Callers, m \in Commands : Submit(c, m)
                 \/ RequestClose \/ CancelOwner \/ CancelScope
  PROVE  TypeOK'
<1>1. ASSUME NEW c \in Callers, NEW m \in Commands, Submit(c, m) PROVE TypeOK'
  <2>1. CommandMessage(c, m) \in Messages
    BY DEF CommandMessage, CommandMessages, Messages
  <2>2. queue' \in Seq(Messages) /\ delivered' \in Messages \cup {None}
    BY <1>1, <2>1, PostTyped DEF Submit, TypeOK, ChannelTypes
  <2>3. ack' \in [Callers -> Outcomes]
    BY <1>1, AnswerTyped DEF Submit, TypeOK, ChannelTypes, Outcomes
  <2> QED BY <1>1, <2>2, <2>3
          DEF Submit, TypeOK, ChannelTypes, OwnerTypes, PlaybackTypes, OutsideTypes,
              playback, timing, outside, history
<1>2. ASSUME RequestClose PROVE TypeOK'
  <2>1. closing' \in BOOLEAN /\ queue' \in Seq(Messages) /\ ack' \in [Callers -> Outcomes]
    BY <1>2, CloseAdmissionTyped DEF RequestClose, TypeOK, ChannelTypes, Outcomes
  <2> QED BY <1>2, <2>1
          DEF RequestClose, TypeOK, ChannelTypes, OwnerTypes, PlaybackTypes, OutsideTypes,
              playback, timing, outside, history
<1>3. ASSUME CancelOwner PROVE TypeOK'
  BY <1>3 DEF CancelOwner, AbortReceive, TypeOK, ChannelTypes, OwnerTypes, PlaybackTypes, OutsideTypes,
              admission, playback, timing, outside, history
<1>4. ASSUME CancelScope PROVE TypeOK'
  <2>1. jobs' \subseteq JobRecords
    BY <1>4, CancelJobsTyped DEF CancelScope, TypeOK, PlaybackTypes
  <2> QED BY <1>4, <2>1
          DEF CancelScope, AbortReceive, TypeOK, ChannelTypes, OwnerTypes, PlaybackTypes, OutsideTypes,
              admission, outside, history
<1> QED BY <1>1, <1>2, <1>3, <1>4

LEMMA OwnerEndTyped ==
  TypeOK /\ (OwnerStarts \/ OwnerEnds) => TypeOK'
<1> SUFFICES ASSUME TypeOK, OwnerStarts \/ OwnerEnds PROVE TypeOK' OBVIOUS
<1>1. CASE OwnerStarts
  BY <1>1 DEF OwnerStarts, TypeOK, ChannelTypes, OwnerTypes, PlaybackTypes, OutsideTypes,
              admission, playback, timing, outside, history
<1>2. CASE OwnerThrows
  <2>1. delivered' \in Messages \cup {None} /\ lost' \subseteq Callers
    BY <1>2, MessageFacts DEF OwnerThrows, TypeOK, ChannelTypes
  <2> QED BY <1>2, <2>1, TerminateTyped DEF OwnerThrows
<1>3. CASE ChannelClosed
  <2>1. delivered' \in Messages \cup {None} /\ lost' \subseteq Callers
    BY <1>3 DEF ChannelClosed, TypeOK, ChannelTypes
  <2> QED BY <1>3, <2>1, TerminateTyped DEF ChannelClosed
<1>4. CASE CleanupReturns
  <2>1. jobs' \subseteq JobRecords
    <3>1. CASE jobs' = CancelJobs(jobs)
      BY <3>1, CancelJobsTyped DEF TypeOK, PlaybackTypes
    <3>2. CASE jobs' = {[j EXCEPT !.cancelled = TRUE] : j \in {k \in Silenced : k.phase # "launched"}}
      <4>1. \A j \in Silenced : [j EXCEPT !.cancelled = TRUE] \in JobRecords
        BY SilencedTyped DEF TypeOK, PlaybackTypes, JobRecords
      <4> QED BY <3>2, <4>1
    <3> QED BY <1>4, <3>1, <3>2 DEF CleanupReturns
  <2>2. state' \in States
    BY <1>4 DEF CleanupReturns, Idle, PlaybackState, States, StateKinds
  <2>3. source' = None /\ closedSources' \subseteq Sources
    BY <1>4 DEF CleanupReturns, ReleaseSource, TypeOK, PlaybackTypes, OutsideTypes
  <2> QED BY <1>4, <2>1, <2>2, <2>3
          DEF CleanupReturns, TypeOK, ChannelTypes, OwnerTypes, PlaybackTypes, OutsideTypes, admission
<1>5. CASE OwnerNeverStarts
  <2>1. closing' \in BOOLEAN /\ queue' \in Seq(Messages) /\ ack' \in [Callers -> Outcomes]
    BY <1>5, CloseAdmissionTyped DEF OwnerNeverStarts, TypeOK, ChannelTypes, Outcomes
  <2> QED BY <1>5, <2>1
          DEF OwnerNeverStarts, TypeOK, ChannelTypes, OwnerTypes, PlaybackTypes, OutsideTypes,
              playback, timing, outside, history
<1> QED BY <1>1, <1>2, <1>3, <1>4, <1>5 DEF OwnerEnds

LEMMA PostIfOpenTyped ==
  ASSUME ChannelTypes, NEW m \in Messages, PostIfOpen(m)
  PROVE  queue' \in Seq(Messages) /\ delivered' \in Messages \cup {None}
  BY PostTyped DEF ChannelTypes, PostIfOpen

LEMMA CoroutineTyped ==
  ASSUME TypeOK, \/ \E j \in jobs : JobSpeaks(j) \/ JobEnds(j)
                 \/ \E v \in timers : TimerFires(v)
  PROVE  TypeOK'
<1>1. ASSUME NEW j \in jobs, JobSpeaks(j) PROVE TypeOK'
  <2>1. [j EXCEPT !.phase = "speaking"] \in JobRecords
    BY DEF TypeOK, PlaybackTypes, JobRecords
  <2> QED BY <1>1, <2>1
          DEF JobSpeaks, TypeOK, ChannelTypes, OwnerTypes, PlaybackTypes, OutsideTypes,
              admission, timing, outside, history
<1>2. ASSUME NEW j \in jobs, JobAborts(j) PROVE TypeOK'
  BY <1>2 DEF JobAborts, TypeOK, ChannelTypes, OwnerTypes, PlaybackTypes, OutsideTypes,
              admission, timing, outside, history
<1>3. ASSUME NEW j \in jobs, NEW r \in Results, JobFinishes(j, r) PROVE TypeOK'
  <2>1. FinishedMessage(j.id.generation, j.id.segment, r) \in Messages
    BY DEF TypeOK, PlaybackTypes, JobRecords, JobIds, FinishedMessage, FinishedMessages, Messages
  <2>2. queue' \in Seq(Messages) /\ delivered' \in Messages \cup {None}
    BY <1>3, <2>1, PostIfOpenTyped DEF JobFinishes, TypeOK
  <2> QED BY <1>3, <2>2
          DEF JobFinishes, TypeOK, ChannelTypes, OwnerTypes, PlaybackTypes, OutsideTypes,
              timing, outside, history
<1>4. ASSUME NEW v \in timers, TimerFires(v) PROVE TypeOK'
  <2>1. ExpiredMessage(v) \in Messages
    BY DEF TypeOK, OutsideTypes, ExpiredMessage, ExpiredMessages, Messages
  <2>2. queue' \in Seq(Messages) /\ delivered' \in Messages \cup {None}
    BY <1>4, <2>1, PostIfOpenTyped DEF TimerFires, TypeOK
  <2> QED BY <1>4, <2>2
          DEF TimerFires, TypeOK, ChannelTypes, OwnerTypes, PlaybackTypes, OutsideTypes,
              playback, outside, history
<1> QED BY <1>1, <1>2, <1>3, <1>4 DEF JobEnds

LEMMA TypeOKPreserved == TypeOK /\ Control /\ [Next]_vars => TypeOK'
<1> SUFFICES ASSUME TypeOK, Control, [Next]_vars PROVE TypeOK' OBVIOUS
<1>1. CASE OwnerReceives
  BY <1>1, ReceiveStartTyped, ReceivePauseOrUpdateTyped, ReceiveResumeTyped, ReceiveMoveTyped,
     ReceiveTimerTyped, ReceiveStopTyped, ReceiveExpiredTyped, ReceiveFinishedTyped
     DEF OwnerReceives
<1>2. CASE OwnerContinues
  <2>1. CASE SourceFails \/ EngineStopFails \/ CommitFails
    BY <2>1, HandlerFailsTyped DEF Control, SourceFails, EngineStopFails, CommitFails
  <2> QED BY <1>2, <2>1, SourceReturnsTyped, EngineStopReturnsTyped, CommitReturnsTyped,
             ShowReturnsTyped DEF OwnerContinues
<1>3. CASE UNCHANGED vars
  BY <1>3 DEF vars, TypeOK, ChannelTypes, OwnerTypes, PlaybackTypes, OutsideTypes,
              admission, playback, timing, outside, history
<1> QED BY <1>1, <1>2, <1>3, CallerStepTyped, OwnerEndTyped, CoroutineTyped DEF Next, OwnerStep

-----------------------------------------------------------------------------
(* Messages and the current generation *)

LEMMA QueueIndices ==
  ASSUME ChannelTypes
  PROVE  /\ Len(queue) \in Nat /\ DOMAIN queue = 1..Len(queue)
         /\ \A i \in DOMAIN queue : queue[i] \in Messages /\ queue[i] # None
  BY LenProperties, ElementOfSeq, SessionAssumption DEF ChannelTypes

(* Taking a message shifts the others by d and leaves the rest as it was. *)
LEMMA TakeShifts ==
  ASSUME ChannelTypes, Take
  PROVE  \E d \in {0, 1}, t \in Nat :
           /\ t = 0 \/ t \in DOMAIN queue
           /\ MessageAt(t) = Incoming /\ Incoming # None
           /\ delivered' = None
           /\ \A i \in DOMAIN queue' : /\ i \in Nat \ {0} /\ i + d \in DOMAIN queue /\ i + d # t
                                       /\ queue'[i] = queue[i + d]
<1>1. CASE delivered # None
  <2>1. \A i \in DOMAIN queue' : i \in Nat \ {0} /\ i + 0 \in DOMAIN queue /\ i + 0 # 0
                                 /\ queue'[i] = queue[i + 0]
    BY <1>1, QueueIndices DEF Take
  <2>2. MessageAt(0) = Incoming /\ Incoming # None /\ delivered' = None
    BY <1>1 DEF MessageAt, Incoming, Take
  <2> QED BY <2>1, <2>2
<1>2. CASE delivered = None
  <2>1. queue # <<>> /\ queue \in Seq(Messages)
    BY <1>2 DEF Take, HasIncoming, ChannelTypes
  <2>2. /\ Tail(queue) \in Seq(Messages) /\ Len(Tail(queue)) = Len(queue) - 1
        /\ \A i \in 1..Len(Tail(queue)) : Tail(queue)[i] = queue[i + 1]
    BY <2>1, HeadTailProperties
  <2>3. Len(queue) \in Nat \ {0} /\ DOMAIN queue = 1..Len(queue) /\ DOMAIN Tail(queue) = 1..Len(Tail(queue))
    BY <2>1, <2>2, EmptySeq, LenProperties
  <2>4. queue' = Tail(queue) /\ delivered' = None
    BY <1>2 DEF Take
  <2>5. \A i \in DOMAIN queue' : i \in Nat \ {0} /\ i + 1 \in DOMAIN queue /\ i + 1 # 1
                                 /\ queue'[i] = queue[i + 1]
    BY <2>2, <2>3, <2>4
  <2>6. 1 \in DOMAIN queue /\ MessageAt(1) = Incoming
    BY <1>2, <2>3 DEF MessageAt, Incoming
  <2>7. Incoming # None
    BY <2>6, QueueIndices DEF MessageAt
  <2> QED BY <2>4, <2>5, <2>6, <2>7
<1> QED BY <1>1, <1>2

LEMMA TakeWaiting ==
  ASSUME ChannelTypes, Take
  PROVE  Waiting' \subseteq Waiting
<1>1. PICK d \in {0, 1}, t \in Nat :
           /\ delivered' = None
           /\ \A i \in DOMAIN queue' : i + d \in DOMAIN queue /\ queue'[i] = queue[i + d]
  BY TakeShifts
<1> QED BY <1>1 DEF Waiting

(* A received result of the current generation was the fresh one, and no      *)
(* other message becomes fresh.                                               *)
LEMMA TakeFresh ==
  ASSUME ChannelTypes, Take, UNCHANGED generation
  PROVE  /\ Fresh' # {} => Fresh # {}
         /\ (\A i, k \in Fresh : i = k) => (\A i, k \in Fresh' : i = k)
         /\ IsFinished(Incoming) /\ ~Stale(Incoming) =>
              /\ Fresh # {}
              /\ (\A i, k \in Fresh : i = k) => Fresh' = {}
<1>1. PICK d \in {0, 1}, t \in Nat :
           /\ t = 0 \/ t \in DOMAIN queue
           /\ MessageAt(t) = Incoming /\ Incoming # None
           /\ delivered' = None
           /\ \A i \in DOMAIN queue' : /\ i \in Nat \ {0} /\ i + d \in DOMAIN queue /\ i + d # t
                                       /\ queue'[i] = queue[i + d]
  BY TakeShifts
<1>2. \A i \in Fresh' : i \in Nat /\ i + d \in Fresh /\ i + d # t
  BY <1>1 DEF Fresh, IsFresh
<1>3. IsFinished(Incoming) /\ ~Stale(Incoming) => t \in Fresh
  <2>1. t \in DOMAIN queue => t # 0
    BY QueueIndices
  <2> QED BY <1>1, <2>1 DEF Fresh, IsFresh, Stale, MessageAt
<1>4. \A i, k \in Nat : i + d = k + d => i = k
  BY <1>1
<1> QED BY <1>2, <1>3, <1>4

(* With a new generation every result already waiting is stale. *)
LEMMA OldResults ==
  ASSUME Waiting' \subseteq Waiting, generation' = generation + 1, generation \in Nat,
         \A m \in Waiting : IsFinished(m) => m.generation <= generation,
         \A m \in Waiting : IsFinished(m) => m.generation \in Nat
  PROVE  /\ Fresh' = {}
         /\ \A m \in Waiting' : IsFinished(m) => m.generation <= generation'
<1>1. \A m \in Waiting' : ~(IsFinished(m) /\ m.generation = generation')
  OBVIOUS
<1>2. \A i \in Fresh' : \E m \in Waiting' : IsFinished(m) /\ m.generation = generation'
  BY DEF Fresh, IsFresh, Waiting, IsFinished
<1> QED BY <1>1, <1>2

LEMMA WaitingTyped ==
  ASSUME ChannelTypes
  PROVE  \A m \in Waiting : m \in Messages /\ (IsFinished(m) => m.generation \in Nat)
<1>1. \A m \in Waiting : m \in Messages
  BY QueueIndices DEF ChannelTypes, Waiting
<1> QED BY <1>1, MessageFacts

LEMMA PostWaiting ==
  ASSUME ChannelTypes, NEW m \in Messages, Post(m)
  PROVE  /\ Waiting' \subseteq Waiting \cup {m}
         /\ UNCHANGED generation /\ ~IsFresh(m) => Fresh' = Fresh
         /\ UNCHANGED generation /\ Fresh = {} => \A i, k \in Fresh' : i = k
<1>1. CASE delivered' = m /\ UNCHANGED queue /\ delivered = None
  BY <1>1 DEF Waiting, Fresh, IsFresh, IsFinished
<1>2. CASE queue' = Append(queue, m) /\ UNCHANGED delivered
  <2>1. /\ Append(queue, m) \in Seq(Messages) /\ Len(Append(queue, m)) = Len(queue) + 1
        /\ \A i \in 1..Len(queue) : Append(queue, m)[i] = queue[i]
        /\ Append(queue, m)[Len(queue) + 1] = m
    BY AppendProperties DEF ChannelTypes
  <2>2. DOMAIN queue' = DOMAIN queue \cup {Len(queue) + 1}
    BY <1>2, <2>1, QueueIndices, LenProperties
  <2>3. \A i \in DOMAIN queue' : queue'[i] = IF i = Len(queue) + 1 THEN m ELSE queue[i]
    BY <1>2, <2>1, <2>2, QueueIndices
  <2>4. Len(queue) + 1 \notin DOMAIN queue
    BY QueueIndices
  <2>5. Waiting' \subseteq Waiting \cup {m}
    BY <1>2, <2>2, <2>3 DEF Waiting
  <2>6. ASSUME UNCHANGED generation
        PROVE  Fresh' = Fresh \cup {i \in {Len(queue) + 1} : IsFresh(m)}
    BY <1>2, <2>2, <2>3, <2>4, <2>6 DEF Fresh, IsFresh, IsFinished
  <2> QED BY <2>5, <2>6
<1> QED BY <1>1, <1>2 DEF Post

-----------------------------------------------------------------------------
(* Control *)

LEMMA NotNone == None \notin Sources /\ None \notin Segments
  BY SessionAssumption

(* A step that does not touch what the state and the source say keeps Control *)
(* when it ends the handler, or does not touch the handler either.            *)
LEMMA ControlIdle ==
  ASSUME Control, UNCHANGED <<state, source, hasOptions>>,
         owner' \in {"wait", "aborted", "cleanup", "dead"} \/ UNCHANGED <<owner, current, target>>
  PROVE  Control'
<1>1. CASE owner' \in {"wait", "aborted", "cleanup", "dead"}
  BY <1>1 DEF Control
<1>2. CASE UNCHANGED <<owner, current, target>>
  BY <1>2 DEF Control, IsOp, IsCommand
<1> QED BY <1>1, <1>2

LEMMA ReceiveControl ==
  TypeOK /\ Control /\ Live /\ OwnerReceives => Control'
<1> SUFFICES ASSUME TypeOK, Control, Live, OwnerReceives PROVE Control' OBVIOUS
<1> USE NotNone
<1>0. Incoming \in Messages
  BY TakeTyped DEF TypeOK, OwnerReceives, ReceiveStart, ReceivePauseOrUpdate, ReceiveResume,
     ReceiveMove, ReceiveTimer, ReceiveStop, ReceiveExpired, ReceiveFinished
<1>1. CASE ReceiveStart
  <2>1. IsOp(Incoming, {"Start"}) /\ Incoming.command.arg \in Sources
    BY <1>0, <1>1, MessageFacts, CommandFacts DEF IsOp, ReceiveStart
  <2>2. CASE Suspend(Incoming, "engineStop", None) /\ UNCHANGED <<state, source, hasOptions>>
    BY <1>0, <2>1, <2>2 DEF Control, Suspend, IsOp, Moves
  <2>3. CASE Suspend(Incoming, "source", None) /\ AdoptSource(Incoming.command.arg) /\ UNCHANGED state
    BY <1>0, <2>1, <2>3 DEF Control, Suspend, AdoptSource, IsOp, Moves
  <2> QED BY <1>1, <2>2, <2>3 DEF ReceiveStart
<1>2. CASE ReceivePauseOrUpdate
  <2>1. hasOptions => hasOptions'
    BY <1>2 DEF ReceivePauseOrUpdate
  <2>2. UNCHANGED <<state, source>>
    BY <1>2 DEF ReceivePauseOrUpdate
  <2>3. CASE Finish(Incoming)
    BY <2>1, <2>2, <2>3 DEF Control, Finish
  <2>4. CASE state.segment # None /\ Suspend(Incoming, "engineStop", state.segment)
    <3>1. state.segment \in Segments /\ source # None
      BY <2>4 DEF TypeOK, PlaybackTypes, States, Control
    <3> QED BY <1>0, <2>1, <2>2, <2>4, <3>1 DEF Control, Suspend
  <2> QED BY <1>2, <2>3, <2>4 DEF ReceivePauseOrUpdate
<1>3. CASE ReceiveResume
  <2>1. UNCHANGED <<source, hasOptions>>
    BY <1>3 DEF ReceiveResume
  <2>2. CASE Finish(Incoming) /\ UNCHANGED state
    BY <2>1, <2>2, ControlIdle DEF Finish
  <2>3. CASE state.kind = "Paused" /\ BeginPlayback(Incoming, state.segment)
    <3>1. state.segment \in Segments /\ source # None
      BY <2>3 DEF Control
    <3> QED BY <1>0, <2>1, <2>3, <3>1 DEF Control, BeginPlayback, Suspend, PlaybackState
  <2> QED BY <1>3, <2>2, <2>3 DEF ReceiveResume
<1>4. CASE ReceiveMove
  <2>1. UNCHANGED <<state, source, hasOptions>>
    BY <1>4 DEF ReceiveMove, playback
  <2>2. CASE Finish(Incoming)
    BY <2>1, <2>2, ControlIdle DEF Finish
  <2>3. CASE source # None /\ Suspend(Incoming, "source", None)
    BY <1>0, <1>4, <2>1, <2>3 DEF Control, Suspend, ReceiveMove, IsOp, Moves
  <2> QED BY <1>4, <2>2, <2>3 DEF ReceiveMove
<1>5. CASE ReceiveTimer
  BY <1>5, ControlIdle DEF ReceiveTimer, Finish, playback
<1>6. CASE ReceiveStop
  BY <1>0, <1>6 DEF ReceiveStop, Control, Suspend, IsOp, Moves
<1>7. CASE ReceiveExpired
  <2>1. UNCHANGED <<state, source, hasOptions>>
    BY <1>7 DEF ReceiveExpired
  <2>2. CASE Finish(Incoming)
    BY <2>1, <2>2, ControlIdle DEF Finish
  <2>3. CASE Suspend(Incoming, "engineStop", None)
    BY <1>0, <1>7, <2>1, <2>3 DEF ReceiveExpired, Control, Suspend, IsOp, IsCommand
  <2> QED BY <1>7, <2>2, <2>3 DEF ReceiveExpired
<1>8. CASE ReceiveFinished
  <2>1. UNCHANGED <<source, hasOptions>> /\ Incoming \in FinishedMessages /\ Incoming.segment \in Segments
    BY <1>0, <1>8, MessageFacts DEF ReceiveFinished
  <2>2. CASE Stale(Incoming)
    BY <1>8, <2>1, <2>2, ControlIdle DEF ReceiveFinished, Finish
  <2>3. CASE ~Stale(Incoming)
    <3>1. ~Quiet
      BY <1>8, <2>3, TakeFresh DEF TypeOK, ReceiveFinished, Quiet
    <3>2. source # None
      BY <3>1 DEF Live, Control
    <3>3. CASE Suspend(Incoming, "commit", None) /\ UNCHANGED state
      BY <1>0, <2>1, <3>2, <3>3 DEF Control, Suspend
    <3>4. CASE Finish(Incoming) /\ state' \in {PlaybackState("Paused", Incoming.segment),
                                               PlaybackState("Error", Incoming.segment)}
      BY <2>1, <3>2, <3>4 DEF Control, Finish, PlaybackState
    <3> QED BY <1>8, <2>3, <3>3, <3>4 DEF ReceiveFinished
  <2> QED BY <2>2, <2>3
<1> QED BY <1>1, <1>2, <1>3, <1>4, <1>5, <1>6, <1>7, <1>8 DEF OwnerReceives

LEMMA ContinueControl ==
  TypeOK /\ Control /\ OwnerContinues => Control'
<1> SUFFICES ASSUME TypeOK, Control, OwnerContinues PROVE Control' OBVIOUS
<1> USE NotNone
<1>1. CASE SourceReturns
  <2> DEFINE i == SourceIndex(current, source)
             s == SegmentAt(source, i)
  <2>1. current \in Messages /\ source \in Sources /\ owner = "source"
    BY <1>1 DEF Control, SourceReturns, TypeOK, PlaybackTypes
  <2>2. i \in 0..SegmentCount[source] /\ SegmentCount[source] \in Nat
    BY <1>1, <2>1, SourceIndexTyped, SessionAssumption DEF TypeOK, OutsideTypes, Control
  <2>3. s \in Segments
    BY <2>1, <2>2 DEF SegmentAt, Segments
  <2>4. UNCHANGED <<source, hasOptions>>
    BY <1>1 DEF SourceReturns
  <2> HIDE DEF i, s
  <2>5. CASE Exhausted /\ Finish(current)
    BY <2>4, <2>5 DEF Control, Exhausted, Finish, Completed, PlaybackState
  <2>6. CASE IsOp(current, Moves) /\ Suspend(current, "engineStop", s) /\ UNCHANGED state
    BY <2>1, <2>3, <2>4, <2>6 DEF Control, Suspend
  <2>7. CASE BeginPlayback(current, s)
    BY <2>1, <2>3, <2>4, <2>7 DEF Control, BeginPlayback, Suspend, PlaybackState
  <2> QED BY <1>1, <2>5, <2>6, <2>7 DEF SourceReturns, i, s, Moves
<1>2. CASE SourceFails \/ EngineStopFails \/ CommitFails
  BY <1>2, ControlIdle DEF SourceFails, EngineStopFails, CommitFails, HandlerFails, Terminate, playback
<1>3. CASE EngineStopReturns
  <2>1. current \in Messages /\ owner = "engineStop"
    BY <1>3 DEF Control, EngineStopReturns
  <2>2. CASE IsOp(current, {"Start"}) /\ AdoptSource(current.command.arg) /\ Suspend(current, "source", None)
             /\ UNCHANGED state
    <3>1. current.command.arg \in Sources
      BY <2>1, <2>2, MessageFacts, CommandFacts DEF IsOp
    <3> QED BY <2>1, <2>2, <3>1 DEF Control, AdoptSource, Suspend, IsOp, Moves
  <2>3. CASE IsOp(current, {"Pause"}) /\ state' = PlaybackState("Paused", target) /\ Finish(current)
             /\ UNCHANGED <<source, hasOptions>>
    BY <2>1, <2>3 DEF Control, Finish, PlaybackState, IsOp, Moves
  <2>4. CASE /\ IsOp(current, {"Next", "Previous", "Seek", "UpdateOptions"})
             /\ BeginPlayback(current, target) /\ UNCHANGED <<source, hasOptions>>
    <3>1. target \in Segments /\ source # None
      BY <2>1, <2>4 DEF Control, IsOp, Moves
    <3> QED BY <2>1, <2>4, <3>1 DEF Control, BeginPlayback, Suspend, PlaybackState
  <2>5. CASE StopSession
    BY <2>5 DEF Control, StopSession, ReleaseSource, Finish, Idle, PlaybackState
  <2> QED BY <1>3, <2>2, <2>3, <2>4, <2>5 DEF EngineStopReturns
<1>4. CASE CommitReturns
  BY <1>4 DEF Control, CommitReturns, Suspend, playback
<1>5. CASE ShowReturns
  BY <1>5 DEF Control, ShowReturns, Finish, PlaybackState
<1> QED BY <1>1, <1>2, <1>3, <1>4, <1>5 DEF OwnerContinues

LEMMA ControlPreserved == TypeOK /\ Control /\ Live /\ [Next]_vars => Control'
<1> SUFFICES ASSUME TypeOK, Control, Live, [Next]_vars PROVE Control' OBVIOUS
<1>1. CASE \/ \E c \in Callers, m \in Commands : Submit(c, m)
           \/ RequestClose \/ CancelOwner \/ CancelScope \/ UNCHANGED vars
  BY <1>1, ControlIdle
     DEF Submit, RequestClose, CancelOwner, CancelScope, AbortReceive, vars, playback
<1>2. CASE OwnerStarts \/ OwnerThrows \/ ChannelClosed \/ OwnerNeverStarts
  BY <1>2, ControlIdle DEF OwnerStarts, OwnerThrows, ChannelClosed, OwnerNeverStarts, Terminate, playback
<1>3. CASE CleanupReturns
  BY <1>3 DEF CleanupReturns, Control, ReleaseSource, Idle, PlaybackState
<1>4. CASE \/ \E j \in jobs : JobSpeaks(j) \/ JobEnds(j)
           \/ \E v \in timers : TimerFires(v)
  BY <1>4, ControlIdle DEF JobSpeaks, JobEnds, JobAborts, JobFinishes, TimerFires, playback
<1> QED BY <1>1, <1>2, <1>3, <1>4, ReceiveControl, ContinueControl
        DEF Next, OwnerStep, OwnerEnds

-----------------------------------------------------------------------------
(* Live *)

(* jobs' holds no other playbacks than jobs, and revives none. *)
Fewer == \A j \in jobs' : \E k \in jobs : j.id = k.id /\ (~j.cancelled => ~k.cancelled)

LEMMA CancelJobsFewer ==
  ASSUME jobs \subseteq JobRecords, NEW js \in SUBSET jobs, jobs' = CancelJobs(js)
  PROVE  /\ Fewer
         /\ \A j \in jobs' : ~j.cancelled => j \in jobs \ js
<1>1. \A k \in jobs : /\ [k EXCEPT !.cancelled = TRUE].id = k.id
                      /\ [k EXCEPT !.cancelled = TRUE].cancelled = TRUE
  BY DEF JobRecords
<1> QED BY <1>1 DEF CancelJobs, Fewer

LEMMA SilencedFewer ==
  ASSUME jobs \subseteq JobRecords, jobs' = Silenced
  PROVE  Fewer
<1>1. \A k \in jobs : LET s == [k EXCEPT !.phase = IF @ = "speaking" THEN "stopped" ELSE @]
                      IN  s.id = k.id /\ s.cancelled = k.cancelled
  BY DEF JobRecords
<1> QED BY <1>1 DEF Silenced, Fewer

(* A new generation finds nothing that can report into it. *)
LEMMA NewGenerationLive ==
  ASSUME TypeOK, Live, Waiting' \subseteq Waiting, generation' = generation + 1,
         Fewer, \A j \in jobs' : j.cancelled
  PROVE  Live' /\ Quiet'
<1>1. generation \in Nat /\ \A j \in jobs : j.id.generation \in Nat /\ j.id.generation <= generation
  BY DEF TypeOK, PlaybackTypes, JobRecords, JobIds, Live
<1>2. Fresh' = {} /\ \A m \in Waiting' : IsFinished(m) => m.generation <= generation'
  BY <1>1, OldResults, WaitingTyped DEF TypeOK, Live
<1>3. \A j \in jobs' : j.id.generation <= generation' /\ j.id.generation # generation'
  BY <1>1 DEF Fewer
<1>4. CurrentJobs' = {} /\ LiveJobs' = {}
  BY <1>3 DEF CurrentJobs, LiveJobs
<1> QED BY <1>2, <1>3, <1>4 DEF Live, Quiet, OneLivePlayback

(* A step within a generation that adds no job and no fresh result. *)
LEMMA SameGenerationLive ==
  ASSUME TypeOK, Live, UNCHANGED generation,
         \A m \in Waiting' : IsFinished(m) => m.generation <= generation,
         Fresh' # {} => Fresh # {},
         \A i, k \in Fresh' : i = k,
         Fewer, \A j, k \in CurrentJobs' : j = k,
         Quiet' \/ /\ UNCHANGED playbackJob
                   /\ state'.kind = "Playing"
                   /\ Receiving' \/ (owner' = "source" /\ IsOp(current, Moves)')
  PROVE  Live'
<1>1. \A j \in CurrentJobs' : \E k \in CurrentJobs : j.id = k.id
  BY DEF CurrentJobs, Fewer
<1>2. LiveJobs' \subseteq CurrentJobs'
  BY DEF LiveJobs, CurrentJobs, Fewer, Live, OneLivePlayback
<1>3. \A j \in jobs' : j.id.generation <= generation'
  BY DEF Live, Fewer
<1>4. CurrentJobs' # {} => Fresh' = {}
  BY <1>1 DEF Live, OneLivePlayback
<1>5. \A j \in CurrentJobs' : j.id = playbackJob'
  BY <1>1 DEF Live, Quiet
<1> QED BY <1>2, <1>3, <1>4, <1>5 DEF Live, OneLivePlayback, Quiet, Receiving

(* invalidatePlayback(): generation, job and results are left behind together. *)
LEMMA InvalidateLive ==
  ASSUME TypeOK, Live, Invalidate, Waiting' \subseteq Waiting
  PROVE  Live' /\ Quiet'
<1> DEFINE js == {j \in jobs : j.id = playbackJob}
<1>1. jobs' = CancelJobs(js) /\ generation' = generation + 1 /\ jobs \subseteq JobRecords
  BY DEF Invalidate, CancelPlaybackJob, TypeOK, PlaybackTypes
<1>2. Fewer /\ \A j \in jobs' : ~j.cancelled => j \in jobs \ js
  BY <1>1, CancelJobsFewer
<1>3. \A j \in jobs : ~j.cancelled => j \in js
  BY DEF Live, OneLivePlayback, LiveJobs, CurrentJobs
<1> QED BY <1>1, <1>2, <1>3, NewGenerationLive

LEMMA TerminateLive ==
  ASSUME TypeOK, Live, NEW mine, NEW r, Terminate(mine, r), Waiting' \subseteq Waiting
  PROVE  Live'
<1> DEFINE js == {j \in jobs : j.id = playbackJob}
<1>1. jobs' = CancelJobs(js) /\ generation' = generation + 1 /\ jobs \subseteq JobRecords
  BY DEF Terminate, CancelPlaybackJob, TypeOK, PlaybackTypes
<1>2. Fewer /\ \A j \in jobs' : ~j.cancelled => j \in jobs \ js
  BY <1>1, CancelJobsFewer
<1>3. \A j \in jobs : ~j.cancelled => j \in js
  BY DEF Live, OneLivePlayback, LiveJobs, CurrentJobs
<1> QED BY <1>1, <1>2, <1>3, NewGenerationLive

(* The channel as a step leaves it: taken from, drained, or not touched. *)
LEMMA ChannelLive ==
  ASSUME TypeOK, Live, UNCHANGED generation,
         \/ Take
         \/ delivered' \in {delivered, None} /\ queue' \in {queue, <<>>}
  PROVE  /\ \A m \in Waiting' : IsFinished(m) => m.generation <= generation
         /\ Fresh' # {} => Fresh # {}
         /\ \A i, k \in Fresh' : i = k
<1>1. CASE Take
  BY <1>1, TakeWaiting, TakeFresh DEF TypeOK, Live, OneLivePlayback
<1>2. CASE delivered' \in {delivered, None} /\ queue' \in {queue, <<>>}
  <2>1. Waiting' \subseteq Waiting /\ Fresh' \subseteq Fresh
    BY <1>2 DEF Waiting, Fresh, IsFresh, IsFinished
  <2> QED BY <2>1 DEF Live, OneLivePlayback
<1> QED BY <1>1, <1>2

(* Steps that neither create, cancel nor end a playback. *)
LEMMA IdleLive ==
  ASSUME TypeOK, Live, UNCHANGED <<generation, jobs, playbackJob>>,
         \/ Take
         \/ delivered' \in {delivered, None} /\ queue' \in {queue, <<>>},
         Quiet \/ /\ UNCHANGED state
                  /\ Receiving' \/ (owner' = "source" /\ IsOp(current, Moves)')
  PROVE  Live'
<1>1. Fewer /\ CurrentJobs' = CurrentJobs
  BY DEF Fewer, CurrentJobs
<1>2. Quiet => Quiet'
  BY <1>1, ChannelLive DEF Quiet
<1>3. \A j, k \in CurrentJobs' : j = k
  BY <1>1 DEF Live, OneLivePlayback
<1> QED BY <1>1, <1>2, <1>3, ChannelLive, SameGenerationLive DEF Live

LEMMA ReceiveLive == TypeOK /\ Control /\ Live /\ OwnerReceives => Live'
<1> SUFFICES ASSUME TypeOK, Control, Live, OwnerReceives PROVE Live' OBVIOUS
<1>0. Take /\ Waiting' \subseteq Waiting
  BY TakeWaiting DEF TypeOK, OwnerReceives, ReceiveStart, ReceivePauseOrUpdate, ReceiveResume,
     ReceiveMove, ReceiveTimer, ReceiveStop, ReceiveExpired, ReceiveFinished
<1>a. CASE Invalidate
  BY <1>0, <1>a, InvalidateLive
<1>b. CASE Finish(Incoming) /\ UNCHANGED <<generation, jobs, playbackJob, state>>
  BY <1>0, <1>b, IdleLive DEF Finish, Receiving
<1>c. ASSUME generation' = generation + 1, UNCHANGED jobs, CurrentJobs = {} PROVE Live'
  <2>1. Fewer /\ \A j \in jobs' : j.cancelled
    BY <1>c DEF Fewer, Live, OneLivePlayback, LiveJobs
  <2> QED BY <1>0, <1>c, <2>1, NewGenerationLive
<1>1. CASE ReceiveStart
  <2>1. CASE playbackJob = None /\ generation' = generation + 1 /\ UNCHANGED jobs
    <3>1. \A j \in jobs : j.id # None
      BY SessionAssumption DEF TypeOK, PlaybackTypes, JobRecords
    <3>2. CurrentJobs = {}
      BY <2>1, <3>1 DEF Live, CurrentJobs
    <3> QED BY <1>c, <2>1, <3>2
  <2> QED BY <1>1, <1>a, <2>1 DEF ReceiveStart
<1>2. CASE ReceivePauseOrUpdate
  BY <1>2, <1>a, <1>b DEF ReceivePauseOrUpdate
<1>3. CASE ReceiveResume
  <2>1. CASE state.kind = "Paused" /\ generation' = generation + 1
    <3>1. CurrentJobs = {}
      BY <2>1 DEF Live, Quiet
    <3> QED BY <1>3, <1>c, <2>1, <3>1 DEF ReceiveResume
  <2> QED BY <1>3, <1>b, <2>1 DEF ReceiveResume
<1>4. CASE ReceiveMove
  <2>1. UNCHANGED <<generation, jobs, playbackJob, state>>
    BY <1>4 DEF ReceiveMove, playback
  <2>2. CASE Suspend(Incoming, "source", None)
    <3>1. owner' = "source" /\ IsOp(current, Moves)'
      BY <1>4, <2>2 DEF ReceiveMove, Suspend, IsOp, IsCommand, Moves
    <3> QED BY <1>0, <2>1, <3>1, IdleLive
  <2> QED BY <1>4, <1>b, <2>1, <2>2 DEF ReceiveMove
<1>5. CASE ReceiveTimer
  BY <1>5, <1>b DEF ReceiveTimer, playback
<1>6. CASE ReceiveStop
  BY <1>6, <1>a DEF ReceiveStop
<1>7. CASE ReceiveExpired
  BY <1>7, <1>a, <1>b DEF ReceiveExpired
<1>8. CASE ReceiveFinished
  <2>1. CASE Stale(Incoming)
    BY <1>8, <1>b, <2>1 DEF ReceiveFinished
  <2>2. CASE ~Stale(Incoming)
    <3>1. UNCHANGED <<generation, jobs>> /\ IsFinished(Incoming)
      BY <1>8 DEF ReceiveFinished
    <3>2. Fresh # {} /\ Fresh' = {}
      BY <1>0, <2>2, <3>1, TakeFresh DEF TypeOK, Live, OneLivePlayback
    <3>3. CurrentJobs = {} /\ CurrentJobs' = {} /\ Fewer
      BY <3>1, <3>2 DEF Live, OneLivePlayback, CurrentJobs, Fewer
    <3> QED BY <1>0, <3>1, <3>2, <3>3, ChannelLive, SameGenerationLive DEF Quiet
  <2> QED BY <2>1, <2>2
<1> QED BY <1>1, <1>2, <1>3, <1>4, <1>5, <1>6, <1>7, <1>8 DEF OwnerReceives

LEMMA ContinueLive == TypeOK /\ Control /\ Live /\ OwnerContinues => Live'
<1> SUFFICES ASSUME TypeOK, Control, Live, OwnerContinues PROVE Live' OBVIOUS
<1>1. CASE SourceReturns
  <2> DEFINE s == SegmentAt(source, SourceIndex(current, source))
  <2>0. owner = "source" /\ UNCHANGED <<queue, delivered>>
    BY <1>1 DEF SourceReturns
  <2>1. CASE Exhausted /\ Finish(current) /\ UNCHANGED <<generation, playbackJob, jobs>>
    <3>1. Quiet \/ UNCHANGED state
      BY <2>0, <2>1 DEF Live, Exhausted, Moves, Receiving
    <3> QED BY <2>0, <2>1, <3>1, IdleLive DEF Finish, Receiving
  <2>2. CASE Invalidate
    <3>1. Waiting' \subseteq Waiting
      BY <2>0 DEF Waiting
    <3> QED BY <2>2, <3>1, InvalidateLive
  <2>3. CASE ~IsOp(current, Moves) /\ UNCHANGED <<generation, playbackJob, jobs>>
    BY <2>0, <2>3, IdleLive DEF Live, Receiving
  <2> QED BY <1>1, <2>1, <2>2, <2>3 DEF SourceReturns, Moves
<1>2. CASE SourceFails \/ EngineStopFails \/ CommitFails
  <2>1. CASE IsCommand(current)
    BY <1>2, <2>1, IdleLive DEF SourceFails, EngineStopFails, CommitFails, HandlerFails, playback, Receiving
  <2>2. CASE Terminate("failed", "failed") /\ UNCHANGED delivered
    <3>1. Waiting' \subseteq Waiting
      BY <2>2 DEF Terminate, CloseAdmission, Waiting
    <3> QED BY <2>2, <3>1, TerminateLive
  <2> QED BY <1>2, <2>1, <2>2 DEF SourceFails, EngineStopFails, CommitFails, HandlerFails
<1>3. CASE EngineStopReturns
  <2>1. Quiet /\ UNCHANGED <<generation, playbackJob, queue, delivered>> /\ jobs' = Silenced
    BY <1>3 DEF Live, EngineStopReturns, Receiving
  <2>2. Fewer
    BY <2>1, SilencedFewer DEF TypeOK, PlaybackTypes
  <2>3. CurrentJobs' = {}
    BY <2>1, <2>2 DEF Quiet, CurrentJobs, Fewer
  <2>4. Quiet'
    BY <2>1, <2>3, ChannelLive DEF Quiet
  <2> QED BY <2>1, <2>2, <2>3, <2>4, ChannelLive, SameGenerationLive
<1>4. CASE CommitReturns
  BY <1>4, IdleLive DEF CommitReturns, Live, playback, Receiving
<1>5. CASE ShowReturns
  <2>1. Quiet /\ UNCHANGED <<generation, queue, delivered>> /\ owner' = "wait"
    BY <1>5 DEF ShowReturns, Live, Finish, Receiving
  <2>2. state'.kind = "Playing"
    BY <1>5 DEF ShowReturns, PlaybackState
  <2>3. Fresh' = {} /\ \A m \in Waiting' : IsFinished(m) => m.generation <= generation'
    BY <2>1, ChannelLive DEF Quiet
  <2>4. generation \in Nat /\ NewJob(generation, target).id = JobId(generation, target)
        /\ JobId(generation, target).generation = generation
    BY DEF TypeOK, PlaybackTypes, NewJob, JobId
  <2>5. jobs' \in {jobs, jobs \cup {NewJob(generation, target)}}
    BY <1>5 DEF ShowReturns
  <2>6. CurrentJobs' \subseteq {NewJob(generation, target)} /\ LiveJobs' \subseteq CurrentJobs'
    BY <2>1, <2>4, <2>5 DEF Live, OneLivePlayback, Quiet, CurrentJobs, LiveJobs
  <2>7. \A j \in jobs' : j.id.generation <= generation'
    BY <2>1, <2>4, <2>5 DEF Live
  <2>8. playbackJob' = JobId(generation, target)
    BY <1>5 DEF ShowReturns
  <2> QED BY <2>1, <2>2, <2>3, <2>4, <2>6, <2>7, <2>8 DEF Live, OneLivePlayback, Quiet, Receiving
<1> QED BY <1>1, <1>2, <1>3, <1>4, <1>5 DEF OwnerContinues

LEMMA OwnerEndLive == TypeOK /\ Live /\ (OwnerStarts \/ OwnerEnds) => Live'
<1> SUFFICES ASSUME TypeOK, Live, OwnerStarts \/ OwnerEnds PROVE Live' OBVIOUS
<1>1. CASE OwnerStarts
  BY <1>1, IdleLive DEF OwnerStarts, admission, playback, Receiving
<1>2. CASE OwnerNeverStarts
  BY <1>2, IdleLive DEF OwnerNeverStarts, CloseAdmission, playback, Live, Receiving
<1>3. CASE OwnerThrows \/ ChannelClosed
  <2>1. Terminate("cancelled", "cancelled")
    BY <1>3 DEF OwnerThrows, ChannelClosed
  <2>2. delivered' \in {delivered, None} /\ queue' \in {queue, <<>>}
    BY <1>3, <2>1 DEF OwnerThrows, ChannelClosed, Terminate, CloseAdmission
  <2>3. Waiting' \subseteq Waiting
    BY <2>2 DEF Waiting
  <2> QED BY <2>1, <2>3, TerminateLive
<1>4. CASE CleanupReturns
  <2>1. Quiet /\ UNCHANGED <<generation, queue, delivered>>
    BY <1>4 DEF CleanupReturns, Live, admission, Receiving
  <2>2. jobs \subseteq JobRecords
    BY DEF TypeOK, PlaybackTypes
  <2>3. Fewer
    <3>1. CASE jobs' = CancelJobs(jobs)
      BY <2>2, <3>1, CancelJobsFewer
    <3>2. CASE jobs' = {[j EXCEPT !.cancelled = TRUE] : j \in {k \in Silenced : k.phase # "launched"}}
      <4>1. \A j \in Silenced : /\ [j EXCEPT !.cancelled = TRUE].id = j.id
                                /\ [j EXCEPT !.cancelled = TRUE].cancelled = TRUE
        BY <2>2, SilencedTyped DEF JobRecords
      <4>2. \A j \in Silenced : \E k \in jobs : j.id = k.id
        BY <2>2 DEF Silenced, JobRecords
      <4>3. \A j \in jobs' : j.cancelled = TRUE /\ \E k \in Silenced : j.id = k.id
        BY <3>2, <4>1
      <4> QED BY <4>2, <4>3 DEF Fewer
    <3> QED BY <1>4, <3>1, <3>2 DEF CleanupReturns
  <2>4. CurrentJobs' = {}
    BY <2>1, <2>3 DEF Quiet, CurrentJobs, Fewer
  <2>5. Quiet'
    BY <2>1, <2>4, ChannelLive DEF Quiet
  <2> QED BY <2>1, <2>3, <2>4, <2>5, ChannelLive, SameGenerationLive
<1> QED BY <1>1, <1>2, <1>3, <1>4 DEF OwnerEnds

LEMMA AbortReceiveSame ==
  ASSUME AbortReceive
  PROVE  SamePlace
  BY DEF AbortReceive, SamePlace

(* A step of somebody else: the owner and the playbacks stay as they are. *)
LEMMA StillLive ==
  ASSUME TypeOK, Live, UNCHANGED <<generation, jobs, playbackJob, state, current>>, SamePlace,
         delivered' = delivered /\ queue' \in {queue, <<>>}
  PROVE  Live'
<1>1. IsOp(current, Moves)' = IsOp(current, Moves)
  BY DEF IsOp, IsCommand
<1> QED BY <1>1, IdleLive DEF Live, SamePlace, Receiving

(* A message that is no result disturbs no playback. *)
LEMMA QuietPostLive ==
  ASSUME TypeOK, Live, UNCHANGED <<generation, jobs, playbackJob, state, owner, current>>,
         NEW m \in Messages, ~IsFinished(m), Post(m) \/ UNCHANGED <<queue, delivered>>
  PROVE  Live'
<1>1. CASE UNCHANGED <<queue, delivered>>
  BY <1>1, StillLive DEF SamePlace
<1>2. CASE Post(m)
  <2>1. Waiting' \subseteq Waiting \cup {m} /\ Fresh' = Fresh
    BY <1>2, PostWaiting DEF TypeOK, IsFresh
  <2>2. Fewer /\ CurrentJobs' = CurrentJobs
    BY DEF Fewer, CurrentJobs
  <2>3. IsOp(current, Moves)' = IsOp(current, Moves)
    BY DEF IsOp, IsCommand
  <2>4. (\A i, k \in Fresh' : i = k) /\ (\A j, k \in CurrentJobs' : j = k)
    BY <2>1, <2>2 DEF Live, OneLivePlayback
  <2>5. \A x \in Waiting' : IsFinished(x) => x.generation <= generation
    BY <2>1 DEF Live
  <2>6. Quiet' \/ (state.kind = "Playing" /\ (Receiving \/ (owner = "source" /\ IsOp(current, Moves))))
    BY <2>1, <2>2 DEF Quiet, Live
  <2> QED BY <2>1, <2>2, <2>3, <2>4, <2>5, <2>6, SameGenerationLive DEF Receiving
<1> QED BY <1>1, <1>2

LEMMA CoroutineLive ==
  ASSUME TypeOK, Live, \/ \E j \in jobs : JobSpeaks(j) \/ JobEnds(j)
                       \/ \E v \in timers : TimerFires(v)
  PROVE  Live'
<1>0. jobs \subseteq JobRecords
  BY DEF TypeOK, PlaybackTypes
<1>1. ASSUME NEW j \in jobs, JobSpeaks(j) PROVE Live'
  <2>1. UNCHANGED <<generation, queue, delivered, playbackJob, state, owner, current>>
    BY <1>1 DEF JobSpeaks, admission
  <2> DEFINE s == [j EXCEPT !.phase = "speaking"]
  <2>2. s.id = j.id /\ s.cancelled = j.cancelled
    BY <1>0 DEF JobRecords
  <2>3. jobs' = (jobs \ {j}) \cup {s}
    BY <1>1 DEF JobSpeaks
  <2> HIDE DEF s
  <2>4. Fewer
    BY <2>2, <2>3 DEF Fewer
  <2>5. (\A i, k \in CurrentJobs' : i = k) /\ (CurrentJobs' # {} => CurrentJobs # {})
    BY <2>1, <2>2, <2>3 DEF CurrentJobs, Live, OneLivePlayback
  <2>6. Fresh' # {} => Fresh # {}
    BY <2>1, ChannelLive
  <2>7. IsOp(current, Moves)' = IsOp(current, Moves)
    BY <2>1 DEF IsOp, IsCommand
  <2>8. Quiet' \/ (state.kind = "Playing" /\ (Receiving \/ (owner = "source" /\ IsOp(current, Moves))))
    BY <2>5, <2>6 DEF Quiet, Live
  <2> QED BY <2>1, <2>4, <2>5, <2>7, <2>8, ChannelLive, SameGenerationLive DEF Receiving
<1>2. ASSUME NEW j \in jobs, JobAborts(j) PROVE Live'
  <2>1. UNCHANGED <<generation, queue, delivered, playbackJob, state, owner, current>>
    BY <1>2 DEF JobAborts, admission
  <2>2. jobs' \subseteq jobs
    BY <1>2 DEF JobAborts
  <2>3. Fewer /\ CurrentJobs' \subseteq CurrentJobs
    BY <2>1, <2>2 DEF Fewer, CurrentJobs
  <2>4. \A i, k \in CurrentJobs' : i = k
    BY <2>3 DEF Live, OneLivePlayback
  <2>5. Fresh' # {} => Fresh # {}
    BY <2>1, ChannelLive
  <2>6. IsOp(current, Moves)' = IsOp(current, Moves)
    BY <2>1 DEF IsOp, IsCommand
  <2>7. Quiet' \/ (state.kind = "Playing" /\ (Receiving \/ (owner = "source" /\ IsOp(current, Moves))))
    BY <2>3, <2>5 DEF Quiet, Live
  <2> QED BY <2>1, <2>3, <2>4, <2>6, <2>7, ChannelLive, SameGenerationLive DEF Receiving
<1>3. ASSUME NEW j \in jobs, NEW r \in Results, JobFinishes(j, r) PROVE Live'
  <2> DEFINE m == FinishedMessage(j.id.generation, j.id.segment, r)
  <2>1. /\ UNCHANGED <<generation, playbackJob, state, owner, current>>
        /\ jobs' = jobs \ {j} /\ PostIfOpen(m)
    BY <1>3 DEF JobFinishes
  <2>2. /\ m \in Messages /\ IsFinished(m) /\ m.generation = j.id.generation
        /\ m.generation <= generation
    BY <1>0 DEF JobRecords, JobIds, FinishedMessage, FinishedMessages, Messages, IsFinished, Live
  <2> HIDE DEF m
  <2>3. Fewer /\ CurrentJobs' \subseteq CurrentJobs /\ \A i, k \in CurrentJobs' : i = k
    BY <2>1 DEF Fewer, CurrentJobs, Live, OneLivePlayback
  <2>4. Waiting' \subseteq Waiting \cup {m}
    BY <2>1, <2>2, PostWaiting DEF PostIfOpen, Waiting, TypeOK
  <2>5. \A x \in Waiting' : IsFinished(x) => x.generation <= generation
    BY <2>2, <2>4 DEF Live
  <2>6. IsOp(current, Moves)' = IsOp(current, Moves)
    BY <2>1 DEF IsOp, IsCommand
  <2>7. CASE UNCHANGED <<queue, delivered>> \/ (Post(m) /\ ~IsFresh(m))
    <3>1. Fresh' = Fresh
      BY <2>1, <2>2, <2>7, PostWaiting DEF TypeOK, Fresh, IsFresh, IsFinished
    <3>2. Quiet' \/ (state.kind = "Playing" /\ (Receiving \/ (owner = "source" /\ IsOp(current, Moves))))
      BY <2>3, <3>1 DEF Quiet, Live
    <3>3. \A i, k \in Fresh' : i = k
      BY <3>1 DEF Live, OneLivePlayback
    <3> QED BY <2>1, <2>3, <2>5, <2>6, <3>1, <3>2, <3>3, SameGenerationLive DEF Receiving
  <2>8. CASE Post(m) /\ IsFresh(m)
    <3>1. j \in CurrentJobs
      BY <2>2, <2>8 DEF IsFresh, CurrentJobs
    <3>2. Fresh = {} /\ CurrentJobs' = {}
      BY <2>1, <2>3, <3>1 DEF Live, OneLivePlayback, CurrentJobs
    <3>3. \A i, k \in Fresh' : i = k
      BY <2>1, <2>2, <2>8, <3>2, PostWaiting DEF TypeOK
    <3>4. ~Quiet
      BY <3>1 DEF Quiet
    <3>5. \A k \in jobs' : k.id.generation <= generation'
      BY <2>1 DEF Live
    <3>6. LiveJobs' = {}
      BY <2>1, <3>2 DEF LiveJobs, CurrentJobs, Live, OneLivePlayback
    <3> QED BY <2>1, <2>5, <2>6, <3>2, <3>3, <3>4, <3>5, <3>6 DEF Live, OneLivePlayback, Receiving
  <2> QED BY <2>1, <2>7, <2>8 DEF PostIfOpen
<1>4. ASSUME NEW v \in timers, TimerFires(v) PROVE Live'
  <2> DEFINE m == ExpiredMessage(v)
  <2>1. UNCHANGED <<generation, jobs, playbackJob, state, owner, current>> /\ PostIfOpen(m)
    BY <1>4 DEF TimerFires, playback
  <2>2. m \in Messages /\ ~IsFinished(m)
    BY DEF TypeOK, OutsideTypes, ExpiredMessage, ExpiredMessages, Messages, IsFinished
  <2> QED BY <2>1, <2>2, QuietPostLive DEF PostIfOpen, TypeOK
<1> QED BY <1>1, <1>2, <1>3, <1>4 DEF JobEnds

LEMMA CallerStepLive ==
  ASSUME TypeOK, Live, \/ \E c \in Callers, m \in Commands : Submit(c, m)
                       \/ RequestClose \/ CancelOwner \/ CancelScope
  PROVE  Live'
<1>1. ASSUME NEW c \in Callers, NEW m \in Commands, Submit(c, m) PROVE Live'
  <2>1. CommandMessage(c, m) \in Messages /\ ~IsFinished(CommandMessage(c, m))
    BY DEF CommandMessage, CommandMessages, Messages, IsFinished
  <2> QED BY <1>1, <2>1, QuietPostLive DEF Submit, playback
<1>2. ASSUME RequestClose PROVE Live'
  <2>1. UNCHANGED <<generation, jobs, playbackJob, state, owner, current>>
        /\ delivered' = delivered /\ queue' \in {queue, <<>>}
    BY <1>2 DEF RequestClose, CloseAdmission, playback
  <2> QED BY <2>1, StillLive DEF SamePlace
<1>3. ASSUME CancelOwner PROVE Live'
  BY <1>3, StillLive, AbortReceiveSame DEF CancelOwner, admission, playback
<1>4. ASSUME CancelScope PROVE Live'
  <2>1. UNCHANGED <<generation, queue, delivered, playbackJob, state, current>> /\ SamePlace
        /\ jobs' = CancelJobs(jobs) /\ jobs \subseteq JobRecords
    BY <1>4, AbortReceiveSame DEF CancelScope, admission, TypeOK, PlaybackTypes
  <2>2. Fewer
    BY <2>1, CancelJobsFewer
  <2>3. \A j \in jobs' : \E k \in jobs : j = [k EXCEPT !.cancelled = TRUE] /\ j.id = k.id
    BY <2>1 DEF CancelJobs, JobRecords
  <2>4. (\A i, k \in CurrentJobs' : i = k) /\ (CurrentJobs' # {} => CurrentJobs # {})
    <3>1. \A j \in CurrentJobs' : \E k \in CurrentJobs : j = [k EXCEPT !.cancelled = TRUE]
      BY <2>1, <2>3 DEF CurrentJobs
    <3>2. \A k, l \in CurrentJobs : k = l
      BY DEF Live, OneLivePlayback
    <3> QED BY <3>1, <3>2
  <2>5. Fresh' # {} => Fresh # {}
    BY <2>1, ChannelLive
  <2>6. IsOp(current, Moves)' = IsOp(current, Moves)
    BY <2>1 DEF IsOp, IsCommand
  <2>7. Quiet' \/ (state.kind = "Playing" /\ (Receiving \/ (owner = "source" /\ IsOp(current, Moves))))
    BY <2>4, <2>5 DEF Quiet, Live
  <2> QED BY <2>1, <2>2, <2>4, <2>6, <2>7, ChannelLive, SameGenerationLive DEF SamePlace, Receiving
<1> QED BY <1>1, <1>2, <1>3, <1>4

LEMMA LivePreserved == TypeOK /\ Control /\ Live /\ [Next]_vars => Live'
<1> SUFFICES ASSUME TypeOK, Control, Live, [Next]_vars PROVE Live' OBVIOUS
<1>1. CASE UNCHANGED vars
  BY <1>1, StillLive DEF vars, admission, playback, SamePlace
<1> QED BY <1>1, ReceiveLive, ContinueLive, OwnerEndLive, CoroutineLive, CallerStepLive
        DEF Next, OwnerStep

-----------------------------------------------------------------------------
(* The theorems *)

IInv == TypeOK /\ Control /\ Live

LEMMA InitIInv == Init => IInv
<1> SUFFICES ASSUME Init PROVE IInv OBVIOUS
<1>1. ChannelTypes
  BY EmptySeq DEF Init, ChannelTypes, Outcomes
<1>2. Idle \in States /\ Idle.kind = "Idle" /\ Idle.segment = None
  BY DEF Idle, PlaybackState, States, StateKinds
<1>3. OwnerTypes /\ PlaybackTypes
  <2>1. generation \in Nat
    BY DEF Init
  <2> QED BY <1>2, <2>1 DEF Init, OwnerTypes, PlaybackTypes
<1>4. OutsideTypes
  <2>1. timerVersion \in Nat /\ cursor \in [Sources -> Nat]
        /\ \A s \in Sources : cursor[s] <= SegmentCount[s]
    BY SessionAssumption DEF Init
  <2> QED BY <2>1 DEF Init, OutsideTypes
<1>5. Control
  BY <1>2 DEF Init, Control
<1>6. Fresh = {} /\ CurrentJobs = {} /\ LiveJobs = {} /\ Waiting = {}
  BY DEF Init, Fresh, CurrentJobs, LiveJobs, Waiting, IsFresh
<1>7. Live
  BY <1>6 DEF Init, Live, OneLivePlayback, Quiet
<1> QED BY <1>1, <1>3, <1>4, <1>5, <1>7 DEF IInv, TypeOK

LEMMA NextIInv == IInv /\ [Next]_vars => IInv'
  BY TypeOKPreserved, ControlPreserved, LivePreserved DEF IInv

(* The strengthening of the invariants below is inductive. *)
THEOREM Inductive == Spec => []IInv
  BY InitIInv, NextIInv, PTL DEF Spec

(* Every variable keeps its type and no cursor leaves its source, whatever    *)
(* the callers, the sources and the failures are.                             *)
THEOREM TypeCorrect == Spec => []TypeOK
  BY Inductive, PTL DEF IInv

(* A listener hears one voice: the fence of generation, playbackJob and the   *)
(* results in the channel (invalidatePlayback, beginPlayback,                 *)
(* handlePlaybackFinished) leaves at most one playback that can report.       *)
THEOREM OneVoice == Spec => []OneLivePlayback
  BY Inductive, PTL DEF IInv, Live
=============================================================================
