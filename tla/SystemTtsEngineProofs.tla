------------------------ MODULE SystemTtsEngineProofs ------------------------
(***************************************************************************)
(* SystemTtsEngine implements SpeechEngine for any number of calls, stops  *)
(* and queries.  The contract lets a stop return only when every call it   *)
(* covers is over; what makes that true is the order of the channel: a     *)
(* call that waits stands ahead of every stop that covers it (Ahead).      *)
(***************************************************************************)
EXTENDS SystemTtsEngine, TLAPS

-----------------------------------------------------------------------------
(* The inductive invariant                                                 *)

Messages == [kind : CommandKinds, about : Calls \union Stops \union Queries \union {None},
             result : Results \union {"platform", "null", None}]

\* At most one message like this one is on its way.
Single(kind, about) == \A i, j \in DOMAIN commands :
  /\ commands[i].kind = kind /\ commands[i].about = about
  /\ commands[j].kind = kind /\ commands[j].about = about
  => i = j

\* What is in the channel is about what was sent, and a stop covers nothing
\* before it is sent.
Sent ==
  /\ channelOpen \/ closeRequested
  /\ initializationFinished => initialization = "completed"
  /\ Queued("Speak") \subseteq submitted
  /\ Queued("CancelCaller") \subseteq withdrawn
  /\ Queued("Stop") \subseteq Stops
  /\ Queued("Voices") \subseteq queried
  /\ Queued("Progress") \subseteq submitted
  /\ Queued("Initialized") # {} => initialization = "completed" /\ ~initializationFinished
  /\ Queued("Initialized") \subseteq {None} /\ Single("Initialized", None)
  /\ \A s \in Stops \ (stopped \union Queued("Stop")) : covers[s] = {}

\* Whoever is reported complete was heard to the end.
Reported ==
  /\ \A report \in callbacks : report[2] = "Completed" => report[1] \in heard
  /\ \A i \in DOMAIN commands : commands[i].kind = "Progress" =>
       /\ commands[i].result \in Results
       /\ commands[i].result = "Completed" => commands[i].about \in heard

\* The owner has one call at most, and the platform speaks none but its active.
Owned ==
  /\ owner = "starting" <=> starting # None
  /\ pendingSpeech # None => ~initializationFinished
  /\ platform => initializationFinished
  /\ ~platform => starting = None /\ activeSpeech = None
  /\ starting # None => activeSpeech = None
  /\ voice # None => voice = activeSpeech /\ answer[voice] = None
  /\ {pendingSpeech, starting, activeSpeech} \subseteq submitted \union {None}

\* A call is spoken once, and reported only after it was spoken.
Once ==
  /\ \A c \in Calls : Single("Speak", c)
  /\ Queued("Speak") \intersect {pendingSpeech, starting, activeSpeech} = {}
  /\ \A report \in callbacks : report[1] \in submitted \ (Queued("Speak") \union {pendingSpeech, starting, voice})
  /\ Queued("Progress") \intersect (Queued("Speak") \union {pendingSpeech, starting, voice}) = {}

\* A call that waits is in the channel, ahead of every stop that covers it.
Waiting(c) == Live(c) /\ c \notin {pendingSpeech, starting, activeSpeech}

Before(c, i) == \E j \in DOMAIN commands : j < i /\ commands[j].kind = "Speak" /\ commands[j].about = c

Ahead ==
  /\ \A c \in submitted : Waiting(c) => c \in Queued("Speak")
  /\ \A i \in DOMAIN commands : commands[i].kind = "Stop" =>
       \A c \in covers[commands[i].about] : Waiting(c) => Before(c, i)

IInv == TypeOK /\ Sent /\ Reported /\ Owned /\ Once /\ Ahead

-----------------------------------------------------------------------------
(* The channel                                                             *)

Grew(m) ==
  /\ Len(commands') = Len(commands) + 1
  /\ \A i \in 1..Len(commands) : commands'[i] = commands[i]
  /\ commands'[Len(commands) + 1] = m

Shrank ==
  /\ Len(commands) > 0 /\ Len(commands') = Len(commands) - 1
  /\ \A i \in 1..(Len(commands) - 1) : commands'[i] = commands[i + 1]

Channel ==
  /\ commands \in Seq(Messages) /\ commands' \in Seq(Messages)
  /\ Len(commands) \in Nat /\ Len(commands') \in Nat
  /\ DOMAIN commands = 1..Len(commands) /\ DOMAIN commands' = 1..Len(commands')
  /\ \A i \in 1..Len(commands) : commands[i] \in Messages

\* A message that is sent stands at the end.
LEMMA SendGrows ==
  ASSUME TypeOK, NEW m \in Messages, Send(m)
  PROVE  Channel /\ (IF channelOpen THEN Grew(m) ELSE commands' = commands)
<1>1. commands \in Seq(Messages) BY DEF TypeOK, Messages
<1> HIDE DEF Messages
<1>2. commands' = (IF channelOpen THEN Append(commands, m) ELSE commands) BY DEF Send
<1> QED BY <1>1, <1>2 DEF Channel, Grew

\* The first message is received, the others move up.
LEMMA ReceiveShrinks ==
  ASSUME TypeOK, NEW kind, NEW about, Receive(kind, about)
  PROVE  /\ Channel /\ Shrank /\ Head(commands) = commands[1] /\ 1 \in DOMAIN commands
         /\ commands[1].kind = kind /\ commands[1].about = about
         /\ owner = "receiving" /\ UNCHANGED <<channelOpen, closeRequested>>
<1>1. commands \in Seq(Messages) BY DEF TypeOK, Messages
<1> HIDE DEF Messages
<1>2. commands # <<>> /\ commands' = Tail(commands) BY DEF Receive
<1> QED BY <1>1, <1>2 DEF Receive, Channel, Shrank

\* What is queued, what is single and what comes first: as before,
SameChannel ==
  /\ commands' = commands
  /\ Queued("Speak")' = Queued("Speak")
  /\ Queued("CancelCaller")' = Queued("CancelCaller")
  /\ Queued("Stop")' = Queued("Stop")
  /\ Queued("Voices")' = Queued("Voices")
  /\ Queued("Progress")' = Queued("Progress")
  /\ Queued("Initialized")' = Queued("Initialized")
  /\ Single("Initialized", None)' = Single("Initialized", None)
  /\ \A c : Single("Speak", c)' = Single("Speak", c)
  /\ \A c, i : Before(c, i)' = Before(c, i)

\* after a send,
Joined(kind, m) == Queued(kind) \union (IF m.kind = kind THEN {m.about} ELSE {})

After(m) ==
  /\ Queued("Speak")' = Joined("Speak", m)
  /\ Queued("CancelCaller")' = Joined("CancelCaller", m)
  /\ Queued("Stop")' = Joined("Stop", m)
  /\ Queued("Voices")' = Joined("Voices", m)
  /\ Queued("Progress")' = Joined("Progress", m)
  /\ Queued("Initialized")' = Joined("Initialized", m)
  /\ Single("Initialized", None) /\ (m.kind # "Initialized" \/ Queued("Initialized") = {})
     => Single("Initialized", None)'
  /\ \A c : Single("Speak", c) /\ (m.kind # "Speak" \/ m.about # c \/ c \notin Queued("Speak"))
     => Single("Speak", c)'
  /\ \A i \in DOMAIN commands : i \in DOMAIN commands' /\ commands'[i] = commands[i]
  /\ \A i \in DOMAIN commands' : i \notin DOMAIN commands => commands'[i] = m
  /\ \A c : \A i \in DOMAIN commands : Before(c, i) => Before(c, i)'
  /\ \A c : \A i \in DOMAIN commands' \ DOMAIN commands : c \in Queued("Speak") => Before(c, i)'

\* after a receipt,
Left(kind, k, about) ==
  /\ Queued(kind)' \subseteq Queued(kind)
  /\ Queued(kind) \subseteq Queued(kind)' \union (IF k = kind THEN {about} ELSE {})

Without(k, about) ==
  /\ Left("Speak", k, about)
  /\ Left("CancelCaller", k, about)
  /\ Left("Stop", k, about)
  /\ Left("Voices", k, about)
  /\ Left("Progress", k, about)
  /\ Left("Initialized", k, about)
  /\ about \in Queued(k)
  /\ Single(k, about) => about \notin Queued(k)'
  /\ Single("Initialized", None) => Single("Initialized", None)'
  /\ \A c : Single("Speak", c) => Single("Speak", c)'
  /\ 1 \in DOMAIN commands /\ commands[1].kind = k /\ commands[1].about = about /\ Head(commands) = commands[1]
  /\ \A i \in DOMAIN commands' : i + 1 \in DOMAIN commands /\ commands'[i] = commands[i + 1]
  /\ \A c : \A i \in DOMAIN commands' : Before(c, i + 1) => Before(c, i)' \/ (k = "Speak" /\ about = c)
  /\ \A c : ~Before(c, 1)

\* and when it is drained.
Emptied ==
  /\ commands' = <<>>
  /\ Queued("Speak")' = {}
  /\ Queued("CancelCaller")' = {}
  /\ Queued("Stop")' = {}
  /\ Queued("Voices")' = {}
  /\ Queued("Progress")' = {}
  /\ Queued("Initialized")' = {}
  /\ Single("Initialized", None)'
  /\ \A c : Single("Speak", c)'

LEMMA Unmoved ==
  ASSUME TypeOK, commands' = commands
  PROVE  commands' \in Seq(Messages) /\ SameChannel
<1>1. SameChannel BY DEF Queued, Single, Before, SameChannel
<1> QED BY <1>1 DEF TypeOK, Messages

LEMMA Drained ==
  ASSUME commands' = <<>>
  PROVE  commands' \in Seq(Messages) /\ Emptied
  BY DEF Queued, Single, Emptied

LEMMA Grows ==
  ASSUME Channel, NEW m \in Messages, Grew(m)
  PROVE  After(m)
<1>1. ASSUME NEW k \in CommandKinds
      PROVE  Queued(k)' = Joined(k, m)
  <2>1. ASSUME NEW x \in Queued(k) PROVE x \in Queued(k)' BY <2>1 DEF Queued, Channel, Grew
  <2>2. m.kind = k => m.about \in Queued(k)' BY DEF Queued, Channel, Grew
  <2>3. ASSUME NEW x \in Queued(k)', x \notin Queued(k) PROVE m.kind = k /\ x = m.about
    BY <2>3 DEF Queued, Channel, Grew
  <2> QED BY <2>1, <2>2, <2>3 DEF Joined
<1>2. ASSUME NEW k \in CommandKinds, NEW x, Single(k, x), m.kind # k \/ m.about # x \/ x \notin Queued(k)
      PROVE  Single(k, x)'
  BY <1>2 DEF Single, Queued, Channel, Grew
<1>3. /\ \A i \in DOMAIN commands : i \in DOMAIN commands' /\ commands'[i] = commands[i]
      /\ \A i \in DOMAIN commands' : i \notin DOMAIN commands => commands'[i] = m
  BY DEF Channel, Grew
<1>4. ASSUME NEW c, NEW i \in DOMAIN commands, Before(c, i) PROVE Before(c, i)'
  BY <1>4 DEF Before, Channel, Grew
<1>5. ASSUME NEW c, NEW i \in DOMAIN commands' \ DOMAIN commands, c \in Queued("Speak") PROVE Before(c, i)'
  BY <1>5 DEF Before, Queued, Channel, Grew
<1> QED BY <1>1, <1>2, <1>3, <1>4, <1>5 DEF After, CommandKinds

\* What every sender and the receiver rely on.
LEMMA Sends ==
  ASSUME TypeOK, NEW m \in Messages, commands' = commands \/ Send(m)
  PROVE  commands' \in Seq(Messages) /\ (SameChannel \/ After(m)) /\ (Send(m) /\ channelOpen => After(m))
<1>1. Send(m) => commands' \in Seq(Messages) /\ (IF channelOpen THEN After(m) ELSE SameChannel)
  BY SendGrows, Unmoved, Grows DEF Channel
<1> QED BY <1>1, Unmoved

LEMMA Receipts ==
  ASSUME TypeOK, NEW kind \in CommandKinds, NEW about, Receive(kind, about)
  PROVE  commands' \in Seq(Messages) /\ Without(kind, about) /\ UNCHANGED <<channelOpen, closeRequested>>
<1>0. /\ Channel /\ Shrank /\ Head(commands) = commands[1] /\ 1 \in DOMAIN commands
      /\ commands[1].kind = kind /\ commands[1].about = about /\ UNCHANGED <<channelOpen, closeRequested>>
  BY ReceiveShrinks
<1>1. \A i \in DOMAIN commands' : i + 1 \in DOMAIN commands /\ commands'[i] = commands[i + 1]
  BY <1>0 DEF Channel, Shrank
<1>2. \A i \in DOMAIN commands : i # 1 => i - 1 \in DOMAIN commands' /\ commands'[i - 1] = commands[i]
  BY <1>0 DEF Channel, Shrank
<1>3. ASSUME NEW k \in CommandKinds PROVE Left(k, kind, about)
  <2>1. Queued(k)' \subseteq Queued(k) BY <1>1 DEF Queued
  <2>2. ASSUME NEW x \in Queued(k) PROVE x \in Queued(k)' \/ (k = kind /\ x = about)
    BY <1>2, <1>0 DEF Queued
  <2> QED BY <2>1, <2>2 DEF Left
<1>5. ASSUME NEW k \in CommandKinds, NEW x, Single(k, x) PROVE Single(k, x)'
  BY <1>0, <1>1, <1>5 DEF Single, Channel
<1>6. about \in Queued(kind) BY <1>0 DEF Queued
<1>7. Single(kind, about) => about \notin Queued(kind)'
  BY <1>0, <1>1 DEF Queued, Channel, Single
<1>8. ASSUME NEW c, NEW i \in DOMAIN commands', Before(c, i + 1)
      PROVE  Before(c, i)' \/ (kind = "Speak" /\ about = c)
  BY <1>0, <1>2, <1>8 DEF Before, Channel
<1>9. \A c : ~Before(c, 1) BY <1>0 DEF Before, Channel
<1>10. commands' \in Seq(Messages) BY <1>0 DEF Channel
<1> QED BY <1>0, <1>1, <1>3, <1>5, <1>6, <1>7, <1>8, <1>9, <1>10 DEF Without, CommandKinds

-----------------------------------------------------------------------------
(* What waits stays ahead of the stops that cover it                       *)

\* Whoever is covered by a queued stop was admitted.
LEMMA CoveredSubmitted ==
  ASSUME TypeOK, Sent, NEW i \in DOMAIN commands, commands[i].kind = "Stop", NEW c \in covers[commands[i].about]
  PROVE  c \in submitted
<1>1. commands[i].about \in Queued("Stop") BY DEF Queued
<1> QED BY <1>1 DEF Sent, TypeOK

LEMMA AheadStays ==
  ASSUME TypeOK, Sent, Ahead, SameChannel, submitted' = submitted, covers' = covers,
         \A c \in submitted : Waiting(c)' => Waiting(c)
  PROVE  Ahead'
  BY CoveredSubmitted DEF Ahead, SameChannel

LEMMA AheadOfSent ==
  ASSUME TypeOK, Sent, Ahead, NEW m, After(m), m.kind # "Stop", m.kind # "Speak",
         submitted' = submitted, covers' = covers,
         \A c \in submitted : Waiting(c)' => Waiting(c)
  PROVE  Ahead'
  BY CoveredSubmitted DEF Ahead, After, Joined

LEMMA AheadOfRest ==
  ASSUME TypeOK, Sent, Ahead, NEW kind, NEW about, Without(kind, about),
         submitted' = submitted, covers' = covers,
         \A c \in submitted : Waiting(c)' => Waiting(c) /\ ~(kind = "Speak" /\ about = c)
  PROVE  Ahead'
<1>1. ASSUME NEW c \in submitted, Waiting(c)' PROVE c \in Queued("Speak")'
  BY <1>1 DEF Ahead, Without, Left
<1>2. ASSUME NEW i \in DOMAIN commands', commands'[i].kind = "Stop",
             NEW c \in covers[commands'[i].about], Waiting(c)'
      PROVE  Before(c, i)'
  <2>1. i + 1 \in DOMAIN commands /\ commands'[i] = commands[i + 1] BY DEF Without
  <2>2. c \in submitted BY <1>2, <2>1, CoveredSubmitted
  <2>3. Before(c, i + 1) BY <1>2, <2>1, <2>2 DEF Ahead
  <2> QED BY <1>2, <2>2, <2>3 DEF Without
<1> QED BY <1>1, <1>2 DEF Ahead

LEMMA InitIInv == Init => IInv
<1> SUFFICES ASSUME Init PROVE IInv OBVIOUS
<1>1. \A k : Queued(k) = {} BY DEF Init, Queued
<1>2. TypeOK
  <2>1. answer \in [Calls -> Results \union {None}] BY DEF Init
  <2>2. covers \in [Stops -> SUBSET submitted] BY DEF Init
  <2>3. commands \in Seq(Messages) BY DEF Init
  <2> QED BY <2>1, <2>2, <2>3 DEF Init, TypeOK, Messages
<1> QED BY <1>1, <1>2, NoneIsNoCall DEF Init, IInv, Sent, Reported, Owned, Once, Ahead, Single, Waiting, Live

-----------------------------------------------------------------------------
(* One lemma per step                                                      *)

LEMMA SpeakKeeps == ASSUME IInv, NEW c \in Calls, Speak(c) PROVE IInv'
<1> USE NoneIsNoCall DEF IInv
<1>1. commands' \in Seq(Messages) /\ SameChannel BY Unmoved DEF Speak, channel, device
<1>5. TypeOK'
  <2>1. answer' \in [Calls -> Results \union {None}]
    BY <1>1 DEF TypeOK, Reported, Results, Speak
  <2>2. covers' \in [Stops -> SUBSET submitted'] BY DEF TypeOK, Speak
  <2>3. callbacks' \subseteq Calls \X Results BY DEF TypeOK, Results, Speak, device
  <2> QED
    BY <2>1, <2>2, <2>3, <1>1
    DEF TypeOK, Messages, Sent, Owned, SameChannel, Speak, channel, job, ownerState, device
<1>6. Sent' BY <1>1 DEF TypeOK, Sent, Owned, SameChannel, Speak, channel, job, ownerState
<1>7. Reported' BY <1>1 DEF TypeOK, Reported, Results, SameChannel, Speak, device
<1>8. Owned' BY <1>1 DEF TypeOK, Sent, Owned, Once, Live, SameChannel, Speak, job, ownerState, device
<1>9. Once' BY <1>1 DEF TypeOK, Sent, Owned, Once, SameChannel, Speak, ownerState, device
<1>10. Ahead'
  <2>1. ASSUME NEW x \in submitted, Waiting(x)' PROVE Waiting(x)
    BY <2>1, <1>1 DEF TypeOK, Sent, Owned, Once, Waiting, Live, Complete, Results, Speak, ownerState
  <2>2. submitted' = submitted /\ covers' = covers BY DEF Speak
  <2> QED BY <2>1, <2>2, <1>1, AheadStays
<1> QED BY <1>5, <1>6, <1>7, <1>8, <1>9, <1>10

LEMMA AdmitSpeakKeeps == ASSUME IInv, NEW c \in Calls, AdmitSpeak(c) PROVE IInv'
<1> USE NoneIsNoCall DEF IInv
<1> DEFINE m == Command("Speak", c, None)
<1>2. m \in Messages /\ m.kind = "Speak" /\ m.about = c /\ m.result = None
  BY DEF TypeOK, Messages, Command, CommandKinds, Results
<1>3. commands' = commands \/ Send(m) BY DEF AdmitSpeak, device
<1>4. ~closeRequested => Send(m) /\ channelOpen BY DEF Sent, AdmitSpeak
<1> HIDE DEF m
<1>1. commands' \in Seq(Messages) /\ (SameChannel \/ After(m)) /\ (~closeRequested => After(m))
  BY <1>2, <1>3, <1>4, Sends
<1>5. TypeOK'
  <2>1. answer' \in [Calls -> Results \union {None}]
    BY <1>2, <1>1 DEF TypeOK, Reported, Results, Complete, AdmitSpeak
  <2>2. covers' \in [Stops -> SUBSET submitted'] BY DEF TypeOK, AdmitSpeak
  <2>3. callbacks' \subseteq Calls \X Results BY DEF TypeOK, Results, AdmitSpeak, device
  <2> QED
    BY <2>1, <2>2, <2>3, <1>2, <1>1
    DEF TypeOK, Messages, Sent, Owned, SameChannel, After, Joined, AdmitSpeak, job, ownerState, device
<1>6. Sent' BY <1>2, <1>1 DEF TypeOK, Sent, Owned, SameChannel, After, Joined, AdmitSpeak, job, ownerState
<1>7. Reported' BY <1>2, <1>1 DEF TypeOK, Reported, Results, SameChannel, After, Joined, AdmitSpeak, device
<1>8. Owned'
  BY <1>2, <1>1
  DEF TypeOK, Sent, Owned, Once, Complete, Live, SameChannel, After, Joined, AdmitSpeak, job, ownerState,
      device
<1>9. Once'
  BY <1>2, <1>1 DEF TypeOK, Sent, Owned, Once, SameChannel, After, Joined, AdmitSpeak, ownerState, device
<1>10. Ahead'
  <2>1. ASSUME NEW x \in submitted, Waiting(x)' PROVE Waiting(x)
    BY <2>1, <1>2, <1>1
    DEF TypeOK, Sent, Owned, Once, Waiting, Live, Complete, Results, AdmitSpeak, ownerState
  <2>2. submitted' = submitted \union {c} /\ covers' = covers BY DEF AdmitSpeak
  <2>3. CASE closeRequested
    <3>1. SameChannel BY <2>3, Unmoved DEF AdmitSpeak
    <3>2. ~Waiting(c)' BY <2>3 DEF TypeOK, Waiting, Live, Complete, Results, AdmitSpeak
    <3> QED BY <2>1, <2>2, <3>1, <3>2, CoveredSubmitted DEF Ahead, SameChannel
  <2>4. CASE ~closeRequested
    <3>1. After(m) BY <2>4, <1>1
    <3> QED BY <3>1, <1>2, <2>1, <2>2, CoveredSubmitted DEF Ahead, After, Joined
  <2> QED BY <2>3, <2>4
<1> QED BY <1>5, <1>6, <1>7, <1>8, <1>9, <1>10

LEMMA CancelCallKeeps == ASSUME IInv, NEW c \in Calls, CancelCall(c) PROVE IInv'
<1> USE NoneIsNoCall DEF IInv
<1>1. commands' \in Seq(Messages) /\ SameChannel BY Unmoved DEF CancelCall, channel, device
<1>5. TypeOK' BY <1>1 DEF TypeOK, Messages, Live, CancelCall, channel, job, ownerState, device
<1>6. Sent' BY <1>1 DEF TypeOK, Sent, Owned, SameChannel, CancelCall, channel, job, ownerState
<1>7. Reported' BY <1>1 DEF TypeOK, Reported, Results, SameChannel, CancelCall, device
<1>8. Owned'
  BY <1>1 DEF TypeOK, Sent, Owned, Once, Complete, Live, SameChannel, CancelCall, job, ownerState, device
<1>9. Once' BY <1>1 DEF TypeOK, Sent, Owned, Once, SameChannel, CancelCall, ownerState, device
<1>10. Ahead'
  <2>1. ASSUME NEW x \in submitted, Waiting(x)' PROVE Waiting(x)
    BY <2>1, <1>1 DEF TypeOK, Sent, Owned, Once, Waiting, Live, Complete, Results, CancelCall, ownerState
  <2>2. submitted' = submitted /\ covers' = covers BY DEF CancelCall
  <2> QED BY <2>1, <2>2, <1>1, AheadStays
<1> QED BY <1>5, <1>6, <1>7, <1>8, <1>9, <1>10

LEMMA SignalCancelKeeps == ASSUME IInv, NEW c \in Calls, SignalCancel(c) PROVE IInv'
<1> USE NoneIsNoCall DEF IInv
<1> DEFINE m == Command("CancelCaller", c, None)
<1>2. m \in Messages /\ m.kind = "CancelCaller" /\ m.about = c /\ m.result = None
  BY DEF TypeOK, Messages, Command, CommandKinds, Results
<1>3. commands' = commands \/ Send(m) BY DEF SignalCancel, device
<1> HIDE DEF m
<1>1. commands' \in Seq(Messages) /\ (SameChannel \/ After(m))
  BY <1>2, <1>3, Sends
<1>5. TypeOK' BY <1>2, <1>1 DEF TypeOK, Messages, Live, SignalCancel, job, ownerState, device
<1>6. Sent' BY <1>2, <1>1 DEF TypeOK, Sent, Owned, SameChannel, After, Joined, SignalCancel, job, ownerState
<1>7. Reported' BY <1>2, <1>1 DEF TypeOK, Reported, Results, SameChannel, After, Joined, SignalCancel, device
<1>8. Owned'
  BY <1>2, <1>1
  DEF TypeOK, Sent, Owned, Once, Live, SameChannel, After, Joined, SignalCancel, job, ownerState, device
<1>9. Once'
  BY <1>2, <1>1 DEF TypeOK, Sent, Owned, Once, SameChannel, After, Joined, SignalCancel, ownerState, device
<1>10. Ahead'
  <2>1. ASSUME NEW x \in submitted, Waiting(x)' PROVE Waiting(x)
    BY <2>1, <1>2, <1>1
    DEF TypeOK, Sent, Owned, Once, Waiting, Live, Complete, Results, SignalCancel, ownerState
  <2>2. submitted' = submitted /\ covers' = covers BY DEF SignalCancel
  <2> QED BY <2>1, <2>2, <1>2, <1>1, AheadStays, AheadOfSent
<1> QED BY <1>5, <1>6, <1>7, <1>8, <1>9, <1>10

LEMMA StopKeeps == ASSUME IInv, NEW s \in Stops, Stop(s) PROVE IInv'
<1> USE NoneIsNoCall DEF IInv
<1> DEFINE m == Command("Stop", s, None)
<1>2. m \in Messages /\ m.kind = "Stop" /\ m.about = s /\ m.result = None
  BY DEF TypeOK, Messages, Command, CommandKinds, Results
<1>3. commands' = commands \/ Send(m) BY DEF Stop, device
<1>4. ~closeRequested => Send(m) /\ channelOpen BY DEF Sent, Stop
<1> HIDE DEF m
<1>1. commands' \in Seq(Messages) /\ (SameChannel \/ After(m)) /\ (~closeRequested => After(m))
  BY <1>2, <1>3, <1>4, Sends
<1>5. TypeOK'
  <2>1. answer' \in [Calls -> Results \union {None}]
    BY <1>2, <1>1 DEF TypeOK, Reported, Results, Stop
  <2>2. covers' \in [Stops -> SUBSET submitted'] BY DEF TypeOK, Stop
  <2>3. callbacks' \subseteq Calls \X Results BY DEF TypeOK, Results, Stop, device
  <2> QED
    BY <2>1, <2>2, <2>3, <1>2, <1>1
    DEF TypeOK, Messages, Sent, Owned, SameChannel, After, Joined, Stop, job, ownerState, device
<1>6. Sent' BY <1>2, <1>1 DEF TypeOK, Sent, Owned, SameChannel, After, Joined, Stop, job, ownerState
<1>7. Reported' BY <1>2, <1>1 DEF TypeOK, Reported, Results, SameChannel, After, Joined, Stop, device
<1>8. Owned'
  BY <1>2, <1>1 DEF TypeOK, Sent, Owned, Once, Live, SameChannel, After, Joined, Stop, job, ownerState, device
<1>9. Once' BY <1>2, <1>1 DEF TypeOK, Sent, Owned, Once, SameChannel, After, Joined, Stop, ownerState, device
<1>10. Ahead'
  <2>1. ASSUME NEW x \in submitted, Waiting(x)' PROVE Waiting(x)
    BY <2>1 DEF Waiting, Live, Stop, ownerState
  <2>2. submitted' = submitted BY DEF Stop
  <2>3. CASE closeRequested
    <3>1. SameChannel /\ covers' = covers BY <2>3, Unmoved DEF Stop
    <3> QED BY <3>1, <2>1, <2>2, AheadStays
  <2>4. CASE ~closeRequested
    <3>1. After(m) /\ covers' = [covers EXCEPT ![s] = submitted] /\ s \notin Queued("Stop")
      BY <1>1, <2>4 DEF Stop
    <3>2. ASSUME NEW i \in DOMAIN commands, commands[i].kind = "Stop"
          PROVE  covers'[commands[i].about] = covers[commands[i].about]
      BY <3>1, <3>2 DEF TypeOK, Queued
    <3>3. covers'[s] = submitted BY <3>1 DEF TypeOK
    <3>4. \A x \in submitted : Waiting(x)' => x \in Queued("Speak") BY <2>1 DEF Ahead
    <3>5. \A x \in submitted' : Waiting(x)' => x \in Queued("Speak")'
      BY <3>4, <3>1, <2>2, <1>2 DEF After, Joined
    <3>6. ASSUME NEW i \in DOMAIN commands', commands'[i].kind = "Stop",
                 NEW x \in covers'[commands'[i].about], Waiting(x)'
          PROVE  Before(x, i)'
      <4>1. CASE i \in DOMAIN commands
        BY <4>1, <3>6, <3>1, <3>2, <2>1, CoveredSubmitted DEF Ahead, After
      <4>2. CASE i \notin DOMAIN commands
        <5>1. commands'[i] = m BY <4>2, <3>1 DEF After
        <5>2. x \in submitted BY <5>1, <3>6, <3>3, <1>2
        <5> QED BY <4>2, <5>2, <3>6, <3>1, <3>4 DEF After
      <4> QED BY <4>1, <4>2
    <3> QED BY <3>5, <3>6 DEF Ahead
  <2> QED BY <2>3, <2>4
<1> QED BY <1>5, <1>6, <1>7, <1>8, <1>9, <1>10

LEMMA VoicesKeeps == ASSUME IInv, NEW q \in Queries, Voices(q) PROVE IInv'
<1> USE NoneIsNoCall DEF IInv
<1> DEFINE m == Command("Voices", q, None)
<1>2. m \in Messages /\ m.kind = "Voices" /\ m.about = q /\ m.result = None
  BY DEF TypeOK, Messages, Command, CommandKinds, Results
<1>3. commands' = commands \/ Send(m) BY DEF Voices, device
<1>4. ~closeRequested => Send(m) /\ channelOpen BY DEF Sent, Voices
<1> HIDE DEF m
<1>1. commands' \in Seq(Messages) /\ (SameChannel \/ After(m)) /\ (~closeRequested => After(m))
  BY <1>2, <1>3, <1>4, Sends
<1>5. TypeOK'
  <2>1. answer' \in [Calls -> Results \union {None}]
    BY <1>2, <1>1 DEF TypeOK, Reported, Results, Voices
  <2>2. covers' \in [Stops -> SUBSET submitted'] BY DEF TypeOK, Voices
  <2>3. callbacks' \subseteq Calls \X Results BY DEF TypeOK, Results, Voices, device
  <2> QED
    BY <2>1, <2>2, <2>3, <1>2, <1>1
    DEF TypeOK, Messages, Sent, Owned, SameChannel, After, Joined, Voices, job, ownerState, device
<1>6. Sent' BY <1>2, <1>1 DEF TypeOK, Sent, Owned, SameChannel, After, Joined, Voices, job, ownerState
<1>7. Reported' BY <1>2, <1>1 DEF TypeOK, Reported, Results, SameChannel, After, Joined, Voices, device
<1>8. Owned'
  BY <1>2, <1>1
  DEF TypeOK, Sent, Owned, Once, Live, SameChannel, After, Joined, Voices, job, ownerState, device
<1>9. Once'
  BY <1>2, <1>1 DEF TypeOK, Sent, Owned, Once, SameChannel, After, Joined, Voices, ownerState, device
<1>10. Ahead'
  <2>1. ASSUME NEW x \in submitted, Waiting(x)' PROVE Waiting(x)
    BY <2>1, <1>2, <1>1 DEF TypeOK, Sent, Owned, Once, Waiting, Live, Complete, Results, Voices, ownerState
  <2>2. submitted' = submitted /\ covers' = covers BY DEF Voices
  <2> QED BY <2>1, <2>2, <1>2, <1>1, AheadStays, AheadOfSent
<1> QED BY <1>5, <1>6, <1>7, <1>8, <1>9, <1>10

LEMMA CloseKeeps == ASSUME IInv, Close PROVE IInv'
<1> USE NoneIsNoCall DEF IInv
<1> DEFINE m == Command("Close", None, None)
<1>2. m \in Messages /\ m.kind = "Close" /\ m.about = None /\ m.result = None
  BY DEF TypeOK, Messages, Command, CommandKinds, Results
<1>3. commands' = commands \/ Send(m) BY DEF Close, callers, device
<1> HIDE DEF m
<1>1. commands' \in Seq(Messages) /\ (SameChannel \/ After(m))
  BY <1>2, <1>3, Sends
<1>5. TypeOK'
  <2>1. answer' \in [Calls -> Results \union {None}]
    BY <1>2, <1>1 DEF TypeOK, Reported, Results, Close, callers
  <2>2. covers' \in [Stops -> SUBSET submitted'] BY DEF TypeOK, Close, callers
  <2>3. callbacks' \subseteq Calls \X Results BY DEF TypeOK, Results, Close, device
  <2> QED
    BY <2>1, <2>2, <2>3, <1>2, <1>1
    DEF TypeOK, Messages, Sent, Owned, SameChannel, After, Joined, Close, callers, job, ownerState, device
<1>6. Sent' BY <1>2, <1>1 DEF TypeOK, Sent, Owned, SameChannel, After, Joined, Close, callers, job, ownerState
<1>7. Reported'
  BY <1>2, <1>1 DEF TypeOK, Reported, Results, SameChannel, After, Joined, Close, callers, device
<1>8. Owned'
  BY <1>2, <1>1
  DEF TypeOK, Sent, Owned, Once, Live, SameChannel, After, Joined, Close, callers, job, ownerState, device
<1>9. Once'
  BY <1>2, <1>1 DEF TypeOK, Sent, Owned, Once, SameChannel, After, Joined, Close, callers, ownerState, device
<1>10. Ahead'
  <2>1. ASSUME NEW x \in submitted, Waiting(x)' PROVE Waiting(x)
    BY <2>1, <1>2, <1>1
    DEF TypeOK, Sent, Owned, Once, Waiting, Live, Complete, Results, Close, callers, ownerState
  <2>2. submitted' = submitted /\ covers' = covers BY DEF Close, callers
  <2> QED BY <2>1, <2>2, <1>2, <1>1, AheadStays, AheadOfSent
<1> QED BY <1>5, <1>6, <1>7, <1>8, <1>9, <1>10

LEMMA CloseReturnsKeeps == ASSUME IInv, CloseReturns PROVE IInv'
<1> USE NoneIsNoCall DEF IInv
<1>1. commands' \in Seq(Messages) /\ SameChannel BY Unmoved DEF CloseReturns, callers, channel, device
<1>5. TypeOK' BY <1>1 DEF TypeOK, Messages, Live, CloseReturns, callers, channel, job, ownerState, device
<1>6. Sent' BY <1>1 DEF TypeOK, Sent, Owned, SameChannel, CloseReturns, callers, channel, job, ownerState
<1>7. Reported' BY <1>1 DEF TypeOK, Reported, Results, SameChannel, CloseReturns, callers, device
<1>8. Owned'
  BY <1>1 DEF TypeOK, Sent, Owned, Once, Live, SameChannel, CloseReturns, callers, job, ownerState, device
<1>9. Once' BY <1>1 DEF TypeOK, Sent, Owned, Once, SameChannel, CloseReturns, callers, ownerState, device
<1>10. Ahead'
  <2>1. ASSUME NEW x \in submitted, Waiting(x)' PROVE Waiting(x)
    BY <2>1, <1>1
    DEF TypeOK, Sent, Owned, Once, Waiting, Live, Complete, Results, CloseReturns, callers, ownerState
  <2>2. submitted' = submitted /\ covers' = covers BY DEF CloseReturns, callers
  <2> QED BY <2>1, <2>2, <1>1, AheadStays
<1> QED BY <1>5, <1>6, <1>7, <1>8, <1>9, <1>10

LEMMA InitializationStartsKeeps == ASSUME IInv, InitializationStarts PROVE IInv'
<1> USE NoneIsNoCall DEF IInv
<1>1. commands' \in Seq(Messages) /\ SameChannel BY Unmoved DEF InitializationStarts, callers, channel, device
<1>5. TypeOK' BY <1>1 DEF TypeOK, Messages, Live, InitializationStarts, callers, channel, ownerState, device
<1>6. Sent' BY <1>1 DEF TypeOK, Sent, Owned, SameChannel, InitializationStarts, callers, channel, ownerState
<1>7. Reported' BY <1>1 DEF TypeOK, Reported, Results, SameChannel, InitializationStarts, callers, device
<1>8. Owned'
  BY <1>1 DEF TypeOK, Sent, Owned, Once, Live, SameChannel, InitializationStarts, callers, ownerState, device
<1>9. Once'
  BY <1>1 DEF TypeOK, Sent, Owned, Once, SameChannel, InitializationStarts, callers, ownerState, device
<1>10. Ahead'
  <2>1. ASSUME NEW x \in submitted, Waiting(x)' PROVE Waiting(x)
    BY <2>1, <1>1
    DEF TypeOK, Sent, Owned, Once, Waiting, Live, Complete, Results, InitializationStarts, callers, ownerState
  <2>2. submitted' = submitted /\ covers' = covers BY DEF InitializationStarts, callers
  <2> QED BY <2>1, <2>2, <1>1, AheadStays
<1> QED BY <1>5, <1>6, <1>7, <1>8, <1>9, <1>10

LEMMA PlatformCreatedKeeps == ASSUME IInv, PlatformCreated PROVE IInv'
<1> USE NoneIsNoCall DEF IInv
<1>1. commands' \in Seq(Messages) /\ SameChannel BY Unmoved DEF PlatformCreated, callers, channel
<1>5. TypeOK'
  <2>1. answer' \in [Calls -> Results \union {None}]
    BY <1>1 DEF TypeOK, Reported, Results, PlatformCreated, callers
  <2>2. covers' \in [Stops -> SUBSET submitted'] BY DEF TypeOK, PlatformCreated, callers
  <2>3. callbacks' \subseteq Calls \X Results BY DEF TypeOK, Results, PlatformCreated
  <2> QED
    BY <2>1, <2>2, <2>3, <1>1
    DEF TypeOK, Messages, Sent, Owned, SameChannel, PlatformCreated, callers, channel, ownerState
<1>6. Sent' BY <1>1 DEF TypeOK, Sent, Owned, SameChannel, PlatformCreated, callers, channel, ownerState
<1>7. Reported' BY <1>1 DEF TypeOK, Reported, Results, SameChannel, PlatformCreated, callers
<1>8. Owned' BY <1>1 DEF TypeOK, Sent, Owned, Once, Live, SameChannel, PlatformCreated, callers, ownerState
<1>9. Once' BY <1>1 DEF TypeOK, Sent, Owned, Once, SameChannel, PlatformCreated, callers, ownerState
<1>10. Ahead'
  <2>1. ASSUME NEW x \in submitted, Waiting(x)' PROVE Waiting(x)
    BY <2>1, <1>1
    DEF TypeOK, Sent, Owned, Once, Waiting, Live, Complete, Results, PlatformCreated, callers, ownerState
  <2>2. submitted' = submitted /\ covers' = covers BY DEF PlatformCreated, callers
  <2> QED BY <2>1, <2>2, <1>1, AheadStays
<1> QED BY <1>5, <1>6, <1>7, <1>8, <1>9, <1>10

LEMMA PlatformDeliveredKeeps == ASSUME IInv, PlatformDelivered PROVE IInv'
<1> USE NoneIsNoCall DEF IInv
<1> DEFINE m == Command("Initialized", None, IF initialization = "created" THEN "platform" ELSE "null")
<1>2. m \in Messages /\ m.kind = "Initialized" /\ m.about = None
  BY DEF TypeOK, Messages, Command, CommandKinds, Results
<1>3. commands' = commands \/ Send(m) BY DEF PlatformDelivered, callers
<1> HIDE DEF m
<1>1. commands' \in Seq(Messages) /\ (SameChannel \/ After(m))
  BY <1>2, <1>3, Sends
<1>5. TypeOK'
  <2>1. answer' \in [Calls -> Results \union {None}]
    BY <1>2, <1>1 DEF TypeOK, Reported, Results, PlatformDelivered, callers
  <2>2. covers' \in [Stops -> SUBSET submitted'] BY DEF TypeOK, PlatformDelivered, callers
  <2>3. callbacks' \subseteq Calls \X Results BY DEF TypeOK, Results, PlatformDelivered
  <2> QED
    BY <2>1, <2>2, <2>3, <1>2, <1>1
    DEF TypeOK, Messages, Sent, Owned, SameChannel, After, Joined, PlatformDelivered, callers, ownerState
<1>6. Sent'
  BY <1>2, <1>1 DEF TypeOK, Sent, Owned, SameChannel, After, Joined, PlatformDelivered, callers, ownerState
<1>7. Reported'
  BY <1>2, <1>1 DEF TypeOK, Reported, Results, SameChannel, After, Joined, PlatformDelivered, callers
<1>8. Owned'
  BY <1>2, <1>1
  DEF TypeOK, Sent, Owned, Once, Live, SameChannel, After, Joined, PlatformDelivered, callers, ownerState
<1>9. Once'
  BY <1>2, <1>1
  DEF TypeOK, Sent, Owned, Once, SameChannel, After, Joined, PlatformDelivered, callers, ownerState
<1>10. Ahead'
  <2>1. ASSUME NEW x \in submitted, Waiting(x)' PROVE Waiting(x)
    BY <2>1, <1>2, <1>1
    DEF TypeOK, Sent, Owned, Once, Waiting, Live, Complete, Results, PlatformDelivered, callers, ownerState
  <2>2. submitted' = submitted /\ covers' = covers BY DEF PlatformDelivered, callers
  <2> QED BY <2>1, <2>2, <1>2, <1>1, AheadStays, AheadOfSent
<1> QED BY <1>5, <1>6, <1>7, <1>8, <1>9, <1>10

LEMMA OwnerStartsKeeps == ASSUME IInv, OwnerStarts PROVE IInv'
<1> USE NoneIsNoCall DEF IInv
<1>1. commands' \in Seq(Messages) /\ SameChannel BY Unmoved DEF OwnerStarts, callers, channel, device
<1>5. TypeOK' BY <1>1 DEF TypeOK, Messages, Live, OwnerStarts, callers, channel, job, device
<1>6. Sent' BY <1>1 DEF TypeOK, Sent, Owned, SameChannel, OwnerStarts, callers, channel, job
<1>7. Reported' BY <1>1 DEF TypeOK, Reported, Results, SameChannel, OwnerStarts, callers, device
<1>8. Owned' BY <1>1 DEF TypeOK, Sent, Owned, Once, Live, SameChannel, OwnerStarts, callers, job, device
<1>9. Once' BY <1>1 DEF TypeOK, Sent, Owned, Once, SameChannel, OwnerStarts, callers, device
<1>10. Ahead'
  <2>1. ASSUME NEW x \in submitted, Waiting(x)' PROVE Waiting(x)
    BY <2>1, <1>1 DEF TypeOK, Sent, Owned, Once, Waiting, Live, Complete, Results, OwnerStarts, callers
  <2>2. submitted' = submitted /\ covers' = covers BY DEF OwnerStarts, callers
  <2> QED BY <2>1, <2>2, <1>1, AheadStays
<1> QED BY <1>5, <1>6, <1>7, <1>8, <1>9, <1>10

LEMMA ReceiveInitializedKeeps == ASSUME IInv, ReceiveInitialized PROVE IInv'
<1> USE NoneIsNoCall DEF IInv
<1>1. /\ commands' \in Seq(Messages) /\ Without("Initialized", None)
      /\ owner = "receiving" /\ UNCHANGED <<channelOpen, closeRequested>>
  BY Receipts DEF Receive, CommandKinds, ReceiveInitialized
<1>5. TypeOK'
  <2>1. answer' \in [Calls -> Results \union {None}]
    BY <1>1 DEF TypeOK, Reported, Results, Complete, Without, ReceiveInitialized, InitializationFails
  <2>2. covers' \in [Stops -> SUBSET submitted'] BY DEF TypeOK, ReceiveInitialized
  <2>3. callbacks' \subseteq Calls \X Results BY DEF TypeOK, Results, ReceiveInitialized, InitializationFails
  <2>4. /\ {pendingSpeech', starting', activeSpeech'} \subseteq Calls \union {None}
        /\ pendingVoiceQueries' = {} /\ replied' \subseteq queried
    BY DEF TypeOK, ReceiveInitialized, InitializationFails
  <2>5. tts' \in {"none", "live", "shut"} /\ platform' \in BOOLEAN /\ initializationFinished' \in BOOLEAN
        /\ owner' \in {"unstarted", "receiving", "starting", "suppressed", "closed"}
    BY DEF TypeOK, ReceiveInitialized, InitializationFails
  <2> QED BY <2>1, <2>2, <2>3, <2>4, <2>5, <1>1 DEF TypeOK, Messages, ReceiveInitialized, job
<1>6. Sent' BY <1>1 DEF TypeOK, Sent, Owned, Without, Left, ReceiveInitialized, job
<1>7. Reported' BY <1>1 DEF TypeOK, Reported, Results, Without, Left, ReceiveInitialized
<1>8. Owned'
  BY <1>1
  DEF TypeOK, Sent, Owned, Once, Complete, Live, Without, Left, ReceiveInitialized, InitializationFails, job
<1>9. Once' BY <1>1 DEF TypeOK, Sent, Owned, Once, Without, Left, ReceiveInitialized, InitializationFails
<1>10. Ahead'
  <2>1. ASSUME NEW x \in submitted, Waiting(x)' PROVE Waiting(x)
    BY <2>1, <1>1
    DEF TypeOK, Sent, Owned, Once, Waiting, Live, Complete, Results, ReceiveInitialized, InitializationFails
  <2>2. submitted' = submitted /\ covers' = covers BY DEF ReceiveInitialized
  <2> QED BY <2>1, <2>2, <1>1, AheadOfRest
<1> QED BY <1>5, <1>6, <1>7, <1>8, <1>9, <1>10

LEMMA ReceiveVoicesKeeps == ASSUME IInv, NEW q \in Queries, ReceiveVoices(q) PROVE IInv'
<1> USE NoneIsNoCall DEF IInv
<1>1. /\ commands' \in Seq(Messages) /\ Without("Voices", q)
      /\ owner = "receiving" /\ UNCHANGED <<channelOpen, closeRequested>>
  BY Receipts DEF Receive, CommandKinds, ReceiveVoices
<1>5. TypeOK'
  <2>1. answer' \in [Calls -> Results \union {None}]
    BY <1>1 DEF TypeOK, Reported, Results, Without, ReceiveVoices
  <2>2. covers' \in [Stops -> SUBSET submitted'] BY DEF TypeOK, ReceiveVoices
  <2>3. callbacks' \subseteq Calls \X Results BY DEF TypeOK, Results, ReceiveVoices, device
  <2> QED
    BY <2>1, <2>2, <2>3, <1>1 DEF TypeOK, Messages, Sent, Owned, Without, Left, ReceiveVoices, job, device
<1>6. Sent' BY <1>1 DEF TypeOK, Sent, Owned, Without, Left, ReceiveVoices, job
<1>7. Reported' BY <1>1 DEF TypeOK, Reported, Results, Without, Left, ReceiveVoices, device
<1>8. Owned' BY <1>1 DEF TypeOK, Sent, Owned, Once, Live, Without, Left, ReceiveVoices, job, device
<1>9. Once' BY <1>1 DEF TypeOK, Sent, Owned, Once, Without, Left, ReceiveVoices, device
<1>10. Ahead'
  <2>1. ASSUME NEW x \in submitted, Waiting(x)' PROVE Waiting(x)
    BY <2>1, <1>1 DEF TypeOK, Sent, Owned, Once, Waiting, Live, Complete, Results, ReceiveVoices
  <2>2. submitted' = submitted /\ covers' = covers BY DEF ReceiveVoices
  <2> QED BY <2>1, <2>2, <1>1, AheadOfRest
<1> QED BY <1>5, <1>6, <1>7, <1>8, <1>9, <1>10

LEMMA ReceiveSpeakKeeps == ASSUME IInv, NEW c \in Calls, ReceiveSpeak(c) PROVE IInv'
<1> USE NoneIsNoCall DEF IInv
<1>1. /\ commands' \in Seq(Messages) /\ Without("Speak", c)
      /\ owner = "receiving" /\ UNCHANGED <<channelOpen, closeRequested>>
  BY Receipts DEF Receive, CommandKinds, ReceiveSpeak
<1>5. TypeOK'
  <2>1. answer' \in [Calls -> Results \union {None}]
    <3>1. Complete({pendingSpeech, activeSpeech}, "Cancelled") \in [Calls -> Results \union {None}]
      BY DEF TypeOK, Results, Complete
    <3> QED BY <3>1 DEF Results, ReceiveSpeak
  <2>2. covers' \in [Stops -> SUBSET submitted'] BY DEF TypeOK, ReceiveSpeak
  <2>3. callbacks' \subseteq Calls \X Results /\ voice' \in Calls \union {None}
    BY DEF TypeOK, Results, ReceiveSpeak, SilencePlatform
  <2>4. /\ {pendingSpeech', starting', activeSpeech'} \subseteq Calls \union {None}
        /\ owner' \in {"unstarted", "receiving", "starting", "suppressed", "closed"}
    BY DEF TypeOK, ReceiveSpeak
  <2> QED BY <2>1, <2>2, <2>3, <2>4, <1>1 DEF TypeOK, Messages, ReceiveSpeak, job
<1>6. Sent' BY <1>1 DEF TypeOK, Sent, Owned, Without, Left, ReceiveSpeak, job
<1>7. Reported' BY <1>1 DEF TypeOK, Reported, Results, Without, Left, ReceiveSpeak, SilencePlatform
<1>8. Owned'
  <2>1. voice' # None => voice' = activeSpeech' /\ answer'[voice'] = None
    BY <1>1 DEF TypeOK, Owned, ReceiveSpeak, SilencePlatform
  <2>2. {pendingSpeech', starting', activeSpeech'} \subseteq submitted' \union {None}
    BY <1>1 DEF Sent, Owned, Without, ReceiveSpeak
  <2> QED BY <2>1, <2>2, <1>1 DEF TypeOK, Owned, ReceiveSpeak
<1>9. Once'
  <2>1. Single("Speak", c) /\ c \notin Queued("Speak")' BY <1>1 DEF Once, Without
  <2>2. {pendingSpeech', starting', activeSpeech'} \subseteq {c, starting, None}
    BY <1>1 DEF ReceiveSpeak, Owned
  <2>3. voice' = None BY <1>1 DEF ReceiveSpeak, SilencePlatform, Owned
  <2>4. Queued("Speak")' \subseteq Queued("Speak") /\ Queued("Progress")' = Queued("Progress")
    BY <1>1 DEF Without, Left
  <2> QED
    BY <1>1, <2>1, <2>2, <2>3, <2>4 DEF TypeOK, Once, Owned, Without, Left, ReceiveSpeak, SilencePlatform
<1>10. Ahead'
  <2>1. ASSUME NEW x \in submitted, Waiting(x)' PROVE Waiting(x) /\ x # c
    <3>1. answer'[x] = None /\ x \in Calls BY <2>1 DEF TypeOK, Waiting, Live, ReceiveSpeak
    <3>2. answer'[x] = Complete({pendingSpeech, activeSpeech}, "Cancelled")[x]
      BY <3>1 DEF TypeOK, Complete, Results, ReceiveSpeak
    <3>3. Live(x) => x \notin {pendingSpeech, activeSpeech}
      BY <3>1, <3>2 DEF Complete, Results
    <3>4. answer[x] = None BY <3>1, <3>2 DEF Complete, Results
    <3>5. Live(x) BY <2>1, <3>4 DEF Waiting, Live, ReceiveSpeak
    <3>6. x # starting BY <1>1, <2>1, <3>1 DEF TypeOK, Owned
    <3>7. x # c BY <2>1, <3>1 DEF TypeOK, Waiting, Results, Complete, ReceiveSpeak
    <3> QED BY <3>3, <3>5, <3>6, <3>7 DEF Waiting
  <2>2. submitted' = submitted /\ covers' = covers BY DEF ReceiveSpeak
  <2> QED BY <2>1, <2>2, <1>1, AheadOfRest
<1> QED BY <1>5, <1>6, <1>7, <1>8, <1>9, <1>10

LEMMA ReceiveSpeakOfGoneCallerKeeps == ASSUME IInv, NEW c \in Calls, ReceiveSpeakOfGoneCaller(c) PROVE IInv'
<1> USE NoneIsNoCall DEF IInv
<1>1. /\ commands' \in Seq(Messages) /\ Without("Speak", c)
      /\ owner = "receiving" /\ UNCHANGED <<channelOpen, closeRequested>>
  BY Receipts DEF Receive, CommandKinds, ReceiveSpeakOfGoneCaller
<1>5. TypeOK' BY <1>1 DEF TypeOK, Messages, Live, ReceiveSpeakOfGoneCaller, callers, job, ownerState, device
<1>6. Sent' BY <1>1 DEF TypeOK, Sent, Owned, Without, Left, ReceiveSpeakOfGoneCaller, callers, job, ownerState
<1>7. Reported'
  BY <1>1 DEF TypeOK, Reported, Results, Without, Left, ReceiveSpeakOfGoneCaller, callers, device
<1>8. Owned'
  BY <1>1
  DEF TypeOK, Sent, Owned, Once, Live, Without, Left, ReceiveSpeakOfGoneCaller, callers, job, ownerState,
      device
<1>9. Once'
  BY <1>1 DEF TypeOK, Sent, Owned, Once, Without, Left, ReceiveSpeakOfGoneCaller, callers, ownerState, device
<1>10. Ahead'
  <2>1. ASSUME NEW x \in submitted, Waiting(x)' PROVE Waiting(x) /\ x # c
    BY <2>1, <1>1
    DEF TypeOK, Sent, Owned, Once, Waiting, Live, Complete, Results, ReceiveSpeakOfGoneCaller, callers,
        ownerState
  <2>2. submitted' = submitted /\ covers' = covers BY DEF ReceiveSpeakOfGoneCaller, callers
  <2> QED BY <2>1, <2>2, <1>1, AheadOfRest
<1> QED BY <1>5, <1>6, <1>7, <1>8, <1>9, <1>10

LEMMA StartSpeechKeeps == ASSUME IInv, StartSpeech PROVE IInv'
<1> USE NoneIsNoCall DEF IInv
<1>1. commands' \in Seq(Messages) /\ SameChannel BY Unmoved DEF StartSpeech, channel
<1>5. TypeOK'
  <2>1. answer' \in [Calls -> Results \union {None}]
    BY <1>1 DEF TypeOK, Reported, Results, Complete, StartSpeech
  <2>2. covers' \in [Stops -> SUBSET submitted'] BY DEF TypeOK, StartSpeech
  <2>3. callbacks' \subseteq Calls \X Results BY DEF TypeOK, Results, StartSpeech
  <2> QED BY <2>1, <2>2, <2>3, <1>1 DEF TypeOK, Messages, Sent, Owned, SameChannel, StartSpeech, channel, job
<1>6. Sent' BY <1>1 DEF TypeOK, Sent, Owned, SameChannel, StartSpeech, channel, job
<1>7. Reported' BY <1>1 DEF TypeOK, Reported, Results, SameChannel, StartSpeech
<1>8. Owned' BY <1>1 DEF TypeOK, Sent, Owned, Once, Complete, Live, SameChannel, StartSpeech, job
<1>9. Once' BY <1>1 DEF TypeOK, Sent, Owned, Once, SameChannel, StartSpeech
<1>10. Ahead'
  <2>1. ASSUME NEW x \in submitted, Waiting(x)' PROVE Waiting(x)
    BY <2>1, <1>1 DEF TypeOK, Sent, Owned, Once, Waiting, Live, Complete, Results, StartSpeech
  <2>2. submitted' = submitted /\ covers' = covers BY DEF StartSpeech
  <2> QED BY <2>1, <2>2, <1>1, AheadStays
<1> QED BY <1>5, <1>6, <1>7, <1>8, <1>9, <1>10

LEMMA ReceiveCancelKeeps == ASSUME IInv, NEW c \in Calls, ReceiveCancel(c) PROVE IInv'
<1> USE NoneIsNoCall DEF IInv
<1>1. /\ commands' \in Seq(Messages) /\ Without("CancelCaller", c)
      /\ owner = "receiving" /\ UNCHANGED <<channelOpen, closeRequested>>
  BY Receipts DEF Receive, CommandKinds, ReceiveCancel
<1>5. TypeOK'
  <2>1. answer' \in [Calls -> Results \union {None}]
    BY <1>1 DEF TypeOK, Reported, Results, Without, ReceiveCancel, SilencePlatform, callers
  <2>2. covers' \in [Stops -> SUBSET submitted'] BY DEF TypeOK, ReceiveCancel, callers
  <2>3. callbacks' \subseteq Calls \X Results BY DEF TypeOK, Results, ReceiveCancel, SilencePlatform
  <2> QED
    BY <2>1, <2>2, <2>3, <1>1
    DEF TypeOK, Messages, Sent, Owned, Without, Left, ReceiveCancel, SilencePlatform, callers, job
<1>6. Sent' BY <1>1 DEF TypeOK, Sent, Owned, Without, Left, ReceiveCancel, callers, job
<1>7. Reported' BY <1>1 DEF TypeOK, Reported, Results, Without, Left, ReceiveCancel, SilencePlatform, callers
<1>8. Owned'
  BY <1>1 DEF TypeOK, Sent, Owned, Once, Live, Without, Left, ReceiveCancel, SilencePlatform, callers, job
<1>9. Once' BY <1>1 DEF TypeOK, Sent, Owned, Once, Without, Left, ReceiveCancel, SilencePlatform, callers
<1>10. Ahead'
  <2>0. c \in withdrawn BY <1>1 DEF Sent, Without
  <2>1. ASSUME NEW x \in submitted, Waiting(x)' PROVE Waiting(x)
    BY <2>0, <2>1 DEF Waiting, Live, ReceiveCancel, callers
  <2>2. submitted' = submitted /\ covers' = covers BY DEF ReceiveCancel, callers
  <2> QED BY <2>1, <2>2, <1>1, AheadOfRest
<1> QED BY <1>5, <1>6, <1>7, <1>8, <1>9, <1>10

LEMMA ReceiveProgressKeeps == ASSUME IInv, NEW c \in Calls, ReceiveProgress(c) PROVE IInv'
<1> USE NoneIsNoCall DEF IInv
<1>1. /\ commands' \in Seq(Messages) /\ Without("Progress", c)
      /\ owner = "receiving" /\ UNCHANGED <<channelOpen, closeRequested>>
  BY Receipts DEF Receive, CommandKinds, ReceiveProgress
<1>4. Head(commands).result \in Results BY <1>1 DEF Reported, Without
<1>5. TypeOK'
  <2>1. answer' \in [Calls -> Results \union {None}]
    BY <1>4 DEF TypeOK, Complete, ReceiveProgress
  <2>2. covers' \in [Stops -> SUBSET submitted'] BY DEF TypeOK, ReceiveProgress
  <2> QED BY <2>1, <2>2, <1>1 DEF TypeOK, Messages, ReceiveProgress, job, device
<1>6. Sent' BY <1>1 DEF TypeOK, Sent, Owned, Without, Left, ReceiveProgress, job
<1>7. Reported' BY <1>1 DEF TypeOK, Reported, Results, Without, Left, ReceiveProgress, device
<1>8. Owned'
  BY <1>1 DEF TypeOK, Sent, Owned, Once, Complete, Live, Without, Left, ReceiveProgress, job, device
<1>9. Once' BY <1>1 DEF TypeOK, Sent, Owned, Once, Without, Left, ReceiveProgress, device
<1>10. Ahead'
  <2>1. ASSUME NEW x \in submitted, Waiting(x)' PROVE Waiting(x)
    <3>1. Live(x) /\ x \notin {pendingSpeech, starting}
      BY <2>1, <1>4 DEF TypeOK, Waiting, Live, Complete, ReceiveProgress
    <3>2. x # activeSpeech BY <2>1, <1>4 DEF TypeOK, Waiting, Live, Complete, ReceiveProgress
    <3> QED BY <3>1, <3>2 DEF Waiting
  <2>2. submitted' = submitted /\ covers' = covers BY DEF ReceiveProgress
  <2> QED BY <2>1, <2>2, <1>1, AheadOfRest
<1> QED BY <1>5, <1>6, <1>7, <1>8, <1>9, <1>10

LEMMA ReceiveStopKeeps == ASSUME IInv, NEW s \in Stops, ReceiveStop(s) PROVE IInv'
<1> USE NoneIsNoCall DEF IInv
<1>1. /\ commands' \in Seq(Messages) /\ Without("Stop", s)
      /\ owner = "receiving" /\ UNCHANGED <<channelOpen, closeRequested>>
  BY Receipts DEF Receive, CommandKinds, ReceiveStop
<1>5. TypeOK'
  <2>1. answer' \in [Calls -> Results \union {None}]
    BY <1>1 DEF TypeOK, Reported, Results, Complete, Without, ReceiveStop, SilencePlatform
  <2>2. covers' \in [Stops -> SUBSET submitted'] BY DEF TypeOK, ReceiveStop
  <2>3. callbacks' \subseteq Calls \X Results BY DEF TypeOK, Results, ReceiveStop, SilencePlatform
  <2>4. voice' \in Calls \union {None} /\ stopped' \subseteq Stops BY DEF TypeOK, ReceiveStop, SilencePlatform
  <2>5. /\ pendingSpeech' = None /\ activeSpeech' = None
        /\ UNCHANGED <<asked, withdrawn, submitted, signalled, queried, replied, initialization,
                       initializationCancelled, owner, starting, platform, initializationFinished,
                       pendingVoiceQueries, closer, tts, heard>>
    BY DEF ReceiveStop, job
  <2> QED BY <2>1, <2>2, <2>3, <2>4, <2>5, <1>1 DEF TypeOK, Messages
<1>6. Sent' BY <1>1 DEF TypeOK, Sent, Owned, Without, Left, ReceiveStop, job
<1>7. Reported' BY <1>1 DEF TypeOK, Reported, Results, Without, Left, ReceiveStop, SilencePlatform
<1>8. Owned'
  BY <1>1 DEF TypeOK, Sent, Owned, Once, Complete, Live, Without, Left, ReceiveStop, SilencePlatform, job
<1>9. Once' BY <1>1 DEF TypeOK, Sent, Owned, Once, Without, Left, ReceiveStop, SilencePlatform
<1>10. Ahead'
  <2>1. ASSUME NEW x \in submitted, Waiting(x)' PROVE Waiting(x)
    BY <2>1, <1>1
    DEF TypeOK, Sent, Owned, Once, Waiting, Live, Complete, Results, ReceiveStop, SilencePlatform
  <2>2. submitted' = submitted /\ covers' = covers BY DEF ReceiveStop
  <2> QED BY <2>1, <2>2, <1>1, AheadOfRest
<1> QED BY <1>5, <1>6, <1>7, <1>8, <1>9, <1>10

LEMMA UtteranceEndsKeeps == ASSUME IInv, UtteranceEnds PROVE IInv'
<1> USE NoneIsNoCall DEF IInv
<1>1. commands' \in Seq(Messages) /\ SameChannel BY Unmoved DEF UtteranceEnds, callers, channel
<1>5. TypeOK'
  <2>1. answer' \in [Calls -> Results \union {None}]
    BY <1>1 DEF TypeOK, Reported, Results, Complete, UtteranceEnds, callers
  <2>2. covers' \in [Stops -> SUBSET submitted'] BY DEF TypeOK, UtteranceEnds, callers
  <2>3. callbacks' \subseteq Calls \X Results BY DEF TypeOK, Results, UtteranceEnds
  <2> QED
    BY <2>1, <2>2, <2>3, <1>1
    DEF TypeOK, Messages, Sent, Owned, SameChannel, UtteranceEnds, callers, channel, job, ownerState
<1>6. Sent' BY <1>1 DEF TypeOK, Sent, Owned, SameChannel, UtteranceEnds, callers, channel, job, ownerState
<1>7. Reported' BY <1>1 DEF TypeOK, Reported, Results, SameChannel, UtteranceEnds, callers
<1>8. Owned'
  BY <1>1 DEF TypeOK, Sent, Owned, Once, Complete, Live, SameChannel, UtteranceEnds, callers, job, ownerState
<1>9. Once' BY <1>1 DEF TypeOK, Sent, Owned, Once, SameChannel, UtteranceEnds, callers, ownerState
<1>10. Ahead'
  <2>1. ASSUME NEW x \in submitted, Waiting(x)' PROVE Waiting(x)
    BY <2>1, <1>1
    DEF TypeOK, Sent, Owned, Once, Waiting, Live, Complete, Results, UtteranceEnds, callers, ownerState
  <2>2. submitted' = submitted /\ covers' = covers BY DEF UtteranceEnds, callers
  <2> QED BY <2>1, <2>2, <1>1, AheadStays
<1> QED BY <1>5, <1>6, <1>7, <1>8, <1>9, <1>10

LEMMA DeliverCallbackKeeps == ASSUME IInv, DeliverCallback PROVE IInv'
<1> USE NoneIsNoCall DEF IInv
<1>0. PICK report \in callbacks : callbacks' = callbacks \ {report} /\ Send(Command("Progress", report[1], report[2]))
  BY DEF DeliverCallback
<1> DEFINE m == Command("Progress", report[1], report[2])
<1>2. m \in Messages /\ m.kind = "Progress" /\ m.about = report[1] /\ m.result = report[2]
  BY <1>0 DEF TypeOK, Messages, Command, CommandKinds, Results
<1>3. commands' = commands \/ Send(m) BY <1>0 DEF DeliverCallback, callers
<1> HIDE DEF m
<1>1. commands' \in Seq(Messages) /\ (SameChannel \/ After(m))
  BY <1>2, <1>3, Sends
<1>5. TypeOK'
  <2>1. answer' \in [Calls -> Results \union {None}]
    BY <1>0, <1>2, <1>1 DEF TypeOK, Reported, Results, DeliverCallback, callers
  <2>2. covers' \in [Stops -> SUBSET submitted'] BY DEF TypeOK, DeliverCallback, callers
  <2>3. callbacks' \subseteq Calls \X Results BY DEF TypeOK, Results, DeliverCallback
  <2> QED
    BY <2>1, <2>2, <2>3, <1>0, <1>2, <1>1
    DEF TypeOK, Messages, Sent, Owned, SameChannel, After, Joined, DeliverCallback, callers, job, ownerState
<1>6. Sent'
  BY <1>0, <1>2, <1>1
  DEF TypeOK, Sent, Owned, Once, SameChannel, After, Joined, DeliverCallback, callers, job, ownerState
<1>7. Reported'
  BY <1>0, <1>2, <1>1 DEF TypeOK, Reported, Results, SameChannel, After, Joined, DeliverCallback, callers
<1>8. Owned'
  BY <1>0, <1>2, <1>1
  DEF TypeOK, Sent, Owned, Once, Live, SameChannel, After, Joined, DeliverCallback, callers, job, ownerState
<1>9. Once'
  BY <1>0, <1>2, <1>1
  DEF TypeOK, Sent, Owned, Once, SameChannel, After, Joined, DeliverCallback, callers, ownerState
<1>10. Ahead'
  <2>1. ASSUME NEW x \in submitted, Waiting(x)' PROVE Waiting(x)
    BY <2>1, <1>0, <1>2, <1>1
    DEF TypeOK, Sent, Owned, Once, Waiting, Live, Complete, Results, DeliverCallback, callers, ownerState
  <2>2. submitted' = submitted /\ covers' = covers BY DEF DeliverCallback, callers
  <2> QED BY <2>1, <2>2, <1>0, <1>2, <1>1, AheadStays, AheadOfSent
<1> QED BY <1>5, <1>6, <1>7, <1>8, <1>9, <1>10

LEMMA ReceiveCloseKeeps == ASSUME IInv, ReceiveClose PROVE IInv'
<1> USE NoneIsNoCall DEF IInv
<1>1. commands' \in Seq(Messages) /\ Emptied BY Drained DEF ReceiveClose, FinishClose, SilencePlatform
<1>5. TypeOK'
  <2>1. answer' \in [Calls -> Results \union {None}]
    BY <1>1 DEF TypeOK, Reported, Results, Complete, ReceiveClose, FinishClose, SilencePlatform
  <2>2. covers' \in [Stops -> SUBSET submitted'] BY DEF TypeOK, ReceiveClose, FinishClose
  <2>3. callbacks' \subseteq Calls \X Results
    BY DEF TypeOK, Results, ReceiveClose, FinishClose, SilencePlatform
  <2> QED
    BY <2>1, <2>2, <2>3, <1>1
    DEF TypeOK, Messages, Sent, Owned, Emptied, ReceiveClose, FinishClose, SilencePlatform
<1>6. Sent' BY <1>1 DEF TypeOK, Sent, Owned, Emptied, ReceiveClose, FinishClose
<1>7. Reported' BY <1>1 DEF TypeOK, Reported, Results, Emptied, ReceiveClose, FinishClose, SilencePlatform
<1>8. Owned'
  BY <1>1 DEF TypeOK, Sent, Owned, Once, Complete, Live, Emptied, ReceiveClose, FinishClose, SilencePlatform
<1>9. Once' BY <1>1 DEF TypeOK, Sent, Owned, Once, Emptied, ReceiveClose, FinishClose, SilencePlatform
<1>10. Ahead'
  BY <1>1
  DEF Ahead, TypeOK, Sent, Owned, Once, Waiting, Live, Complete, Results, Emptied, ReceiveClose, FinishClose,
      SilencePlatform
<1> QED BY <1>5, <1>6, <1>7, <1>8, <1>9, <1>10

LEMMA CloseOnOwnerKeeps == ASSUME IInv, CloseOnOwner PROVE IInv'
<1> USE NoneIsNoCall DEF IInv
<1>1. commands' \in Seq(Messages) /\ Emptied BY Drained DEF CloseOnOwner, FinishClose, SilencePlatform
<1>5. TypeOK'
  <2>1. answer' \in [Calls -> Results \union {None}]
    BY <1>1 DEF TypeOK, Reported, Results, Complete, CloseOnOwner, FinishClose, SilencePlatform
  <2>2. covers' \in [Stops -> SUBSET submitted'] BY DEF TypeOK, CloseOnOwner, FinishClose
  <2>3. callbacks' \subseteq Calls \X Results
    BY DEF TypeOK, Results, CloseOnOwner, FinishClose, SilencePlatform
  <2> QED
    BY <2>1, <2>2, <2>3, <1>1
    DEF TypeOK, Messages, Sent, Owned, Emptied, CloseOnOwner, FinishClose, SilencePlatform
<1>6. Sent' BY <1>1 DEF TypeOK, Sent, Owned, Emptied, CloseOnOwner, FinishClose
<1>7. Reported' BY <1>1 DEF TypeOK, Reported, Results, Emptied, CloseOnOwner, FinishClose, SilencePlatform
<1>8. Owned'
  BY <1>1 DEF TypeOK, Sent, Owned, Once, Complete, Live, Emptied, CloseOnOwner, FinishClose, SilencePlatform
<1>9. Once' BY <1>1 DEF TypeOK, Sent, Owned, Once, Emptied, CloseOnOwner, FinishClose, SilencePlatform
<1>10. Ahead'
  BY <1>1
  DEF Ahead, TypeOK, Sent, Owned, Once, Waiting, Live, Complete, Results, Emptied, CloseOnOwner, FinishClose,
      SilencePlatform
<1> QED BY <1>5, <1>6, <1>7, <1>8, <1>9, <1>10

LEMMA CancelScopeKeeps == ASSUME IInv, CancelScope PROVE IInv'
<1> USE NoneIsNoCall DEF IInv
<1>1. commands' \in Seq(Messages) /\ (SameChannel \/ Emptied)
  BY Unmoved, Drained DEF CancelScope, FinishClose, SilencePlatform, callers, channel, device
<1>5. TypeOK'
  <2>1. answer' \in [Calls -> Results \union {None}]
    BY <1>1 DEF TypeOK, Reported, Results, Complete, CancelScope, FinishClose, SilencePlatform, callers
  <2>2. covers' \in [Stops -> SUBSET submitted'] BY DEF TypeOK, CancelScope, FinishClose, callers
  <2>3. callbacks' \subseteq Calls \X Results
    BY DEF TypeOK, Results, CancelScope, FinishClose, SilencePlatform, device
  <2>4. voice' \in Calls \union {None} /\ tts' \in {"none", "live", "shut"}
    BY DEF TypeOK, CancelScope, FinishClose, SilencePlatform, device
  <2>5. stopped' \subseteq Stops /\ replied' \subseteq queried'
    BY DEF TypeOK, Sent, CancelScope, FinishClose, callers
  <2>6. CASE initialization = "unstarted"
    BY <2>1, <2>2, <2>3, <2>4, <2>5, <2>6, <1>1 DEF TypeOK, Messages, CancelScope, FinishClose
  <2>7. CASE initialization # "unstarted"
    BY <2>1, <2>2, <2>3, <2>4, <2>5, <2>7, <1>1 DEF TypeOK, Messages, CancelScope, callers, channel, device
  <2> QED BY <2>6, <2>7
<1>6. Sent'
  <2>1. CASE initialization = "unstarted"
    BY <2>1, Drained DEF TypeOK, Sent, Owned, Emptied, CancelScope, FinishClose
  <2>2. CASE initialization # "unstarted"
    BY <2>2, Unmoved DEF TypeOK, Sent, Owned, SameChannel, CancelScope, callers, channel
  <2> QED BY <2>1, <2>2
<1>7. Reported'
  BY <1>1
  DEF TypeOK, Reported, Results, Emptied, SameChannel, CancelScope, FinishClose, SilencePlatform, callers,
      device
<1>8. Owned'
  BY <1>1
  DEF TypeOK, Sent, Owned, Once, Complete, Live, Emptied, SameChannel, CancelScope, FinishClose,
      SilencePlatform, callers, device
<1>9. Once'
  BY <1>1
  DEF TypeOK, Sent, Owned, Once, Emptied, SameChannel, CancelScope, FinishClose, SilencePlatform, callers,
      device
<1>10. Ahead'
  <2>1. CASE initialization = "unstarted"
    BY <2>1, <1>1, Drained
    DEF Ahead, TypeOK, Sent, Owned, Waiting, Live, Complete, Results, Emptied, CancelScope, FinishClose
  <2>2. CASE initialization # "unstarted"
    BY <2>2, <1>1, Unmoved, AheadStays DEF Waiting, Live, CancelScope, callers, channel
  <2> QED BY <2>1, <2>2
<1> QED BY <1>5, <1>6, <1>7, <1>8, <1>9, <1>10

LEMMA FallbackClosesKeeps == ASSUME IInv, FallbackCloses PROVE IInv'
<1> USE NoneIsNoCall DEF IInv
<1>1. commands' \in Seq(Messages) /\ Emptied BY Drained DEF FallbackCloses, FinishClose, SilencePlatform
<1>5. TypeOK'
  <2>1. answer' \in [Calls -> Results \union {None}]
    BY <1>1 DEF TypeOK, Reported, Results, Complete, FallbackCloses, FinishClose, SilencePlatform
  <2>2. covers' \in [Stops -> SUBSET submitted'] BY DEF TypeOK, FallbackCloses, FinishClose
  <2>3. callbacks' \subseteq Calls \X Results
    BY DEF TypeOK, Results, FallbackCloses, FinishClose, SilencePlatform
  <2> QED
    BY <2>1, <2>2, <2>3, <1>1
    DEF TypeOK, Messages, Sent, Owned, Emptied, FallbackCloses, FinishClose, SilencePlatform
<1>6. Sent' BY <1>1 DEF TypeOK, Sent, Owned, Emptied, FallbackCloses, FinishClose
<1>7. Reported' BY <1>1 DEF TypeOK, Reported, Results, Emptied, FallbackCloses, FinishClose, SilencePlatform
<1>8. Owned'
  BY <1>1 DEF TypeOK, Sent, Owned, Once, Complete, Live, Emptied, FallbackCloses, FinishClose, SilencePlatform
<1>9. Once' BY <1>1 DEF TypeOK, Sent, Owned, Once, Emptied, FallbackCloses, FinishClose, SilencePlatform
<1>10. Ahead'
  BY <1>1
  DEF Ahead, TypeOK, Sent, Owned, Once, Waiting, Live, Complete, Results, Emptied, FallbackCloses,
      FinishClose, SilencePlatform
<1> QED BY <1>5, <1>6, <1>7, <1>8, <1>9, <1>10

LEMMA StepKeeps == ASSUME IInv, [Next]_vars PROVE IInv'
<1>1. ASSUME UNCHANGED vars PROVE IInv'
  <2>1. SameChannel BY <1>1, Unmoved DEF vars, channel, IInv
  <2> QED
    BY <1>1, <2>1
    DEF vars, callers, channel, job, ownerState, device, IInv, TypeOK, Sent, Reported, Owned, Once,
                            Ahead, Waiting, Live, SameChannel
<1>2. CASE CallerNext
  BY <1>2, SpeakKeeps, AdmitSpeakKeeps, CancelCallKeeps, SignalCancelKeeps, StopKeeps, VoicesKeeps,
     CloseKeeps,
     CloseReturnsKeeps, CloseOnOwnerKeeps, CancelScopeKeeps DEF CallerNext
<1>3. CASE InitializationNext
  BY <1>3, InitializationStartsKeeps, PlatformCreatedKeeps, PlatformDeliveredKeeps DEF InitializationNext
<1>4. CASE OwnerNext
  BY <1>4, OwnerStartsKeeps, ReceiveInitializedKeeps, ReceiveVoicesKeeps, ReceiveSpeakKeeps,
     ReceiveSpeakOfGoneCallerKeeps, StartSpeechKeeps, ReceiveCancelKeeps, ReceiveProgressKeeps, ReceiveStopKeeps,
     ReceiveCloseKeeps, FallbackClosesKeeps DEF OwnerNext
<1> QED BY <1>1, <1>2, <1>3, <1>4, UtteranceEndsKeeps, DeliverCallbackKeeps DEF Next

\* What the other proofs start from: every reachable state satisfies IInv.
THEOREM Inductive == Spec => []IInv
BY InitIInv, StepKeeps, PTL DEF Spec

\* SystemTtsEngine.kt's state, the channel of its owner included, is well typed.
THEOREM TypeCorrect == Spec => []TypeOK
BY Inductive, PTL DEF IInv

-----------------------------------------------------------------------------
(* Who holds the platform                                                  *)

\* A live platform is in the job's hands, on its way to the owner, or the
\* owner's; a closed owner has none and is sent none.
Held ==
  /\ tts = "live" => initialization = "created" \/ platform \/ Undelivered
  /\ owner = "closed" => ~channelOpen /\ commands = <<>> /\ ~platform
  /\ closer = "returned" => CloseFinished

LEMMA UndeliveredStays ==
  ASSUME SameChannel \/ \E m : After(m)
  PROVE  Undelivered => Undelivered'
  BY DEF SameChannel, After, Undelivered

LEMMA UndeliveredSent ==
  ASSUME Sent, initialization # "completed", NEW m, After(m), m.kind = "Initialized", m.result = "platform"
  PROVE  Undelivered'
<1>1. m.about \in Queued("Initialized")' /\ Queued("Initialized") = {} BY DEF Sent, After, Joined
<1>2. PICK i \in DOMAIN commands' : commands'[i].kind = "Initialized" BY <1>1 DEF Queued
<1>3. i \notin DOMAIN commands BY <1>1, <1>2 DEF Queued, After
<1> QED BY <1>2, <1>3 DEF After, Undelivered

LEMMA UndeliveredMovesUp ==
  ASSUME Sent, NEW kind, NEW about, Without(kind, about), kind # "Initialized", Undelivered
  PROVE  Undelivered'
<1>1. PICK i \in DOMAIN commands : commands[i].kind = "Initialized" /\ commands[i].result = "platform"
  BY DEF Undelivered
<1>2. commands[i].about \in Queued("Initialized") /\ Queued("Initialized")' = Queued("Initialized")
  BY <1>1 DEF Queued, Without, Left
<1>3. PICK j \in DOMAIN commands' : commands'[j].kind = "Initialized" BY <1>2 DEF Queued
<1>4. j + 1 \in DOMAIN commands /\ commands'[j] = commands[j + 1] BY DEF Without
<1>5. commands[i].about = None /\ commands[j + 1].about = None BY <1>1, <1>3, <1>4 DEF Sent, Queued
<1>6. i = j + 1 BY <1>1, <1>3, <1>4, <1>5 DEF Sent, Single
<1> QED BY <1>1, <1>3, <1>4, <1>6 DEF Undelivered

LEMMA ReceivesKeepHeld ==
  ASSUME IInv, Held, NEW kind \in CommandKinds, NEW about, Receive(kind, about), kind # "Initialized",
         UNCHANGED <<initialization, platform, tts, closer>>, owner' # "closed"
  PROVE  Held'
<1>1. Without(kind, about) BY Receipts DEF IInv
<1>2. Undelivered => Undelivered' BY <1>1, UndeliveredMovesUp DEF IInv
<1> QED BY <1>2 DEF Held, CloseFinished, Receive

LEMMA SendsKeepHeld ==
  ASSUME IInv, Held, NEW m \in Messages, commands' = commands \/ Send(m),
         UNCHANGED <<initialization, owner, platform, tts, channelOpen, closer>>
  PROVE  Held'
<1>1. SameChannel \/ After(m) BY Sends DEF IInv
<1>2. Undelivered => Undelivered' BY <1>1, UndeliveredStays
<1> QED BY <1>2 DEF Held, CloseFinished, Send

LEMMA FinishCloseHolds ==
  ASSUME IInv, Held, owner # "closed", FinishClose, closer' = closer,
         initialization' \in {initialization, "completed"}, initialization' # initialization => initialization = "unstarted"
  PROVE  Held'
  BY DEF IInv, Sent, Owned, Held, CloseFinished, FinishClose

LEMMA HeldStep == ASSUME IInv, Held, [Next]_vars PROVE Held'
<1>0. commands' = commands => (Undelivered' = Undelivered) BY DEF Undelivered
<1>1. CASE UNCHANGED vars
  BY <1>0, <1>1 DEF vars, callers, channel, job, ownerState, device, Held, CloseFinished
<1>2. CASE CallerNext
  <2>1. ASSUME NEW c \in Calls, Speak(c) \/ CancelCall(c) PROVE Held'
    BY <1>0, <2>1 DEF Speak, CancelCall, channel, job, ownerState, device, Held, CloseFinished
  <2>2. ASSUME NEW c \in Calls, AdmitSpeak(c) PROVE Held'
    <3>1. Command("Speak", c, None) \in Messages BY DEF Command, Messages, CommandKinds
    <3> QED BY <2>2, <3>1, SendsKeepHeld DEF AdmitSpeak, job, ownerState, device
  <2>3. ASSUME NEW c \in Calls, SignalCancel(c) PROVE Held'
    <3>1. Command("CancelCaller", c, None) \in Messages BY DEF Command, Messages, CommandKinds
    <3> QED BY <2>3, <3>1, SendsKeepHeld DEF SignalCancel, job, ownerState, device
  <2>4. ASSUME NEW s \in Stops, Stop(s) PROVE Held'
    <3>1. Command("Stop", s, None) \in Messages BY DEF Command, Messages, CommandKinds
    <3> QED BY <2>4, <3>1, SendsKeepHeld DEF Stop, job, ownerState, device
  <2>5. ASSUME NEW q \in Queries, Voices(q) PROVE Held'
    <3>1. Command("Voices", q, None) \in Messages BY DEF Command, Messages, CommandKinds
    <3> QED BY <2>5, <3>1, SendsKeepHeld DEF Voices, job, ownerState, device
  <2>6. ASSUME Close PROVE Held'
    <3>1. Command("Close", None, None) \in Messages BY DEF Command, Messages, CommandKinds
    <3>2. commands' = commands \/ Send(Command("Close", None, None)) BY <2>6 DEF Close
    <3>3. SameChannel \/ After(Command("Close", None, None)) BY <3>1, <3>2, Sends DEF IInv
    <3>4. Undelivered => Undelivered' BY <3>3, UndeliveredStays
    <3> QED BY <2>6, <3>2, <3>4 DEF Close, Held, Send, CloseFinished, job, ownerState, device
  <2>7. ASSUME CloseReturns PROVE Held'
    BY <1>0, <2>7 DEF CloseReturns, channel, job, ownerState, device, Held, CloseFinished
  <2>8. CASE CloseOnOwner BY <2>8, FinishCloseHolds DEF CloseOnOwner, FinishClose
  <2>9. CASE CancelScope
    <3>1. CASE initialization = "unstarted" BY <2>9, <3>1, FinishCloseHolds DEF CancelScope, FinishClose
    <3>2. CASE initialization # "unstarted"
      BY <1>0, <2>9, <3>2 DEF CancelScope, channel, device, Held, CloseFinished
    <3> QED BY <3>1, <3>2
  <2> QED BY <1>2, <2>1, <2>2, <2>3, <2>4, <2>5, <2>6, <2>7, <2>8, <2>9 DEF CallerNext
<1>3. CASE InitializationNext
  <2>1. CASE InitializationStarts
    BY <1>0, <2>1 DEF InitializationStarts, channel, ownerState, device, Held, CloseFinished
  <2>2. CASE PlatformCreated
    BY <1>0, <2>2 DEF IInv, Sent, Owned, Undelivered, Queued, PlatformCreated, channel, ownerState, Held, CloseFinished
  <2>3. CASE PlatformDelivered
    <3> DEFINE m == Command("Initialized", None, IF initialization = "created" THEN "platform" ELSE "null")
    <3>1. m \in Messages /\ m.kind = "Initialized" /\ (initialization = "created" => m.result = "platform")
      BY DEF Command, Messages, CommandKinds
    <3>2. Send(m) BY <2>3 DEF PlatformDelivered
    <3> HIDE DEF m
    <3>3. /\ SameChannel \/ After(m)
          /\ channelOpen => After(m)
      BY <3>1, <3>2, Sends DEF IInv
    <3>4. (Undelivered => Undelivered') /\ (initialization = "created" /\ channelOpen => Undelivered')
      BY <2>3, <3>1, <3>3, UndeliveredStays, UndeliveredSent DEF IInv, PlatformDelivered
    <3> QED BY <2>3, <3>2, <3>4 DEF Held, CloseFinished, Send, PlatformDelivered, ownerState
  <2> QED BY <1>3, <2>1, <2>2, <2>3 DEF InitializationNext
<1>4. CASE OwnerNext
  <2>1. CASE OwnerStarts BY <1>0, <2>1 DEF OwnerStarts, channel, job, device, Held, CloseFinished
  <2>2. CASE ReceiveInitialized
    <3>1. Without("Initialized", None) BY <2>2, Receipts DEF IInv, ReceiveInitialized, CommandKinds
    <3>2. Undelivered => Head(commands).result = "platform"
      BY <3>1 DEF IInv, Sent, Single, Queued, Undelivered, Without
    <3>3. ~platform /\ initialization = "completed" BY <3>1 DEF IInv, Sent, Owned, Without
    <3> QED BY <2>2, <3>2, <3>3 DEF ReceiveInitialized, Receive, InitializationFails, job, Held, CloseFinished
  <2>3. ASSUME NEW q \in Queries, ReceiveVoices(q) PROVE Held'
    BY <2>3, ReceivesKeepHeld DEF ReceiveVoices, Receive, CommandKinds, job, device
  <2>4. ASSUME NEW c \in Calls, ReceiveSpeak(c) PROVE Held'
    BY <2>4, ReceivesKeepHeld DEF ReceiveSpeak, Receive, CommandKinds, job
  <2>5. ASSUME NEW c \in Calls, ReceiveSpeakOfGoneCaller(c) PROVE Held'
    BY <2>5, ReceivesKeepHeld DEF ReceiveSpeakOfGoneCaller, Receive, CommandKinds, job, ownerState, device
  <2>6. ASSUME NEW c \in Calls, ReceiveCancel(c) PROVE Held'
    BY <2>6, ReceivesKeepHeld DEF ReceiveCancel, Receive, CommandKinds, job
  <2>7. ASSUME NEW c \in Calls, ReceiveProgress(c) PROVE Held'
    BY <2>7, ReceivesKeepHeld DEF ReceiveProgress, Receive, CommandKinds, job, device
  <2>8. ASSUME NEW s \in Stops, ReceiveStop(s) PROVE Held'
    BY <2>8, ReceivesKeepHeld DEF ReceiveStop, Receive, CommandKinds, job
  <2>9. CASE StartSpeech BY <1>0, <2>9 DEF StartSpeech, channel, job, Held, CloseFinished
  <2>10. CASE ReceiveClose BY <2>10, FinishCloseHolds DEF ReceiveClose, FinishClose
  <2>11. CASE FallbackCloses BY <2>11, FinishCloseHolds DEF FallbackCloses, FinishClose
  <2> QED BY <1>4, <2>1, <2>2, <2>3, <2>4, <2>5, <2>6, <2>7, <2>8, <2>9, <2>10, <2>11 DEF OwnerNext
<1>5. CASE UtteranceEnds BY <1>0, <1>5 DEF UtteranceEnds, channel, job, ownerState, Held, CloseFinished
<1>6. CASE DeliverCallback
  <2>1. PICK report \in callbacks : Send(Command("Progress", report[1], report[2])) BY <1>6 DEF DeliverCallback
  <2>2. Command("Progress", report[1], report[2]) \in Messages
    BY DEF IInv, TypeOK, Command, Messages, CommandKinds
  <2> QED BY <1>6, <2>1, <2>2, SendsKeepHeld DEF DeliverCallback, job, ownerState
<1> QED BY <1>1, <1>2, <1>3, <1>4, <1>5, <1>6 DEF Next

\* When SystemTtsEngine.close returns, nobody is left holding a live platform
\* and nothing sounds, however initialisation and close overlapped.
THEOREM ClosedIsReleased == Spec => []CloseReleases
<1>1. Init => Held BY DEF Init, Held
<1>2. IInv /\ Held => CloseReleases BY DEF IInv, Owned, Held, CloseFinished, Undelivered, CloseReleases
<1> QED BY <1>1, <1>2, HeldStep, Inductive, PTL DEF Spec

-----------------------------------------------------------------------------
(* Every step is one the interface allows                                  *)

Served == Engine!Serve \/ UNCHANGED Engine!vars

\* Only open calls are answered.
LEMMA CompleteAnswersOpen ==
  ASSUME TypeOK, NEW calls, NEW result \in Results, answer' = Complete(calls, result)
  PROVE  /\ answer' \in [Calls -> Results \union {None}]
         /\ \A c \in Calls : answer'[c] # answer[c] => c \in calls /\ Live(c) /\ answer'[c] = result
         /\ \A c \in Calls \intersect calls : ~Live(c) \/ answer'[c] = result
         /\ \A c \in Calls : answer[c] # None => answer'[c] = answer[c]
  BY DEF TypeOK, Complete, Live

\* A step that answers open calls with a result they have earned, and lets
\* nobody new be heard.
LEMMA AnswersServe ==
  ASSUME TypeOK, NEW calls, NEW result \in Results, answer' = Complete(calls, result),
         result = "Completed" => calls \subseteq heard,
         voice' = None \/ (voice' = voice /\ voice \notin calls /\ (voice # None => answer[voice] = None)),
         stopped' = stopped, UNCHANGED <<asked, withdrawn, heard, covers>>
  PROVE  Engine!Serve
<1>1. voice' # None => answer'[voice'] = None
  BY DEF TypeOK, Complete
<1> QED BY <1>1, CompleteAnswersOpen DEF TypeOK, Engine!Serve, Engine!Open, Engine!Results, Results, Live

LEMMA SilenceServes ==
  ASSUME TypeOK, voice' = None, UNCHANGED <<asked, withdrawn, answer, heard, covers, stopped>>
  PROVE  Engine!Serve
  BY DEF TypeOK, Engine!Serve, Engine!Results, Results

\* A step that cuts the voice, cancels calls and lets stops return whose calls
\* are over.
LEMMA StopsServe ==
  ASSUME TypeOK, NEW calls, answer' = Complete(calls, "Cancelled"), voice' = None,
         NEW ended \in SUBSET Stops, stopped' = stopped \union ended,
         \A s \in ended : \A c \in covers[s] : c \in withdrawn \/ answer'[c] # None,
         UNCHANGED <<asked, withdrawn, heard, covers>>
  PROVE  Engine!Serve
<1>1. /\ answer' \in [Calls -> Results \union {None}]
      /\ \A c \in Calls : answer'[c] # answer[c] => Live(c) /\ answer'[c] = "Cancelled"
  BY CompleteAnswersOpen DEF Results
<1>2. stopped' \subseteq Stops BY DEF TypeOK
<1>3. \A s \in stopped' \ stopped : \A c \in covers[s] : voice' # c /\ (c \in withdrawn \/ answer'[c] # None)
  BY NoneIsNoCall DEF TypeOK
<1> QED BY <1>1, <1>2, <1>3 DEF Engine!Serve, Engine!Open, Engine!Results, Results, Live

LEMMA StopRefines == ASSUME IInv, NEW s \in Stops, Stop(s) PROVE Engine!Next
<1>1. CASE closeRequested
  <2>1. covers[s] = {} BY DEF IInv, Sent, Stop
  <2>2. Engine!Serve
    BY <1>1, <2>1 DEF IInv, TypeOK, Owned, Stop, ownerState, device, Engine!Serve, Engine!Results, Results
  <2> QED BY <2>2 DEF Engine!Next
<1>2. CASE ~closeRequested
  <2>1. covers' \in [Stops -> SUBSET asked] BY <1>2 DEF IInv, TypeOK, Stop
  <2>2. Engine!BeginStop(s) BY <1>2, <2>1 DEF IInv, TypeOK, Stop, device, Engine!BeginStop
  <2> QED BY <2>2 DEF Engine!Next
<1> QED BY <1>1, <1>2

LEMMA ReceiveInitializedRefines == ASSUME IInv, ReceiveInitialized PROVE Served
<1>1. voice # None => voice # pendingSpeech
  BY NoneIsNoCall DEF IInv, TypeOK, Owned, Once
<1> QED BY <1>1, AnswersServe
        DEF IInv, Owned, Results, Served, ReceiveInitialized, InitializationFails, Engine!vars

LEMMA ReceiveSpeakRefines == ASSUME IInv, NEW c \in Calls, ReceiveSpeak(c) PROVE Served
<1>1. voice' = None BY DEF IInv, Owned, ReceiveSpeak, SilencePlatform
<1>2. Live(c) /\ UNCHANGED <<asked, withdrawn, heard, covers, stopped>> BY DEF ReceiveSpeak
<1>3. answer' \in [Calls -> Results \union {None}]
  BY ReceiveSpeakKeeps DEF IInv, TypeOK
<1>4. ASSUME NEW x \in Calls, answer'[x] # answer[x] PROVE Live(x) /\ answer'[x] # "Completed"
  <2>1. x # c => answer'[x] = Complete({pendingSpeech, activeSpeech}, "Cancelled")[x]
    BY DEF IInv, TypeOK, Complete, ReceiveSpeak
  <2>2. CASE x # c BY <2>1, <2>2, <1>4 DEF Complete
  <2>3. CASE x = c BY <2>3, <1>2, <1>4 DEF IInv, TypeOK, Complete, ReceiveSpeak, Live
  <2> QED BY <2>2, <2>3
<1>5. Engine!Serve
  BY <1>1, <1>2, <1>3, <1>4 DEF IInv, TypeOK, Engine!Serve, Engine!Open, Engine!Results, Results, Live
<1> QED BY <1>5 DEF Served

LEMMA StartSpeechRefines == ASSUME IInv, StartSpeech PROVE Served
<1>1. starting \in Calls /\ voice = None BY DEF IInv, TypeOK, Owned, StartSpeech
<1>2. CASE Live(starting) /\ voice' = starting /\ answer' = answer
  <2>1. Engine!Serve
    BY <1>1, <1>2 DEF IInv, TypeOK, StartSpeech, Live, Engine!Serve, Engine!Open, Engine!Results, Results
  <2> QED BY <2>1 DEF Served
<1>3. CASE answer' = Complete({starting}, "Failed") /\ voice' = voice
  BY <1>1, <1>3, AnswersServe DEF IInv, Results, StartSpeech, Served
<1> QED BY <1>2, <1>3 DEF StartSpeech

LEMMA ReceiveCancelRefines == ASSUME IInv, NEW c \in Calls, ReceiveCancel(c) PROVE Served
  BY SilenceServes DEF IInv, ReceiveCancel, SilencePlatform, callers, Served, Engine!vars

LEMMA ReceiveProgressRefines == ASSUME IInv, NEW c \in Calls, ReceiveProgress(c) PROVE Served
<1>1. Without("Progress", c) BY Receipts DEF IInv, ReceiveProgress, CommandKinds
<1>2. Head(commands).result \in Results /\ (Head(commands).result = "Completed" => c \in heard)
  BY <1>1 DEF IInv, Reported, Without
<1>3. voice # c BY <1>1 DEF IInv, Once, Without
<1> QED BY <1>2, <1>3, AnswersServe DEF IInv, Owned, ReceiveProgress, device, Served, Engine!vars

\* When a stop is received, whoever it covers is over or is the owner's.
LEMMA ReceiveStopRefines == ASSUME IInv, NEW s \in Stops, ReceiveStop(s) PROVE Served
<1> USE NoneIsNoCall
<1>1. Without("Stop", s) /\ owner = "receiving" BY Receipts DEF IInv, ReceiveStop, Receive, CommandKinds
<1>2. voice' = None BY DEF IInv, Owned, ReceiveStop, SilencePlatform
<1>3. UNCHANGED <<asked, withdrawn, heard, covers>> /\ stopped' = stopped \union {s} BY DEF ReceiveStop
<1>4. ASSUME NEW c \in covers[s] PROVE c \in withdrawn \/ answer'[c] # None
  <2>1. c \in submitted /\ c \in Calls BY DEF IInv, TypeOK
  <2>2. ~Waiting(c) BY <1>1 DEF IInv, Ahead, Without
  <2>3. starting = None BY <1>1 DEF IInv, Owned
  <2>4. answer' = Complete({pendingSpeech, activeSpeech}, "Cancelled") BY DEF ReceiveStop
  <2> QED BY <2>1, <2>2, <2>3, <2>4 DEF IInv, TypeOK, Waiting, Live, Complete, Results
<1>5. answer' = Complete({pendingSpeech, activeSpeech}, "Cancelled") BY DEF ReceiveStop
<1> DEFINE ended == {s}
<1>6. ended \in SUBSET Stops /\ stopped' = stopped \union ended BY <1>3
<1>7. \A t \in ended : \A c \in covers[t] : c \in withdrawn \/ answer'[c] # None BY <1>4
<1> HIDE DEF ended
<1>8. Engine!Serve BY <1>2, <1>3, <1>5, <1>6, <1>7, StopsServe DEF IInv
<1> QED BY <1>8 DEF Served

\* When the engine closes, every admitted call is over.
LEMMA FinishCloseRefines == ASSUME IInv, FinishClose, owner # "starting" PROVE Served
<1> USE NoneIsNoCall
<1>1. voice' = None BY DEF IInv, Owned, FinishClose, SilencePlatform
<1>2. UNCHANGED <<asked, withdrawn, heard, covers>> /\ stopped' = stopped \union Queued("Stop")
  BY DEF FinishClose
<1>3. answer' = Complete({pendingSpeech, activeSpeech} \union Queued("Speak"), "Cancelled") BY DEF FinishClose
<1>4. ASSUME NEW c \in submitted PROVE c \in withdrawn \/ answer'[c] # None
  <2>1. Waiting(c) => c \in Queued("Speak") BY DEF IInv, Ahead
  <2>2. starting = None BY DEF IInv, Owned
  <2> QED BY <2>1, <2>2, <1>3 DEF IInv, TypeOK, Waiting, Live, Complete, Results
<1>5. \A s \in Stops : covers[s] \subseteq submitted /\ covers[s] \subseteq Calls BY DEF IInv, TypeOK
<1> DEFINE ended == Queued("Stop")
<1>6. ended \in SUBSET Stops /\ stopped' = stopped \union ended BY <1>2 DEF IInv, Sent
<1>7. \A t \in ended : \A c \in covers[t] : c \in withdrawn \/ answer'[c] # None
  BY <1>4, <1>5, <1>6 DEF IInv, Sent
<1> HIDE DEF ended
<1>8. Engine!Serve BY <1>1, <1>2, <1>3, <1>6, <1>7, StopsServe DEF IInv
<1> QED BY <1>8 DEF Served

LEMMA AdmitSpeakRefines == ASSUME IInv, NEW c \in Calls, AdmitSpeak(c) PROVE Served
<1>1. voice # None => voice # c BY DEF IInv, TypeOK, Owned, AdmitSpeak
<1> QED BY <1>1, AnswersServe DEF IInv, Owned, AdmitSpeak, device, Results, Served, Engine!vars

LEMMA StepRefines == ASSUME IInv, [Next]_vars PROVE [Engine!Next]_Engine!vars
<1> USE DEF Engine!Next
<1>1. CASE UNCHANGED vars BY <1>1 DEF vars, callers, device, Engine!vars
<1>2. CASE CallerNext
  <2>1. ASSUME NEW c \in Calls, Speak(c) PROVE Engine!Ask(c) BY <2>1 DEF Speak, device, Engine!Ask
  <2>2. ASSUME NEW c \in Calls, CancelCall(c) PROVE Engine!Withdraw(c)
    BY <2>2 DEF CancelCall, Live, device, Engine!Withdraw, Engine!Open
  <2>3. ASSUME NEW c \in Calls, SignalCancel(c) PROVE UNCHANGED Engine!vars
    BY <2>3 DEF SignalCancel, device, Engine!vars
  <2>4. ASSUME NEW q \in Queries, Voices(q) PROVE UNCHANGED Engine!vars
    BY <2>4 DEF Voices, device, Engine!vars
  <2>5. ASSUME Close \/ CloseReturns PROVE UNCHANGED Engine!vars
    BY <2>5 DEF Close, CloseReturns, callers, device, Engine!vars
  <2>6. CASE CloseOnOwner BY <2>6, FinishCloseRefines DEF CloseOnOwner, Served
  <2>7. CASE CancelScope BY <2>7, FinishCloseRefines DEF CancelScope, Served, callers, device, Engine!vars
  <2> QED
    BY <1>2, <2>1, <2>2, <2>3, <2>4, <2>5, <2>6, <2>7, AdmitSpeakRefines, StopRefines DEF CallerNext, Served
<1>3. CASE InitializationNext
  BY <1>3
  DEF InitializationNext, InitializationStarts, PlatformCreated, PlatformDelivered, callers, device,
      Engine!vars
<1>4. CASE OwnerNext
  <2>1. CASE OwnerStarts BY <2>1 DEF OwnerStarts, callers, device, Engine!vars
  <2>2. CASE \E q \in Queries : ReceiveVoices(q) BY <2>2 DEF ReceiveVoices, device, Engine!vars
  <2>3. CASE \E c \in Calls : ReceiveSpeakOfGoneCaller(c)
    BY <2>3 DEF ReceiveSpeakOfGoneCaller, callers, device, Engine!vars
  <2>4. CASE ReceiveClose \/ FallbackCloses
    BY <2>4, FinishCloseRefines DEF ReceiveClose, FallbackCloses, Served
  <2> QED BY <1>4, <2>1, <2>2, <2>3, <2>4, ReceiveInitializedRefines, ReceiveSpeakRefines, StartSpeechRefines,
             ReceiveCancelRefines, ReceiveProgressRefines, ReceiveStopRefines DEF OwnerNext, Served
<1>5. CASE UtteranceEnds
  <2>1. Engine!FallSilent BY <1>5 DEF UtteranceEnds, callers, Engine!FallSilent
  <2> QED BY <2>1
<1>6. CASE DeliverCallback BY <1>6 DEF DeliverCallback, callers, Engine!vars
<1> QED BY <1>1, <1>2, <1>3, <1>4, <1>5, <1>6 DEF Next

\* SystemTtsEngine.kt keeps what the interface SpeechEngine promises: every
\* behaviour of the queue, the owner, its callbacks and its closing is one of
\* the contract's.
THEOREM KeepsContract == Spec => Contract
<1>1. Init => Engine!Init BY DEF Init, Engine!Init
<1> QED BY <1>1, StepRefines, Inductive, PTL DEF Spec, Contract, Engine!Spec

==============================================================================
