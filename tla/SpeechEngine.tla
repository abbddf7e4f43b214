----------------------------- MODULE SpeechEngine -----------------------------
(***************************************************************************)
(* What the interface SpeechEngine promises whoever holds one, with no     *)
(* queue, thread, platform or player in sight: a call is answered at most  *)
(* once and not after its caller left; it is answered Completed only when  *)
(* its own text was heard to the end; one call is heard at a time, none    *)
(* after its answer; and when stop returns, every call it was asked to     *)
(* stop is over and silent.  SystemTtsEngine keeps it, and so does what    *)
(* SpeechEngineRouter builds from two engines (OnlineSpeech).              *)
(***************************************************************************)
CONSTANTS
  Calls,   \* calls of speak
  Stops,   \* calls of stop
  None

VARIABLES
  asked,      \* speak was called
  withdrawn,  \* the caller was cancelled before an answer
  answer,     \* what speak returned
  voice,      \* the call being heard
  heard,      \* calls heard to the end of their text
  covers,     \* the calls a stop is to end
  stopped     \* stops that returned

vars == <<asked, withdrawn, answer, voice, heard, covers, stopped>>

Results == {"Completed", "Cancelled", "Failed"}

Open(c) == c \in asked \ withdrawn /\ answer[c] = None

Init ==
  /\ asked = {} /\ withdrawn = {} /\ heard = {} /\ stopped = {}
  /\ answer = [c \in Calls |-> None]
  /\ covers = [s \in Stops |-> {}]
  /\ voice = None

Ask(c) ==
  /\ asked' = asked \union {c}
  /\ UNCHANGED <<withdrawn, answer, voice, heard, covers, stopped>>

\* What the caller was hearing may be cut short at once.
Withdraw(c) ==
  /\ Open(c)
  /\ withdrawn' = withdrawn \union {c}
  /\ voice' = voice \/ (voice = c /\ voice' = None)
  /\ UNCHANGED <<asked, answer, heard, covers, stopped>>

\* The voice ends, of itself or because something cut it short.
FallSilent ==
  /\ voice' = None
  /\ heard' \in {heard, heard \union ({voice} \ {None})}
  /\ UNCHANGED <<asked, withdrawn, answer, covers, stopped>>

BeginStop(s) ==
  /\ s \notin stopped
  /\ covers' \in [Stops -> SUBSET asked]
  /\ \A t \in Stops \ {s} : covers'[t] = covers[t]
  /\ UNCHANGED <<asked, withdrawn, answer, voice, heard, stopped>>

\* The engine acts: it may answer open calls, give the voice to another open
\* call or to none, and let stops return whose calls are all over.
Serve ==
  /\ answer' \in [Calls -> Results \union {None}]
  /\ \A c \in Calls : answer'[c] # answer[c] =>
       Open(c) /\ (answer'[c] = "Completed" => c \in heard)
  /\ voice' \in Calls \union {None}
  /\ voice' \notin {None, voice} => Open(voice')
  /\ voice' # None => answer'[voice'] = None
  /\ stopped \subseteq stopped' /\ stopped' \subseteq Stops
  /\ \A s \in stopped' \ stopped : \A c \in covers[s] :
       voice' # c /\ (c \in withdrawn \/ answer'[c] # None)
  /\ UNCHANGED <<asked, withdrawn, heard, covers>>

Next ==
  \/ \E c \in Calls : Ask(c) \/ Withdraw(c)
  \/ \E s \in Stops : BeginStop(s)
  \/ FallSilent
  \/ Serve

Spec == Init /\ [][Next]_vars
==============================================================================
