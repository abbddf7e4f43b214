---------------------------- MODULE SpeechPlayback ----------------------------
(***************************************************************************)
(* What a read-aloud session promises its listener, with no channel, job,  *)
(* generation or timer in sight.  Left alone it reads consecutive          *)
(* segments, and moves on from one only after that segment was heard to    *)
(* its end and committed; only a command (or the session's end) interrupts *)
(* it, and from an interruption any state may follow.                      *)
(***************************************************************************)
CONSTANTS
  Segments,      \* what can be read
  Following(_),  \* the segment after a segment, None after the last
  None

VARIABLES
  shown,         \* the published state: kind and segment
  progress,      \* the last committed segment
  heard,         \* the segment being shown was committed, the next is not shown
  interrupted    \* a command has taken over

vars == <<shown, progress, heard, interrupted>>

At(kind, segment) == [kind |-> kind, segment |-> segment]

Init == shown = At("Idle", None) /\ progress = None /\ heard = FALSE /\ interrupted = FALSE

Interrupt == interrupted' = TRUE /\ heard' = FALSE /\ UNCHANGED <<shown, progress>>

ShowAnything ==
  /\ interrupted
  /\ heard' \in BOOLEAN /\ interrupted' \in BOOLEAN
  /\ UNCHANGED progress

Resume ==
  /\ shown.kind = "Paused"
  /\ shown' = At("Preparing", shown.segment)
  /\ UNCHANGED <<progress, heard, interrupted>>

Sound ==
  /\ shown.kind = "Preparing"
  /\ shown' = At("Playing", shown.segment)
  /\ UNCHANGED <<progress, heard, interrupted>>

Commit ==
  /\ shown.kind = "Playing" /\ ~heard
  /\ progress' = shown.segment
  /\ heard' = TRUE
  /\ UNCHANGED <<shown, interrupted>>

Advance ==
  /\ heard
  /\ shown' = IF Following(shown.segment) = None THEN At("Completed", None)
              ELSE At("Preparing", Following(shown.segment))
  /\ heard' = FALSE
  /\ UNCHANGED <<progress, interrupted>>

Leave ==
  /\ shown.kind = "Playing" /\ ~heard
  /\ shown' \in {At("Paused", shown.segment), At("Error", shown.segment)}
  /\ UNCHANGED <<progress, heard, interrupted>>

Next == Interrupt \/ ShowAnything \/ Resume \/ Sound \/ Commit \/ Advance \/ Leave

Spec == Init /\ [][Next]_vars
==============================================================================
