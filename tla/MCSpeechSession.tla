--------------------------- MODULE MCSpeechSession ---------------------------
(* Small instance of SpeechSession: a source of two segments and a shorter one. *)
EXTENDS SpeechSession, TLC

CONSTANTS s1, s2

MCSources == {s1, s2}
MCSegmentCount == s1 :> 2 @@ s2 :> 1

Plain(ops) == [op : ops, arg : {0}]
MCCommands ==
  Plain({"Pause", "Resume", "Next", "Previous", "SetTimer", "ClearTimer", "UpdateOptions", "Stop"})
    \cup {[op |-> "Start", arg |-> s] : s \in MCSources}
    \cup {[op |-> "Seek", arg |-> 2]}

CallerSymmetry == Permutations(Callers)
==============================================================================
