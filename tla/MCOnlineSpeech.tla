---------------------------- MODULE MCOnlineSpeech ----------------------------
\* OnlineSpeech on two requests in two chapters.
EXTENDS OnlineSpeech

CONSTANTS r1, r2

MCScope == [r \in Requests |-> IF r = r1 THEN "A" ELSE "B"]
MCText == [r \in Requests |-> IF r = r1 THEN "t" ELSE "u"]
==============================================================================
