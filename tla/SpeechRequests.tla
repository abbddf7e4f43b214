---------------------------- MODULE SpeechRequests ----------------------------
\* What the audio cache, the encoded audio player and the router speak about:
\* the requests the session makes, one for every segment it has read.
EXTENDS Naturals, Sequences, FiniteSets

CONSTANTS Requests, None

ASSUME RequestsAssumption == IsFiniteSet(Requests) /\ None \notin Requests
==============================================================================
