---------------------------- MODULE MCSpeechContent ----------------------------
(* Books of up to three pages: blank covers, blank pages inside, blank ends,  *)
(* and pages of one or two segments.                                          *)
EXTENDS SpeechContent, TLC

MCBooks == UNION {[1..n -> 0..2] : n \in 1..3}
===============================================================================
