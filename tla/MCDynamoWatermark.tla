------------------------- MODULE MCDynamoWatermark --------------------------
(* Two instances with one handler each, racing over the rounds of a level. *)
EXTENDS DynamoWatermark, RequestSets

CONSTANTS c1, k1, w1, w2

MCRequests ==
    RequestsOver({c1}, {k1}, {"block"}, 1..1, 1..1, {"A", "B"})
    \cup RequestsOver({c1}, {k1}, {"block"}, 1..1, 2..2, {"A"})
    \cup RequestsOver({c1}, {k1}, {"block"}, 2..2, 0..0, {"A"})
MCDigests == DigestsOf(MCRequests)
=============================================================================
