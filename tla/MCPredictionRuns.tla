--------------------------- MODULE MCPredictionRuns ---------------------------
(* An instance of PredictionRuns for TLC: three calls, two of them streaming.  *)
EXTENDS PredictionRuns

CONSTANTS s1, s2, p1

MCCalls == {s1, s2, p1}
MCStreams == {s1, s2}

Route(rank, covers) == [rank |-> rank, method |-> "Flux", covers |-> covers, growth |-> "Flux"]

\* Two routes, and the same in the wrong order.
MCRawResults == {<<Route(1, TRUE), Route(2, TRUE)>>, <<Route(2, TRUE), Route(1, TRUE)>>}
=============================================================================
