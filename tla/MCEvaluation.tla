---------------------------- MODULE MCEvaluation ----------------------------
(* Five races; the second has several snapshots, settlements and imports.  *)
EXTENDS Evaluation

MCRaces == 1..5
MCScheduledStart == <<1, 2, 3, 5, 7>>
MCSettleTimes == <<{1}, {2, 3}, {3, 4}, {5, 6}, {7}>>
MCCaptureTimes == <<{0}, {0, 1}, {2}, {4, 5}, {6}>>
=============================================================================
