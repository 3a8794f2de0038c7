---------------------------- MODULE MCExamGateway ----------------------------
(* The gateway of one instance, with another beside it; no symmetry, since *)
(* the run checks liveness.                                                *)
EXTENDS ExamGateway, TLC

\* Ten and five minutes, apart by a band, of a session that starts above both.
MCThresholds == {1, 3}
=============================================================================
