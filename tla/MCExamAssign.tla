----------------------------- MODULE MCExamAssign -----------------------------
(* Two admins and one student.  The marks add up to 199, the most for      *)
(* which a rounded score cannot reach a threshold the marks miss: without  *)
(* the first question a sheet has 99.497...%, rounded to 99.5, of 100.     *)
EXTENDS ExamAssign, TLC

CONSTANTS q1, q2, yes, no

MCQuestions == {q1, q2}
MCOptions == {yes, no}
MCMarks == (q1 :> 1) @@ (q2 :> 198)
MCCorrectOf == (q1 :> {yes}) @@ (q2 :> {no})

Symmetry == Permutations(Codes) \cup Permutations(Admins)
=============================================================================
