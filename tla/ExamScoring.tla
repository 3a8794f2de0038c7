----------------------------- MODULE ExamScoring -----------------------------
(***************************************************************************)
(* ExamScoring: how scoreAnswers turns a sheet of answers into a score and *)
(* a verdict.  A score is counted in hundredths of a percent.              *)
(***************************************************************************)
EXTENDS Integers, FiniteSets, FiniteSetsExt

CONSTANTS
    Questions,     \* the questions of an exam
    Options,       \* ids of options
    Unanswered,    \* no option
    Marks,         \* exam_questions.marks
    CorrectOf,     \* the options of a question with isCorrect
    PassingScore   \* exams.passing_score

ASSUME ExamScoringAssumption ==
    /\ IsFiniteSet(Questions)
    /\ Marks \in [Questions -> Nat]
    /\ CorrectOf \in [Questions -> SUBSET Options]
    /\ Unanswered \notin Options
    /\ PassingScore \in 1 .. 100

\* What a client sends: the option selected for each question, perhaps one of
\* another question.
Sheets == [Questions -> Options \cup {Unanswered}]

\* The marks of a set of questions.
MarksOf(qs) == MapThenSumSet(LAMBDA q : Marks[q], qs)

\* The questions whose selected option is one of theirs and correct.
Right(answers) == {q \in Questions : answers[q] \in CorrectOf[q]}

\* parseFloat(((earned / total) * 100).toFixed(2)): to nearest, a half up; an
\* exam without marks scores 0.
Score(earned, total) ==
    IF total = 0 THEN 0 ELSE (20000 * earned + total) \div (2 * total)

\* Mutant: the threshold itself is not enough.
PassedAbove(score) == score > 100 * PassingScore

\* score >= passingThreshold, on the rounded score.
Passed(score) == score >= 100 * PassingScore

ScoreAnswers(answers) ==
    LET score == Score(MarksOf(Right(answers)), MarksOf(Questions))
    IN [score |-> score, passed |-> Passed(score), right |-> Right(answers)]
=============================================================================
