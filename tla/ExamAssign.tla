------------------------------ MODULE ExamAssign ------------------------------
(***************************************************************************)
(* ExamAssign: how one student is walked through the exams of one          *)
(* certificate.  Admins assign an exam by hand (assignExam) or the next    *)
(* one of the pool (assignNextExam); the student verifies a code, starts   *)
(* the exam with it and is scored.  What happens between start and score   *)
(* is ExamSession's.                                                       *)
(*                                                                         *)
(* An exam is named by its exam_order, unique within a certificate.  A     *)
(* call on another certificate's exam is refused and changes nothing.      *)
(***************************************************************************)
EXTENDS ExamScoring

CONSTANTS
    PoolSize,     \* the exams of the certificate are 1 .. PoolSize
    Codes,        \* ids of exam_access_codes rows
    Admins,       \* admin calls, at most one statement each at a time
    Students,     \* calls of the student
    None,
    MaxEdits,     \* bound on publications and withdrawals
    MaxFaults     \* bound on lapsed codes and failing SETs of the session key

Exams == 1 .. PoolSize

ASSUME ExamAssignAssumption ==
    /\ PoolSize \in Nat \ {0}
    /\ IsFiniteSet(Admins) /\ IsFiniteSet(Students) /\ Admins \cap Students = {}
    /\ None \notin Exams \cup [pool : SUBSET Exams, before : SUBSET Exams]
    /\ MaxEdits \in Nat /\ MaxFaults \in Nat

VARIABLES
    published,    \* the exams whose status is PUBLISHED
    examOf,       \* the exam of each code row, None while there is no row
    usedAt,       \* the codes with a usedAt
    lapsed,       \* the codes whose 24 hours are over
    sitting,      \* the session started with a code: none, active or scored
    job,          \* where each call is
    \* bookkeeping of the specification, read by no guard but the bounds
    automatic,    \* the codes assignNextExam issued
    late,         \* the codes used while their exam was withdrawn
    edits,
    faults

codeRows == <<examOf, usedAt, lapsed, automatic>>
exams    == <<published, edits>>
sessions == <<sitting, late>>
vars     == <<exams, codeRows, sessions, job, faults>>

Procs == Admins \cup Students

Fault == Cardinality(lapsed) + faults < MaxFaults

\* A call between two statements: the label of the next one and its locals.
Idle == [pc |-> "idle"]
Proceed(p, j) == job' = [job EXCEPT ![p] = j]
Return(p)     == Proceed(p, Idle)

\* exam_attempts of the student.
Attempted == {examOf[c] : c \in {d \in Codes : sitting[d] = "scored"}}

Issued(e) == {c \in Codes : examOf[c] = e}

\* The rows an unused code of this exam is looked up in.
Unused(e) == Issued(e) \ usedAt

Init ==
    /\ published = Exams
    /\ examOf = [c \in Codes |-> None]
    /\ usedAt = {}
    /\ lapsed = {}
    /\ sitting = [c \in Codes |-> "none"]
    /\ job = [p \in Procs |-> Idle]
    /\ automatic = {}
    /\ late = {}
    /\ edits = 0
    /\ faults = 0

-----------------------------------------------------------------------------
(* assignExam and assignNextExam.                                          *)

\* The exam is read; a draft is refused (422).
AssignExam(a, e) ==
    /\ job[a] = Idle
    /\ e \in published
    /\ Proceed(a, [pc |-> "issue", exam |-> e, seen |-> None])
    /\ UNCHANGED <<exams, codeRows, sessions, faults>>

\* The published pool is read; 404 if it is empty.
AssignNext(a) ==
    /\ job[a] = Idle
    /\ published # {}
    /\ Proceed(a, [pc |-> "next_attempted", pool |-> published, before |-> Attempted])
    /\ UNCHANGED <<exams, codeRows, sessions, faults>>

\* Mutant: read on the default pool, where row-level security shows nothing.
AttemptedIdsNoGuc == {}

\* getAttemptedExamIds, in a transaction that runs as the student.
AttemptedIds == Attempted

\* The first exam of the pool that is not among them, or 403.
PickNext(a) ==
    LET open == job[a].pool \ AttemptedIds IN
    /\ job[a].pc = "next_attempted"
    /\ IF open = {} THEN Return(a)
       ELSE Proceed(a, [pc |-> "next_code", exam |-> Min(open),
                        seen |-> [pool |-> job[a].pool, before |-> job[a].before]])
    /\ UNCHANGED <<exams, codeRows, sessions, faults>>

\* Mutant: a code is issued whatever is outstanding.
CheckNothing(a) ==
    /\ job[a].pc = "next_code"
    /\ Proceed(a, [job[a] EXCEPT !.pc = "issue"])
    /\ UNCHANGED <<exams, codeRows, sessions, faults>>

\* findOne: whichever unused row Postgres returns first; 409 if its 24 hours
\* are not over.  A lapsed row hides one that is still good.
CheckOutstanding(a) ==
    LET rows == Unused(job[a].exam)
        issue == [job[a] EXCEPT !.pc = "issue"]
    IN
    /\ job[a].pc = "next_code"
    /\ \/ rows = {} /\ Proceed(a, issue)
       \/ \E c \in rows : IF c \in lapsed THEN Proceed(a, issue) ELSE Return(a)
    /\ UNCHANGED <<exams, codeRows, sessions, faults>>

\* Mutant: the code is issued for the certificate, whatever the exam.
IssueWithoutExam(a, c) ==
    /\ job[a].pc = "issue"
    /\ examOf[c] = None
    /\ examOf' = [examOf EXCEPT ![c] = 0]
    /\ UNCHANGED automatic
    /\ Return(a)
    /\ UNCHANGED <<usedAt, lapsed, exams, sessions, faults>>

\* issueAccessCode: the hash is computed, then the row inserted.
IssueAccessCode(a, c) ==
    /\ job[a].pc = "issue"
    /\ examOf[c] = None
    /\ examOf' = [examOf EXCEPT ![c] = job[a].exam]
    /\ automatic' = IF job[a].seen = None THEN automatic ELSE automatic \cup {c}
    /\ Return(a)
    /\ UNCHANGED <<usedAt, lapsed, exams, sessions, faults>>

-----------------------------------------------------------------------------
(* The student's calls.                                                    *)

\* Mutant: the exam's status is not looked at.
VerifyDraft(r, c) ==
    /\ job[r] = Idle
    /\ examOf[c] # None
    /\ c \notin usedAt \cup lapsed
    /\ Proceed(r, [pc |-> "start_check", code |-> c])
    /\ UNCHANGED <<exams, codeRows, sessions, faults>>

\* findAndVerifyCode: a published exam, and the code among the unused rows
\* whose 24 hours are not over, else 403.  The two look-ups are one action: an
\* exam withdrawn between them counts as withdrawn after.  validateAccess ends
\* here.
Verify(r, c) ==
    /\ job[r] = Idle
    /\ examOf[c] \in published
    /\ c \notin usedAt \cup lapsed
    /\ Proceed(r, [pc |-> "start_check", code |-> c])
    /\ UNCHANGED <<exams, codeRows, sessions, faults>>

\* 409 if a session of the exam is active.
StartCheck(r) ==
    /\ job[r].pc = "start_check"
    /\ IF \E d \in Issued(examOf[job[r].code]) : sitting[d] = "active"
       THEN Return(r)
       ELSE Proceed(r, [job[r] EXCEPT !.pc = "start_txn"])
    /\ UNCHANGED <<exams, codeRows, sessions, faults>>

\* The code is used and the session inserted, in one transaction; 409 if the
\* code was used meanwhile.
StartTxn(r) ==
    LET c == job[r].code IN
    /\ job[r].pc = "start_txn"
    /\ IF c \in usedAt
       THEN Return(r) /\ UNCHANGED <<usedAt, sessions>>
       ELSE /\ usedAt' = usedAt \cup {c}
            /\ sitting' = [sitting EXCEPT ![c] = "active"]
            /\ late' = IF examOf[c] \in published THEN late ELSE late \cup {c}
            /\ Proceed(r, [job[r] EXCEPT !.pc = "start_redis"])
    /\ UNCHANGED <<exams, examOf, lapsed, automatic, faults>>

StartRedis(r) ==
    /\ job[r].pc = "start_redis"
    /\ Return(r)
    /\ UNCHANGED <<exams, codeRows, sessions, faults>>

\* The SET fails: the compensation deletes the row and frees the code.
StartUndo(r) ==
    /\ job[r].pc = "start_redis"
    /\ Fault
    /\ faults' = faults + 1
    /\ usedAt' = usedAt \ {job[r].code}
    /\ sitting' = [sitting EXCEPT ![job[r].code] = "none"]
    /\ Return(r)
    /\ UNCHANGED <<exams, examOf, lapsed, automatic, late>>

-----------------------------------------------------------------------------
(* The end of a session, and the rest of the world.                        *)

\* The session of a code is running, and its student was told so.
Running(c) ==
    /\ sitting[c] = "active"
    /\ \A r \in Students : job[r].pc = "start_redis" => job[r].code # c

\* submitExam or lateSubmitExam: the attempt is recorded and the call has the
\* result to reply with.
Submit(r, c, answers) ==
    /\ job[r] = Idle
    /\ Running(c)
    /\ sitting' = [sitting EXCEPT ![c] = "scored"]
    /\ Proceed(r, [pc |-> "reply", result |-> ScoreAnswers(answers)])
    /\ UNCHANGED <<exams, codeRows, late, faults>>

\* deleteSession, and the response.
SubmitReply(r) ==
    /\ job[r].pc = "reply"
    /\ Return(r)
    /\ UNCHANGED <<exams, codeRows, sessions, faults>>

\* The student left: the attempt is recorded when the grace window closes.
AutoSubmit(c) ==
    /\ Running(c)
    /\ sitting' = [sitting EXCEPT ![c] = "scored"]
    /\ UNCHANGED <<exams, codeRows, late, job, faults>>

\* A code's 24 hours are over.
Lapse(c) ==
    /\ examOf[c] # None
    /\ c \notin lapsed
    /\ Fault
    /\ lapsed' = lapsed \cup {c}
    /\ UNCHANGED <<examOf, usedAt, automatic, exams, sessions, job, faults>>

\* An exam is published or withdrawn, by hand: no handler does it.
Edit(e) ==
    /\ edits < MaxEdits
    /\ edits' = edits + 1
    /\ published' = IF e \in published THEN published \ {e} ELSE published \cup {e}
    /\ UNCHANGED <<codeRows, sessions, job, faults>>

AdminCall ==
    \E a \in Admins :
        \/ \E e \in Exams : AssignExam(a, e)
        \/ AssignNext(a) \/ PickNext(a) \/ CheckOutstanding(a)
        \/ \E c \in Codes : IssueAccessCode(a, c)

StudentCall ==
    \E r \in Students :
        \/ \E c \in Codes : Verify(r, c)
        \/ StartCheck(r) \/ StartTxn(r) \/ StartRedis(r) \/ StartUndo(r)
        \/ \E c \in Codes, answers \in Sheets : Submit(r, c, answers)
        \/ SubmitReply(r)

Next ==
    \/ AdminCall
    \/ StudentCall
    \/ \E c \in Codes : AutoSubmit(c) \/ Lapse(c)
    \/ \E e \in Exams : Edit(e)

Spec == Init /\ [][Next]_vars

-----------------------------------------------------------------------------
(* What the assignment promises.                                           *)

\* Every variable stays in its type.
TypeOK ==
    /\ published \subseteq Exams
    /\ examOf \in [Codes -> Exams \cup {None}]
    /\ usedAt \subseteq Codes /\ lapsed \subseteq Codes
    /\ sitting \in [Codes -> {"none", "active", "scored"}]
    /\ job \in [Procs -> {Idle}
           \cup [pc : {"issue"}, exam : Exams, seen : {None}]
           \cup [pc : {"next_attempted"}, pool : SUBSET Exams, before : SUBSET Exams]
           \cup [pc : {"next_code", "issue"}, exam : Exams,
                 seen : [pool : SUBSET Exams, before : SUBSET Exams]]
           \cup [pc : {"start_check", "start_txn", "start_redis"}, code : Codes]
           \cup [pc : {"reply"},
                 result : [score : Nat, passed : BOOLEAN, right : SUBSET Questions]]]
    /\ automatic \subseteq Codes /\ late \subseteq Codes
    /\ edits \in 0 .. MaxEdits /\ faults \in 0 .. MaxFaults

\* "published exams ordered by exam_order ASC, excluding any the student has
\* already attempted": with other calls, attempts and withdrawals in between,
\* the exam about to be assigned is one of the pool that was read, was not
\* attempted when the call began, and skips only exams attempted by now.
NextInOrder ==
    \A a \in Admins : (job[a].pc = "issue" /\ job[a].seen # None) =>
        /\ job[a].exam \in job[a].seen.pool \ job[a].seen.before
        /\ \A e \in job[a].seen.pool : e < job[a].exam => e \in Attempted

\* "One outstanding code per exam per student", as far as it holds: until a
\* code of the exam lapses or a start that failed frees one, racing admins
\* leave at most one usable automatic code each.  Once a code lapsed no bound
\* holds, even when that code is used in the end by a call that verified it.
FewOutstanding ==
    \A e \in Exams : (faults = 0 /\ Issued(e) \cap lapsed = {}) =>
        Cardinality(Unused(e) \cap automatic) <= Cardinality(Admins)

\* The publication is checked before the code is used and not again: each
\* call under way when an exam is withdrawn may still start it, once, and no
\* other call can.
LateStarts == Cardinality(late) <= edits * Cardinality(Students)

\* From 0.00 to 100.00 percent, in hundredths.
Percentages == 0 .. 10000

\* A student passes exactly when the weighted share of right answers, not
\* rounded, reaches passingScore; what is left out counts as wrong.  And the
\* score satisfies the CHECK of the row it is stored in.
VerdictExact ==
    \A r \in Students : job[r].pc = "reply" =>
        LET total  == MarksOf(Questions)
            result == job[r].result
        IN /\ result.passed <=>
                  (total > 0 /\ 100 * MarksOf(result.right) >= PassingScore * total)
           /\ result.score \in Percentages
=============================================================================
