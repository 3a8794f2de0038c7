--------------------------- MODULE ExamAssignProofs ---------------------------
(* Theorems about ExamAssign, for any pool, codes, admins, student calls,   *)
(* edits and faults.                                                        *)
EXTENDS ExamAssign, FiniteSetTheorems, WellFoundedInduction, TLAPS

-----------------------------------------------------------------------------
(* The inductive invariant.                                                *)

Seen == [pool : SUBSET Exams, before : SUBSET Exams]

\* What a call holds between two statements; a result is not looked into.
JobOK(j) ==
    \/ j = Idle
    \/ j \in [pc : {"issue"}, exam : Exams, seen : {None}]
    \/ j \in [pc : {"next_attempted"}, pool : SUBSET Exams, before : SUBSET Exams]
    \/ j \in [pc : {"next_code", "issue"}, exam : Exams, seen : Seen]
    \/ j \in [pc : {"start_check", "start_txn", "start_redis"}, code : Codes]
    \/ j.pc = "reply"

Types ==
    /\ published \subseteq Exams
    /\ examOf \in [Codes -> Exams \cup {None}]
    /\ usedAt \subseteq Codes /\ lapsed \subseteq Codes
    /\ sitting \in [Codes -> {"none", "active", "scored"}]
    /\ job = [p \in Procs |-> job[p]]
    /\ \A p \in Procs : JobOK(job[p])
    /\ automatic \subseteq Codes /\ IsFiniteSet(automatic)
    /\ late \subseteq Codes /\ IsFiniteSet(late)
    /\ edits \in Nat /\ faults \in Nat

Starting == {"start_check", "start_txn", "start_redis"}

\* The rows agree with each other and with the calls that start a session:
\* no two of them undo the same code.
Links ==
    /\ \A c \in usedAt \cup automatic : examOf[c] # None
    /\ \A c \in Codes : sitting[c] # "none" => c \in usedAt
    /\ \A r \in Students : job[r].pc \in Starting => examOf[job[r].code] # None
    /\ \A r \in Students : job[r].pc = "start_redis" => sitting[job[r].code] = "active"
    /\ \A r, q \in Students :
           job[r].pc = "start_redis" /\ job[q].pc = "start_redis" /\ r # q
               => job[r].code # job[q].code

\* What assignNextExam knows, from the read of the pool on.
InOrder(j) ==
    /\ j.pc = "next_attempted" => j.before \subseteq Attempted
    /\ j.pc \in {"next_code", "issue"} /\ j.seen # None =>
           /\ j.exam \in j.seen.pool \ j.seen.before
           /\ \A e \in j.seen.pool : e < j.exam => e \in Attempted

Order == \A a \in Admins : InOrder(job[a])

\* The unused automatic codes of an exam and the calls about to issue one.
Fresh(e)   == Unused(e) \cap automatic
Issuing(e) == {a \in Admins : job[a].pc = "issue" /\ job[a].seen # None /\ job[a].exam = e}

Few(e) ==
    faults = 0 /\ Issued(e) \cap lapsed = {} =>
        Cardinality(Fresh(e)) + Cardinality(Issuing(e)) <= Cardinality(Admins)

\* The calls that passed the check of a publication withdrawn since.
Overtaken == {r \in Students : /\ job[r].pc \in {"start_check", "start_txn"}
                               /\ examOf[job[r].code] \notin published}

LateFew == Cardinality(late) + Cardinality(Overtaken) <= edits * Cardinality(Students)

AssignInv == Types /\ Links /\ Order /\ (\A e \in Exams : Few(e)) /\ LateFew

-----------------------------------------------------------------------------
(* Lemmas.                                                                 *)

\* The first exam of a pool exists.
LEMMA MinOf ==
    ASSUME NEW S \in SUBSET Nat, S # {}
    PROVE  Min(S) \in S /\ \A y \in S : Min(S) <= y
<1>1. PICK x \in S : \A y \in S : ~(<<y, x>> \in OpToRel(<, Nat))
    BY NatLessThanWellFounded, WFMin, Zenon
<1>2. \A y \in S : x <= y
    <2> SUFFICES ASSUME NEW y \in S PROVE x <= y OBVIOUS
    <2>1. <<y, x>> \in Nat \X Nat /\ ~(<<y, x>> \in OpToRel(<, Nat)) BY <1>1
    <2>2. ~(y < x) BY <2>1, Zenon DEF OpToRel
    <2> QED BY <2>2
<1> QED BY <1>2 DEF Min

\* A call's new label is its own only.
LEMMA JobStep ==
    ASSUME Types, NEW p \in Procs, NEW j, Proceed(p, j)
    PROVE  /\ job' = [q \in Procs |-> job'[q]]
           /\ job'[p] = j
           /\ \A q \in Procs : q # p => job'[q] = job[q]
BY DEF Types, Proceed

\* The labels of the records a call holds.
LEMMA Labels ==
    /\ Idle.pc = "idle"
    /\ \A j : JobOK(j) => j.pc \in Starting \cup {"idle", "issue", "next_attempted", "next_code", "reply"}
    /\ \A j : JobOK(j) /\ j.pc \in Starting => j.code \in Codes /\ j = [pc |-> j.pc, code |-> j.code]
    /\ \A j : JobOK(j) /\ j.pc = "next_attempted" => j.pool \subseteq Exams /\ j.before \subseteq Exams
    /\ \A j : JobOK(j) /\ j.pc = "next_code" =>
           j.exam \in Exams /\ j.seen \in Seen /\ j = [pc |-> "next_code", exam |-> j.exam, seen |-> j.seen]
    /\ \A j : JobOK(j) /\ j.pc = "issue" => j.exam \in Exams /\ j.seen \in Seen \cup {None}
BY DEF JobOK, Idle, Starting

\* What the labels of a fresh job are.
LEMMA Forms ==
    /\ JobOK(Idle)
    /\ \A e \in Exams : JobOK([pc |-> "issue", exam |-> e, seen |-> None])
    /\ \A P, B \in SUBSET Exams : JobOK([pc |-> "next_attempted", pool |-> P, before |-> B])
    /\ \A e \in Exams, v \in Seen : /\ JobOK([pc |-> "next_code", exam |-> e, seen |-> v])
                                  /\ JobOK([pc |-> "issue", exam |-> e, seen |-> v])
    /\ \A l \in Starting, c \in Codes : JobOK([pc |-> l, code |-> c])
    /\ \A x : JobOK([pc |-> "reply", result |-> x])
BY DEF JobOK, Starting

LEMMA InitOK == Init => AssignInv
<1> SUFFICES ASSUME Init PROVE AssignInv OBVIOUS
<1> USE ExamAssignAssumption DEF Init
<1>1. Types
    BY FS_EmptySet, Forms DEF Types
<1>2. Links BY Labels DEF Links, Starting, Procs
<1>3. Order BY Labels DEF Order, InOrder, Procs
<1>4. ASSUME NEW e \in Exams PROVE Few(e)
    <2>1. Fresh(e) = {} /\ Issuing(e) = {} BY Labels DEF Fresh, Issuing, Procs
    <2>2. Cardinality(Admins) \in Nat BY FS_CardinalityType
    <2> QED BY <2>1, <2>2, FS_EmptySet DEF Few
<1>5. LateFew
    <2>1. Overtaken = {} BY Labels DEF Overtaken, Procs
    <2>2. Cardinality(Students) \in Nat BY FS_CardinalityType
    <2> QED BY <2>1, <2>2, FS_EmptySet DEF LateFew
<1> QED BY <1>1, <1>2, <1>3, <1>4, <1>5 DEF AssignInv

-----------------------------------------------------------------------------
(* Types.                                                                  *)

\* A call that goes on to a good label leaves every call at one.
LEMMA JobsKept ==
    ASSUME Types, NEW p \in Procs, NEW j, JobOK(j), Proceed(p, j)
    PROVE  job' = [q \in Procs |-> job'[q]] /\ \A q \in Procs : JobOK(job'[q])
BY JobStep DEF Types

LEMMA AttemptedExams == Types /\ Links => Attempted \subseteq Exams
BY DEF Types, Links, Attempted

LEMMA AdminTypes ==
    ASSUME Types, Links, NEW a \in Admins,
           \/ \E e \in Exams : AssignExam(a, e)
           \/ AssignNext(a) \/ PickNext(a) \/ CheckOutstanding(a)
           \/ \E c \in Codes : IssueAccessCode(a, c)
    PROVE  Types'
<1> a \in Procs BY DEF Procs
<1> USE DEF exams, codeRows, sessions
<1>1. ASSUME NEW e \in Exams, AssignExam(a, e) PROVE Types'
    <2>1. JobOK([pc |-> "issue", exam |-> e, seen |-> None]) BY Forms
    <2>2. job' = [q \in Procs |-> job'[q]] /\ \A q \in Procs : JobOK(job'[q])
        BY <1>1, <2>1, JobsKept DEF AssignExam
    <2> QED BY <1>1, <2>2 DEF AssignExam, Types
<1>2. ASSUME AssignNext(a) PROVE Types'
    <2>1. JobOK([pc |-> "next_attempted", pool |-> published, before |-> Attempted])
        BY Forms, AttemptedExams DEF Types
    <2>2. job' = [q \in Procs |-> job'[q]] /\ \A q \in Procs : JobOK(job'[q])
        BY <1>2, <2>1, JobsKept DEF AssignNext
    <2> QED BY <1>2, <2>2 DEF AssignNext, Types
<1>3. ASSUME PickNext(a) PROVE Types'
    <2> DEFINE open == job[a].pool \ AttemptedIds
    <2>1. job[a].pool \subseteq Exams /\ job[a].before \subseteq Exams
        BY <1>3, Labels DEF PickNext, Types
    <2>2. open # {} => Min(open) \in Exams
        BY <2>1, MinOf DEF Exams
    <2>3. [pool |-> job[a].pool, before |-> job[a].before] \in Seen BY <2>1 DEF Seen
    <2>4. PICK j : JobOK(j) /\ Proceed(a, j)
        BY <1>3, <2>2, <2>3, Forms DEF PickNext, Return
    <2>5. job' = [q \in Procs |-> job'[q]] /\ \A q \in Procs : JobOK(job'[q])
        BY <2>4, JobsKept
    <2> QED BY <1>3, <2>5 DEF PickNext, Types
<1>4. ASSUME CheckOutstanding(a) PROVE Types'
    <2>1. [job[a] EXCEPT !.pc = "issue"] = [pc |-> "issue", exam |-> job[a].exam, seen |-> job[a].seen]
          /\ job[a].exam \in Exams /\ job[a].seen \in Seen
        BY <1>4, Labels DEF CheckOutstanding, Types
    <2>2. JobOK([job[a] EXCEPT !.pc = "issue"]) /\ JobOK(Idle) BY <2>1, Forms
    <2>3. PICK j : JobOK(j) /\ Proceed(a, j)
        BY <1>4, <2>2 DEF CheckOutstanding, Return
    <2>4. job' = [q \in Procs |-> job'[q]] /\ \A q \in Procs : JobOK(job'[q])
        BY <2>3, JobsKept
    <2> QED BY <1>4, <2>4 DEF CheckOutstanding, Types
<1>5. ASSUME NEW c \in Codes, IssueAccessCode(a, c) PROVE Types'
    <2>1. job' = [q \in Procs |-> job'[q]] /\ \A q \in Procs : JobOK(job'[q])
        BY <1>5, JobsKept, Forms DEF IssueAccessCode, Return
    <2>2. job[a].exam \in Exams BY <1>5, Labels DEF IssueAccessCode, Types
    <2>3. examOf' \in [Codes -> Exams \cup {None}] BY <1>5, <2>2 DEF IssueAccessCode, Types
    <2>4. automatic' \subseteq Codes /\ IsFiniteSet(automatic')
        BY <1>5, FS_AddElement DEF IssueAccessCode, Types
    <2> QED BY <1>5, <2>1, <2>3, <2>4 DEF IssueAccessCode, Types
<1> QED BY <1>1, <1>2, <1>3, <1>4, <1>5

LEMMA StudentTypes ==
    ASSUME Types, Links, NEW r \in Students,
           \/ \E c \in Codes : Verify(r, c)
           \/ StartCheck(r) \/ StartTxn(r) \/ StartRedis(r) \/ StartUndo(r)
           \/ \E c \in Codes, answers \in Sheets : Submit(r, c, answers)
           \/ SubmitReply(r)
    PROVE  Types'
<1> r \in Procs BY DEF Procs
<1> USE DEF exams, codeRows, sessions
<1>1. PICK j : JobOK(j) /\ Proceed(r, j)
    <2>1. ASSUME NEW c \in Codes, Verify(r, c) PROVE \E j : JobOK(j) /\ Proceed(r, j)
        BY <2>1, Forms DEF Verify, Starting
    <2>2. ASSUME StartCheck(r) \/ StartTxn(r) PROVE \E j : JobOK(j) /\ Proceed(r, j)
        <3>1. job[r].pc \in Starting BY <2>2 DEF StartCheck, StartTxn, Starting
        <3>2. job[r].code \in Codes /\ job[r] = [pc |-> job[r].pc, code |-> job[r].code]
            BY <3>1, Labels DEF Types
        <3>3. /\ [job[r] EXCEPT !.pc = "start_txn"] = [pc |-> "start_txn", code |-> job[r].code]
              /\ [job[r] EXCEPT !.pc = "start_redis"] = [pc |-> "start_redis", code |-> job[r].code]
            BY <3>2
        <3>4. /\ JobOK([job[r] EXCEPT !.pc = "start_txn"])
              /\ JobOK([job[r] EXCEPT !.pc = "start_redis"])
              /\ JobOK(Idle)
            BY <3>2, <3>3, Forms DEF Starting
        <3> QED BY <2>2, <3>4 DEF StartCheck, StartTxn, Return
    <2>3. ASSUME NEW c \in Codes, NEW answers \in Sheets, Submit(r, c, answers)
          PROVE \E j : JobOK(j) /\ Proceed(r, j)
        BY <2>3, Forms DEF Submit
    <2>4. ASSUME StartRedis(r) \/ StartUndo(r) \/ SubmitReply(r)
          PROVE \E j : JobOK(j) /\ Proceed(r, j)
        BY <2>4, Forms DEF StartRedis, StartUndo, SubmitReply, Return
    <2> QED BY <2>1, <2>2, <2>3, <2>4
<1>2. job' = [q \in Procs |-> job'[q]] /\ \A q \in Procs : JobOK(job'[q])
    BY <1>1, JobsKept
<1>3. ASSUME StartTxn(r) PROVE Types'
    <2>1. job[r].code \in Codes BY <1>3, Labels DEF StartTxn, Starting, Types
    <2>2. late' \subseteq Codes /\ IsFiniteSet(late')
        <3>1. late \subseteq Codes /\ IsFiniteSet(late) BY DEF Types
        <3>2. IsFiniteSet(late \cup {job[r].code}) BY <3>1, FS_AddElement
        <3>3. late' = late \/ late' = late \cup {job[r].code} BY <1>3 DEF StartTxn
        <3> QED BY <2>1, <3>1, <3>2, <3>3
    <2>3. usedAt' \subseteq Codes /\ sitting' \in [Codes -> {"none", "active", "scored"}]
        BY <1>3, <2>1 DEF StartTxn, Types
    <2> QED BY <1>2, <1>3, <2>2, <2>3 DEF StartTxn, Types
<1>4. ASSUME StartUndo(r) PROVE Types'
    <2>1. usedAt' \subseteq Codes /\ sitting' \in [Codes -> {"none", "active", "scored"}]
        BY <1>4 DEF StartUndo, Types
    <2> QED BY <1>2, <1>4, <2>1 DEF StartUndo, Types
<1>5. ASSUME NEW c \in Codes, NEW answers \in Sheets, Submit(r, c, answers) PROVE Types'
    BY <1>2, <1>5 DEF Submit, Types
<1>6. ASSUME NEW c \in Codes, Verify(r, c) PROVE Types'
    BY <1>2, <1>6 DEF Verify, Types
<1>7. ASSUME StartCheck(r) \/ StartRedis(r) \/ SubmitReply(r) PROVE Types'
    BY <1>2, <1>7 DEF StartCheck, StartRedis, SubmitReply, Types
<1> QED BY <1>3, <1>4, <1>5, <1>6, <1>7

LEMMA WorldTypes ==
    ASSUME Types,
           \/ \E c \in Codes : AutoSubmit(c) \/ Lapse(c)
           \/ \E e \in Exams : Edit(e)
    PROVE  Types'
<1> USE DEF exams, codeRows, sessions
<1>1. ASSUME NEW c \in Codes, AutoSubmit(c) PROVE Types'
    BY <1>1 DEF AutoSubmit, Types
<1>2. ASSUME NEW c \in Codes, Lapse(c) PROVE Types'
    BY <1>2 DEF Lapse, Types
<1>3. ASSUME NEW e \in Exams, Edit(e) PROVE Types'
    BY <1>3 DEF Edit, Types
<1> QED BY <1>1, <1>2, <1>3

-----------------------------------------------------------------------------
(* Links.                                                                  *)

LEMMA AdminLinks ==
    ASSUME Types, Links, AdminCall
    PROVE  Links'
<1> PICK b \in Admins :
        \/ \E e \in Exams : AssignExam(b, e)
        \/ AssignNext(b) \/ PickNext(b) \/ CheckOutstanding(b)
        \/ \E c \in Codes : IssueAccessCode(b, c)
    BY DEF AdminCall
<1>1. b \in Procs /\ b \notin Students BY ExamAssignAssumption DEF Procs
<1>2. PICK j : Proceed(b, j)
    BY DEF AssignExam, AssignNext, PickNext, CheckOutstanding, IssueAccessCode, Return
<1>3. \A r \in Students : job'[r] = job[r] BY <1>1, <1>2, JobStep DEF Procs
<1>4. usedAt' = usedAt /\ sitting' = sitting
    BY DEF AssignExam, AssignNext, PickNext, CheckOutstanding, IssueAccessCode,
           exams, codeRows, sessions
<1>5. CASE \E c \in Codes : IssueAccessCode(b, c)
    <2> PICK c \in Codes : IssueAccessCode(b, c) BY <1>5
    <2>1. job[b].exam \in Exams /\ None \notin Exams
        BY <1>1, Labels, ExamAssignAssumption DEF IssueAccessCode, Types
    <2>2. \A d \in Codes : examOf[d] # None => examOf'[d] # None
        BY DEF IssueAccessCode, Types
    <2>3. examOf'[c] # None /\ automatic' \subseteq automatic \cup {c}
        BY <2>1 DEF IssueAccessCode, Types
    <2>4. \A r \in Students : job[r].pc \in Starting => job[r].code \in Codes
        BY Labels DEF Types, Procs
    <2>5. usedAt' \subseteq Codes /\ automatic \subseteq Codes BY <1>4 DEF Types
    <2>6. \A d \in usedAt' \cup automatic' : examOf'[d] # None
        BY <1>4, <2>2, <2>3, <2>5 DEF Links
    <2>7. \A r \in Students : job'[r].pc \in Starting => examOf'[job'[r].code] # None
        BY <1>3, <2>2, <2>4 DEF Links
    <2> QED BY <1>3, <1>4, <2>6, <2>7 DEF Links
<1>6. CASE ~(\E c \in Codes : IssueAccessCode(b, c))
    <2>1. examOf' = examOf /\ automatic' = automatic
        BY <1>6 DEF AssignExam, AssignNext, PickNext, CheckOutstanding, codeRows
    <2> QED BY <1>3, <1>4, <2>1 DEF Links
<1> QED BY <1>5, <1>6

LEMMA StudentLinks ==
    ASSUME Types, Links, StudentCall
    PROVE  Links'
<1> PICK r \in Students :
        \/ \E c \in Codes : Verify(r, c)
        \/ StartCheck(r) \/ StartTxn(r) \/ StartRedis(r) \/ StartUndo(r)
        \/ \E c \in Codes, answers \in Sheets : Submit(r, c, answers)
        \/ SubmitReply(r)
    BY DEF StudentCall
<1> r \in Procs BY DEF Procs
<1> USE DEF exams, codeRows, sessions
<1>1. \A q \in Students : job[q].pc \in Starting => job[q].code \in Codes
    BY Labels DEF Types, Procs
<1>2. examOf' = examOf /\ automatic' = automatic
    BY DEF Verify, StartCheck, StartTxn, StartRedis, StartUndo, Submit, SubmitReply
<1>3. ASSUME NEW j, Proceed(r, j)
      PROVE  /\ job'[r] = j
             /\ \A q \in Students : q # r => job'[q] = job[q]
    BY <1>3, JobStep DEF Procs
<1>4. ASSUME NEW c \in Codes, Verify(r, c) PROVE Links'
    <2>1. examOf[c] # None BY <1>4, ExamAssignAssumption DEF Verify, Types
    <2>2. job'[r] = [pc |-> "start_check", code |-> c] BY <1>3, <1>4 DEF Verify
    <2>3. usedAt' = usedAt /\ sitting' = sitting BY <1>4 DEF Verify
    <2>4. \A q \in Students : q # r => job'[q] = job[q] BY <1>3, <1>4 DEF Verify
    <2> QED BY <1>2, <2>1, <2>2, <2>3, <2>4 DEF Links
<1>5. ASSUME StartCheck(r) PROVE Links'
    <2>1. /\ job'[r].pc \notin Starting \/ (job'[r].pc = "start_txn" /\ job'[r].code = job[r].code)
          /\ job'[r].pc # "start_redis"
        <3>1. CASE Return(r) BY <3>1, <1>3, Labels DEF Return, Starting
        <3>2. CASE Proceed(r, [job[r] EXCEPT !.pc = "start_txn"])
            <4>1. job[r] = [pc |-> job[r].pc, code |-> job[r].code]
                BY <1>5, Labels DEF StartCheck, Starting, Types
            <4> QED BY <3>2, <4>1, <1>3
        <3> QED BY <1>5, <3>1, <3>2 DEF StartCheck
    <2>2. usedAt' = usedAt /\ sitting' = sitting BY <1>5 DEF StartCheck
    <2>3. \A q \in Students : q # r => job'[q] = job[q] BY <1>3, <1>5 DEF StartCheck, Return
    <2>4. job[r].pc \in Starting BY <1>5 DEF StartCheck, Starting
    <2> QED BY <1>2, <2>1, <2>2, <2>3, <2>4 DEF Links
<1>6. ASSUME StartTxn(r) PROVE Links'
    <2> DEFINE c == job[r].code
    <2>1. c \in Codes /\ job[r] = [pc |-> job[r].pc, code |-> c] /\ job[r].pc \in Starting
        BY <1>6, Labels DEF StartTxn, Starting, Types
    <2>2. \A q \in Students : q # r => job'[q] = job[q] BY <1>3, <1>6 DEF StartTxn, Return
    <2>3. CASE c \in usedAt
        <3>1. job'[r].pc = "idle" BY <2>3, <1>6, <1>3, Labels DEF StartTxn, Return
        <3>2. usedAt' = usedAt /\ sitting' = sitting BY <2>3, <1>6 DEF StartTxn
        <3> QED BY <1>2, <2>2, <3>1, <3>2 DEF Links, Starting
    <2>4. CASE c \notin usedAt
        <3>1. job'[r].pc = "start_redis" /\ job'[r].code = c BY <2>1, <2>4, <1>6, <1>3 DEF StartTxn
        <3>2. usedAt' = usedAt \cup {c} /\ sitting' = [sitting EXCEPT ![c] = "active"]
            BY <2>4, <1>6 DEF StartTxn
        <3>3. \A q \in Students : job[q].pc = "start_redis" => job[q].code # c
            BY <1>1, <2>4 DEF Links, Starting
        <3>4. /\ \A d \in Codes : d # c => sitting'[d] = sitting[d]
              /\ sitting'[c] = "active"
            BY <2>1, <3>2 DEF Types
        <3>5. examOf[c] # None BY <2>1 DEF Links
        <3> QED BY <1>1, <1>2, <2>1, <2>2, <3>1, <3>2, <3>3, <3>4, <3>5 DEF Links, Starting
    <2> QED BY <2>3, <2>4
<1>7. ASSUME StartUndo(r) PROVE Links'
    <2> DEFINE c == job[r].code
    <2>1. c \in Codes BY <1>7, <1>1 DEF StartUndo, Starting
    <2>2. \A q \in Students : q # r => job'[q] = job[q] BY <1>3, <1>7 DEF StartUndo, Return
    <2>3. job'[r].pc = "idle" BY <1>7, <1>3, Labels DEF StartUndo, Return
    <2>4. usedAt' = usedAt \ {c} /\ sitting' = [sitting EXCEPT ![c] = "none"]
        BY <1>7 DEF StartUndo
    <2>5. \A q \in Students : q # r /\ job[q].pc = "start_redis" => job[q].code # c
        BY <1>7 DEF StartUndo, Links
    <2>6. /\ \A d \in Codes : d # c => sitting'[d] = sitting[d]
          /\ sitting'[c] = "none"
        BY <2>1, <2>4 DEF Types
    <2> QED BY <1>1, <1>2, <2>1, <2>2, <2>3, <2>4, <2>5, <2>6 DEF Links, Starting
<1>8. ASSUME NEW c \in Codes, NEW answers \in Sheets, Submit(r, c, answers) PROVE Links'
    <2>1. sitting[c] = "active" /\ \A q \in Students : job[q].pc = "start_redis" => job[q].code # c
        BY <1>8 DEF Submit, Running
    <2>2. \A q \in Students : q # r => job'[q] = job[q] BY <1>3, <1>8 DEF Submit
    <2>3. job'[r].pc = "reply" BY <1>8, <1>3 DEF Submit
    <2>4. usedAt' = usedAt BY <1>8 DEF Submit
    <2>5. /\ \A d \in Codes : d # c => sitting'[d] = sitting[d]
          /\ sitting[c] # "none"
        BY <1>8, <2>1 DEF Submit, Types
    <2> QED BY <1>1, <1>2, <2>1, <2>2, <2>3, <2>4, <2>5 DEF Links, Starting
<1>9. ASSUME StartRedis(r) \/ SubmitReply(r) PROVE Links'
    <2>1. job'[r].pc = "idle" BY <1>9, <1>3, Labels DEF StartRedis, SubmitReply, Return
    <2>2. \A q \in Students : q # r => job'[q] = job[q]
        BY <1>3, <1>9 DEF StartRedis, SubmitReply, Return
    <2>3. usedAt' = usedAt /\ sitting' = sitting BY <1>9 DEF StartRedis, SubmitReply
    <2> QED BY <1>2, <2>1, <2>2, <2>3 DEF Links, Starting
<1> QED BY <1>4, <1>5, <1>6, <1>7, <1>8, <1>9

LEMMA WorldLinks ==
    ASSUME Types, Links,
           \/ \E c \in Codes : AutoSubmit(c) \/ Lapse(c)
           \/ \E e \in Exams : Edit(e)
    PROVE  Links'
<1> USE DEF exams, codeRows, sessions
<1>1. ASSUME NEW c \in Codes, AutoSubmit(c) PROVE Links'
    <2>1. /\ \A d \in Codes : d # c => sitting'[d] = sitting[d]
          /\ sitting[c] # "none"
          /\ \A q \in Students : job[q].pc = "start_redis" => job[q].code # c
        BY <1>1 DEF AutoSubmit, Running, Types
    <2>2. \A q \in Students : job[q].pc \in Starting => job[q].code \in Codes
        BY Labels DEF Types, Procs
    <2> QED BY <1>1, <2>1, <2>2 DEF AutoSubmit, Links, Starting
<1>2. ASSUME NEW c \in Codes, Lapse(c) PROVE Links'
    BY <1>2 DEF Lapse, Links
<1>3. ASSUME NEW e \in Exams, Edit(e) PROVE Links'
    BY <1>3 DEF Edit, Links
<1> QED BY <1>1, <1>2, <1>3

-----------------------------------------------------------------------------
(* Every step keeps types and links.                                       *)

LEMMA TypesStep == Types /\ Links /\ [Next]_vars => Types'
<1> SUFFICES ASSUME Types, Links, [Next]_vars PROVE Types' OBVIOUS
<1>1. CASE AdminCall BY <1>1, AdminTypes DEF AdminCall
<1>2. CASE StudentCall BY <1>2, StudentTypes DEF StudentCall
<1>3. CASE (\E c \in Codes : AutoSubmit(c) \/ Lapse(c)) \/ (\E e \in Exams : Edit(e))
    BY <1>3, WorldTypes
<1>4. CASE UNCHANGED vars
    BY <1>4 DEF Types, vars, exams, codeRows, sessions
<1> QED BY <1>1, <1>2, <1>3, <1>4 DEF Next

LEMMA LinksStep == Types /\ Links /\ [Next]_vars => Links'
<1> SUFFICES ASSUME Types, Links, [Next]_vars PROVE Links' OBVIOUS
<1>1. CASE AdminCall BY <1>1, AdminLinks
<1>2. CASE StudentCall BY <1>2, StudentLinks
<1>3. CASE (\E c \in Codes : AutoSubmit(c) \/ Lapse(c)) \/ (\E e \in Exams : Edit(e))
    BY <1>3, WorldLinks
<1>4. CASE UNCHANGED vars
    BY <1>4 DEF Links, vars, exams, codeRows, sessions
<1> QED BY <1>1, <1>2, <1>3, <1>4 DEF Next

-----------------------------------------------------------------------------
(* The order of the exams.                                                 *)

\* The rows of codes are only added.
LEMMA CodesStay ==
    ASSUME Types, [Next]_vars
    PROVE  \A c \in Codes : examOf[c] # None => examOf'[c] = examOf[c]
<1> USE DEF exams, codeRows, sessions
<1>1. CASE \E a \in Admins, c \in Codes : IssueAccessCode(a, c)
    BY <1>1 DEF IssueAccessCode, Types
<1>2. CASE examOf' = examOf BY <1>2
<1> QED BY <1>1, <1>2 DEF Next, vars, AdminCall, StudentCall, AssignExam, AssignNext, PickNext,
           CheckOutstanding, Verify, StartCheck, StartTxn, StartRedis, StartUndo, Submit,
           SubmitReply, AutoSubmit, Lapse, Edit

\* A scored session stays scored: no start undoes it, no start reuses its code.
LEMMA ScoresStay ==
    ASSUME Types, Links, [Next]_vars
    PROVE  \A c \in Codes : sitting[c] = "scored" => sitting'[c] = "scored"
<1> USE DEF exams, codeRows, sessions
<1>1. ASSUME NEW r \in Students, StartTxn(r)
      PROVE \A c \in Codes : sitting[c] = "scored" => sitting'[c] = "scored"
    BY <1>1 DEF StartTxn, Links, Types
<1>2. ASSUME NEW r \in Students, StartUndo(r)
      PROVE \A c \in Codes : sitting[c] = "scored" => sitting'[c] = "scored"
    <2>1. sitting[job[r].code] = "active" BY <1>2 DEF StartUndo, Links
    <2> QED BY <1>2, <2>1 DEF StartUndo, Types
<1>3. ASSUME NEW r, NEW d \in Codes, NEW answers, Submit(r, d, answers) \/ AutoSubmit(d)
      PROVE \A c \in Codes : sitting[c] = "scored" => sitting'[c] = "scored"
    BY <1>3 DEF Submit, AutoSubmit, Types
<1>4. CASE sitting' = sitting BY <1>4
<1> QED BY <1>1, <1>2, <1>3, <1>4 DEF Next, vars, AdminCall, StudentCall, AssignExam, AssignNext,
           PickNext, CheckOutstanding, IssueAccessCode, Verify, StartCheck, StartRedis,
           SubmitReply, Lapse, Edit

LEMMA AttemptsStay ==
    ASSUME Types, Links, [Next]_vars
    PROVE  Attempted \subseteq Attempted'
<1>1. \A c \in Codes : sitting[c] = "scored" => sitting'[c] = "scored" /\ examOf'[c] = examOf[c]
    BY ScoresStay, CodesStay DEF Links
<1> QED BY <1>1 DEF Attempted

\* InOrder of a call's locals after the step.
OrderLater(j) ==
    /\ j.pc = "next_attempted" => j.before \subseteq Attempted'
    /\ j.pc \in {"next_code", "issue"} /\ j.seen # None =>
           /\ j.exam \in j.seen.pool \ j.seen.before
           /\ \A e \in j.seen.pool : e < j.exam => e \in Attempted'

LEMMA OrderStep ==
    ASSUME Types, Links, Order, [Next]_vars
    PROVE  Order'
<1>0. Attempted \subseteq Attempted' BY AttemptsStay
<1>1. ASSUME NEW a \in Admins, job'[a] = job[a] PROVE InOrder(job[a])'
    BY <1>0, <1>1 DEF Order, InOrder
<1>2. ASSUME NEW a \in Admins,
             \/ \E e \in Exams : AssignExam(a, e)
             \/ AssignNext(a) \/ PickNext(a) \/ CheckOutstanding(a)
             \/ \E c \in Codes : IssueAccessCode(a, c)
      PROVE  Order'
    <2> a \in Procs BY DEF Procs
    <2>1. ASSUME NEW j, Proceed(a, j), OrderLater(j) PROVE Order'
        <3>1. job'[a] = j /\ \A b \in Admins : b # a => job'[b] = job[b]
            BY <2>1, JobStep DEF Procs
        <3>2. InOrder(job[a])' BY <2>1, <3>1 DEF InOrder, OrderLater
        <3> QED BY <1>1, <3>1, <3>2 DEF Order
    <2>2. OrderLater(Idle) BY Labels DEF OrderLater
    <2>3. ASSUME NEW e \in Exams, AssignExam(a, e) PROVE Order'
        <3>1. OrderLater([pc |-> "issue", exam |-> e, seen |-> None]) BY DEF OrderLater
        <3> QED BY <2>1, <2>3, <3>1 DEF AssignExam
    <2>4. ASSUME AssignNext(a) PROVE Order'
        <3>1. OrderLater([pc |-> "next_attempted", pool |-> published, before |-> Attempted])
            BY <1>0 DEF OrderLater
        <3> QED BY <2>1, <2>4, <3>1 DEF AssignNext
    <2>5. ASSUME PickNext(a) PROVE Order'
        <3> DEFINE open == job[a].pool \ AttemptedIds
                   next == [pc |-> "next_code", exam |-> Min(open),
                            seen |-> [pool |-> job[a].pool, before |-> job[a].before]]
        <3>1. job[a].pool \subseteq Exams /\ job[a].before \subseteq Attempted
            BY <2>5, Labels DEF PickNext, Types, Order, InOrder
        <3>2. ASSUME open # {} PROVE OrderLater(next)
            <4>1. Min(open) \in open /\ \A y \in open : Min(open) <= y
                BY <3>1, <3>2, MinOf DEF Exams
            <4>2. Min(open) \in job[a].pool \ job[a].before BY <3>1, <4>1 DEF AttemptedIds
            <4>3. \A e \in job[a].pool : e < Min(open) => e \in Attempted
                <5>1. \A e \in open : ~(e < Min(open)) BY <3>1, <4>1 DEF Exams
                <5> QED BY <5>1 DEF AttemptedIds
            <4>4. /\ next.pc = "next_code" /\ next.exam = Min(open)
                  /\ next.seen.pool = job[a].pool /\ next.seen.before = job[a].before
                OBVIOUS
            <4> HIDE DEF next, open
            <4>5. /\ next.exam \in next.seen.pool \ next.seen.before
                  /\ \A e \in next.seen.pool : e < next.exam => e \in Attempted'
                BY <1>0, <4>2, <4>3, <4>4
            <4> QED BY <4>4, <4>5 DEF OrderLater
        <3>3. CASE open = {} BY <3>3, <2>1, <2>2, <2>5 DEF PickNext, Return
        <3>4. CASE open # {}
            <4>1. Proceed(a, next) BY <3>4, <2>5 DEF PickNext
            <4> HIDE DEF next
            <4> QED BY <3>2, <3>4, <4>1, <2>1
        <3> QED BY <3>3, <3>4
    <2>6. ASSUME CheckOutstanding(a) PROVE Order'
        <3> DEFINE j == [pc |-> "issue", exam |-> job[a].exam, seen |-> job[a].seen]
        <3>1. [job[a] EXCEPT !.pc = "issue"] = j
            BY <2>6, Labels DEF CheckOutstanding, Types
        <3>2. InOrder(job[a]) /\ job[a].pc = "next_code" BY <2>6 DEF Order, CheckOutstanding
        <3>3. OrderLater(j) BY <1>0, <3>2 DEF InOrder, OrderLater
        <3>4. Proceed(a, j) \/ Proceed(a, Idle) BY <2>6, <3>1 DEF CheckOutstanding, Return
        <3> HIDE DEF j
        <3> QED BY <2>1, <2>2, <3>3, <3>4
    <2>7. ASSUME NEW c \in Codes, IssueAccessCode(a, c) PROVE Order'
        BY <2>1, <2>2, <2>7 DEF IssueAccessCode, Return
    <2> QED BY <1>2, <2>3, <2>4, <2>5, <2>6, <2>7
<1>3. ASSUME NEW r \in Students, NEW j, Proceed(r, j) PROVE Order'
    <2>1. \A a \in Admins : job'[a] = job[a]
        BY <1>3, JobStep, ExamAssignAssumption DEF Procs
    <2> QED BY <1>1, <2>1 DEF Order
<1>4. CASE StudentCall
    BY <1>3, <1>4 DEF StudentCall, Verify, StartCheck, StartTxn, StartRedis, StartUndo, Submit,
                      SubmitReply, Return
<1>5. CASE job' = job BY <1>1, <1>5 DEF Order
<1>6. CASE AdminCall BY <1>2, <1>6 DEF AdminCall
<1> QED BY <1>4, <1>5, <1>6 DEF Next, vars, AutoSubmit, Lapse, Edit

-----------------------------------------------------------------------------
(* Outstanding codes.                                                      *)

\* While no start has failed, nothing the bound speaks of is taken back.
LEMMA NothingTakenBack ==
    ASSUME Types, [Next]_vars, faults' = 0
    PROVE  faults = 0 /\ usedAt \subseteq usedAt' /\ lapsed \subseteq lapsed'
<1> USE DEF exams, codeRows, sessions
<1>1. ASSUME NEW r \in Students, StartUndo(r) PROVE FALSE
    BY <1>1 DEF StartUndo, Types
<1>2. ASSUME NEW r \in Students, StartTxn(r) PROVE faults = 0 /\ usedAt \subseteq usedAt' /\ lapsed \subseteq lapsed'
    BY <1>2 DEF StartTxn
<1>3. ASSUME NEW c \in Codes, Lapse(c) PROVE faults = 0 /\ usedAt \subseteq usedAt' /\ lapsed \subseteq lapsed'
    BY <1>3 DEF Lapse
<1>4. CASE UNCHANGED <<faults, usedAt, lapsed>> BY <1>4
<1> QED BY <1>1, <1>2, <1>3, <1>4 DEF Next, vars, AdminCall, StudentCall, AssignExam, AssignNext,
           PickNext, CheckOutstanding, IssueAccessCode, Verify, StartCheck, StartRedis,
           Submit, SubmitReply, AutoSubmit, Edit

LEMMA FewSets ==
    ASSUME Types, NEW e \in Exams
    PROVE  /\ IsFiniteSet(Fresh(e)) /\ Cardinality(Fresh(e)) \in Nat
           /\ IsFiniteSet(Issuing(e)) /\ Cardinality(Issuing(e)) \in Nat
           /\ Cardinality(Issuing(e)) <= Cardinality(Admins) /\ Cardinality(Admins) \in Nat
<1>1. IsFiniteSet(Fresh(e))
    <2>1. Fresh(e) \in SUBSET automatic BY DEF Fresh
    <2> QED BY <2>1, FS_Subset DEF Types
<1>2. IsFiniteSet(Issuing(e)) /\ Cardinality(Issuing(e)) <= Cardinality(Admins)
    <2>1. Issuing(e) \in SUBSET Admins BY DEF Issuing
    <2> QED BY <2>1, FS_Subset, ExamAssignAssumption
<1> QED BY <1>1, <1>2, FS_CardinalityType, ExamAssignAssumption

LEMMA FewStep ==
    ASSUME Types, Links, Types', NEW e \in Exams, Few(e), [Next]_vars
    PROVE  Few(e)'
<1> SUFFICES ASSUME faults' = 0, Issued(e)' \cap lapsed' = {}
             PROVE  Cardinality(Fresh(e)') + Cardinality(Issuing(e)') <= Cardinality(Admins)
    BY DEF Few
<1> USE DEF exams, codeRows, sessions
<1>1. faults = 0 /\ usedAt \subseteq usedAt' /\ lapsed \subseteq lapsed'
    BY NothingTakenBack
<1>2. Issued(e) \cap lapsed = {}
    <2>1. Issued(e) \subseteq Issued(e)' BY CodesStay, ExamAssignAssumption DEF Issued
    <2> QED BY <1>1, <2>1
<1>3. Cardinality(Fresh(e)) + Cardinality(Issuing(e)) <= Cardinality(Admins)
    BY <1>1, <1>2 DEF Few
<1>4. /\ IsFiniteSet(Fresh(e)) /\ IsFiniteSet(Issuing(e))
      /\ Cardinality(Fresh(e)) \in Nat /\ Cardinality(Issuing(e)) \in Nat
      /\ Cardinality(Fresh(e)') \in Nat /\ Cardinality(Issuing(e)') \in Nat
      /\ Cardinality(Issuing(e)') <= Cardinality(Admins) /\ Cardinality(Admins) \in Nat
    <2>1. /\ Cardinality(Fresh(e)') \in Nat /\ Cardinality(Issuing(e)') \in Nat
          /\ Cardinality(Issuing(e)') <= Cardinality(Admins)
        <3>1. Fresh(e)' \in SUBSET automatic' /\ IsFiniteSet(automatic') BY DEF Fresh, Types
        <3>2. Issuing(e)' \in SUBSET Admins BY DEF Issuing
        <3>3. IsFiniteSet(Fresh(e)') BY <3>1, FS_Subset
        <3>4. IsFiniteSet(Issuing(e)') /\ Cardinality(Issuing(e)') <= Cardinality(Admins)
            BY <3>2, FS_Subset, ExamAssignAssumption
        <3> QED BY <3>3, <3>4, FS_CardinalityType
    <2> QED BY <2>1, FewSets
<1>5. ASSUME Fresh(e)' \subseteq Fresh(e), Issuing(e)' \subseteq Issuing(e)
      PROVE  Cardinality(Fresh(e)') + Cardinality(Issuing(e)') <= Cardinality(Admins)
    <2>1. Cardinality(Fresh(e)') <= Cardinality(Fresh(e)) BY <1>4, <1>5, FS_Subset
    <2>2. Cardinality(Issuing(e)') <= Cardinality(Issuing(e)) BY <1>4, <1>5, FS_Subset
    <2> QED BY <1>3, <1>4, <2>1, <2>2
<1>6. ASSUME UNCHANGED <<examOf, automatic>> PROVE Fresh(e)' \subseteq Fresh(e)
    BY <1>1, <1>6 DEF Fresh, Unused, Issued
<1>7. ASSUME NEW p \in Procs, NEW j, Proceed(p, j), j.pc = "issue" => j.seen = None
      PROVE  Issuing(e)' \subseteq Issuing(e) \ {p}
    BY <1>7, JobStep DEF Issuing, Procs
<1>8. ASSUME NEW a \in Admins, NEW c \in Codes, IssueAccessCode(a, c)
      PROVE  Cardinality(Fresh(e)') + Cardinality(Issuing(e)') <= Cardinality(Admins)
    <2>1. a \in Procs BY DEF Procs
    <2>2. Issuing(e)' \subseteq Issuing(e) \ {a}
        BY <1>7, <1>8, <2>1, Labels DEF IssueAccessCode, Return
    <2>3. c \notin automatic BY <1>8 DEF IssueAccessCode, Links
    <2>4. /\ Fresh(e)' \subseteq Fresh(e) \cup {c}
          /\ \A d \in Codes : d # c => examOf'[d] = examOf[d]
          /\ examOf'[c] = job[a].exam
          /\ usedAt' = usedAt
        BY <1>8 DEF IssueAccessCode, Fresh, Unused, Issued, Types
    <2>5. CASE a \in Issuing(e)
        <3>1. /\ IsFiniteSet(Issuing(e) \ {a})
              /\ Cardinality(Issuing(e) \ {a}) = Cardinality(Issuing(e)) - 1
            BY <1>4, <2>5, FS_RemoveElement
        <3>2. Cardinality(Issuing(e)') <= Cardinality(Issuing(e)) - 1
            BY <2>2, <3>1, FS_Subset
        <3>3. /\ IsFiniteSet(Fresh(e) \cup {c})
              /\ Cardinality(Fresh(e) \cup {c}) <= Cardinality(Fresh(e)) + 1
            <4>1. /\ IsFiniteSet(Fresh(e) \cup {c})
                  /\ Cardinality(Fresh(e) \cup {c})
                        = IF c \in Fresh(e) THEN Cardinality(Fresh(e)) ELSE Cardinality(Fresh(e)) + 1
                BY <1>4, FS_AddElement
            <4> QED BY <1>4, <4>1
        <3>4. Cardinality(Fresh(e)') <= Cardinality(Fresh(e) \cup {c}) BY <2>4, <3>3, FS_Subset
        <3>5. Cardinality(Fresh(e) \cup {c}) \in Nat BY <3>3, FS_CardinalityType
        <3> QED BY <1>3, <1>4, <3>2, <3>3, <3>4, <3>5
    <2>6. CASE a \notin Issuing(e)
        <3>1. job[a].exam # e \/ automatic' = automatic
            BY <1>8, <2>6 DEF IssueAccessCode, Issuing
        <3>2. c \notin Fresh(e)' BY <2>3, <2>4, <3>1 DEF Fresh, Unused, Issued
        <3> QED BY <1>5, <2>2, <2>4, <3>2
    <2> QED BY <2>5, <2>6
<1>9. ASSUME NEW a \in Admins, CheckOutstanding(a)
      PROVE  Cardinality(Fresh(e)') + Cardinality(Issuing(e)') <= Cardinality(Admins)
    <2>1. a \in Procs BY DEF Procs
    <2>2. Fresh(e)' \subseteq Fresh(e) BY <1>6, <1>9 DEF CheckOutstanding
    <2>3. CASE Return(a)
        BY <1>5, <1>7, <2>1, <2>2, <2>3, Labels DEF Return
    <2>4. CASE Proceed(a, [job[a] EXCEPT !.pc = "issue"]) /\ ~Return(a)
        <3>1. CASE job[a].exam = e
            <4>1. Unused(e) = {}
                <5>1. Unused(e) \cap lapsed = {} BY <1>2 DEF Unused
                <5> QED BY <1>9, <2>4, <3>1, <5>1 DEF CheckOutstanding
            <4>2. Fresh(e)' = {} BY <2>2, <4>1 DEF Fresh
            <4> QED BY <1>4, <4>2, FS_EmptySet
        <3>2. CASE job[a].exam # e
            <4>1. job[a] = [pc |-> "next_code", exam |-> job[a].exam, seen |-> job[a].seen]
                BY <1>9, <2>1, Labels DEF CheckOutstanding, Types
            <4>2. job'[a] = [job[a] EXCEPT !.pc = "issue"] /\ \A b \in Admins : b # a => job'[b] = job[b]
                BY <2>1, <2>4, JobStep DEF Procs
            <4>3. job'[a].exam # e BY <3>2, <4>1, <4>2
            <4>4. Issuing(e)' \subseteq Issuing(e) BY <4>2, <4>3 DEF Issuing
            <4> QED BY <1>5, <2>2, <4>4
        <3> QED BY <3>1, <3>2
    <2> QED BY <1>9, <2>3, <2>4 DEF CheckOutstanding
<1>10. ASSUME NEW a \in Admins, (\E x \in Exams : AssignExam(a, x)) \/ AssignNext(a) \/ PickNext(a)
       PROVE  Cardinality(Fresh(e)') + Cardinality(Issuing(e)') <= Cardinality(Admins)
    <2>1. a \in Procs BY DEF Procs
    <2>2. Fresh(e)' \subseteq Fresh(e) BY <1>6, <1>10 DEF AssignExam, AssignNext, PickNext
    <2>3. ASSUME NEW j, Proceed(a, j), j.pc = "issue" => j.seen = None
          PROVE  Issuing(e)' \subseteq Issuing(e)
        BY <1>7, <2>1, <2>3
    <2>4. ASSUME NEW x \in Exams, AssignExam(a, x) PROVE Issuing(e)' \subseteq Issuing(e)
        BY <2>3, <2>4 DEF AssignExam
    <2>5. ASSUME AssignNext(a) PROVE Issuing(e)' \subseteq Issuing(e)
        BY <2>3, <2>5 DEF AssignNext
    <2>6. ASSUME PickNext(a) PROVE Issuing(e)' \subseteq Issuing(e)
        BY <2>3, <2>6, Labels DEF PickNext, Return
    <2> QED BY <1>5, <1>10, <2>2, <2>4, <2>5, <2>6
<1>11. CASE StudentCall
    <2>1. PICK r \in Students : \E j : Proceed(r, j)
        BY <1>11 DEF StudentCall, Verify, StartCheck, StartTxn, StartRedis, StartUndo, Submit,
                      SubmitReply, Return
    <2>2. \A a \in Admins : job'[a] = job[a]
        BY <2>1, JobStep, ExamAssignAssumption DEF Procs
    <2>3. Fresh(e)' \subseteq Fresh(e)
        BY <1>6, <1>11 DEF StudentCall, Verify, StartCheck, StartTxn, StartRedis, StartUndo, Submit,
                           SubmitReply
    <2> QED BY <1>5, <2>2, <2>3 DEF Issuing
<1>12. CASE (\E c \in Codes : AutoSubmit(c) \/ Lapse(c)) \/ (\E x \in Exams : Edit(x)) \/ UNCHANGED vars
    <2>1. job' = job /\ Fresh(e)' \subseteq Fresh(e)
        BY <1>6, <1>12 DEF AutoSubmit, Lapse, Edit, vars
    <2> QED BY <1>5, <2>1 DEF Issuing
<1> QED BY <1>8, <1>9, <1>10, <1>11, <1>12 DEF Next, AdminCall

-----------------------------------------------------------------------------
(* Late starts.                                                            *)

\* An edit overtakes at most every call of the student's; a late start is one
\* overtaken call less.
LEMMA LateStep ==
    ASSUME Types, Links, Types', LateFew, [Next]_vars
    PROVE  LateFew'
<1> DEFINE N == Cardinality(Students)
<1> USE DEF exams, codeRows, sessions
<1>1. N \in Nat BY FS_CardinalityType, ExamAssignAssumption
<1>2. /\ Overtaken \in SUBSET Students /\ Overtaken' \in SUBSET Students
      /\ IsFiniteSet(Overtaken) /\ IsFiniteSet(Overtaken') /\ Cardinality(Overtaken') <= N
    <2>1. Overtaken \in SUBSET Students /\ Overtaken' \in SUBSET Students BY DEF Overtaken
    <2> QED BY <2>1, FS_Subset, ExamAssignAssumption
<1>3. /\ Cardinality(Overtaken) \in Nat /\ Cardinality(Overtaken') \in Nat
      /\ Cardinality(late) \in Nat /\ Cardinality(late') \in Nat
      /\ edits \in Nat
    BY <1>2, FS_CardinalityType DEF Types
<1>4. Cardinality(late) + Cardinality(Overtaken) <= edits * N BY DEF LateFew
<1>5. ASSUME UNCHANGED <<late, edits>>, Overtaken' \subseteq Overtaken PROVE LateFew'
    <2>1. Cardinality(Overtaken') <= Cardinality(Overtaken) BY <1>2, <1>5, FS_Subset
    <2>2. edits * N \in Nat BY <1>1, <1>3
    <2>3. Cardinality(late) + Cardinality(Overtaken') <= edits * N BY <1>3, <1>4, <2>1, <2>2
    <2> QED BY <1>5, <2>3 DEF LateFew
<1>6. \A r \in Students : job[r].pc \in Starting => examOf'[job[r].code] = examOf[job[r].code]
    <2>1. \A r \in Students : job[r].pc \in Starting => job[r].code \in Codes
        BY Labels DEF Types, Procs
    <2> QED BY <2>1, CodesStay DEF Links
<1>7. ASSUME NEW e \in Exams, Edit(e) PROVE LateFew'
    <2>1. edits' = edits + 1 /\ late' = late BY <1>7 DEF Edit
    <2>2. (edits + 1) * N = edits * N + N BY <1>1, <1>3
    <2>3. edits * N \in Nat BY <1>1, <1>3
    <2>4. Cardinality(late) <= edits * N BY <1>3, <1>4, <2>3
    <2>5. Cardinality(late) + Cardinality(Overtaken') <= edits * N + N
        BY <1>1, <1>2, <1>3, <2>3, <2>4
    <2> QED BY <2>1, <2>2, <2>5 DEF LateFew
<1>8. ASSUME published' = published, NEW r \in Students, NEW j, Proceed(r, j),
             j.pc \in {"start_check", "start_txn"} =>
                 examOf'[j.code] \in published
                 \/ (j.code = job[r].code /\ job[r].pc \in {"start_check", "start_txn"})
      PROVE  Overtaken' \subseteq Overtaken
    <2>1. job'[r] = j /\ \A q \in Students : q # r => job'[q] = job[q]
        BY <1>8, JobStep DEF Procs
    <2> QED BY <1>6, <1>8, <2>1 DEF Overtaken, Starting
<1>9. CASE AdminCall
    <2>1. PICK a \in Admins : \E j : Proceed(a, j)
        BY <1>9 DEF AdminCall, AssignExam, AssignNext, PickNext, CheckOutstanding, IssueAccessCode,
                    Return
    <2>2. \A r \in Students : job'[r] = job[r]
        BY <2>1, JobStep, ExamAssignAssumption DEF Procs
    <2>3. UNCHANGED <<published, late, edits>>
        BY <1>9 DEF AdminCall, AssignExam, AssignNext, PickNext, CheckOutstanding, IssueAccessCode
    <2> QED BY <1>5, <1>6, <2>2, <2>3 DEF Overtaken, Starting
<1>10. ASSUME NEW r \in Students, StartTxn(r) PROVE LateFew'
    <2> DEFINE c == job[r].code
    <2>1. UNCHANGED <<published, edits>> /\ examOf' = examOf BY <1>10 DEF StartTxn
    <2>2. job[r].pc = "start_txn" /\ job'[r].pc \in {"idle", "start_redis"}
        <3>1. job[r] = [pc |-> "start_txn", code |-> job[r].code]
            BY <1>10, Labels DEF StartTxn, Starting, Types, Procs
        <3>2. [job[r] EXCEPT !.pc = "start_redis"].pc = "start_redis" BY <3>1
        <3> QED BY <1>10, <3>2, JobStep, Labels DEF StartTxn, Return, Procs
    <2>3. \A q \in Students : q # r => job'[q] = job[q]
        BY <1>10, JobStep DEF StartTxn, Return, Procs
    <2>4. Overtaken' \subseteq Overtaken \ {r} BY <2>1, <2>2, <2>3 DEF Overtaken
    <2>5. CASE late' = late BY <1>5, <2>1, <2>4, <2>5
    <2>6. CASE late' # late
        <3>1. late' = late \cup {c} /\ r \in Overtaken
            BY <1>10, <2>2, <2>6 DEF StartTxn, Overtaken
        <3>2. Cardinality(late \cup {c}) <= Cardinality(late) + 1
            <4>1. Cardinality(late \cup {c})
                      = IF c \in late THEN Cardinality(late) ELSE Cardinality(late) + 1
                BY FS_AddElement DEF Types
            <4> QED BY <1>3, <4>1
        <3>3. /\ IsFiniteSet(Overtaken \ {r})
              /\ Cardinality(Overtaken \ {r}) = Cardinality(Overtaken) - 1
            BY <1>2, <3>1, FS_RemoveElement
        <3>4. Cardinality(Overtaken') <= Cardinality(Overtaken) - 1
            BY <2>4, <3>3, FS_Subset
        <3>5. edits * N \in Nat BY <1>1, <1>3
        <3>6. Cardinality(late') + Cardinality(Overtaken') <= edits * N
            BY <1>3, <1>4, <3>1, <3>2, <3>4, <3>5
        <3> QED BY <2>1, <3>6 DEF LateFew
    <2> QED BY <2>5, <2>6
<1>11. ASSUME NEW r \in Students,
              \/ \E c \in Codes : Verify(r, c)
              \/ StartCheck(r) \/ StartRedis(r) \/ StartUndo(r)
              \/ \E c \in Codes, answers \in Sheets : Submit(r, c, answers)
              \/ SubmitReply(r)
       PROVE  LateFew'
    <2>1. UNCHANGED <<published, late, edits>> /\ examOf' = examOf
        BY <1>11 DEF Verify, StartCheck, StartRedis, StartUndo, Submit, SubmitReply
    <2>2. ASSUME NEW c \in Codes, Verify(r, c) PROVE Overtaken' \subseteq Overtaken
        BY <1>8, <2>1, <2>2 DEF Verify
    <2>3. ASSUME StartCheck(r) PROVE Overtaken' \subseteq Overtaken
        <3>1. job[r] = [pc |-> "start_check", code |-> job[r].code]
            BY <2>3, Labels DEF StartCheck, Starting, Types, Procs
        <3>2. [job[r] EXCEPT !.pc = "start_txn"] = [pc |-> "start_txn", code |-> job[r].code]
            BY <3>1
        <3>3. CASE Return(r) BY <1>8, <2>1, <3>3, Labels DEF Return
        <3>4. CASE Proceed(r, [pc |-> "start_txn", code |-> job[r].code])
            BY <1>8, <2>1, <2>3, <3>4 DEF StartCheck
        <3> QED BY <2>3, <3>2, <3>3, <3>4 DEF StartCheck
    <2>4. ASSUME NEW c \in Codes, NEW answers \in Sheets, Submit(r, c, answers)
          PROVE Overtaken' \subseteq Overtaken
        BY <1>8, <2>1, <2>4 DEF Submit
    <2>5. ASSUME StartRedis(r) \/ StartUndo(r) \/ SubmitReply(r)
          PROVE Overtaken' \subseteq Overtaken
        BY <1>8, <2>1, <2>5, Labels DEF StartRedis, StartUndo, SubmitReply, Return
    <2> QED BY <1>5, <1>11, <2>1, <2>2, <2>3, <2>4, <2>5
<1>12. CASE (\E c \in Codes : AutoSubmit(c) \/ Lapse(c)) \/ UNCHANGED vars
    <2>1. UNCHANGED <<job, published, late, edits>> /\ examOf' = examOf
        BY <1>12 DEF AutoSubmit, Lapse, vars
    <2> QED BY <1>5, <2>1 DEF Overtaken
<1> QED BY <1>7, <1>9, <1>10, <1>11, <1>12 DEF Next, StudentCall

-----------------------------------------------------------------------------
(* The theorems.                                                           *)

LEMMA InvAlways == Spec => []AssignInv
<1>1. AssignInv /\ [Next]_vars => AssignInv'
    <2> SUFFICES ASSUME AssignInv, [Next]_vars PROVE AssignInv' OBVIOUS
    <2>1. Types' /\ Links' BY TypesStep, LinksStep DEF AssignInv
    <2>2. Order' BY OrderStep DEF AssignInv
    <2>3. ASSUME NEW e \in Exams PROVE Few(e)' BY <2>1, FewStep DEF AssignInv
    <2>4. LateFew' BY <2>1, LateStep DEF AssignInv
    <2> QED BY <2>1, <2>2, <2>3, <2>4 DEF AssignInv
<1> QED BY InitOK, <1>1, PTL DEF Spec

\* assignNextExam keeps the order of the certificate: whatever is attempted,
\* withdrawn or assigned while it runs, it skips no exam that is not attempted
\* and issues no code for one attempted before the call.
THEOREM InOrderAlways == Spec => []NextInOrder
<1>1. AssignInv => NextInOrder
    BY DEF AssignInv, Order, InOrder, NextInOrder
<1> QED BY InvAlways, <1>1, PTL

\* Admins who race past the check for an outstanding code leave at most one
\* usable code each, until a code of the exam lapses or a start fails.
THEOREM FewAlways == Spec => []FewOutstanding
<1>1. AssignInv => FewOutstanding
    <2> SUFFICES ASSUME AssignInv, NEW e \in Exams, faults = 0, Issued(e) \cap lapsed = {}
                 PROVE  Cardinality(Fresh(e)) <= Cardinality(Admins)
        BY DEF FewOutstanding, Fresh
    <2>1. Cardinality(Fresh(e)) + Cardinality(Issuing(e)) <= Cardinality(Admins)
        BY DEF AssignInv, Few
    <2> QED BY <2>1, FewSets DEF AssignInv
<1> QED BY InvAlways, <1>1, PTL

\* A withdrawn exam is started at most once for each call that was under way
\* when it was withdrawn: the start never reads the publication again, and a
\* call that comes later cannot pass.
THEOREM LateAlways == Spec => []LateStarts
<1>1. AssignInv => LateStarts
    <2> SUFFICES ASSUME AssignInv PROVE Cardinality(late) <= edits * Cardinality(Students)
        BY DEF LateStarts
    <2>1. Overtaken \in SUBSET Students /\ IsFiniteSet(late) /\ edits \in Nat
        BY DEF AssignInv, Types, Overtaken
    <2>2. IsFiniteSet(Overtaken) BY <2>1, FS_Subset, ExamAssignAssumption
    <2>3. /\ Cardinality(late) \in Nat /\ Cardinality(Overtaken) \in Nat
          /\ Cardinality(Students) \in Nat
        BY <2>1, <2>2, FS_CardinalityType, ExamAssignAssumption
    <2>4. edits * Cardinality(Students) \in Nat BY <2>1, <2>3
    <2> QED BY <2>3, <2>4 DEF AssignInv, LateFew
<1> QED BY InvAlways, <1>1, PTL

-----------------------------------------------------------------------------
(* Marks.                                                                  *)

\* A mark is a unit of its question: the marks of a set of questions are how many
\* units they have.
Units(qs) == {u \in qs \X Nat : u[2] \in 1 .. Marks[u[1]]}

LEMMA OneMore ==
    ASSUME NEW S \in SUBSET Questions, NEW q \in S, IsFiniteSet(Units(S \ {q}))
    PROVE  /\ IsFiniteSet(Units(S))
           /\ Cardinality(Units(S)) = Marks[q] + Cardinality(Units(S \ {q}))
<1> DEFINE block == {q} \X (1 .. Marks[q])
           rest == Units(S \ {q})
<1>1. Marks[q] \in Nat BY ExamScoringAssumption
<1>2. IsFiniteSet(1 .. Marks[q]) /\ Cardinality(1 .. Marks[q]) = Marks[q]
    BY <1>1, FS_Interval
<1>3. IsFiniteSet({q}) /\ Cardinality({q}) = 1 BY FS_Singleton
<1>4. IsFiniteSet(block) /\ Cardinality(block) = 1 * Marks[q] BY <1>2, <1>3, FS_Product
<1>5. Units(S) = block \cup rest /\ block \cap rest = {}
    <2>1. \A u : u \in block <=> u \in {q} \X Nat /\ u[2] \in 1 .. Marks[u[1]] BY <1>1
    <2>2. \A u : u \in S \X Nat <=> u \in (S \ {q}) \X Nat \/ u \in {q} \X Nat OBVIOUS
    <2> QED BY <2>1, <2>2 DEF Units
<1>6. Cardinality(block \cap rest) = 0 BY <1>5, FS_EmptySet
<1>7. Cardinality(rest) \in Nat BY FS_CardinalityType
<1> HIDE DEF block, rest
<1>8. IsFiniteSet(block \cup rest) /\ Cardinality(block \cup rest) =
          Cardinality(block) + Cardinality(rest) - Cardinality(block \cap rest)
    BY <1>4, FS_Union DEF rest
<1> QED BY <1>1, <1>4, <1>5, <1>6, <1>7, <1>8 DEF rest

\* The number of elements is what induction over sets of questions goes by.
LEMMA SmallestSet ==
    ASSUME NEW Bad \in SUBSET SUBSET Questions, Bad # {}
    PROVE  \E S \in Bad : /\ IsFiniteSet(S)
                          /\ \A q \in S : S \ {q} \notin Bad
<1>1. \A S \in SUBSET Questions : IsFiniteSet(S) /\ Cardinality(S) \in Nat
    BY ExamScoringAssumption, FS_Subset, FS_CardinalityType
<1> DEFINE sizes == {Cardinality(S) : S \in Bad}
<1>2. sizes \in SUBSET Nat /\ sizes # {} BY <1>1
<1>3. PICK k \in sizes : \A l \in sizes : k <= l BY <1>2, MinOf
<1>4. PICK S \in Bad : Cardinality(S) = k BY <1>3
<1>5. ASSUME NEW q \in S PROVE S \ {q} \notin Bad
    <2>1. Cardinality(S \ {q}) = Cardinality(S) - 1 BY <1>1, <1>5, FS_RemoveElement
    <2>2. S \ {q} \in Bad => k <= Cardinality(S \ {q}) BY <1>3
    <2>3. k \in Nat BY <1>2, <1>3
    <2> QED BY <1>4, <2>1, <2>2, <2>3
<1> QED BY <1>1, <1>4, <1>5

LEMMA UnitsFinite ==
    ASSUME NEW S \in SUBSET Questions
    PROVE  IsFiniteSet(Units(S)) /\ Cardinality(Units(S)) \in Nat
<1> DEFINE Bad == {T \in SUBSET Questions : ~IsFiniteSet(Units(T))}
<1>1. Bad = {}
    <2> SUFFICES ASSUME Bad # {} PROVE FALSE OBVIOUS
    <2>1. PICK T \in Bad : \A q \in T : T \ {q} \notin Bad BY SmallestSet
    <2>2. CASE T = {}
        <3>1. Units(T) = {} BY <2>2 DEF Units
        <3> QED BY <3>1, FS_EmptySet
    <2>3. CASE T # {}
        <3>1. PICK q \in T : TRUE BY <2>3
        <3>2. IsFiniteSet(Units(T \ {q})) BY <2>1, <3>1
        <3>3. IsFiniteSet(Units(T)) BY <3>1, <3>2, OneMore
        <3> QED BY <3>3
    <2> QED BY <2>2, <2>3
<1> QED BY <1>1, FS_CardinalityType

\* The equation of the fold that MarksOf is.
SumEq(S, f) ==
    f = [s \in SUBSET S |-> IF s = {} THEN 0
                            ELSE Marks[CHOOSE q \in s : TRUE] + f[s \ {CHOOSE q \in s : TRUE}]]

LEMMA MarksAreUnits ==
    ASSUME NEW S \in SUBSET Questions
    PROVE  MarksOf(S) = Cardinality(Units(S))
<1> DEFINE pick(s) == CHOOSE q \in s : TRUE
           count == [s \in SUBSET S |-> Cardinality(Units(s))]
<1>1. \A s \in SUBSET S : s # {} => pick(s) \in s OBVIOUS
<1>2. Cardinality(Units({})) = 0
    <2>1. Units({}) = {} BY DEF Units
    <2> QED BY <2>1, FS_EmptySet
<1>3. \A s \in SUBSET S : s # {} =>
          Cardinality(Units(s)) = Marks[pick(s)] + Cardinality(Units(s \ {pick(s)}))
    BY <1>1, OneMore, UnitsFinite
<1> HIDE DEF pick
<1>4. count = [s \in SUBSET S |-> IF s = {} THEN 0
                                  ELSE Marks[pick(s)] + count[s \ {pick(s)}]]
    <2>1. \A s \in SUBSET S : count[s] = Cardinality(Units(s)) OBVIOUS
    <2>2. \A s \in SUBSET S : s \ {pick(s)} \in SUBSET S OBVIOUS
    <2>3. \A s \in SUBSET S :
              count[s] = IF s = {} THEN 0 ELSE Marks[pick(s)] + count[s \ {pick(s)}]
        <3> HIDE DEF count
        <3> QED BY <1>2, <1>3, <2>1, <2>2
    <2>4. count = [s \in SUBSET S |-> count[s]] OBVIOUS
    <2> HIDE DEF count
    <2> QED BY <2>3, <2>4
<1>5. SumEq(S, count) BY <1>4 DEF SumEq, pick
<1> HIDE DEF count
<1> DEFINE sum == CHOOSE f : SumEq(S, f)
<1>6. SumEq(S, sum) BY <1>5
<1>7. MarksOf(S) = sum[S] BY DEF MarksOf, MapThenSumSet, MapThenFoldSet, SumEq
<1> HIDE DEF sum
<1>8. \A s \in SUBSET S :
          sum[s] = IF s = {} THEN 0 ELSE Marks[pick(s)] + sum[s \ {pick(s)}]
    BY <1>6 DEF SumEq, pick
<1> DEFINE Bad == {s \in SUBSET S : sum[s] # Cardinality(Units(s))}
<1>9. Bad = {}
    <2> SUFFICES ASSUME Bad # {} PROVE FALSE OBVIOUS
    <2>1. PICK s \in Bad : \A q \in s : s \ {q} \notin Bad BY SmallestSet
    <2>2. s = {} => FALSE BY <1>2, <1>8, <2>1
    <2>3. CASE s # {}
        <3>1. pick(s) \in s BY <1>1, <2>3
        <3>2. s \ {pick(s)} \notin Bad /\ s \ {pick(s)} \in SUBSET S BY <2>1, <3>1
        <3>3. sum[s \ {pick(s)}] = Cardinality(Units(s \ {pick(s)})) BY <3>2
        <3> QED BY <1>3, <1>8, <2>3, <3>3
    <2> QED BY <2>2, <2>3
<1> QED BY <1>7, <1>9

LEMMA MarksOfRight ==
    ASSUME NEW answers
    PROVE  /\ Right(answers) \in SUBSET Questions
           /\ MarksOf(Questions) \in Nat
           /\ MarksOf(Right(answers)) \in 0 .. MarksOf(Questions)
<1>1. Right(answers) \in SUBSET Questions BY DEF Right
<1>2. Units(Right(answers)) \in SUBSET Units(Questions) BY <1>1 DEF Units
<1>3. Questions \in SUBSET Questions OBVIOUS
<1>4. /\ MarksOf(Questions) = Cardinality(Units(Questions))
      /\ MarksOf(Right(answers)) = Cardinality(Units(Right(answers)))
    BY <1>1, <1>3, MarksAreUnits
<1>5. /\ IsFiniteSet(Units(Questions)) /\ Cardinality(Units(Questions)) \in Nat
      /\ Cardinality(Units(Right(answers))) \in Nat
    BY <1>1, <1>3, UnitsFinite
<1>6. Cardinality(Units(Right(answers))) <= Cardinality(Units(Questions))
    BY <1>2, <1>5, FS_Subset
<1> QED BY <1>1, <1>4, <1>5, <1>6

\* A quotient, rounded down.
LEMMA Quotient ==
    ASSUME NEW x \in Nat, NEW y \in Nat \ {0}, NEW k \in Nat
    PROVE  x \div y \in Nat /\ (x \div y >= k <=> x >= k * y)
<1> DEFINE q == x \div y
<1>1. q \in Nat /\ q * y <= x /\ x < (q + 1) * y OBVIOUS
<1> HIDE DEF q
<1>2. ASSUME q >= k PROVE x >= k * y
    <2>1. k * y <= q * y BY <1>1, <1>2
    <2>2. k * y \in Nat /\ q * y \in Nat BY <1>1
    <2> QED BY <1>1, <2>1, <2>2
<1>3. ASSUME ~(q >= k) PROVE ~(x >= k * y)
    <2>1. q + 1 <= k BY <1>1, <1>3
    <2>2. (q + 1) * y <= k * y BY <1>1, <2>1
    <2>3. k * y \in Nat /\ (q + 1) * y \in Nat BY <1>1
    <2> QED BY <1>1, <2>2, <2>3
<1> QED BY <1>1, <1>2, <1>3 DEF q

\* With fewer than 200 marks, rounding to hundredths of a percent crosses no
\* threshold in whole percent.
LEMMA ScoreIs ==
    ASSUME NEW total \in Nat, NEW earned \in 0 .. total
    PROVE  /\ Score(earned, total) \in Nat
           /\ Score(earned, total) <= 10000
           /\ total < 200 =>
                  (Passed(Score(earned, total)) <=>
                      total > 0 /\ 100 * earned >= PassingScore * total)
<1>0. PassingScore \in 1 .. 100 BY ExamScoringAssumption
<1>1. CASE total = 0
    <2>1. Score(earned, total) = 0 BY <1>1 DEF Score
    <2>2. ~Passed(0) BY <1>0 DEF Passed
    <2> QED BY <1>1, <2>1, <2>2
<1>2. CASE total # 0
    <2> DEFINE x == 20000 * earned + total
               y == 2 * total
               t == PassingScore * total
    <2>1. x \in Nat /\ y \in Nat \ {0} /\ Score(earned, total) = x \div y
        BY <1>2 DEF Score
    <2>2. t \in Nat BY <1>0
    <2>3. (100 * PassingScore) * y = 200 * t BY <1>0
    <2>4. Passed(x \div y) <=> x >= 200 * t
        <3>1. 100 * PassingScore \in Nat BY <1>0
        <3>2. x \div y >= 100 * PassingScore <=> x >= (100 * PassingScore) * y
            BY <2>1, <3>1, Quotient
        <3> HIDE DEF x, y, t
        <3> QED BY <2>3, <3>2 DEF Passed
    <2>5. ~(x >= 10001 * y) BY <1>2
    <2>6. x \div y \in Nat /\ ~(x \div y >= 10001)
        <3> HIDE DEF x, y
        <3> QED BY <2>1, <2>5, Quotient
    <2>7. total < 200 => (x >= 200 * t <=> 100 * earned >= t)
        <3> HIDE DEF t
        <3> QED BY <2>2
    <2> HIDE DEF x, y
    <2> QED BY <1>2, <2>1, <2>4, <2>6, <2>7 DEF t
<1> QED BY <1>1, <1>2

LEMMA AnswersScored ==
    ASSUME NEW answers
    PROVE  /\ ScoreAnswers(answers) \in [score : Nat, passed : BOOLEAN, right : SUBSET Questions]
           /\ ScoreAnswers(answers).score \in Percentages
           /\ MarksOf(Questions) < 200 =>
                  (ScoreAnswers(answers).passed <=>
                      /\ MarksOf(Questions) > 0
                      /\ 100 * MarksOf(ScoreAnswers(answers).right)
                             >= PassingScore * MarksOf(Questions))
<1> DEFINE score == Score(MarksOf(Right(answers)), MarksOf(Questions))
<1>1. /\ ScoreAnswers(answers) = [score |-> score, passed |-> Passed(score),
                                  right |-> Right(answers)]
    BY DEF ScoreAnswers
<1>2. /\ score \in Percentages
      /\ MarksOf(Questions) < 200 =>
             (Passed(score) <=>
                 /\ MarksOf(Questions) > 0
                 /\ 100 * MarksOf(Right(answers)) >= PassingScore * MarksOf(Questions))
    <2> DEFINE total == MarksOf(Questions)
               earned == MarksOf(Right(answers))
    <2>1. total \in Nat /\ earned \in 0 .. total BY MarksOfRight
    <2> HIDE DEF total, earned
    <2>2. /\ Score(earned, total) \in Percentages
          /\ total < 200 => (Passed(Score(earned, total)) <=>
                                total > 0 /\ 100 * earned >= PassingScore * total)
        <3>1. Score(earned, total) \in Percentages
            <4> DEFINE s == Score(earned, total)
            <4>1. s \in Nat /\ s <= 10000 BY <2>1, ScoreIs
            <4> HIDE DEF s
            <4>2. s \in Percentages BY <4>1 DEF Percentages
            <4> QED BY <4>2 DEF s
        <3>2. total < 200 => (Passed(Score(earned, total)) <=>
                                total > 0 /\ 100 * earned >= PassingScore * total)
            BY <2>1, ScoreIs
        <3> QED BY <3>1, <3>2
    <2> QED BY <2>2 DEF total, earned
<1>3. Right(answers) \in SUBSET Questions BY MarksOfRight
<1>4. Passed(score) \in BOOLEAN BY DEF Passed
<1>5. score \in Nat
    <2> HIDE DEF score
    <2> QED BY <1>2 DEF Percentages
<1> HIDE DEF score
<1> QED BY <1>1, <1>2, <1>3, <1>4, <1>5

-----------------------------------------------------------------------------
(* What a call that has been scored holds, and the bounds.                 *)

Scored(j) ==
    j.pc = "reply" =>
        \E answers \in Sheets : j = [pc |-> "reply", result |-> ScoreAnswers(answers)]

Results == \A p \in Procs : Scored(job[p])

Bounds ==
    edits \in 0 .. MaxEdits /\ faults \in 0 .. MaxFaults /\ IsFiniteSet(lapsed)

LEMMA ResultsStep ==
    ASSUME Types, Results, [Next]_vars
    PROVE  Results'
<1>1. ASSUME NEW p \in Procs, NEW j, Proceed(p, j), Scored(j) PROVE Results'
    BY <1>1, JobStep DEF Results
<1>2. ASSUME NEW j, j.pc # "reply" PROVE Scored(j) BY <1>2 DEF Scored
<1>3. Scored(Idle) BY Labels DEF Scored
<1>4. CASE AdminCall
    <2> PICK a \in Admins :
            \/ \E e \in Exams : AssignExam(a, e)
            \/ AssignNext(a) \/ PickNext(a) \/ CheckOutstanding(a)
            \/ \E c \in Codes : IssueAccessCode(a, c)
        BY <1>4 DEF AdminCall
    <2>1. a \in Procs BY DEF Procs
    <2>2. PICK j : Proceed(a, j) /\ Scored(j)
        <3>1. ASSUME NEW e \in Exams, AssignExam(a, e) PROVE \E j : Proceed(a, j) /\ Scored(j)
            BY <1>2, <3>1 DEF AssignExam
        <3>2. CASE AssignNext(a) BY <1>2, <3>2 DEF AssignNext
        <3>3. CASE PickNext(a) BY <1>2, <1>3, <3>3 DEF PickNext, Return
        <3>4. CASE CheckOutstanding(a)
            <4> DEFINE issue == [job[a] EXCEPT !.pc = "issue"]
            <4>1. "pc" \in DOMAIN job[a]
                BY <2>1, <3>4, Labels DEF CheckOutstanding, Types
            <4>2. issue.pc = "issue" BY <4>1
            <4> HIDE DEF issue
            <4>3. Scored(issue) BY <1>2, <4>2
            <4>4. Proceed(a, issue) \/ Proceed(a, Idle)
                BY <3>4 DEF CheckOutstanding, Return, issue
            <4> QED BY <1>3, <4>3, <4>4
        <3>5. ASSUME NEW c \in Codes, IssueAccessCode(a, c)
              PROVE \E j : Proceed(a, j) /\ Scored(j)
            BY <1>3, <3>5 DEF IssueAccessCode, Return
        <3> QED BY <3>1, <3>2, <3>3, <3>4, <3>5
    <2> QED BY <1>1, <2>1, <2>2
<1>5. CASE StudentCall
    <2> PICK r \in Students :
            \/ \E c \in Codes : Verify(r, c)
            \/ StartCheck(r) \/ StartTxn(r) \/ StartRedis(r) \/ StartUndo(r)
            \/ \E c \in Codes, answers \in Sheets : Submit(r, c, answers)
            \/ SubmitReply(r)
        BY <1>5 DEF StudentCall
    <2>1. r \in Procs BY DEF Procs
    <2>2. PICK j : Proceed(r, j) /\ Scored(j)
        <3>1. ASSUME NEW c \in Codes, Verify(r, c) PROVE \E j : Proceed(r, j) /\ Scored(j)
            BY <1>2, <3>1 DEF Verify
        <3>2. CASE StartCheck(r) \/ StartTxn(r)
            <4> DEFINE next(l) == [job[r] EXCEPT !.pc = l]
            <4>1. job[r] = [pc |-> job[r].pc, code |-> job[r].code]
                BY <2>1, <3>2, Labels DEF StartCheck, StartTxn, Starting, Types
            <4>2. \A l : next(l).pc = l BY <4>1
            <4> HIDE DEF next
            <4>3. Scored(next("start_txn")) /\ Scored(next("start_redis")) BY <1>2, <4>2
            <4>4. \/ Proceed(r, next("start_txn")) \/ Proceed(r, next("start_redis"))
                  \/ Proceed(r, Idle)
                BY <3>2 DEF StartCheck, StartTxn, Return, next
            <4> QED BY <1>3, <4>3, <4>4
        <3>3. CASE StartRedis(r) \/ StartUndo(r) \/ SubmitReply(r)
            BY <1>3, <3>3 DEF StartRedis, StartUndo, SubmitReply, Return
        <3>4. ASSUME NEW c \in Codes, NEW answers \in Sheets, Submit(r, c, answers)
              PROVE \E j : Proceed(r, j) /\ Scored(j)
            <4>1. Proceed(r, [pc |-> "reply", result |-> ScoreAnswers(answers)])
                BY <3>4 DEF Submit
            <4>2. Scored([pc |-> "reply", result |-> ScoreAnswers(answers)]) BY DEF Scored
            <4> QED BY <4>1, <4>2
        <3> QED BY <3>1, <3>2, <3>3, <3>4
    <2> QED BY <1>1, <2>1, <2>2
<1>6. CASE job' = job BY <1>6 DEF Results
<1> QED BY <1>4, <1>5, <1>6 DEF Next, vars, AutoSubmit, Lapse, Edit

LEMMA BoundsStep ==
    ASSUME Types, Bounds, [Next]_vars
    PROVE  Bounds'
<1> USE DEF exams, codeRows, sessions
<1>1. ASSUME NEW c \in Codes, Lapse(c) PROVE Bounds'
    BY <1>1, FS_AddElement DEF Lapse, Bounds
<1>2. ASSUME NEW e \in Exams, Edit(e) PROVE Bounds'
    BY <1>2, ExamAssignAssumption DEF Edit, Bounds
<1>3. ASSUME NEW r \in Students, StartUndo(r) PROVE Bounds'
    <2>1. Cardinality(lapsed) \in Nat BY FS_CardinalityType DEF Bounds
    <2>2. faults' \in 0 .. MaxFaults
        BY <1>3, <2>1, ExamAssignAssumption DEF StartUndo, Fault, Bounds
    <2> QED BY <1>3, <2>2 DEF StartUndo, Bounds
<1>4. CASE UNCHANGED <<edits, faults, lapsed>> BY <1>4 DEF Bounds
<1> QED BY <1>1, <1>2, <1>3, <1>4 DEF Next, vars, AdminCall, StudentCall, AssignExam, AssignNext,
           PickNext, CheckOutstanding, IssueAccessCode, Verify, StartCheck, StartTxn, StartRedis,
           Submit, SubmitReply, AutoSubmit

LEMMA ResultsAlways == Spec => [](Types /\ Results /\ Bounds)
<1>1. Init => Results
    BY Labels DEF Init, Results, Scored
<1>2. Init => Bounds BY ExamAssignAssumption, FS_EmptySet DEF Init, Bounds
<1>3. AssignInv => Types BY DEF AssignInv
<1> QED BY <1>1, <1>2, <1>3, InvAlways, ResultsStep, BoundsStep, PTL DEF Spec

\* ExamAssign!TypeOK: what a call of any kind holds at each label, and that the
\* result it replies with is a score, a verdict and questions of the exam.
THEOREM TypesKept == Spec => []TypeOK
<1>1. Types /\ Results /\ Bounds => TypeOK
    <2> SUFFICES ASSUME Types, Results, Bounds PROVE TypeOK OBVIOUS
    <2> DEFINE Replies == [pc : {"reply"},
                           result : [score : Nat, passed : BOOLEAN, right : SUBSET Questions]]
               Jobs == {Idle}
                   \cup [pc : {"issue"}, exam : Exams, seen : {None}]
                   \cup [pc : {"next_attempted"}, pool : SUBSET Exams, before : SUBSET Exams]
                   \cup [pc : {"next_code", "issue"}, exam : Exams,
                         seen : [pool : SUBSET Exams, before : SUBSET Exams]]
                   \cup [pc : {"start_check", "start_txn", "start_redis"}, code : Codes]
                   \cup Replies
    <2>1. ASSUME NEW p \in Procs PROVE job[p] \in Jobs
        <3>1. CASE job[p].pc = "reply"
            <4>1. PICK answers \in Sheets :
                      job[p] = [pc |-> "reply", result |-> ScoreAnswers(answers)]
                BY <3>1 DEF Results, Scored
            <4>2. job[p] \in Replies BY <4>1, AnswersScored
            <4> HIDE DEF Replies
            <4> QED BY <4>2
        <3>2. CASE job[p].pc # "reply"
            <4> HIDE DEF Replies
            <4>1. JobOK(job[p]) BY DEF Types
            <4> QED BY <3>2, <4>1 DEF JobOK, Seen
        <3> QED BY <3>1, <3>2
    <2>2. job \in [Procs -> Jobs]
        <3> HIDE DEF Jobs
        <3> QED BY <2>1 DEF Types
    <2> HIDE DEF Jobs
    <2> QED BY <2>2 DEF TypeOK, Types, Bounds, Jobs
<1> QED BY <1>1, ResultsAlways, PTL

\* scoreAnswers rounds to two decimals before it compares: for an exam of fewer
\* than 200 marks the student passes exactly when the unrounded share of right
\* answers reaches passingScore.
THEOREM VerdictAlways == Spec => [](MarksOf(Questions) < 200 => VerdictExact)
<1>1. Types /\ Results => (MarksOf(Questions) < 200 => VerdictExact)
    <2> SUFFICES ASSUME Results, MarksOf(Questions) < 200 PROVE VerdictExact OBVIOUS
    <2>1. ASSUME NEW r \in Students, job[r].pc = "reply"
          PROVE  /\ job[r].result.passed <=>
                        /\ MarksOf(Questions) > 0
                        /\ 100 * MarksOf(job[r].result.right)
                               >= PassingScore * MarksOf(Questions)
                 /\ job[r].result.score \in Percentages
        <3>1. PICK answers \in Sheets :
                  job[r] = [pc |-> "reply", result |-> ScoreAnswers(answers)]
            BY <2>1 DEF Results, Scored, Procs
        <3>2. job[r].result = ScoreAnswers(answers) BY <3>1
        <3> QED BY <3>2, AnswersScored
    <2> QED BY <2>1, Zenon DEF VerdictExact
<1> QED BY <1>1, ResultsAlways, PTL
=============================================================================
