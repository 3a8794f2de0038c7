------------------------------- MODULE DemoData -------------------------------
(***************************************************************************)
(* DemoData: what `npm run seed:demo` writes, as a script of transactions; *)
(* each is a sequence of rows.  A student's progress is not in the script: *)
(* it says of whom, in which certificate and how much, and which lessons   *)
(* those are is selected when the script comes to it.  Of a row it keeps   *)
(* the columns Schema does and those a story is told with.                 *)
(***************************************************************************)
EXTENDS Schema

CONSTANTS
    MaxLessons,     \* bounds on the rows written per module
    MaxQuestions    \* and per exam; 4 and 5 give the whole dataset

ASSUME DemoDataAssumption == {MaxLessons, MaxQuestions} \subseteq 1 .. 5

Sum(s) == FoldLeft(LAMBDA a, b : a + b, 0, s)
AtMost(n, bound) == IF n < bound THEN n ELSE bound

\* demoId(block, n)
Id(table, n) == <<table, n>>

\* A transaction of INSERTs.
Writes(rows) == [rows |-> rows, course |-> Null]

\* repo.save of one entity after the other, a transaction each.
OneByOne(rows) == [i \in DOMAIN rows |-> Writes(<<rows[i]>>)]

\* The numbers of the children of p, where parentOf[j] is the parent of j.
Children(parentOf, p) ==
    SelectSeq([j \in DOMAIN parentOf |-> j], LAMBDA j : parentOf[j] = p)

-----------------------------------------------------------------------------
(* The catalogue: lessons per module, published and draft exams.           *)

CertSpec(code, lessons, publishedExams, draftExams) ==
    [code |-> code, lessons |-> lessons,
     publishedExams |-> publishedExams, draftExams |-> draftExams]

ScrumCerts ==
    <<CertSpec("PSM",  <<4, 4, 4>>, 3, 0),
      CertSpec("PSPO", <<3, 3, 3>>, 2, 0),
      CertSpec("PSD",  <<3, 3>>,    2, 0)>>

OtherCerts ==
    <<CertSpec("PAL", <<3, 3>>, 1, 0),
      CertSpec("SPS", <<2, 2>>, 1, 0),
      CertSpec("PMP", <<2, 2>>, 1, 1)>>

CERTS == ScrumCerts \o OtherCerts

QUESTION_MARKS == <<3, 2, 2, 2, 1>>
OptionCount(qi) == IF qi > 3 THEN 2 ELSE 4

\* Numbering runs through all certificates.
ModuleCert    == FlattenSeq([n \in DOMAIN CERTS |-> [i \in DOMAIN CERTS[n].lessons |-> n]])
ModuleLessons == FlattenSeq([n \in DOMAIN CERTS |-> CERTS[n].lessons])
LessonModule  == FlattenSeq([m \in DOMAIN ModuleLessons |->
                                [i \in 1 .. AtMost(ModuleLessons[m], MaxLessons) |-> m]])
ExamCert      == FlattenSeq([n \in DOMAIN CERTS |->
                     [o \in 1 .. CERTS[n].publishedExams + CERTS[n].draftExams |-> n]])
QuestionsPerExam == AtMost(Len(QUESTION_MARKS), MaxQuestions)
QuestionExam  == FlattenSeq([e \in DOMAIN ExamCert |-> [qi \in 1 .. QuestionsPerExam |-> e]])
OptionQuestion == FlattenSeq([q \in DOMAIN QuestionExam |->
                     [o \in 1 .. OptionCount(((q - 1) % QuestionsPerExam) + 1) |-> q]])

ExamsFor(n) == Children(ExamCert, n)

-----------------------------------------------------------------------------
(* The sections, in the order main() calls them.                           *)

SeedAdmins ==
    LET role == <<"learning_admin", "content_creator", "finance_admin", "support_admin">>
    IN  OneByOne([n \in DOMAIN role |->
            Row("admin_users", n, [email |-> <<"demo admin", n>>, role |-> role[n],
                                   created_by_id |-> Null])])

SeedCatalog ==
    LET lesson(l, li) == Row("lessons", l,
                             [module_id |-> Id("learning_modules", LessonModule[l]),
                              position |-> li])
        module(m, mi) == Row("learning_modules", m,
                             [cert_id |-> Id("certificates", ModuleCert[m]), position |-> mi])
        moduleRows(m, mi) ==
            LET ls == Children(LessonModule, m)
            IN  <<module(m, mi)>> \o [li \in DOMAIN ls |-> lesson(ls[li], li)]
        certRows(n) ==
            LET ms == Children(ModuleCert, n)
            IN  <<Row("certificates", n, [program_code |-> CERTS[n].code])>>
                    \o FlattenSeq([mi \in DOMAIN ms |-> moduleRows(ms[mi], mi)])
    IN  OneByOne(FlattenSeq([n \in DOMAIN CERTS |-> certRows(n)]))

SeedExams ==
    LET order(e) == e + 1 - ExamsFor(ExamCert[e])[1]
        status(e) == IF order(e) > CERTS[ExamCert[e]].publishedExams THEN "draft"
                                                                     ELSE "published"
        option(o) == Row("exam_question_options", o,
                         [question_id |-> Id("exam_questions", OptionQuestion[o])])
        questionRows(q) ==
            LET os == Children(OptionQuestion, q)
            IN  <<Row("exam_questions", q, [exam_id |-> Id("exams", QuestionExam[q])])>>
                    \o [i \in DOMAIN os |-> option(os[i])]
        examRows(e) ==
            LET qs == Children(QuestionExam, e)
            IN  <<Row("exams", e, [cert_id |-> Id("certificates", ExamCert[e]),
                                   exam_order |-> order(e), status |-> status(e)])>>
                    \o FlattenSeq([i \in DOMAIN qs |-> questionRows(qs[i])])
    IN  OneByOne(FlattenSeq([e \in DOMAIN ExamCert |-> examRows(e)]))

SeedStudents ==
    OneByOne([n \in 1 .. 8 |-> Row("users", n, [email |-> <<"demo student", n>>])])

\* One INSERT of three rows, created by the demo finance admin.
SeedPromoCodes ==
    LET code == <<"SCRUM20", "LAUNCH100", "EXPIRED10">>
    IN  <<Writes([n \in DOMAIN code |->
            Row("promo_codes", n, [code |-> code[n], usage_count |-> 0,
                                   created_by_id |-> Id("admin_users", 3)])])>>

-----------------------------------------------------------------------------
(* The stories.                                                            *)

\* The questions answered right: each entry of correctMarks is used for the
\* first question worth as much.
BuildAnswers(correctMarks) ==
    LET take(acc, marks) ==
            IF Contains(acc.left, marks)
            THEN [left |-> RemoveFirst(acc.left, marks), earned |-> acc.earned + marks]
            ELSE acc
    IN  FoldLeft(take, [left |-> correctMarks, earned |-> 0], QUESTION_MARKS)

\* Rows owned by student u of certificate n, written asUser in one transaction.
Purchase(k, u, n, promo) ==
    LET owner == [user_id |-> Id("users", u), cert_id |-> Id("certificates", n)]
    IN  <<Writes(<<Row("student_purchases", k, owner),
                   Row("transactions", k, owner @@ [stripe_session_id |-> k,
                                                    promo_code_id |-> promo])>>)>>

\* Student u completes the first count lessons of certificate n.
CompleteLessons(u, n, count) ==
    <<[rows |-> <<>>, course |-> [user_id |-> Id("users", u), cert_id |-> Id("certificates", n),
                                  count |-> count]]>>

Attempt(k, u, e, correctMarks) ==
    LET score == (100 * BuildAnswers(correctMarks).earned) \div Sum(QUESTION_MARKS)
    IN  OneByOne(<<Row("exam_attempts", k,
                       [user_id |-> Id("users", u), exam_id |-> Id("exams", e),
                        cert_id |-> Id("certificates", ExamCert[e]), passed |-> score >= 80])>>)

Issue(k, u, n, attempt) ==
    OneByOne(<<Row("issued_certificates", k,
                   [user_id |-> Id("users", u), certificate_id |-> Id("certificates", n),
                    exam_attempt_id |-> Id("exam_attempts", attempt)])>>)

RetakeCode ==
    OneByOne(<<Row("exam_access_codes", 1,
                   [user_id |-> Id("users", 2), exam_id |-> Id("exams", ExamsFor(1)[2]),
                    cert_id |-> Id("certificates", 1)])>>)

SeedStories ==
    Purchase(1, 1, 1, Null) \o CompleteLessons(1, 1, 12)
        \o Attempt(1, 1, ExamsFor(1)[1], <<3, 2, 2, 2>>) \o Issue(1, 1, 1, 1)
    \o Purchase(2, 2, 1, Null) \o CompleteLessons(2, 1, 8)
        \o Attempt(2, 2, ExamsFor(1)[1], <<3, 2, 1>>) \o RetakeCode
    \o Purchase(3, 3, 2, Null) \o CompleteLessons(3, 2, 5)
    \o Purchase(4, 4, 3, Id("promo_codes", 1)) \o CompleteLessons(4, 3, 1)
    \o Purchase(5, 5, 4, Null) \o CompleteLessons(5, 4, 6)
        \o Attempt(3, 5, ExamsFor(4)[1], <<3, 2, 2, 2, 1>>) \o Issue(2, 5, 4, 3)
        \o Purchase(6, 5, 1, Null)

-----------------------------------------------------------------------------

Script == SeedAdmins \o SeedCatalog \o SeedExams \o SeedStudents \o SeedPromoCodes \o SeedStories

Plan   == [n \in DOMAIN Script |-> Script[n].rows]
Course == [n \in DOMAIN Script |-> Script[n].course]

RowsOf(n) == UNION {Range(Plan[m]) : m \in 1 .. n}
PlannedRows == RowsOf(Len(Plan))

CourseSteps == {n \in DOMAIN Plan : Course[n] # Null}

-----------------------------------------------------------------------------
(* SELECT ... FROM lessons JOIN learning_modules ... ORDER BY ... LIMIT.   *)

LessonsOf(db, cert) ==
    {l \in DOMAIN db : /\ l[1] = "lessons"
                       /\ db[l].module_id \in DOMAIN db
                       /\ db[db[l].module_id].cert_id = cert}

Precedes(db, k, l) ==
    LET m == db[db[k].module_id].position
        n == db[db[l].module_id].position
    IN  m < n \/ (m = n /\ db[k].position < db[l].position)

\* The answers PostgreSQL may give: it is free in the order of lessons whose
\* positions are the same.
Selected(db, course) ==
    LET of == LessonsOf(db, course.cert_id)
    IN  {s \in [1 .. AtMost(course.count, Cardinality(of)) -> of] :
            /\ IsInjective(s)
            /\ \A i \in DOMAIN s, l \in of :
                   Precedes(db, l, s[i]) => \E j \in 1 .. i - 1 : s[j] = l}

\* gen_random_uuid() for the id; one row for a student and a lesson, by the
\* table's unique key.
ProgressRow(course, lesson) ==
    Row("student_progress", <<course.user_id, lesson>>,
        [user_id |-> course.user_id, lesson_id |-> lesson])

-----------------------------------------------------------------------------

\* The four statements of cleanup(); everything else is to go by cascade.
Cleanup ==
    <<[table |-> "users", ids |-> {Id("users", n) : n \in 1 .. 16}],
      [table |-> "certificates", ids |-> {Id("certificates", n) : n \in DOMAIN CERTS}],
      [table |-> "admin_users", ids |-> {Id("admin_users", n) : n \in 1 .. 8}],
      [table |-> "promo_codes", ids |-> {Id("promo_codes", n) : n \in 1 .. 8}]>>

CleanupIds == UNION {Cleanup[n].ids : n \in DOMAIN Cleanup}
===============================================================================
