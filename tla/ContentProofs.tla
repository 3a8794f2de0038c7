----------------------------- MODULE ContentProofs -----------------------------
(* Theorems about Content, for any number of requests, connections, rows,   *)
(* titles, edits and failing statements.                                    *)
EXTENDS Content, FiniteSetTheorems, TLAPS

CreateOps == {"createCertificate", "createModule", "createLesson"}
EditOps   == {"update", "updateTranslations", "softDelete"}
Ops       == Learning \cup CreateOps \cup EditOps

Label == Ops \cup {"connect", "purchase", "find_progress", "save_progress", "read",
                   "insert", "clash", "write", "commit"}

FullJob == [pc : Label, who : Students \cup Staff, op : Ops \cup {"none"},
            id : Ids \cup {None}, edit : Edit \cup {None}, seen : Row \cup {None}]

-----------------------------------------------------------------------------
(* What a call holds.                                                      *)

\* What its operation was given ...
Given(j) ==
    /\ j.op \in CreateOps => j.edit \in Edit /\ j.edit.title \in Titles
    /\ j.op \in {"update", "updateTranslations"} => j.edit \in Edit
    /\ j.op \in EditOps => j.id \in Ids
    /\ j.op \in {"markComplete", "serveLesson"} => j.id \in Lessons
    /\ j.op \in Learning => j.who \in Students

\* ... and what it has found out by the label it is at.
Held(j) ==
    /\ j.pc = "connect" => j.op \in Ops
    /\ j.pc \in Ops => j.op = j.pc
    /\ j.pc = "purchase" => j.op \in Learning
    /\ j.pc \in {"find_progress", "save_progress"} => j.op = "markComplete"
    /\ j.pc = "insert" => j.op = "createCertificate"
    /\ j.pc = "clash" => j.op = "update" /\ j.seen \in Row
    /\ j.pc = "write" => j.op \in EditOps /\ j.seen \in Row

JobOK(j) == j = Idle \/ (j \in FullJob /\ Given(j) /\ Held(j))

\* Rows are not deleted, so the one a call edits stays there.
Found(j) == j # Idle /\ j.op \in EditOps => Exists(j.id)

JobsOK ==
    /\ job = [r \in Calls |-> job[r]]
    /\ \A r \in Calls : JobOK(job[r]) /\ Found(job[r])

ContentInv == TypeOK /\ JobsOK

LEMMA Labels ==
    /\ Learning = {"getCurriculum", "serveLesson", "markComplete", "getProgressSummary"}
    /\ "idle" \notin Label
    /\ Idle \notin FullJob /\ Idle.pc = "idle"
    /\ \A j \in FullJob : j # Idle /\ j.pc # "idle"
<1>1. "idle" \notin Label
  BY DEF Label, Ops, Learning, CreateOps, EditOps
<1>2. \A j \in FullJob : j.pc # "idle"
  BY <1>1 DEF FullJob
<1>3. Idle.pc = "idle"
  BY DEF Idle
<1> QED BY <1>1, <1>2, <1>3 DEF Learning

\* A call that goes on to label l with what it has.
LEMMA GotoJob ==
    ASSUME NEW j \in FullJob, Given(j), NEW l \in Label, Held([j EXCEPT !.pc = l])
    PROVE  /\ [j EXCEPT !.pc = l] \in FullJob
           /\ JobOK([j EXCEPT !.pc = l])
           /\ [j EXCEPT !.pc = l].pc = l
           /\ [j EXCEPT !.pc = l].who = j.who
           /\ [j EXCEPT !.pc = l].op = j.op
           /\ [j EXCEPT !.pc = l].id = j.id
           /\ [j EXCEPT !.pc = l].edit = j.edit
           /\ [j EXCEPT !.pc = l].seen = j.seen
<1>1. /\ [j EXCEPT !.pc = l] \in FullJob
      /\ [j EXCEPT !.pc = l].pc = l
      /\ [j EXCEPT !.pc = l].who = j.who
      /\ [j EXCEPT !.pc = l].op = j.op
      /\ [j EXCEPT !.pc = l].id = j.id
      /\ [j EXCEPT !.pc = l].edit = j.edit
      /\ [j EXCEPT !.pc = l].seen = j.seen
  BY DEF FullJob
<1> QED BY <1>1 DEF JobOK, Given

\* One that has returned.
LEMMA ReturnedJob ==
    ASSUME NEW who \in Students \cup Staff
    PROVE  /\ Returned(who) \in FullJob /\ JobOK(Returned(who))
           /\ Returned(who).pc = "commit" /\ Returned(who).who = who /\ Returned(who).op = "none"
<1>1. /\ Returned(who) \in FullJob
      /\ Returned(who).pc = "commit" /\ Returned(who).who = who /\ Returned(who).op = "none"
  BY DEF Returned, FullJob, Label
<1>2. "none" \notin Ops /\ "commit" \notin Ops
  BY DEF Ops, Learning, CreateOps, EditOps
<1> QED BY <1>1, <1>2 DEF JobOK, Given, Held, Ops

LEMMA JobMoves ==
    ASSUME JobsOK, NEW r \in Calls, NEW j, Proceed(r, j)
    PROVE  /\ job' = [q \in Calls |-> job'[q]]
           /\ job'[r] = j
           /\ \A q \in Calls \ {r} : job'[q] = job[q]
BY DEF JobsOK, Proceed

LEMMA JobsMove ==
    ASSUME JobsOK, NEW r \in Calls, NEW j, Proceed(r, j), JobOK(j),
           j # Idle /\ j.op \in EditOps => row'[j.id] # None,
           \A i \in Ids : Exists(i) => row'[i] # None
    PROVE  JobsOK'
<1>1. /\ job' = [q \in Calls |-> job'[q]] /\ job'[r] = j
      /\ \A q \in Calls \ {r} : job'[q] = job[q]
  BY JobMoves
<1>2. ASSUME NEW q \in Calls PROVE JobOK(job'[q]) /\ Found(job[q])'
  <2>1. CASE q = r
    BY <1>1, <2>1 DEF Found, Exists
  <2>2. CASE q # r
    <3>1. job'[q] = job[q] /\ JobOK(job[q]) /\ Found(job[q])
      BY <1>1, <2>2 DEF JobsOK
    <3>2. job[q] # Idle /\ job[q].op \in EditOps => job[q].id \in Ids
      BY <3>1 DEF JobOK, Given
    <3> QED BY <3>1, <3>2 DEF Found, Exists
  <2> QED BY <2>1, <2>2
<1> QED BY <1>1, <1>2 DEF JobsOK

-----------------------------------------------------------------------------
(* Types.                                                                  *)

\* TypeOK apart from the calls.
TablesOK ==
    /\ row \in [Ids -> Row \cup {None}]
    /\ completedAt \in [Students \X Lessons -> Nat \cup {None}]
    /\ writes \in Nat /\ drifted \subseteq Ids

PoolOK ==
    /\ owner \in [Conns -> Calls \cup {None}]
    /\ guc \in [Conns -> Students \cup Staff \cup {None}]
    /\ leaked \subseteq Conns

LEMMA InvParts == ContentInv <=> TablesOK /\ PoolOK /\ JobsOK
<1>1. JobsOK => \A r \in Calls : job[r] = Idle \/
                    /\ job[r].who \in Students \cup Staff
                    /\ job[r].id \in Ids \cup {None}
                    /\ job[r].edit \in Edit \cup {None}
                    /\ job[r].seen \in Row \cup {None}
  BY DEF JobsOK, JobOK, FullJob
<1> QED BY <1>1 DEF ContentInv, TypeOK, TablesOK, PoolOK

LEMMA PartsGiveInv == ASSUME TablesOK', PoolOK', JobsOK' PROVE ContentInv'
BY InvParts, PTL

\* A call that is not idle.
LEMMA JobAt ==
    ASSUME ContentInv, NEW r \in Calls, job[r].pc # "idle"
    PROVE  /\ job[r] \in FullJob /\ Given(job[r]) /\ Held(job[r])
           /\ job[r].pc \in Label /\ job[r].op \in Ops \cup {"none"}
           /\ job[r].who \in Students \cup Staff
           /\ job[r].op \in EditOps => /\ job[r].id \in Ids /\ Exists(job[r].id)
                                       /\ row[job[r].id] \in Row
<1>1. JobOK(job[r]) /\ Found(job[r]) /\ TablesOK
  BY InvParts DEF JobsOK
<1>2. job[r] # Idle
  BY Labels
<1>3. job[r] \in FullJob /\ Given(job[r]) /\ Held(job[r])
  BY <1>1, <1>2 DEF JobOK
<1> QED BY <1>1, <1>2, <1>3 DEF FullJob, Found, Given, Exists, TablesOK

\* A request that fails, whatever it is at.
LEMMA FailOK ==
    ASSUME ContentInv, NEW r \in Calls, Fail(r), UNCHANGED data
    PROVE  ContentInv'
<1>1. JobsOK'
  <2>1. Proceed(r, Idle) /\ JobOK(Idle) /\ \A i \in Ids : Exists(i) => row'[i] # None
    BY DEF Fail, JobOK, data, Exists
  <2> QED BY <2>1, InvParts, JobsMove
<1>2. PoolOK'
  BY InvParts DEF Fail, EndTransaction, PoolOK
<1>3. TablesOK'
  BY InvParts DEF TablesOK, data
<1> QED BY <1>1, <1>2, <1>3, PartsGiveInv

\* A request that goes on, or returns.
LEMMA MoveOK ==
    ASSUME ContentInv, NEW r \in Calls, job[r].pc # "idle", NEW j, Proceed(r, j), JobOK(j),
           j.op = "none" \/ (j.op = job[r].op /\ j.id = job[r].id),
           TablesOK', PoolOK',
           \A i \in Ids : Exists(i) => row'[i] # None
    PROVE  ContentInv'
<1>1. job[r] \in FullJob /\ (job[r].op \in EditOps => job[r].id \in Ids /\ Exists(job[r].id))
  BY JobAt
<1>2. "none" \notin EditOps
  BY DEF EditOps
<1>3. JobsOK'
  BY <1>1, <1>2, InvParts, JobsMove
<1> QED BY <1>3, PartsGiveInv

\* Its label is all that changes.
LEMMA GotoOK ==
    ASSUME ContentInv, NEW r \in Calls, job[r].pc # "idle", NEW l \in Label, Goto(r, l),
           Held([job[r] EXCEPT !.pc = l]),
           TablesOK', PoolOK',
           \A i \in Ids : Exists(i) => row'[i] # None
    PROVE  ContentInv'
<1> DEFINE j == [job[r] EXCEPT !.pc = l]
<1>1. job[r] \in FullJob /\ Given(job[r])
  BY JobAt
<1>2. JobOK(j) /\ j.op = job[r].op /\ j.id = job[r].id /\ Proceed(r, j)
  BY <1>1, GotoJob DEF Goto
<1> HIDE DEF j
<1> QED BY <1>2, MoveOK

LEMMA FinishOK ==
    ASSUME ContentInv, NEW r \in Calls, job[r].pc # "idle", Finish(r),
           TablesOK', PoolOK',
           \A i \in Ids : Exists(i) => row'[i] # None
    PROVE  ContentInv'
<1> DEFINE j == Returned(job[r].who)
<1>1. JobOK(j) /\ j.op = "none" /\ Proceed(r, j)
  BY JobAt, ReturnedJob DEF Finish
<1> HIDE DEF j
<1> QED BY <1>1, MoveOK

LEMMA TablesKept ==
    ASSUME ContentInv, UNCHANGED data
    PROVE  TablesOK' /\ \A i \in Ids : Exists(i) => row'[i] # None
BY InvParts DEF TablesOK, data, Exists

LEMMA PoolKept == ASSUME ContentInv, UNCHANGED pool PROVE PoolOK'
BY InvParts DEF PoolOK, pool

\* The actions of the interceptor.
LEMMA PoolStep ==
    ASSUME ContentInv, NEW r \in Calls,
           Begin(r) \/ BeginFails(r) \/ Commit(r) \/ AcquireTimeout(r) \/ StatementFails(r)
    PROVE  ContentInv'
<1>1. CASE Begin(r)
  <2>1. job[r].pc = "connect" /\ owner[NextFree] = None /\ NextFree \in Conns
    BY <1>1 DEF Begin, Statement, At, AnyFree, NextFree, IsFree
  <2>2. job[r].op \in Ops /\ job[r].who \in Students \cup Staff
    BY <2>1, JobAt DEF Held
  <2>3. TablesOK' /\ \A i \in Ids : Exists(i) => row'[i] # None
    BY <1>1, TablesKept DEF Begin
  <2>4. PoolOK'
    BY <1>1, <2>2, InvParts DEF PoolOK, Begin
  <2> DEFINE l == job[r].op
             j == [job[r] EXCEPT !.pc = l]
  <2>5. l \in Label
    BY <2>2 DEF Label
  <2>6. Held(j)
    <3>1. j.pc = l /\ j.op = l
      BY <2>1, JobAt DEF FullJob
    <3>2. l \in Ops /\ l \notin {"connect", "purchase", "find_progress", "save_progress",
                                 "read", "insert", "clash", "write", "commit"}
      BY <2>2 DEF Ops, Learning, CreateOps, EditOps
    <3> HIDE DEF l, j
    <3> QED BY <3>1, <3>2 DEF Held
  <2>7. Goto(r, l)
    BY <1>1 DEF Begin
  <2> HIDE DEF l
  <2> QED BY <2>1, <2>3, <2>4, <2>5, <2>6, <2>7, GotoOK
<1>2. CASE BeginFails(r)
  <2>1. Proceed(r, Idle) /\ JobOK(Idle) /\ UNCHANGED <<data, guc>>
    BY <1>2 DEF BeginFails, JobOK
  <2>2. leaked' \subseteq Conns /\ owner' \in [Conns -> Calls \cup {None}]
    <3>1. NextFree \in Conns
      BY <1>2 DEF BeginFails, Statement, AnyFree, NextFree
    <3> QED BY <1>2, <3>1, InvParts DEF BeginFails, PoolOK
  <2>3. TablesOK' /\ \A i \in Ids : Exists(i) => row'[i] # None
    BY <2>1, TablesKept
  <2>4. PoolOK'
    BY <2>1, <2>2, InvParts DEF PoolOK
  <2>5. JobsOK'
    BY <2>1, <2>3, InvParts, JobsMove
  <2> QED BY <2>3, <2>4, <2>5, PartsGiveInv
<1>3. CASE Commit(r) \/ AcquireTimeout(r) \/ StatementFails(r)
  BY <1>3, FailOK DEF Commit, AcquireTimeout, StatementFails
<1> QED BY <1>1, <1>2, <1>3

\* The handlers of the learning side.
LEMMA LearningStep ==
    ASSUME ContentInv, NEW r \in Calls,
           \/ FindLesson(r) \/ FindCertificate(r) \/ Read(r) \/ FindProgress(r) \/ SaveProgress(r)
           \/ \E c \in Conns : AssertPurchased(r, c) \/ FindPurchases(r, c)
    PROVE  ContentInv'
<1>0. job[r].pc # "idle"
  BY DEF FindLesson, FindCertificate, Read, FindProgress, SaveProgress, AssertPurchased,
         FindPurchases, Statement, At
<1>a. job[r] \in FullJob /\ Given(job[r]) /\ Held(job[r]) /\ job[r].who \in Students \cup Staff
  BY <1>0, JobAt
<1>1. ASSUME Fail(r), UNCHANGED data PROVE ContentInv'
  BY <1>1, FailOK
<1>2. ASSUME Finish(r), UNCHANGED <<data, pool>> PROVE ContentInv'
  BY <1>0, <1>2, FinishOK, TablesKept, PoolKept
<1>3. ASSUME NEW l \in {"purchase", "find_progress", "read", "save_progress"}, Goto(r, l),
             UNCHANGED <<data, pool>>,
             l = "purchase" => job[r].op \in Learning,
             l \in {"find_progress", "save_progress"} => job[r].op = "markComplete"
      PROVE  ContentInv'
  <2>1. l \in Label /\ l \notin Ops
    BY DEF Label, Ops, Learning, CreateOps, EditOps
  <2>2. Held([job[r] EXCEPT !.pc = l])
    BY <1>a, <1>3, <2>1 DEF Held, FullJob
  <2> QED BY <1>0, <1>3, <2>1, <2>2, GotoOK, TablesKept, PoolKept
<1>4. ASSUME FindLesson(r) \/ FindCertificate(r) PROVE ContentInv'
  <2>1. \/ Fail(r)
        \/ Goto(r, "purchase") /\ UNCHANGED pool
    BY <1>4 DEF FindLesson, FindCertificate
  <2>2. UNCHANGED data /\ job[r].pc \in {"serveLesson", "markComplete", "getCurriculum"}
    BY <1>4 DEF FindLesson, FindCertificate, Statement, At
  <2>3. job[r].op \in Learning
    BY <1>a, <2>2 DEF Held, Ops, Learning
  <2> QED BY <1>1, <1>3, <2>1, <2>2, <2>3
<1>5. ASSUME NEW c \in Conns, AssertPurchased(r, c) PROVE ContentInv'
  <2>1. \/ Fail(r)
        \/ job[r].op = "markComplete" /\ Goto(r, "find_progress") /\ UNCHANGED pool
        \/ Goto(r, "read") /\ UNCHANGED pool
    BY <1>5 DEF AssertPurchased
  <2>2. UNCHANGED data
    BY <1>5 DEF AssertPurchased
  <2> QED BY <1>1, <1>3, <2>1, <2>2
<1>6. ASSUME NEW c \in Conns, FindPurchases(r, c) PROVE ContentInv'
  BY <1>2, <1>3, <1>6 DEF FindPurchases
<1>7. ASSUME Read(r) PROVE ContentInv'
  BY <1>2, <1>7 DEF Read
<1>8. ASSUME FindProgress(r) PROVE ContentInv'
  <2>1. job[r].op = "markComplete"
    BY <1>a, <1>8 DEF FindProgress, Statement, At, Held
  <2> QED BY <1>2, <1>3, <1>8, <2>1 DEF FindProgress
<1>9. ASSUME SaveProgress(r) PROVE ContentInv'
  <2>1. job[r].who \in Students /\ job[r].id \in Lessons
    <3>1. job[r].op = "markComplete"
      BY <1>a, <1>9 DEF SaveProgress, Statement, At, Held
    <3> QED BY <1>a, <3>1 DEF Given, Learning
  <2>2. CASE completedAt[<<job[r].who, job[r].id>>] = None
    <3>1. /\ completedAt' = [completedAt EXCEPT ![<<job[r].who, job[r].id>>] = writes]
          /\ writes' = writes + 1 /\ Finish(r) /\ UNCHANGED <<row, drifted>> /\ UNCHANGED pool
      BY <1>9, <2>2 DEF SaveProgress
    <3>2. TablesOK'
      BY <2>1, <3>1, InvParts DEF TablesOK
    <3>3. \A i \in Ids : Exists(i) => row'[i] # None
      BY <3>1 DEF Exists
    <3> QED BY <1>0, <3>1, <3>2, <3>3, FinishOK, PoolKept
  <2>3. CASE completedAt[<<job[r].who, job[r].id>>] # None
    BY <1>1, <1>9, <2>3 DEF SaveProgress, data
  <2> QED BY <2>2, <2>3
<1> QED BY <1>4, <1>5, <1>6, <1>7, <1>8, <1>9

\* What the admins' bodies make of rows.
LEMMA RowsMade ==
    /\ \A e \in Edit : e.title \in Titles => CreatedRow(e) \in Row
    /\ \A now, seen \in Row, e \in Edit :
           Patch(now, seen, e) \in Row /\ PatchTranslations(now, seen, e) \in Row
    /\ \A now \in Row : [now EXCEPT !.active = FALSE] \in Row
    /\ None \notin Row /\ None \notin Calls
<1>1. /\ None \notin Headings /\ None \notin ProgramCodes /\ None \notin BOOLEAN
      /\ None \notin Row /\ None \notin Calls
      /\ Titles \subseteq Headings /\ Untitled \in Headings
  BY ContentAssumption DEF Headings
<1>2. ASSUME NEW e \in Edit
      PROVE  /\ e.code \in ProgramCodes \cup {None} /\ e.title \in Titles \cup {None}
             /\ e.en \in Headings \cup {None} /\ e.other \in Headings \cup {None}
             /\ e.active \in BOOLEAN \cup {None}
  BY DEF Edit
<1>3. ASSUME NEW now \in Row
      PROVE  /\ now.code \in ProgramCodes \cup {None} /\ now.title \in Titles
             /\ now.en \in Headings /\ now.other \in Headings /\ now.active \in BOOLEAN
  BY DEF Row
<1>4. \A e \in Edit : e.title \in Titles => CreatedRow(e) \in Row
  BY <1>1, <1>2 DEF CreatedRow, BuildTranslations, Or, Row
<1>5. ASSUME NEW now \in Row, NEW seen \in Row, NEW e \in Edit
      PROVE  Patch(now, seen, e) \in Row
  BY <1>1, <1>2, <1>3 DEF Patch, BuildTranslations, Or, Row
<1>6. ASSUME NEW now \in Row, NEW seen \in Row, NEW e \in Edit
      PROVE  PatchTranslations(now, seen, e) \in Row
  <2> DEFINE en == Or(e.en, seen.en)
             other == Or(e.other, seen.other)
             title == IF en \notin {Untitled, seen.title} THEN en ELSE now.title
  <2>1. en \in Headings /\ other \in Headings
    BY <1>1, <1>2, <1>3 DEF Or
  <2>2. title \in Titles
    BY <1>3, <2>1 DEF Headings
  <2>3. PatchTranslations(now, seen, e) = [now EXCEPT !.en = en, !.other = other, !.title = title]
    BY DEF PatchTranslations
  <2> HIDE DEF en, other, title
  <2>4. [now EXCEPT !.en = en, !.other = other, !.title = title] \in Row
    BY <2>1, <2>2 DEF Row
  <2> QED BY <2>3, <2>4
<1>7. \A now \in Row : [now EXCEPT !.active = FALSE] \in Row
  BY DEF Row
<1> QED BY <1>1, <1>4, <1>5, <1>6, <1>7

LEMMA RowWritten ==
    ASSUME ContentInv, NEW r \in Calls, job[r].pc # "idle", Finish(r),
           NEW i \in Ids, NEW new \in Row, row' = [row EXCEPT ![i] = new],
           writes' = writes + 1, drifted' \subseteq Ids, UNCHANGED <<completedAt, pool>>
    PROVE  ContentInv'
<1>1. TablesOK'
  BY InvParts DEF TablesOK
<1>2. \A k \in Ids : Exists(k) => row'[k] # None
  BY InvParts, RowsMade DEF TablesOK, Exists
<1> QED BY <1>1, <1>2, FinishOK, PoolKept

LEMMA InsertOK ==
    ASSUME ContentInv, NEW r \in Calls, job[r].pc # "idle", job[r].op \in CreateOps,
           NEW kind \in SUBSET Ids, Insert(r, kind)
    PROVE  ContentInv'
<1> DEFINE i == CHOOSE k \in kind : ~Exists(k)
           new == CreatedRow(job[r].edit)
<1>1. i \in Ids
  BY DEF Insert
<1>2. job[r].edit \in Edit /\ job[r].edit.title \in Titles
  BY JobAt DEF Given
<1>3. new \in Row
  BY <1>2, RowsMade
<1>4. /\ row' = [row EXCEPT ![i] = new]
      /\ writes' = writes + 1 /\ Finish(r) /\ UNCHANGED <<completedAt, pool>>
  BY DEF Insert
<1>5. drifted' \subseteq Ids
  <2>1. drifted' \subseteq drifted \cup {i}
    BY DEF Insert
  <2> QED BY <1>1, <2>1, InvParts DEF TablesOK
<1> HIDE DEF i, new
<1> QED BY <1>1, <1>3, <1>4, <1>5, RowWritten

\* The handlers of the admins.
LEMMA AdminStep ==
    ASSUME ContentInv, NEW r \in Calls,
           \/ CreateCheck(r) \/ CreateCertificate(r) \/ CreateModule(r) \/ CreateLesson(r)
           \/ ReadRow(r) \/ Clash(r) \/ WriteRow(r)
    PROVE  ContentInv'
<1>0. job[r].pc # "idle"
  BY DEF CreateCheck, CreateCertificate, CreateModule, CreateLesson, ReadRow, Clash, WriteRow,
         Statement, At
<1>a. /\ job[r] \in FullJob /\ Given(job[r]) /\ Held(job[r])
      /\ job[r].op \in EditOps => /\ job[r].id \in Ids /\ Exists(job[r].id)
                                  /\ row[job[r].id] \in Row
  BY <1>0, JobAt
<1>b. Certs \subseteq Ids /\ Modules \subseteq Ids /\ Lessons \subseteq Ids
  BY DEF Ids
<1>1. ASSUME Fail(r), UNCHANGED data PROVE ContentInv'
  BY <1>1, FailOK
<1>2. ASSUME NEW l \in {"insert", "write"}, Goto(r, l), UNCHANGED <<data, pool>>,
             l = "insert" => job[r].op = "createCertificate",
             l = "write" => job[r].op \in EditOps /\ job[r].seen \in Row
      PROVE  ContentInv'
  <2>1. l \in Label /\ l \notin Ops
    BY DEF Label, Ops, Learning, CreateOps, EditOps
  <2>2. Held([job[r] EXCEPT !.pc = l])
    BY <1>a, <1>2, <2>1 DEF Held, FullJob
  <2> QED BY <1>0, <1>2, <2>1, <2>2, GotoOK, TablesKept, PoolKept
<1>3. ASSUME CreateCheck(r) PROVE ContentInv'
  <2>1. job[r].op = "createCertificate"
    BY <1>a, <1>3 DEF CreateCheck, Statement, At, Held, Ops, CreateOps
  <2> QED BY <1>1, <1>2, <1>3, <2>1 DEF CreateCheck
<1>4. ASSUME CreateCertificate(r) PROVE ContentInv'
  <2>1. job[r].op \in CreateOps /\ Insert(r, Certs)
    BY <1>a, <1>4 DEF CreateCertificate, Statement, At, Held, CreateOps
  <2> QED BY <1>0, <1>b, <2>1, InsertOK
<1>5. ASSUME CreateModule(r) \/ CreateLesson(r) PROVE ContentInv'
  <2>1. job[r].op \in CreateOps
    BY <1>a, <1>5 DEF CreateModule, CreateLesson, Statement, At, Held, Ops, CreateOps
  <2>2. Insert(r, Modules) \/ Insert(r, Lessons) \/ (Fail(r) /\ UNCHANGED data)
    BY <1>5 DEF CreateModule, CreateLesson, CreateUnder
  <2> QED BY <1>0, <1>1, <1>b, <2>1, <2>2, InsertOK
<1>6. ASSUME ReadRow(r) PROVE ContentInv'
  <2>1. job[r].pc \in EditOps /\ job[r].op = job[r].pc
    BY <1>a, <1>6 DEF ReadRow, Held, Ops, EditOps
  <2>2. PICK l \in {"clash", "write"} :
            /\ Proceed(r, [job[r] EXCEPT !.seen = row[job[r].id], !.pc = l])
            /\ l = "clash" => job[r].op = "update"
    BY <2>1, <1>6 DEF ReadRow
  <2> DEFINE j == [job[r] EXCEPT !.seen = row[job[r].id], !.pc = l]
  <2>3. l \in Label /\ l \notin Ops
    BY DEF Label, Ops, Learning, CreateOps, EditOps
  <2>4. /\ j \in FullJob /\ j.pc = l /\ j.op = job[r].op /\ j.id = job[r].id
        /\ j.edit = job[r].edit /\ j.seen = row[job[r].id] /\ j.who = job[r].who
    BY <1>a, <2>1, <2>3 DEF FullJob
  <2>5. Given(j)
    <3> HIDE DEF j
    <3> QED BY <1>a, <2>4 DEF Given
  <2>6. Held(j)
    <3> HIDE DEF j
    <3> QED BY <1>a, <2>1, <2>2, <2>3, <2>4 DEF Held
  <2>7. JobOK(j)
    <3> HIDE DEF j
    <3> QED BY <2>4, <2>5, <2>6 DEF JobOK
  <2>8. Proceed(r, j) /\ UNCHANGED <<data, pool>>
    BY <1>6, <2>2 DEF ReadRow
  <2> HIDE DEF j
  <2> QED BY <1>0, <2>4, <2>7, <2>8, MoveOK, TablesKept, PoolKept
<1>7. ASSUME Clash(r) PROVE ContentInv'
  <2>1. job[r].op \in EditOps /\ job[r].seen \in Row
    BY <1>a, <1>7 DEF Clash, Statement, At, Held, EditOps
  <2> QED BY <1>1, <1>2, <1>7, <2>1 DEF Clash
<1>8. ASSUME WriteRow(r) PROVE ContentInv'
  <2> DEFINE i == job[r].id
             new == CASE job[r].op = "update"             -> Patch(row[i], job[r].seen, job[r].edit)
                      [] job[r].op = "updateTranslations" -> PatchTranslations(row[i], job[r].seen, job[r].edit)
                      [] job[r].op = "softDelete"         -> [row[i] EXCEPT !.active = FALSE]
  <2>1. job[r].op \in EditOps /\ job[r].seen \in Row
    BY <1>a, <1>8 DEF WriteRow, Statement, At, Held
  <2>2. i \in Ids /\ row[i] \in Row
    BY <1>a, <2>1
  <2>3. new \in Row
    <3>1. job[r].op # "softDelete" => job[r].edit \in Edit
      BY <1>a, <2>1 DEF Given, EditOps
    <3>2. CASE job[r].op = "update"
      <4>1. new = Patch(row[i], job[r].seen, job[r].edit)
        BY <3>2
      <4> QED BY <2>1, <2>2, <3>1, <3>2, <4>1, RowsMade
    <3>3. CASE job[r].op = "updateTranslations"
      <4>1. new = PatchTranslations(row[i], job[r].seen, job[r].edit)
        BY <3>3
      <4> QED BY <2>1, <2>2, <3>1, <3>3, <4>1, RowsMade
    <3>4. CASE job[r].op = "softDelete"
      <4>1. new = [row[i] EXCEPT !.active = FALSE]
        BY <3>4
      <4> QED BY <2>2, <4>1, RowsMade
    <3> QED BY <2>1, <3>2, <3>3, <3>4 DEF EditOps
  <2>4. row' = [row EXCEPT ![i] = new] /\ writes' = writes + 1 /\ Finish(r)
        /\ UNCHANGED <<completedAt, pool>>
    BY <1>8 DEF WriteRow
  <2>5. drifted' \subseteq Ids
    BY <1>8, <2>2, InvParts DEF WriteRow, TablesOK
  <2> HIDE DEF i, new
  <2> QED BY <1>0, <2>2, <2>3, <2>4, <2>5, RowWritten
<1> QED BY <1>3, <1>4, <1>5, <1>6, <1>7, <1>8

\* A request that the guards let through.
LEMMA ArriveOK ==
    ASSUME ContentInv, NEW r \in Calls, NEW who \in Students \cup Staff, NEW op \in Ops,
           NEW id \in Ids \cup {None}, NEW edit \in Edit \cup {None}, Arrive(r, who, op, id, edit),
           op \in CreateOps => edit \in Edit /\ edit.title \in Titles,
           op \in {"update", "updateTranslations"} => edit \in Edit,
           op \in EditOps => id \in Ids /\ Exists(id),
           op \in {"markComplete", "serveLesson"} => id \in Lessons
    PROVE  ContentInv'
<1> DEFINE j == [pc |-> "connect", who |-> who, op |-> op, id |-> id, edit |-> edit, seen |-> None]
<1>1. j \in FullJob
  BY DEF FullJob, Label
<1>2. op \in Learning => who \in Students
  <2>1. op \in Learning => Required(op) = Students
    BY DEF Required, Learning
  <2> QED BY <2>1 DEF Arrive
<1>3. Given(j)
  BY <1>2 DEF Given
<1>4. Held(j)
  BY DEF Held, Ops, Learning, CreateOps, EditOps
<1>5. /\ JobOK(j) /\ j.op = op /\ j.id = id
      /\ Proceed(r, j) /\ UNCHANGED <<data, pool>>
  BY <1>1, <1>3, <1>4 DEF JobOK, Arrive
<1> HIDE DEF j
<1>6. TablesOK' /\ PoolOK' /\ \A i \in Ids : Exists(i) => row'[i] # None
  BY <1>5, TablesKept, PoolKept
<1>7. JobsOK'
  BY <1>5, <1>6, InvParts, JobsMove DEF Exists
<1> QED BY <1>6, <1>7, PartsGiveInv

LEMMA RequestStep ==
    ASSUME ContentInv, NEW r \in Calls, Request(r)
    PROVE  ContentInv'
<1> USE DEF Ops, Learning, CreateOps, EditOps
<1>1. ASSUME NEW who \in Students, NEW i \in Lessons,
             Arrive(r, who, "markComplete", i, None) \/ Arrive(r, who, "serveLesson", i, None)
      PROVE  ContentInv'
  <2>1. i \in Ids
    BY DEF Ids
  <2> QED BY <1>1, <2>1, ArriveOK
<1>2. ASSUME NEW who \in Students, NEW i \in Certs, Arrive(r, who, "getCurriculum", i, None)
      PROVE  ContentInv'
  BY <1>2, ArriveOK DEF Ids
<1>3. ASSUME NEW who \in Students, Arrive(r, who, "getProgressSummary", None, None)
      PROVE  ContentInv'
  BY <1>3, ArriveOK
<1>4. ASSUME NEW who \in Staff, NEW e \in Bodies,
             \/ Create(r, who, "createCertificate", e, Certs)
             \/ Create(r, who, "createModule", e, Modules)
             \/ Create(r, who, "createLesson", e, Lessons)
      PROVE  ContentInv'
  <2>1. e \in Edit /\ e.title \in Titles
    BY ContentAssumption DEF Edit
  <2> QED BY <1>4, <2>1, ArriveOK DEF Create
<1>5. ASSUME NEW who \in Staff, NEW i \in Ids, Exists(i), NEW e \in Edits[i],
             Arrive(r, who, "update", i, e) \/ Arrive(r, who, "updateTranslations", i, e)
      PROVE  ContentInv'
  <2>1. e \in Edit
    BY ContentAssumption
  <2> QED BY <1>5, <2>1, ArriveOK
<1>6. ASSUME NEW who \in Staff, NEW i \in Ids, Exists(i), Arrive(r, who, "softDelete", i, None)
      PROVE  ContentInv'
  BY <1>6, ArriveOK
<1> QED BY <1>1, <1>2, <1>3, <1>4, <1>5, <1>6 DEF Request, Ids

LEMMA ContentInit == Init => ContentInv
<1> SUFFICES ASSUME Init PROVE ContentInv
  OBVIOUS
<1>1. \A i \in Ids : SeededRow(i) \in Row
  BY ContentAssumption DEF SeededRow, Row, Headings
<1>2. TablesOK /\ PoolOK
  BY <1>1 DEF Init, TablesOK, PoolOK
<1>3. JobsOK
  BY DEF Init, JobsOK, JobOK, Found
<1> QED BY <1>2, <1>3, InvParts

LEMMA ContentStep == ContentInv /\ [Next]_vars => ContentInv'
<1>1. ContentInv /\ UNCHANGED vars => ContentInv'
  BY DEF vars, data, pool, ContentInv, TypeOK, JobsOK, Found, Exists
<1> QED BY <1>1, PoolStep, LearningStep, AdminStep, RequestStep DEF Next, Step, Failure

\* Content!TypeOK: no body, with whatever translations blocks, titled or not,
\* leaves a row without a canonical title or its active flag, and no racing
\* edit writes one.
THEOREM TypesKept == Spec => []TypeOK
<1>1. ContentInv => TypeOK
  BY DEF ContentInv
<1> QED BY <1>1, ContentInit, ContentStep, PTL DEF Spec

-----------------------------------------------------------------------------
(* Connections and identities.                                             *)

\* Labels at which a call has no connection of its own.
Outside == {"idle", "connect"}

\* A connection that serves a call carries that call's identity, and the call
\* is past its BEGIN; any other carries none ...
HoldersKnown ==
    \A c \in Conns :
        /\ owner[c] = None => guc[c] = None
        /\ c \in leaked => owner[c] # None /\ guc[c] = None
        /\ owner[c] # None /\ c \notin leaked => /\ job[owner[c]].pc \notin Outside
                                                 /\ guc[c] = job[owner[c]].who

\* ... and every call past its BEGIN has one.
OneEach ==
    \A r \in Calls : job[r].pc \notin Outside =>
        \E c \in Conns : Holds(r, c) /\ \A d \in Conns : Holds(r, d) => d = c

\* A step of a call that neither takes nor returns a connection.
Moves(r) ==
    /\ UNCHANGED pool
    /\ \E j : /\ Proceed(r, j)
              /\ \/ job[r].pc \in Outside /\ j.pc \in Outside
                 \/ job[r].pc \notin Outside /\ j.pc \notin Outside /\ j.who = job[r].who

LEMMA CallSteps ==
    ASSUME ContentInv, NEW r \in Calls, Request(r) \/ Step(r) \/ Failure(r)
    PROVE  Begin(r) \/ BeginFails(r) \/ Fail(r) \/ Moves(r)
<1>1. ASSUME NEW l, l \notin Outside, Goto(r, l), UNCHANGED pool,
             job[r].pc \notin Outside
      PROVE  Moves(r)
  <2>1. job[r] \in FullJob
    BY <1>1, JobAt DEF Outside
  <2>2. [job[r] EXCEPT !.pc = l].pc = l /\ [job[r] EXCEPT !.pc = l].who = job[r].who
    BY <2>1 DEF FullJob
  <2> QED BY <1>1, <2>2 DEF Moves, Goto
<1>2. ASSUME Finish(r), UNCHANGED pool, job[r].pc \notin Outside
      PROVE  Moves(r)
  <2>1. Returned(job[r].who).pc \notin Outside /\ Returned(job[r].who).who = job[r].who
    BY DEF Returned, Outside
  <2> QED BY <1>2, <2>1 DEF Moves, Finish
<1>3. ASSUME NEW who, NEW op, NEW id, NEW edit, Arrive(r, who, op, id, edit)
      PROVE  Moves(r)
  BY <1>3, Labels DEF Arrive, Moves, Outside
<1>4. Request(r) => Moves(r)
  BY <1>3 DEF Request, Create
<1>5. StatementFails(r) \/ Commit(r) \/ AcquireTimeout(r) => Fail(r)
  BY DEF StatementFails, Commit, AcquireTimeout
<1>7. ASSUME \/ FindLesson(r) \/ FindCertificate(r) \/ Read(r) \/ FindProgress(r) \/ SaveProgress(r)
             \/ \E c \in Conns : AssertPurchased(r, c) \/ FindPurchases(r, c)
      PROVE  Fail(r) \/ Moves(r)
  <2>1. job[r].pc \notin Outside
    BY <1>7 DEF FindLesson, FindCertificate, Read, FindProgress, SaveProgress, AssertPurchased,
                FindPurchases, Statement, At, Outside
  <2>2. \/ Fail(r)
        \/ Finish(r) /\ UNCHANGED pool
        \/ \E l \in {"purchase", "find_progress", "read", "save_progress"} :
               Goto(r, l) /\ UNCHANGED pool
    BY <1>7 DEF FindLesson, FindCertificate, Read, FindProgress, SaveProgress, AssertPurchased,
                FindPurchases
  <2> QED BY <1>1, <1>2, <2>1, <2>2 DEF Outside
<1>8. ASSUME \/ CreateCheck(r) \/ CreateCertificate(r) \/ CreateModule(r) \/ CreateLesson(r)
             \/ Clash(r) \/ WriteRow(r)
      PROVE  Fail(r) \/ Moves(r)
  <2>1. job[r].pc \notin Outside
    BY <1>8 DEF CreateCheck, CreateCertificate, CreateModule, CreateLesson, Clash, WriteRow,
                Statement, At, Outside
  <2>2. \/ Fail(r)
        \/ Finish(r) /\ UNCHANGED pool
        \/ \E l \in {"insert", "write"} : Goto(r, l) /\ UNCHANGED pool
    BY <1>8 DEF CreateCheck, CreateCertificate, CreateModule, CreateLesson, CreateUnder, Insert,
                Clash, WriteRow
  <2> QED BY <1>1, <1>2, <2>1, <2>2 DEF Outside
<1>6. ASSUME ReadRow(r) PROVE Moves(r)
  <2>1. job[r].pc \notin Outside
    BY <1>6 DEF ReadRow, Outside
  <2>2. job[r] \in FullJob
    BY <2>1, JobAt DEF Outside
  <2>3. PICK l \in {"clash", "write"} :
            Proceed(r, [job[r] EXCEPT !.seen = row[job[r].id], !.pc = l])
    BY <1>6, <2>2 DEF ReadRow, FullJob
  <2> DEFINE j == [job[r] EXCEPT !.seen = row[job[r].id], !.pc = l]
  <2>4. j.pc = l /\ j.who = job[r].who /\ Proceed(r, j)
    BY <2>2, <2>3 DEF FullJob
  <2> HIDE DEF j
  <2> QED BY <1>6, <2>1, <2>4 DEF Moves, ReadRow, Outside
<1> QED BY <1>4, <1>5, <1>6, <1>7, <1>8 DEF Step, Failure

LEMMA PoolInvStep ==
    ASSUME ContentInv, HoldersKnown, OneEach, [Next]_vars
    PROVE  HoldersKnown' /\ OneEach'
<1>0. /\ owner \in [Conns -> Calls \cup {None}] /\ None \notin Calls
      /\ guc \in [Conns -> Students \cup Staff \cup {None}] /\ JobsOK
  BY InvParts, RowsMade DEF PoolOK
<1>1. ASSUME NEW r \in Calls, Begin(r) PROVE HoldersKnown' /\ OneEach'
  <2> DEFINE c == NextFree
             j == [job[r] EXCEPT !.pc = job[r].op]
  <2>1. /\ c \in Conns /\ owner[c] = None /\ job[r].pc = "connect" /\ leaked' = leaked
        /\ owner' = [owner EXCEPT ![c] = r] /\ guc' = [guc EXCEPT ![c] = job[r].who]
        /\ Proceed(r, j)
    BY <1>1 DEF Begin, Goto, Statement, At, AnyFree, NextFree, IsFree
  <2>2. j.pc \notin Outside /\ j.who = job[r].who
    <3>1. job[r] \in FullJob /\ job[r].op \in Ops
      BY <2>1, JobAt DEF Held
    <3> QED BY <3>1 DEF FullJob, Outside, Ops, Learning, CreateOps, EditOps
  <2> HIDE DEF c, j
  <2>3. job'[r] = j /\ \A q \in Calls \ {r} : job'[q] = job[q]
    BY <1>0, <2>1, JobMoves
  <2>4. \A d \in Conns : ~Holds(r, d)
    BY <1>0, <2>1 DEF HoldersKnown, Holds, Outside
  <2>5. c \notin leaked /\ \A d \in Conns : owner'[d] = IF d = c THEN r ELSE owner[d]
    BY <1>0, <2>1 DEF HoldersKnown
  <2>6. HoldersKnown'
    <3>1. ASSUME NEW d \in Conns
          PROVE  /\ owner'[d] = None => guc'[d] = None
                 /\ d \in leaked' => owner'[d] # None /\ guc'[d] = None
                 /\ owner'[d] # None /\ d \notin leaked' => /\ job'[owner'[d]].pc \notin Outside
                                                            /\ guc'[d] = job'[owner'[d]].who
      <4>1. CASE d = c
        BY <1>0, <2>1, <2>2, <2>3, <2>5, <4>1
      <4>2. CASE d # c
        BY <1>0, <2>1, <2>3, <2>4, <2>5, <4>2 DEF HoldersKnown, Holds
      <4> QED BY <4>1, <4>2
    <3> QED BY <3>1 DEF HoldersKnown
  <2>7. \A q \in Calls, d \in Conns : Holds(q, d)' <=> Holds(q, d) \/ (q = r /\ d = c)
    BY <1>0, <2>1, <2>4, <2>5 DEF Holds
  <2>8. OneEach'
    <3>1. ASSUME NEW q \in Calls, job'[q].pc \notin Outside
          PROVE  \E d \in Conns : Holds(q, d)' /\ \A e \in Conns : Holds(q, e)' => e = d
      <4>1. CASE q = r
        BY <2>1, <2>4, <2>7, <4>1
      <4>2. CASE q # r
        <5>1. PICK d \in Conns : Holds(q, d) /\ \A e \in Conns : Holds(q, e) => e = d
          BY <2>3, <3>1, <4>2 DEF OneEach
        <5> QED BY <2>7, <4>2, <5>1
      <4> QED BY <4>1, <4>2
    <3> QED BY <3>1 DEF OneEach
  <2> QED BY <2>6, <2>8
<1>2. ASSUME NEW r \in Calls, BeginFails(r) PROVE HoldersKnown' /\ OneEach'
  <2> DEFINE c == NextFree
  <2>1. /\ c \in Conns /\ owner[c] = None /\ job[r].pc = "connect"
        /\ owner' = [owner EXCEPT ![c] = r] /\ leaked' = leaked \cup {c} /\ guc' = guc
        /\ Proceed(r, Idle)
    BY <1>2 DEF BeginFails, Statement, At, AnyFree, NextFree, IsFree
  <2> HIDE DEF c
  <2>2. /\ job'[r] = Idle /\ \A q \in Calls \ {r} : job'[q] = job[q]
        /\ Idle.pc \in Outside
    BY <1>0, <2>1, JobMoves, Labels DEF Outside
  <2>3. \A d \in Conns : /\ owner'[d] = IF d = c THEN r ELSE owner[d]
                         /\ ~Holds(r, d)
    BY <1>0, <2>1 DEF HoldersKnown, Holds, Outside
  <2>4. HoldersKnown'
    <3>1. ASSUME NEW d \in Conns
          PROVE  /\ owner'[d] = None => guc'[d] = None
                 /\ d \in leaked' => owner'[d] # None /\ guc'[d] = None
                 /\ owner'[d] # None /\ d \notin leaked' => /\ job'[owner'[d]].pc \notin Outside
                                                            /\ guc'[d] = job'[owner'[d]].who
      <4>1. CASE d = c
        BY <1>0, <2>1, <2>3, <4>1 DEF HoldersKnown
      <4>2. CASE d # c
        BY <1>0, <2>1, <2>2, <2>3, <4>2 DEF HoldersKnown, Holds
      <4> QED BY <4>1, <4>2
    <3> QED BY <3>1 DEF HoldersKnown
  <2>5. \A q \in Calls, d \in Conns : Holds(q, d)' <=> Holds(q, d)
    BY <1>0, <2>1, <2>3 DEF Holds
  <2>6. OneEach'
    BY <2>2, <2>5 DEF OneEach
  <2> QED BY <2>4, <2>6
<1>3. ASSUME NEW r \in Calls, Fail(r) PROVE HoldersKnown' /\ OneEach'
  <2>1. /\ \A c \in Conns : owner'[c] = IF Holds(r, c) THEN None ELSE owner[c]
        /\ \A c \in Conns : guc'[c] = IF Holds(r, c) THEN None ELSE guc[c]
        /\ leaked' = leaked
    BY <1>3 DEF Fail, EndTransaction
  <2>2. job'[r] = Idle /\ \A q \in Calls \ {r} : job'[q] = job[q]
    BY <1>0, <1>3, JobMoves DEF Fail
  <2>3. Idle.pc \in Outside
    BY Labels DEF Outside
  <2>4. HoldersKnown'
    BY <1>0, <2>1, <2>2 DEF HoldersKnown, Holds
  <2>5. \A q \in Calls \ {r}, d \in Conns : Holds(q, d)' <=> Holds(q, d)
    BY <1>0, <2>1 DEF Holds
  <2>6. OneEach'
    BY <2>2, <2>3, <2>5 DEF OneEach
  <2> QED BY <2>4, <2>6
<1>4. ASSUME NEW r \in Calls, Moves(r) PROVE HoldersKnown' /\ OneEach'
  <2>1. PICK j : /\ Proceed(r, j)
                 /\ \/ job[r].pc \in Outside /\ j.pc \in Outside
                    \/ job[r].pc \notin Outside /\ j.pc \notin Outside /\ j.who = job[r].who
    BY <1>4 DEF Moves
  <2>2. owner' = owner /\ guc' = guc /\ leaked' = leaked
    BY <1>4 DEF Moves, pool
  <2>3. job'[r] = j /\ \A q \in Calls \ {r} : job'[q] = job[q]
    BY <1>0, <2>1, JobMoves
  <2> QED BY <1>0, <2>1, <2>2, <2>3 DEF HoldersKnown, OneEach, Holds
<1>5. UNCHANGED vars => HoldersKnown' /\ OneEach'
  BY DEF vars, pool, HoldersKnown, OneEach, Holds
<1> QED BY <1>1, <1>2, <1>3, <1>4, <1>5, CallSteps DEF Next

LEMMA PoolInvInit == Init => HoldersKnown /\ OneEach
BY Labels DEF Init, HoldersKnown, OneEach, Outside

\* RlsInterceptor: set_config(..., true) ends with the transaction, so no
\* connection goes back to the pool with an identity, and none in a request has
\* another's.
THEOREM IdentityKept == Spec => []IdentityIsolated
<1>1. HoldersKnown => IdentityIsolated
  BY DEF HoldersKnown, IdentityIsolated
<1> QED BY <1>1, ContentInit, ContentStep, PoolInvInit, PoolInvStep, PTL DEF Spec

\* RlsInterceptor's finally: once its BEGIN succeeded, a request holds one
\* connection until its answer and returns it, also when the commit or a
\* statement fails.  One whose BEGIN failed keeps the connection for ever: BEGIN
\* stands before the try.
THEOREM ConnectionsReleased == Spec => []ConnectionsReturn
<1>1. ASSUME ContentInv, HoldersKnown, OneEach PROVE ConnectionsReturn
  <2>1. ASSUME NEW r \in Calls
        PROVE  Cardinality({c \in Conns : owner[c] = r} \ leaked)
                   = IF job[r].pc \in {"idle", "connect"} THEN 0 ELSE 1
    <3>1. CASE job[r].pc \in Outside
      <4>1. {c \in Conns : owner[c] = r} \ leaked = {}
        BY <1>1, <3>1, RowsMade DEF HoldersKnown
      <4> QED BY <3>1, <4>1, FS_EmptySet DEF Outside
    <3>2. CASE job[r].pc \notin Outside
      <4>1. PICK c \in Conns : Holds(r, c) /\ \A d \in Conns : Holds(r, d) => d = c
        BY <1>1, <3>2 DEF OneEach
      <4>2. {d \in Conns : owner[d] = r} \ leaked = {c}
        BY <4>1 DEF Holds
      <4> QED BY <3>2, <4>2, FS_Singleton DEF Outside
    <3> QED BY <3>1, <3>2
  <2>2. \A c \in leaked : owner[c] # None
    BY <1>1, InvParts DEF HoldersKnown, PoolOK
  <2> QED BY <2>1, <2>2 DEF ConnectionsReturn
<1> QED BY <1>1, ContentInit, ContentStep, PoolInvInit, PoolInvStep, PTL DEF Spec

-----------------------------------------------------------------------------
(* Purchases and completions.                                              *)

\* The labels behind the purchase.
Paid == {"read", "find_progress", "save_progress"}

\* What a step does to the completions, and who gets behind the purchase.
LEMMA PaidSteps ==
    ASSUME ContentInv, NEW r \in Calls, Request(r) \/ Step(r) \/ Failure(r)
    PROVE  /\ \/ UNCHANGED completedAt
              \/ /\ job[r].pc = "save_progress"
                 /\ completedAt[<<job[r].who, job[r].id>>] = None
                 /\ completedAt' = [completedAt EXCEPT ![<<job[r].who, job[r].id>>] = writes]
           /\ job'[r].pc \in Paid => /\ job'[r].who = job[r].who
                                     /\ job[r].pc \in Paid \/ job[r].who = Buyer
           /\ \A q \in Calls \ {r} : job'[q] = job[q]
<1>0. JobsOK
  BY InvParts
<1>1. \A q \in Calls \ {r} : job'[q] = job[q]
  <2>1. \E j : Proceed(r, j)
    <3>1. CASE Begin(r) \/ BeginFails(r)
      BY <3>1 DEF Begin, BeginFails, Goto
    <3> QED BY <3>1, CallSteps DEF Fail, Moves
  <2> QED BY <1>0, <2>1, JobMoves
<1>2. \/ UNCHANGED completedAt
      \/ /\ job[r].pc = "save_progress"
         /\ completedAt[<<job[r].who, job[r].id>>] = None
         /\ completedAt' = [completedAt EXCEPT ![<<job[r].who, job[r].id>>] = writes]
  <2>1. CASE SaveProgress(r)
    BY <2>1 DEF SaveProgress, Statement, At
  <2>2. CASE Request(r) \/ Failure(r)
    BY <2>2 DEF Request, Create, Arrive, Failure, StatementFails, BeginFails, data
  <2>3. CASE Step(r) /\ ~SaveProgress(r)
    BY <2>3 DEF Step, Begin, FindLesson, FindCertificate, Read, AssertPurchased, FindPurchases,
                FindProgress, CreateCheck, CreateCertificate, CreateModule, CreateLesson,
                CreateUnder, Insert, ReadRow, Clash, WriteRow, Commit, AcquireTimeout, data
  <2> QED BY <2>1, <2>2, <2>3
<1>3. ASSUME job'[r].pc \in Paid
      PROVE  job'[r].who = job[r].who /\ (job[r].pc \in Paid \/ job[r].who = Buyer)
  <2>1. ASSUME NEW j, Proceed(r, j), j.pc \notin Paid PROVE FALSE
    BY <1>0, <1>3, <2>1, JobMoves
  <2>2. ASSUME NEW l, l \notin Paid, Goto(r, l), job[r].pc # "idle" PROVE FALSE
    <3>1. [job[r] EXCEPT !.pc = l].pc = l
      BY <2>2, JobAt DEF FullJob
    <3> QED BY <2>1, <2>2, <3>1 DEF Goto
  <2>3. ~Finish(r)
    BY <2>1 DEF Finish, Returned, Paid
  <2>4. ~Proceed(r, Idle)
    BY <2>1, Labels DEF Paid
  <2>5. ~Fail(r)
    BY <2>4 DEF Fail
  <2>6. ASSUME NEW l, Goto(r, l), job[r].pc # "idle" PROVE job'[r].who = job[r].who
    <3>1. [job[r] EXCEPT !.pc = l].who = job[r].who
      BY <2>6, JobAt DEF FullJob
    <3> QED BY <1>0, <2>6, <3>1, JobMoves DEF Goto
  <2>7. ~Request(r)
    BY <2>1 DEF Request, Create, Arrive, Paid
  <2>8. ~Failure(r)
    BY <2>4, <2>5 DEF Failure, StatementFails, BeginFails
  <2>9. ~Begin(r)
    <3>1. ASSUME Begin(r) PROVE job[r].pc # "idle" /\ job[r].op \notin Paid
      <4>1. job[r].pc = "connect"
        BY <3>1 DEF Begin, Statement, At
      <4> QED BY <4>1, JobAt DEF Held, Ops, Learning, CreateOps, EditOps, Paid
    <3> QED BY <2>2, <3>1 DEF Begin
  <2>10. ~(FindLesson(r) \/ FindCertificate(r) \/ SaveProgress(r) \/ Read(r))
    <3>1. "purchase" \notin Paid
      BY DEF Paid
    <3> QED BY <2>2, <2>3, <2>5, <3>1 DEF FindLesson, FindCertificate, SaveProgress, Read,
                                          Statement, At
  <2>11. ~(CreateCheck(r) \/ CreateCertificate(r) \/ CreateModule(r) \/ CreateLesson(r)
           \/ Clash(r) \/ WriteRow(r))
    <3>1. "insert" \notin Paid /\ "write" \notin Paid
      BY DEF Paid
    <3> QED BY <2>2, <2>3, <2>5, <3>1
            DEF CreateCheck, CreateCertificate, CreateModule, CreateLesson, CreateUnder, Insert,
                Clash, WriteRow, Statement, At
  <2>12. ~ReadRow(r)
    <3>1. ASSUME ReadRow(r) PROVE FALSE
      <4>1. job[r] \in FullJob
        BY <3>1, JobAt DEF ReadRow
      <4>2. PICK l \in {"clash", "write"} :
                Proceed(r, [job[r] EXCEPT !.seen = row[job[r].id], !.pc = l])
        BY <3>1, <4>1 DEF ReadRow, FullJob
      <4>3. [job[r] EXCEPT !.seen = row[job[r].id], !.pc = l].pc = l
        BY <4>1 DEF FullJob
      <4> QED BY <2>1, <4>2, <4>3 DEF Paid
    <3> QED BY <3>1
  <2>13. ~(Commit(r) \/ AcquireTimeout(r))
    BY <2>5 DEF Commit, AcquireTimeout
  <2>14. ASSUME NEW c \in Conns, AssertPurchased(r, c) \/ FindPurchases(r, c)
         PROVE  job'[r].who = job[r].who /\ job[r].who = Buyer
    <3>1. Purchases(c, job[r].who) # {} /\ job[r].pc # "idle" /\ \E l : Goto(r, l)
      BY <2>3, <2>5, <2>14 DEF AssertPurchased, FindPurchases, At
    <3> QED BY <2>6, <3>1 DEF Purchases
  <2>15. ASSUME FindProgress(r) PROVE job'[r].who = job[r].who /\ job[r].pc \in Paid
    <3>1. job[r].pc = "find_progress" /\ Goto(r, "save_progress")
      BY <2>3, <2>15 DEF FindProgress, Statement, At
    <3> QED BY <2>6, <3>1 DEF Paid
  <2> QED BY <2>7, <2>8, <2>9, <2>10, <2>11, <2>12, <2>13, <2>14, <2>15 DEF Step
<1> QED BY <1>1, <1>2, <1>3

\* assertPurchased, findPurchases: no student is answered about, or recorded
\* for, a certificate they have not bought.
THEOREM BuyersOnly == Spec => []ContentForBuyers
<1>1. Init => ContentForBuyers
  BY Labels DEF Init, ContentForBuyers, Students
<1>2. ContentInv /\ ContentForBuyers /\ [Next]_vars => ContentForBuyers'
  <2> SUFFICES ASSUME ContentInv, ContentForBuyers, [Next]_vars PROVE ContentForBuyers'
    OBVIOUS
  <2>1. ASSUME NEW r \in Calls, Request(r) \/ Step(r) \/ Failure(r)
        PROVE  ContentForBuyers'
    <3>1. \A q \in Calls : job'[q].pc \in Paid => job'[q].who = Buyer
      BY <2>1, PaidSteps DEF ContentForBuyers, Paid
    <3>2. \A i \in Lessons : completedAt'[<<Visitor, i>>] = None
      <4>1. completedAt \in [Students \X Lessons -> Nat \cup {None}] /\ Visitor \in Students
        BY InvParts DEF TablesOK, Students
      <4>2. job[r].pc = "save_progress" => job[r].who = Buyer
        BY DEF ContentForBuyers
      <4>3. Buyer # Visitor
        BY ContentAssumption
      <4> QED BY <2>1, <4>1, <4>2, <4>3, PaidSteps DEF ContentForBuyers
    <3> QED BY <3>1, <3>2 DEF ContentForBuyers, Paid
  <2>2. UNCHANGED vars => ContentForBuyers'
    BY DEF vars, data, ContentForBuyers
  <2> QED BY <2>1, <2>2 DEF Next
<1> QED BY <1>1, <1>2, ContentInit, ContentStep, PTL DEF Spec

\* markComplete: the loser of a race fails on the unique key, so a recorded
\* time never changes.
THEOREM CompletionKept == Spec => CompletionIsFinal
<1>1. ContentInv /\ [Next]_vars =>
          [\A u \in Students, i \in Lessons :
               completedAt[<<u, i>>] # None => completedAt'[<<u, i>>] = completedAt[<<u, i>>]]_vars
  <2> SUFFICES ASSUME ContentInv, [Next]_vars, NEW u \in Students, NEW i \in Lessons,
                      completedAt[<<u, i>>] # None, ~UNCHANGED vars
               PROVE  completedAt'[<<u, i>>] = completedAt[<<u, i>>]
    OBVIOUS
  <2>1. completedAt \in [Students \X Lessons -> Nat \cup {None}]
    BY InvParts DEF TablesOK
  <2>2. PICK r \in Calls : Request(r) \/ Step(r) \/ Failure(r)
    BY DEF Next
  <2> QED BY <2>1, <2>2, PaidSteps
<1> QED BY <1>1, ContentInit, ContentStep, PTL DEF Spec, CompletionIsFinal

-----------------------------------------------------------------------------
(* Titles.                                                                 *)

\* Only an INSERT and an UPDATE write rows.
LEMMA RowSteps ==
    ASSUME NEW r \in Calls, Request(r) \/ Step(r) \/ Failure(r)
    PROVE  \/ UNCHANGED <<row, drifted>>
           \/ CreateCertificate(r)
           \/ \E kind \in SUBSET (Modules \cup Lessons) :
                  job[r].pc \in {"createModule", "createLesson"} /\ Insert(r, kind)
           \/ WriteRow(r)
<1>1. Request(r) \/ Failure(r) => UNCHANGED <<row, drifted>>
  BY DEF Request, Create, Arrive, Failure, StatementFails, BeginFails, data
<1>2. CreateModule(r) \/ CreateLesson(r) =>
          \/ UNCHANGED <<row, drifted>>
          \/ \E kind \in SUBSET (Modules \cup Lessons) :
                 job[r].pc \in {"createModule", "createLesson"} /\ Insert(r, kind)
  BY DEF CreateModule, CreateLesson, CreateUnder, Statement, At, data
<1>3. \/ Begin(r) \/ FindLesson(r) \/ FindCertificate(r) \/ Read(r) \/ FindProgress(r)
      \/ SaveProgress(r) \/ CreateCheck(r) \/ ReadRow(r) \/ Clash(r) \/ Commit(r)
      \/ AcquireTimeout(r)
      \/ \E c \in Conns : AssertPurchased(r, c) \/ FindPurchases(r, c)
      => UNCHANGED <<row, drifted>>
  BY DEF Begin, FindLesson, FindCertificate, Read, AssertPurchased, FindPurchases, FindProgress,
         SaveProgress, CreateCheck, ReadRow, Clash, Commit, AcquireTimeout, data
<1> QED BY <1>1, <1>2, <1>3 DEF Step

\* Row w shows its canonical title in English.
Mirrors(w) == w.en \in {w.title, Untitled}

\* What a body makes of a row that is still as it was read: with a block for
\* English that has no title, or none, translations rebuilt mirror the title,
\* and updateTranslations makes the title follow.
LEMMA TitlesMirrored ==
    /\ \A e \in Edit : e.en \notin Titles => Mirrors(CreatedRow(e))
    /\ \A now \in Row, e \in Edit :
           /\ Rebuilds(e) /\ e.en \notin Titles => Mirrors(Patch(now, now, e))
           /\ Mirrors(PatchTranslations(now, now, e))
    /\ \A now, seen \in Row, e \in Edit :
           ~Rebuilds(e) /\ Mirrors(now) => Mirrors(Patch(now, seen, e))
    /\ \A now \in Row : Mirrors(now) => Mirrors([now EXCEPT !.active = FALSE])
<1>1. None \notin Titles /\ None # Untitled
  BY ContentAssumption DEF Headings
<1>2. \A e \in Edit : e.title \in Titles \cup {None} /\ e.en \in Titles \cup {Untitled, None}
  BY DEF Edit, Headings
<1>3. \A e \in Edit : e.en \notin Titles => Mirrors(CreatedRow(e))
  BY <1>1, <1>2 DEF CreatedRow, BuildTranslations, Or, Mirrors
<1>4. ASSUME NEW now \in Row, NEW e \in Edit, Rebuilds(e), e.en \notin Titles
      PROVE  Mirrors(Patch(now, now, e))
  <2>1. /\ Patch(now, now, e).title = Or(e.title, now.title)
        /\ Patch(now, now, e).en = Or(e.en, Or(e.title, now.title))
    BY <1>4 DEF Patch, BuildTranslations
  <2> QED BY <1>1, <1>2, <1>4, <2>1 DEF Mirrors, Or
<1>5. ASSUME NEW now \in Row, NEW e \in Edit
      PROVE  Mirrors(PatchTranslations(now, now, e))
  <2> DEFINE en == Or(e.en, now.en)
             other == Or(e.other, now.other)
             title == IF en \notin {Untitled, now.title} THEN en ELSE now.title
  <2>1. PatchTranslations(now, now, e) = [now EXCEPT !.en = en, !.other = other, !.title = title]
    BY DEF PatchTranslations
  <2>2. en \in {title, Untitled}
    OBVIOUS
  <2> HIDE DEF en, other, title
  <2>3. /\ [now EXCEPT !.en = en, !.other = other, !.title = title].en = en
        /\ [now EXCEPT !.en = en, !.other = other, !.title = title].title = title
    BY DEF Row
  <2> QED BY <2>1, <2>2, <2>3 DEF Mirrors
<1>6. ASSUME NEW now \in Row, NEW seen \in Row, NEW e \in Edit, ~Rebuilds(e), Mirrors(now)
      PROVE  Mirrors(Patch(now, seen, e))
  <2>1. e.title = None
    BY <1>6 DEF Rebuilds
  <2>2. Patch(now, seen, e).title = now.title /\ Patch(now, seen, e).en = now.en
    BY <1>6, <2>1 DEF Patch, Or
  <2> QED BY <1>6, <2>2 DEF Mirrors
<1>7. \A now \in Row : Mirrors(now) => Mirrors([now EXCEPT !.active = FALSE])
  BY DEF Row, Mirrors
<1> QED BY <1>3, <1>4, <1>5, <1>6, <1>7

\* EnglishMirrorsTitle, row by row.
LEMMA MirrorsAll ==
    /\ EnglishMirrorsTitle <=> \A i \in Ids \ drifted : Exists(i) => Mirrors(row[i])
    /\ EnglishMirrorsTitle' <=> \A i \in Ids \ drifted' : row'[i] # None => Mirrors(row'[i])
BY DEF EnglishMirrorsTitle, ShownInEnglish, Exists, Mirrors

LEMMA MirrorStep ==
    ASSUME ContentInv, EnglishMirrorsTitle, NEW r \in Calls,
           Request(r) \/ Step(r) \/ Failure(r)
    PROVE  EnglishMirrorsTitle'
<1>0. row \in [Ids -> Row \cup {None}] /\ drifted \subseteq Ids
  BY InvParts DEF TablesOK
<1>1. ASSUME NEW i \in Ids, NEW new, row' = [row EXCEPT ![i] = new],
             drifted \subseteq drifted' \cup {i}, i \notin drifted' => Mirrors(new)
      PROVE  EnglishMirrorsTitle'
  BY <1>0, <1>1, MirrorsAll DEF Exists
<1>2. ASSUME NEW kind \in SUBSET Ids, Insert(r, kind), job[r].edit \in Edit
      PROVE  EnglishMirrorsTitle'
  <2> DEFINE i == CHOOSE k \in kind : ~Exists(k)
             new == CreatedRow(job[r].edit)
  <2>1. /\ i \in Ids /\ row' = [row EXCEPT ![i] = new]
        /\ drifted' = IF job[r].edit.en \in Titles THEN drifted \cup {i} ELSE drifted
    BY <1>2 DEF Insert
  <2>2. job[r].edit.en \notin Titles => Mirrors(new)
    BY <1>2, TitlesMirrored
  <2> HIDE DEF i, new
  <2> QED BY <1>1, <2>1, <2>2
<1>3. ASSUME CreateCertificate(r) PROVE EnglishMirrorsTitle'
  <2>1. job[r].pc = "insert" /\ Insert(r, Certs)
    BY <1>3 DEF CreateCertificate, Statement, At
  <2>2. job[r].edit \in Edit
    BY <2>1, JobAt DEF Held, Given, CreateOps
  <2> QED BY <1>2, <2>1, <2>2 DEF Ids
<1>4. ASSUME NEW kind \in SUBSET (Modules \cup Lessons), Insert(r, kind),
             job[r].pc \in {"createModule", "createLesson"}
      PROVE  EnglishMirrorsTitle'
  <2>1. job[r].edit \in Edit
    BY <1>4, JobAt DEF Held, Given, CreateOps, Ops
  <2> QED BY <1>2, <1>4, <2>1 DEF Ids
<1>5. ASSUME WriteRow(r) PROVE EnglishMirrorsTitle'
  <2> DEFINE i == job[r].id
             new == CASE job[r].op = "update"             -> Patch(row[i], job[r].seen, job[r].edit)
                      [] job[r].op = "updateTranslations" -> PatchTranslations(row[i], job[r].seen, job[r].edit)
                      [] job[r].op = "softDelete"         -> [row[i] EXCEPT !.active = FALSE]
  <2>1. /\ job[r].op \in EditOps /\ i \in Ids /\ row[i] \in Row /\ Exists(i)
        /\ job[r].op # "softDelete" => job[r].edit \in Edit
    BY <1>5, JobAt DEF WriteRow, Statement, At, Held, Given, EditOps
  <2>2. /\ row' = [row EXCEPT ![i] = new]
        /\ drifted' = IF ~Retitles(job[r]) THEN drifted
                      ELSE IF Stale(r) \/ Diverges(job[r]) THEN drifted \cup {i}
                      ELSE drifted \ {i}
    BY <1>5 DEF WriteRow
  <2>3. ASSUME i \notin drifted' PROVE Mirrors(new)
    <3>1. CASE Retitles(job[r])
      <4>1. job[r].seen = row[i] /\ ~Diverges(job[r])
        BY <2>2, <2>3, <3>1 DEF Stale
      <4>2. CASE job[r].op = "update"
        <5>1. new = Patch(row[i], row[i], job[r].edit)
          BY <4>1, <4>2
        <5>2. Rebuilds(job[r].edit) /\ job[r].edit.en \notin Titles
          BY <3>1, <4>1, <4>2 DEF Retitles, Diverges
        <5> QED BY <2>1, <4>2, <5>1, <5>2, TitlesMirrored
      <4>3. CASE job[r].op = "updateTranslations"
        <5>1. new = PatchTranslations(row[i], row[i], job[r].edit)
          BY <4>1, <4>3
        <5> QED BY <2>1, <4>3, <5>1, TitlesMirrored
      <4> QED BY <3>1, <4>2, <4>3 DEF Retitles
    <3>2. CASE ~Retitles(job[r])
      <4>1. Mirrors(row[i])
        BY <2>1, <2>2, <2>3, <3>2, MirrorsAll
      <4>2. CASE job[r].op = "update"
        <5>1. new = Patch(row[i], job[r].seen, job[r].edit) /\ ~Rebuilds(job[r].edit)
          BY <3>2, <4>2 DEF Retitles
        <5>2. job[r].seen \in Row
          BY <1>5, JobAt DEF WriteRow, Statement, At, Held, Given, EditOps
        <5> QED BY <2>1, <4>1, <4>2, <5>1, <5>2, TitlesMirrored
      <4>3. CASE job[r].op = "softDelete"
        <5>1. new = [row[i] EXCEPT !.active = FALSE]
          BY <4>3
        <5> QED BY <2>1, <4>1, <5>1, TitlesMirrored
      <4> QED BY <2>1, <3>2, <4>2, <4>3 DEF Retitles, EditOps
    <3> QED BY <3>1, <3>2
  <2>4. drifted \subseteq drifted' \cup {i}
    BY <2>2
  <2> HIDE DEF i, new
  <2> QED BY <1>1, <2>1, <2>2, <2>3, <2>4
<1>6. UNCHANGED <<row, drifted>> => EnglishMirrorsTitle'
  BY MirrorsAll DEF Exists
<1> QED BY <1>3, <1>4, <1>5, <1>6, RowSteps

\* buildTranslations, updateTranslations: a row shows its canonical title in
\* English, whatever blocks the bodies supply and however edits race, unless the
\* last edit of its translations named another or overwrote an edit.
THEOREM TitlesMirror == Spec => []EnglishMirrorsTitle
<1>1. Init => EnglishMirrorsTitle
  BY DEF Init, EnglishMirrorsTitle, ShownInEnglish, Exists, SeededRow
<1>2. ContentInv /\ EnglishMirrorsTitle /\ [Next]_vars => EnglishMirrorsTitle'
  <2>1. UNCHANGED vars /\ EnglishMirrorsTitle => EnglishMirrorsTitle'
    BY DEF vars, data, EnglishMirrorsTitle, ShownInEnglish, Exists
  <2> QED BY <2>1, MirrorStep DEF Next
<1> QED BY <1>1, <1>2, ContentInit, ContentStep, PTL DEF Spec

-----------------------------------------------------------------------------
(* Program codes.                                                          *)

\* The certificates that have code p, the updates that may give it to theirs
\* and the creates that will use it.
WithCode(p) == {i \in Certs : Exists(i) /\ row[i].code = p}
Updating(p) == {r \in Calls : /\ job[r].pc = "write" /\ job[r].op = "update"
                              /\ job[r].edit.code = p /\ job[r].id \in Certs}
Targets(p)  == {job[r].id : r \in Updating(p)}
Creating(p) == {r \in Calls : job[r].pc = "insert" /\ job[r].edit.code = p}

Holders(p) == WithCode(p) \cup Targets(p)

\* When a look-up finds nobody else, only the calls themselves count; after
\* that no step adds to the sum.
FewCodes(p) ==
    /\ IsFiniteSet(Holders(p))
    /\ Cardinality(Holders(p)) + Cardinality(Creating(p)) <= Cardinality(Calls)

LEMMA FewerCodes ==
    ASSUME NEW p, FewCodes(p), Holders(p)' \subseteq Holders(p), Creating(p)' \subseteq Creating(p)
    PROVE  FewCodes(p)'
<1> DEFINE H == Holders(p)
           C == Creating(p)
<1>1. IsFiniteSet(Calls) /\ C \subseteq Calls /\ IsFiniteSet(H)
      /\ Cardinality(H) + Cardinality(C) <= Cardinality(Calls)
  BY ContentAssumption DEF FewCodes, Creating
<1>2. IsFiniteSet(H') /\ Cardinality(H') + Cardinality(C') <= Cardinality(Calls)
  <2> HIDE DEF H, C
  <2>1. IsFiniteSet(C) /\ Cardinality(C) \in Nat
    BY <1>1, FS_Subset, FS_CardinalityType
  <2>2. IsFiniteSet(C') /\ Cardinality(C') <= Cardinality(C) /\ Cardinality(C') \in Nat
    BY <2>1, FS_Subset, FS_CardinalityType DEF C
  <2>3. IsFiniteSet(H') /\ Cardinality(H') <= Cardinality(H) /\ Cardinality(H') \in Nat
    BY <1>1, FS_Subset, FS_CardinalityType DEF H
  <2>4. Cardinality(H) \in Nat /\ Cardinality(Calls) \in Nat
    BY <1>1, ContentAssumption, FS_CardinalityType
  <2> QED BY <1>1, <2>1, <2>2, <2>3, <2>4
<1> QED BY <1>2 DEF FewCodes

\* Updates and creates are calls, and no call is both.
LEMMA CallsCount ==
    ASSUME NEW p, NEW H, H \subseteq Targets(p)
    PROVE  /\ IsFiniteSet(H)
           /\ Cardinality(H) + Cardinality(Creating(p)) <= Cardinality(Calls)
<1> DEFINE U == Updating(p)
           C == Creating(p)
           T == Targets(p)
           f == [r \in U |-> job[r].id]
<1>1. IsFiniteSet(Calls) /\ U \subseteq Calls /\ C \subseteq Calls /\ U \cap C = {}
  BY ContentAssumption DEF Updating, Creating
<1>2. f \in Surjection(U, T)
  BY DEF Surjection, Targets
<1>3. H \subseteq T
  OBVIOUS
<1> HIDE DEF U, C, T, f
<1>4. /\ IsFiniteSet(U) /\ IsFiniteSet(C) /\ Cardinality(U) \in Nat /\ Cardinality(C) \in Nat
      /\ Cardinality(Calls) \in Nat
  BY <1>1, FS_Subset, FS_CardinalityType
<1>5. IsFiniteSet(T) /\ Cardinality(T) <= Cardinality(U) /\ Cardinality(T) \in Nat
  BY <1>2, <1>4, FS_Surjection, FS_CardinalityType
<1>6. IsFiniteSet(H) /\ Cardinality(H) <= Cardinality(T) /\ Cardinality(H) \in Nat
  BY <1>3, <1>5, FS_Subset, FS_CardinalityType
<1>7. Cardinality(U \cup C) = Cardinality(U) + Cardinality(C) - Cardinality(U \cap C)
  BY <1>4, FS_Union
<1>8. Cardinality(U \cap C) = 0
  BY <1>1, FS_EmptySet
<1>9. Cardinality(U \cup C) <= Cardinality(Calls) /\ Cardinality(U \cup C) \in Nat
  BY <1>1, FS_Subset, FS_CardinalityType
<1>10. Cardinality(H) + Cardinality(C) <= Cardinality(Calls)
  BY <1>4, <1>5, <1>6, <1>7, <1>8, <1>9
<1> QED BY <1>6, <1>10 DEF C

LEMMA CodesCount == \A p : Holders(p) \subseteq Targets(p) => FewCodes(p)
BY CallsCount DEF FewCodes

LEMMA CodesCountNext == (\A p : Holders(p) \subseteq Targets(p) => FewCodes(p))'
BY CodesCount, PTL

\* Only these reach the labels of a write from elsewhere.
LEMMA CodeSteps ==
    ASSUME ContentInv, NEW r \in Calls, Request(r) \/ Step(r) \/ Failure(r)
    PROVE  /\ \A q \in Calls \ {r} : job'[q] = job[q]
           /\ CreateCheck(r) \/ Clash(r) \/ ReadRow(r) \/ job'[r].pc \notin {"insert", "write"}
<1>0. JobsOK
  BY InvParts
<1>1. ASSUME NEW j, Proceed(r, j), j.pc \notin {"insert", "write"}
      PROVE  job'[r].pc \notin {"insert", "write"}
  BY <1>0, <1>1, JobMoves
<1>2. ASSUME NEW l, l \notin {"insert", "write"}, Goto(r, l), job[r].pc # "idle"
      PROVE  job'[r].pc \notin {"insert", "write"}
  <2>1. [job[r] EXCEPT !.pc = l].pc = l
    BY <1>2, JobAt DEF FullJob
  <2> QED BY <1>1, <1>2, <2>1 DEF Goto
<1>3. Finish(r) => job'[r].pc \notin {"insert", "write"}
  BY <1>1 DEF Finish, Returned
<1>4. Proceed(r, Idle) => job'[r].pc \notin {"insert", "write"}
  BY <1>1, Labels
<1>5. Request(r) => job'[r].pc \notin {"insert", "write"}
  BY <1>1 DEF Request, Create, Arrive
<1>6. Failure(r) => job'[r].pc \notin {"insert", "write"}
  BY <1>4 DEF Failure, StatementFails, BeginFails, Fail
<1>7. Begin(r) => job'[r].pc \notin {"insert", "write"}
  <2>1. Begin(r) => job[r].pc = "connect"
    BY DEF Begin, Statement, At
  <2>2. job[r].pc = "connect" => job[r].op \notin {"insert", "write"}
    BY JobAt DEF Held, Ops, Learning, CreateOps, EditOps
  <2> QED BY <1>2, <2>1, <2>2 DEF Begin
<1>8. ASSUME \/ FindLesson(r) \/ FindCertificate(r) \/ Read(r) \/ FindProgress(r) \/ SaveProgress(r)
             \/ \E c \in Conns : AssertPurchased(r, c) \/ FindPurchases(r, c)
             \/ CreateCertificate(r) \/ CreateModule(r) \/ CreateLesson(r) \/ WriteRow(r)
             \/ Commit(r) \/ AcquireTimeout(r)
      PROVE  job'[r].pc \notin {"insert", "write"}
  <2>1. \/ Fail(r) \/ Finish(r)
        \/ /\ \E l \in {"purchase", "find_progress", "read", "save_progress"} : Goto(r, l)
           /\ job[r].pc # "idle"
    BY <1>8 DEF FindLesson, FindCertificate, Read, FindProgress, SaveProgress, AssertPurchased,
                FindPurchases, CreateCertificate, CreateModule, CreateLesson, CreateUnder, Insert,
                WriteRow, Commit, AcquireTimeout, Statement, At
  <2> QED BY <1>2, <1>3, <1>4, <2>1 DEF Fail
<1> QED BY <1>5, <1>6, <1>7, <1>8, PaidSteps DEF Step

\* The code a body leaves a row with.
LEMMA CodesMade ==
    /\ \A e \in Edit : CreatedRow(e).code = e.code
    /\ \A now \in Row : \A seen, e : Patch(now, seen, e).code = IF e.code = None THEN now.code ELSE e.code
    /\ \A now \in Row : \A seen, e : PatchTranslations(now, seen, e).code = now.code
    /\ \A now \in Row : [now EXCEPT !.active = FALSE].code = now.code
BY DEF CreatedRow, Patch, PatchTranslations, Or, Row

LEMMA FewCodesStep ==
    ASSUME ContentInv, NEW p \in ProgramCodes, FewCodes(p), NEW r \in Calls,
           Request(r) \/ Step(r) \/ Failure(r)
    PROVE  FewCodes(p)'
<1>0. /\ row \in [Ids -> Row \cup {None}] /\ p # None /\ None \notin Row \cup Ids
      /\ Certs \subseteq Ids /\ Certs \cap (Modules \cup Lessons) = {}
      /\ \A q \in Calls \ {r} : job'[q] = job[q]
  BY InvParts, ContentAssumption, CodeSteps DEF TablesOK, Ids
<1>1. ASSUME job'[r].pc \notin {"insert", "write"}
      PROVE  Updating(p)' \subseteq Updating(p) \ {r} /\ Creating(p)' \subseteq Creating(p) \ {r}
  BY <1>0, <1>1 DEF Updating, Creating
<1>2. ASSUME CreateCheck(r) PROVE FewCodes(p)'
  <2>1. job[r].pc = "createCertificate" /\ row' = row /\ job[r] \in FullJob
    BY <1>2, JobAt DEF CreateCheck, Statement, At, data
  <2>2. CASE Fail(r)
    <3>1. job'[r].pc \notin {"insert", "write"}
      BY <2>2, InvParts, JobMoves, Labels DEF Fail
    <3>2. Holders(p)' \subseteq Holders(p) /\ Creating(p)' \subseteq Creating(p)
      BY <1>0, <1>1, <2>1, <3>1 DEF Holders, Targets, Updating, WithCode, Exists
    <3> QED BY <3>2, FewerCodes
  <2>3. CASE ~ProgramCodeTaken(job[r].edit.code, None) /\ Goto(r, "insert")
    <3>1. /\ job'[r].pc = "insert" /\ job'[r].edit = job[r].edit
      <4>1. [job[r] EXCEPT !.pc = "insert"].pc = "insert"
            /\ [job[r] EXCEPT !.pc = "insert"].edit = job[r].edit
        BY <2>1 DEF FullJob
      <4> QED BY <2>3, <4>1, InvParts, JobMoves DEF Goto
    <3>2. Updating(p)' \subseteq Updating(p) /\ Updating(p) \subseteq Updating(p)'
      BY <1>0, <2>1, <3>1 DEF Updating
    <3>3. Targets(p)' = Targets(p) /\ WithCode(p)' = WithCode(p)
      <4>1. \A q \in Updating(p) : job'[q] = job[q]
        BY <1>0, <2>1 DEF Updating
      <4> QED BY <2>1, <3>2, <4>1 DEF Targets, WithCode, Exists
    <3>4. CASE job[r].edit.code = p
      <4>1. WithCode(p) = {}
        <5>1. ASSUME NEW i \in WithCode(p) PROVE FALSE
          <6>1. i # None
            BY <1>0, <5>1 DEF WithCode
          <6> QED BY <2>3, <3>4, <5>1, <6>1 DEF WithCode, ProgramCodeTaken
        <5> QED BY <5>1
      <4> QED BY <3>3, <4>1, CodesCountNext DEF Holders
    <3>5. CASE job[r].edit.code # p
      <4>1. Creating(p)' \subseteq Creating(p)
        BY <1>0, <3>1, <3>5 DEF Creating
      <4> QED BY <3>3, <4>1, FewerCodes DEF Holders
    <3> QED BY <3>4, <3>5
  <2> QED BY <1>2, <2>2, <2>3 DEF CreateCheck
<1>3. ASSUME Clash(r) PROVE FewCodes(p)'
  <2>1. job[r].pc = "clash" /\ row' = row /\ job[r] \in FullJob /\ job[r].op = "update"
    BY <1>3, JobAt DEF Clash, Statement, At, data, Held
  <2>2. CASE Fail(r)
    <3>1. job'[r].pc \notin {"insert", "write"}
      BY <2>2, InvParts, JobMoves, Labels DEF Fail
    <3>2. Holders(p)' \subseteq Holders(p) /\ Creating(p)' \subseteq Creating(p)
      BY <1>0, <1>1, <2>1, <3>1 DEF Holders, Targets, Updating, WithCode, Exists
    <3> QED BY <3>2, FewerCodes
  <2>3. CASE ~ProgramCodeTaken(job[r].edit.code, job[r].id) /\ Goto(r, "write")
    <3>1. /\ job'[r].pc = "write" /\ job'[r].op = "update"
          /\ job'[r].edit = job[r].edit /\ job'[r].id = job[r].id
      <4> DEFINE j == [job[r] EXCEPT !.pc = "write"]
      <4>1. j.pc = "write" /\ j.op = "update" /\ j.edit = job[r].edit /\ j.id = job[r].id
            /\ Proceed(r, j)
        BY <2>1, <2>3 DEF FullJob, Goto
      <4> HIDE DEF j
      <4> QED BY <4>1, InvParts, JobMoves
    <3>2. Creating(p)' \subseteq Creating(p) /\ WithCode(p)' = WithCode(p)
      BY <1>0, <2>1, <3>1 DEF Creating, WithCode, Exists
    <3>3. CASE job[r].edit.code = p /\ job[r].id \in Certs
      <4>1. job[r].id \in Targets(p)'
        BY <3>1, <3>3 DEF Targets, Updating
      <4>2. WithCode(p) \subseteq {job[r].id}
        BY <2>3, <3>3 DEF WithCode, ProgramCodeTaken
      <4> QED BY <3>2, <4>1, <4>2, CodesCountNext DEF Holders
    <3>4. CASE ~(job[r].edit.code = p /\ job[r].id \in Certs)
      <4>1. \A q \in Updating(p)' : q \in Updating(p) /\ job'[q] = job[q]
        BY <1>0, <3>1, <3>4 DEF Updating
      <4>2. Targets(p)' \subseteq Targets(p)
        BY <4>1 DEF Targets
      <4> QED BY <3>2, <4>2, FewerCodes DEF Holders
    <3> QED BY <3>3, <3>4
  <2> QED BY <1>3, <2>2, <2>3 DEF Clash
<1>4. ASSUME ReadRow(r) PROVE FewCodes(p)'
  <2> DEFINE j == [job[r] EXCEPT !.seen = row[job[r].id],
                    !.pc = IF job[r].pc = "update" /\ job[r].edit.code \notin {None, row[job[r].id].code}
                           THEN "clash" ELSE "write"]
  <2>1. /\ job[r].pc \in EditOps /\ job[r].op = job[r].pc /\ row' = row
        /\ job[r] \in FullJob /\ Exists(job[r].id)
    <3>1. job[r].pc \in EditOps /\ job[r].pc # "idle" /\ row' = row
      BY <1>4 DEF ReadRow, EditOps, data
    <3>2. job[r].op = job[r].pc
      BY <3>1, JobAt DEF Held, Ops
    <3> QED BY <3>1, <3>2, JobAt
  <2>2. /\ j.op = job[r].op /\ j.edit = job[r].edit /\ j.id = job[r].id
        /\ j.pc \in {"clash", "write"}
        /\ j.pc = "write" /\ j.op = "update" => job[r].edit.code \in {None, row[job[r].id].code}
    BY <2>1 DEF FullJob
  <2>3. Proceed(r, j)
    BY <1>4, <2>1 DEF ReadRow, FullJob
  <2> HIDE DEF j
  <2>4. job'[r] = j
    BY <2>3, InvParts, JobMoves
  <2>5. Creating(p)' \subseteq Creating(p) /\ WithCode(p)' = WithCode(p)
    BY <1>0, <2>1, <2>2, <2>4 DEF Creating, WithCode, Exists
  <2>6. ASSUME NEW q \in Updating(p)' PROVE job'[q].id \in Holders(p)
    <3>1. CASE q = r
      <4>1. j.pc = "write" /\ j.op = "update" /\ j.edit.code = p /\ j.id \in Certs
        BY <2>4, <2>6, <3>1 DEF Updating
      <4>2. j.id \in WithCode(p)
        BY <1>0, <2>1, <2>2, <4>1 DEF WithCode
      <4> QED BY <2>4, <3>1, <4>2 DEF Holders
    <3>2. CASE q # r
      BY <1>0, <2>6, <3>2 DEF Updating, Targets, Holders
    <3> QED BY <3>1, <3>2
  <2>7. Holders(p)' \subseteq Holders(p)
    BY <2>5, <2>6 DEF Holders, Targets
  <2> QED BY <2>5, <2>7, FewerCodes
<1>5. ASSUME UNCHANGED row, job'[r].pc \notin {"insert", "write"} PROVE FewCodes(p)'
  <2>1. Holders(p)' \subseteq Holders(p) /\ Creating(p)' \subseteq Creating(p)
    BY <1>0, <1>1, <1>5 DEF Holders, Targets, Updating, WithCode, Exists
  <2> QED BY <2>1, FewerCodes
<1>6. ASSUME NEW kind \in SUBSET (Modules \cup Lessons), Insert(r, kind),
             job'[r].pc \notin {"insert", "write"}
      PROVE  FewCodes(p)'
  <2>1. \A i \in Certs : row'[i] = row[i]
    BY <1>0, <1>6 DEF Insert
  <2>2. Holders(p)' \subseteq Holders(p) /\ Creating(p)' \subseteq Creating(p)
    BY <1>0, <1>1, <1>6, <2>1 DEF Holders, Targets, Updating, WithCode, Exists
  <2> QED BY <2>2, FewerCodes
<1>7. ASSUME WriteRow(r), job'[r].pc \notin {"insert", "write"} PROVE FewCodes(p)'
  <2> DEFINE i == job[r].id
             new == CASE job[r].op = "update"             -> Patch(row[i], job[r].seen, job[r].edit)
                      [] job[r].op = "updateTranslations" -> PatchTranslations(row[i], job[r].seen, job[r].edit)
                      [] job[r].op = "softDelete"         -> [row[i] EXCEPT !.active = FALSE]
  <2>1. /\ job[r].pc = "write" /\ job[r].op \in EditOps /\ i \in Ids /\ row[i] \in Row /\ Exists(i)
        /\ row' = [row EXCEPT ![i] = new]
    BY <1>7, JobAt DEF WriteRow, Statement, At, Held
  <2>2. new.code = row[i].code \/ (job[r].op = "update" /\ new.code = job[r].edit.code)
    <3>1. CASE job[r].op = "update"
      <4>1. new = Patch(row[i], job[r].seen, job[r].edit)
        BY <3>1
      <4> HIDE DEF new
      <4> QED BY <2>1, <3>1, <4>1, CodesMade
    <3>2. CASE job[r].op = "updateTranslations"
      <4>1. new = PatchTranslations(row[i], job[r].seen, job[r].edit)
        BY <3>2
      <4> HIDE DEF new
      <4> QED BY <2>1, <4>1, CodesMade
    <3>3. CASE job[r].op = "softDelete"
      <4>1. new = [row[i] EXCEPT !.active = FALSE]
        BY <3>3
      <4> HIDE DEF new
      <4> QED BY <2>1, <4>1, CodesMade
    <3> QED BY <2>1, <3>1, <3>2, <3>3 DEF EditOps
  <2> HIDE DEF new
  <2>3. WithCode(p)' \subseteq Holders(p)
    <3>1. ASSUME NEW k \in WithCode(p)' PROVE k \in Holders(p)
      <4>1. CASE k # i
        BY <1>0, <2>1, <3>1, <4>1 DEF WithCode, Exists, Holders
      <4>2. CASE k = i
        <5>1. i \in Certs /\ new.code = p
          BY <1>0, <2>1, <3>1, <4>2 DEF WithCode
        <5>2. CASE new.code = row[i].code
          BY <2>1, <4>2, <5>1, <5>2 DEF WithCode, Holders
        <5>3. CASE job[r].op = "update" /\ new.code = job[r].edit.code
          BY <2>1, <4>2, <5>1, <5>3 DEF Updating, Targets, Holders
        <5> QED BY <2>2, <5>2, <5>3
      <4> QED BY <4>1, <4>2
    <3> QED BY <3>1
  <2>4. Targets(p)' \subseteq Targets(p) /\ Creating(p)' \subseteq Creating(p)
    BY <1>0, <1>1, <1>7 DEF Targets, Updating
  <2> QED BY <2>3, <2>4, FewerCodes DEF Holders
<1>8. ASSUME CreateCertificate(r), job'[r].pc \notin {"insert", "write"} PROVE FewCodes(p)'
  <2> DEFINE i == CHOOSE k \in Certs : ~Exists(k)
  <2>1. job[r].pc = "insert" /\ i \in Certs /\ row' = [row EXCEPT ![i] = CreatedRow(job[r].edit)]
    BY <1>8 DEF CreateCertificate, Statement, At, Insert
  <2>2. CreatedRow(job[r].edit).code = job[r].edit.code
    <3>1. job[r].edit \in Edit
      BY <2>1, JobAt DEF Held, Given, CreateOps
    <3> QED BY <3>1, CodesMade
  <2> HIDE DEF i
  <2>3. Targets(p)' \subseteq Targets(p) /\ Creating(p)' \subseteq Creating(p) \ {r}
    BY <1>0, <1>1, <1>8 DEF Targets, Updating
  <2>4. CASE job[r].edit.code # p
    <3>1. WithCode(p)' \subseteq WithCode(p)
      BY <1>0, <2>1, <2>2, <2>4 DEF WithCode, Exists
    <3> QED BY <2>3, <3>1, FewerCodes DEF Holders
  <2>5. CASE job[r].edit.code = p
    <3> DEFINE H == Holders(p)
               C == Creating(p)
    <3>1. H' \subseteq H \cup {i}
      <4>1. WithCode(p)' \subseteq WithCode(p) \cup {i}
        BY <1>0, <2>1 DEF WithCode, Exists
      <4> QED BY <2>3, <4>1 DEF Holders
    <3>2. C' \subseteq C \ {r} /\ r \in C /\ C \subseteq Calls /\ IsFiniteSet(Calls)
      BY <2>1, <2>3, <2>5, ContentAssumption DEF Creating
    <3>3. IsFiniteSet(H) /\ Cardinality(H) + Cardinality(C) <= Cardinality(Calls)
      BY DEF FewCodes
    <3>4. IsFiniteSet(H') /\ Cardinality(H') <= Cardinality(H) + 1
          /\ Cardinality(H') \in Nat /\ Cardinality(H) \in Nat
      <4> HIDE DEF H
      <4>1. IsFiniteSet(H \cup {i}) /\ Cardinality(H \cup {i}) <= Cardinality(H) + 1
            /\ Cardinality(H \cup {i}) \in Nat /\ Cardinality(H) \in Nat
        BY <3>3, FS_AddElement, FS_CardinalityType
      <4>2. IsFiniteSet(H') /\ Cardinality(H') <= Cardinality(H \cup {i})
        BY <3>1, <4>1, FS_Subset
      <4> QED BY <4>1, <4>2, FS_CardinalityType
    <3>5. Cardinality(C') <= Cardinality(C) - 1 /\ Cardinality(C') \in Nat
          /\ Cardinality(C) \in Nat /\ Cardinality(Calls) \in Nat
      <4> HIDE DEF C
      <4>1. IsFiniteSet(C) /\ Cardinality(C) \in Nat /\ Cardinality(Calls) \in Nat
        BY <3>2, FS_Subset, FS_CardinalityType
      <4>2. IsFiniteSet(C \ {r}) /\ Cardinality(C \ {r}) = Cardinality(C) - 1
        BY <3>2, <4>1, FS_RemoveElement
      <4>3. IsFiniteSet(C') /\ Cardinality(C') <= Cardinality(C \ {r})
        BY <3>2, <4>2, FS_Subset
      <4> QED BY <4>1, <4>2, <4>3, FS_CardinalityType
    <3>6. Cardinality(H') + Cardinality(C') <= Cardinality(Calls)
      <4> HIDE DEF H, C
      <4> QED BY <3>3, <3>4, <3>5
    <3> QED BY <3>4, <3>6 DEF FewCodes
  <2> QED BY <2>4, <2>5
<1> QED
  <2>1. CASE CreateCheck(r) \/ Clash(r) \/ ReadRow(r)
    BY <1>2, <1>3, <1>4, <2>1
  <2>2. CASE job'[r].pc \notin {"insert", "write"}
    BY <1>5, <1>6, <1>7, <1>8, <2>2, RowSteps
  <2> QED BY <2>1, <2>2, CodeSteps

\* CatalogService.create and update look a code up before they write it, and no
\* unique index stops two: racing requests may share a code, at most as many as
\* there are at a time.
THEOREM CodesFew == Spec => []FewDuplicateCodes
<1> DEFINE Few == \A p \in ProgramCodes : FewCodes(p)
<1>1. Init => Few
  <2> SUFFICES ASSUME Init, NEW p \in ProgramCodes
               PROVE  FewCodes(p)
    OBVIOUS
  <2>1. Targets(p) = {} /\ Creating(p) = {}
    BY Labels DEF Init, Targets, Updating, Creating
  <2>2. \A i, k \in WithCode(p) : i = k
    BY ContentAssumption DEF Init, WithCode, Exists, Ids
  <2>3. IsFiniteSet(WithCode(p)) /\ Cardinality(WithCode(p)) <= 1
    <3>1. CASE WithCode(p) = {}
      BY <3>1, FS_EmptySet
    <3>2. CASE WithCode(p) # {}
      <4>1. PICK i \in WithCode(p) : TRUE
        BY <3>2
      <4>2. WithCode(p) = {i}
        BY <2>2, <4>1
      <4>3. IsFiniteSet({i}) /\ Cardinality({i}) = 1
        BY FS_Singleton
      <4> QED BY <4>2, <4>3
    <3> QED BY <3>1, <3>2
  <2>4. Cardinality(Calls) \in Nat \ {0}
    BY ContentAssumption, FS_CardinalityType, FS_EmptySet
  <2>5. Cardinality(WithCode(p)) \in Nat
    BY <2>3, FS_CardinalityType
  <2> QED BY <2>1, <2>3, <2>4, <2>5, FS_EmptySet DEF FewCodes, Holders
<1>2. ContentInv /\ Few /\ [Next]_vars => Few'
  <2>1. UNCHANGED vars => \A p : FewCodes(p) => FewCodes(p)'
    BY DEF vars, data, FewCodes, Holders, WithCode, Targets, Updating, Creating, Exists
  <2> QED BY <2>1, FewCodesStep DEF Next
<1>3. Few => FewDuplicateCodes
  <2> SUFFICES ASSUME NEW p \in ProgramCodes, FewCodes(p)
               PROVE  Cardinality(WithCode(p)) <= Cardinality(Calls)
    BY DEF FewDuplicateCodes, WithCode
  <2>1. /\ IsFiniteSet(Calls) /\ Creating(p) \subseteq Calls /\ WithCode(p) \subseteq Holders(p)
        /\ IsFiniteSet(Holders(p))
        /\ Cardinality(Holders(p)) + Cardinality(Creating(p)) <= Cardinality(Calls)
    BY ContentAssumption DEF FewCodes, Creating, Holders
  <2>2. /\ Cardinality(WithCode(p)) <= Cardinality(Holders(p))
        /\ Cardinality(WithCode(p)) \in Nat /\ Cardinality(Holders(p)) \in Nat
        /\ Cardinality(Creating(p)) \in Nat /\ Cardinality(Calls) \in Nat
    BY <2>1, FS_Subset, FS_CardinalityType
  <2> QED BY <2>1, <2>2
<1> QED BY <1>1, <1>2, <1>3, ContentInit, ContentStep, PTL DEF Spec
=============================================================================
