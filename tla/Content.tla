------------------------------- MODULE Content -------------------------------
(***************************************************************************)
(* Content: authenticated requests to the catalog and to the learning      *)
(* content, from the guards to the release of the connection.              *)
(*                                                                         *)
(* RlsInterceptor holds one connection in a transaction for the whole      *)
(* request; only the look-up of a purchase runs on it.  Every other        *)
(* statement of a handler takes another connection of the same pool, for   *)
(* as long as the statement lasts, and is committed at once.               *)
(*                                                                         *)
(* Certificates, modules and lessons are rows of one kind or another: the  *)
(* three services edit them with the same steps.  A row is reduced to its  *)
(* program code (certificates), its canonical title, the titles in the     *)
(* blocks of its translations for English and for one other locale, and    *)
(* active.                                                                 *)
(* The catalog's lists are CatalogPages'.                                  *)
(***************************************************************************)
EXTENDS Naturals, FiniteSets

CONSTANTS
    Calls,         \* requests being served
    Conns,         \* the connections of the pool
    Certs, Modules, Lessons,   \* ids
    Seeds,         \* the sets of rows that may exist from the start
    Titles,
    Untitled,      \* a locale's block that has no title, or an empty one
    ProgramCodes,
    Buyer,         \* a student enrolled in every certificate
    Visitor,       \* a student who bought nothing
    Author,        \* an admin who is CONTENT_CREATOR
    Manager,       \* an admin who is LEARNING_ADMIN
    Edits,         \* the bodies a PATCH of each row may have
    Bodies,        \* the bodies a POST may have
    None,
    MaxWrites,     \* bound on the writes
    MaxLeaks       \* bound on failing BEGINs

Ids      == Certs \cup Modules \cup Lessons
Students == {Buyer, Visitor}
Staff    == {Author, Manager}

\* The title of a locale; a locale without a block has none either.
Headings == Titles \cup {Untitled}

Row == [code : ProgramCodes \cup {None}, title : Titles,
        en : Headings, other : Headings, active : BOOLEAN]

\* What a body names; the fields it leaves out are None.  A block it supplies
\* need not have a title: {} clears the locale.  Of the description only
\* whether it is named.
Edit == [code : ProgramCodes \cup {None}, title : Titles \cup {None},
         en : Headings \cup {None}, other : Headings \cup {None},
         description : BOOLEAN, active : BOOLEAN \cup {None}]

ASSUME ContentAssumption ==
    /\ Certs \cap (Modules \cup Lessons) = {}
    /\ Seeds \subseteq SUBSET Ids
    \* SeededRow would give the same code to two certificates.
    /\ \A there \in Seeds : \A i, k \in there \cap Certs : i = k
    /\ Edits \in [Ids -> SUBSET Edit]
    /\ \A i \in Ids \ Certs : \A e \in Edits[i] : e.code = None
    /\ Bodies \subseteq {e \in Edit : e.title # None}
    /\ Titles # {} /\ ProgramCodes # {} /\ Buyer # Visitor
    /\ Untitled \notin Titles
    /\ None \notin Headings \cup ProgramCodes \cup BOOLEAN \cup Calls \cup Ids \cup Row
    /\ IsFiniteSet(Calls) /\ Calls # {} /\ IsFiniteSet(Conns)
    /\ MaxWrites \in Nat /\ MaxLeaks \in Nat

VARIABLES
    row,          \* certificates, learning_modules and lessons
    completedAt,  \* student_progress, one row at most per lesson and student
    owner,        \* the call each connection was handed to, or None
    guc,          \* app.current_user_id or app.current_admin_id of a connection
    job,          \* where each call is
    writes,       \* writes so far: the time
    \* bookkeeping of the specification, read by no guard but the bound
    leaked,       \* connections whose BEGIN failed: nobody releases them
    drifted       \* rows whose title and English title may have parted

data   == <<row, completedAt, writes, drifted>>
pool   == <<owner, guc, leaked>>
vars   == <<data, pool, job>>

Idle == [pc |-> "idle"]
Proceed(r, j) == job' = [job EXCEPT ![r] = j]
At(r, l)      == job[r].pc = l
Goto(r, l)    == Proceed(r, [job[r] EXCEPT !.pc = l])

\* The handler returns; its locals are gone.
Returned(who) == [pc |-> "commit", who |-> who, op |-> "none", id |-> None, edit |-> None, seen |-> None]
Finish(r) == Proceed(r, Returned(job[r].who))

Exists(i) == row[i] # None
IsFree(c) == owner[c] = None
AnyFree   == \E c \in Conns : IsFree(c)

\* c is the connection of the query runner whose transaction r is in.
Holds(r, c) == owner[c] = r /\ c \notin leaked

\* A row an earlier create left, with its English title in place.
SeededRow(i) ==
    LET title == CHOOSE t \in Titles : TRUE IN
    [code |-> IF i \in Certs THEN CHOOSE p \in ProgramCodes : TRUE ELSE None,
     title |-> title, en |-> title, other |-> Untitled, active |-> TRUE]

Init ==
    /\ \E there \in Seeds : row = [i \in Ids |-> IF i \in there THEN SeededRow(i) ELSE None]
    /\ completedAt = [p \in Students \X Lessons |-> None]
    /\ owner = [c \in Conns |-> None]
    /\ guc = [c \in Conns |-> None]
    /\ job = [r \in Calls |-> Idle]
    /\ writes = 0
    /\ leaked = {}
    /\ drifted = {}

-----------------------------------------------------------------------------
(* The guards.                                                             *)

\* The handlers for students, behind requireStudent.
Learning == {"getCurriculum", "serveLesson", "markComplete", "getProgressSummary"}

\* The roles a handler lists; RolesGuard lets SUPER_ADMIN through besides, and
\* nobody else.
Required(op) ==
    CASE op \in Learning     -> Students
      [] op = "softDelete"   -> {Manager}
      [] OTHER               -> Staff

\* A request that throttling, the token or the role stops changes nothing; one
\* for an id that does not exist ends like one whose statement fails.
Arrive(r, who, op, id, edit) ==
    /\ job[r] = Idle
    /\ who \in Required(op)
    /\ writes < MaxWrites
    /\ Proceed(r, [pc |-> "connect", who |-> who, op |-> op,
                   id |-> id, edit |-> edit, seen |-> None])
    /\ UNCHANGED <<data, pool>>

-----------------------------------------------------------------------------
(* RlsInterceptor and the pool.                                            *)

\* A statement on a connection of its own, at label l.
Statement(r, l) == At(r, l) /\ AnyFree

\* The idle connection the pool hands out: any of them would do.
NextFree == CHOOSE c \in Conns : IsFree(c)

\* connect(), startTransaction() and the set_configs.
Begin(r) ==
    /\ Statement(r, "connect")
    /\ owner' = [owner EXCEPT ![NextFree] = r]
    /\ guc' = [guc EXCEPT ![NextFree] = job[r].who]
    /\ Goto(r, job[r].op)
    /\ UNCHANGED <<data, leaked>>

\* connect() and BEGIN stand before the try: when BEGIN fails, no finally
\* releases the connection, and the call it was handed to keeps it for ever.
BeginFails(r) ==
    /\ Statement(r, "connect")
    /\ Cardinality(leaked) < MaxLeaks
    /\ owner' = [owner EXCEPT ![NextFree] = r]
    /\ leaked' = leaked \cup {NextFree}
    /\ Proceed(r, Idle)
    /\ UNCHANGED <<data, guc>>

\* Mutant: set_config(..., false), which outlives the transaction.
EndTransactionKeepsGuc(r) ==
    /\ owner' = [c \in Conns |-> IF Holds(r, c) THEN None ELSE owner[c]]
    /\ UNCHANGED <<guc, leaked>>

\* Mutant: the runner is not released.
EndTransactionOnly(r) ==
    /\ guc' = [c \in Conns |-> IF Holds(r, c) THEN None ELSE guc[c]]
    /\ UNCHANGED <<owner, leaked>>

\* COMMIT or ROLLBACK ends the settings, which are local to the transaction,
\* and the runner is released.
EndTransaction(r) ==
    /\ owner' = [c \in Conns |-> IF Holds(r, c) THEN None ELSE owner[c]]
    /\ guc' = [c \in Conns |-> IF Holds(r, c) THEN None ELSE guc[c]]
    /\ UNCHANGED leaked

\* The handler throws: rolled back, released, answered with the error.
Fail(r) ==
    /\ EndTransaction(r)
    /\ Proceed(r, Idle)

\* The handler has returned; a commit that fails is answered with a 500, but
\* what the handler wrote on other connections stays.
Commit(r) ==
    /\ At(r, "commit")
    /\ Fail(r)
    /\ UNCHANGED data

\* The labels at which a call waits for a connection of the pool.
Waiting(r) == job[r].pc \notin {"idle", "purchase", "getProgressSummary", "commit"}

\* Mutant: no connectionTimeoutMillis.
WaitForEver(r) == FALSE /\ UNCHANGED vars

\* connectionTimeoutMillis went by without a free connection.
AcquireTimeout(r) ==
    /\ Waiting(r)
    /\ ~AnyFree
    /\ Fail(r)
    /\ UNCHANGED data

\* A statement of the handler throws, before it changed anything.
StatementFails(r) ==
    /\ job[r].pc \notin {"idle", "connect"}
    /\ Fail(r)
    /\ UNCHANGED data

-----------------------------------------------------------------------------
(* The learning side, for students.                                        *)

\* serveLesson and markComplete: the lesson must be active and its module
\* there, whatever the module's or the certificate's active, else 404.
FindLesson(r) ==
    /\ job[r].pc \in {"serveLesson", "markComplete"}
    /\ Statement(r, job[r].pc)
    /\ IF row[job[r].id].active THEN Goto(r, "purchase") /\ UNCHANGED pool ELSE Fail(r)
    /\ UNCHANGED data

\* getCurriculum: the certificate must be active, else 404.
FindCertificate(r) ==
    /\ Statement(r, "getCurriculum")
    /\ IF row[job[r].id].active THEN Goto(r, "purchase") /\ UNCHANGED pool ELSE Fail(r)
    /\ UNCHANGED data

\* Mutant: neither the WHERE nor row-level security looks at the student.
PurchasesOfAnyone(c, who) == {Buyer}

\* The student's rows of student_purchases that connection c may see.
Purchases(c, who) == {u \in {Buyer} : u = who /\ guc[c] = u}

\* assertPurchased, on the request's own connection; 403.
AssertPurchased(r, c) ==
    /\ At(r, "purchase")
    /\ Holds(r, c)
    /\ IF Purchases(c, job[r].who) # {}
       THEN /\ Goto(r, IF job[r].op = "markComplete" THEN "find_progress" ELSE "read")
            /\ UNCHANGED pool
       ELSE Fail(r)
    /\ UNCHANGED data

\* getProgressSummary: the certificates enrolled in; none, nothing to sum up.
FindPurchases(r, c) ==
    /\ At(r, "getProgressSummary")
    /\ Holds(r, c)
    /\ IF Purchases(c, job[r].who) = {} THEN Finish(r) ELSE Goto(r, "read")
    /\ UNCHANGED <<data, pool>>

\* The look-ups the response is put together from, and the signing of the
\* video's address.
Read(r) ==
    /\ Statement(r, "read")
    /\ Finish(r)
    /\ UNCHANGED <<data, pool>>

FindProgress(r) ==
    /\ Statement(r, "find_progress")
    /\ IF completedAt[<<job[r].who, job[r].id>>] = None
       THEN Goto(r, "save_progress") ELSE Finish(r)
    /\ UNCHANGED <<data, pool>>

\* Mutant: INSERT ... ON CONFLICT DO UPDATE.
SaveProgressUpserts(r) ==
    /\ Statement(r, "save_progress")
    /\ completedAt' = [completedAt EXCEPT ![<<job[r].who, job[r].id>>] = writes]
    /\ writes' = writes + 1
    /\ Finish(r)
    /\ UNCHANGED <<row, drifted, pool>>

\* INSERT; the unique (user_id, lesson_id) fails the loser of a race, with 500.
SaveProgress(r) ==
    /\ Statement(r, "save_progress")
    /\ IF completedAt[<<job[r].who, job[r].id>>] = None
       THEN /\ completedAt' = [completedAt EXCEPT ![<<job[r].who, job[r].id>>] = writes]
            /\ writes' = writes + 1
            /\ Finish(r)
            /\ UNCHANGED pool
       ELSE Fail(r) /\ UNCHANGED <<completedAt, writes>>
    /\ UNCHANGED <<row, drifted>>

-----------------------------------------------------------------------------
(* What the admins do to rows.                                             *)

\* "a"'s value unless the body left it out.
Or(a, b) == IF a = None THEN b ELSE a

\* buildTranslations: a block the body supplies replaces the locale's, title or
\* not; without a block for English its title mirrors the canonical one.
BuildTranslations(old, edit, title) ==
    [en |-> Or(edit.en, title), other |-> Or(edit.other, old.other)]

\* The look-up of a program code finds another certificate than id.
ProgramCodeTaken(code, id) == \E i \in Certs \ {id} : Exists(i) /\ row[i].code = code

CreatedRow(edit) ==
    LET t == BuildTranslations([other |-> Untitled], edit, edit.title)
    IN [code |-> edit.code, title |-> edit.title, en |-> t.en, other |-> t.other,
        active |-> Or(edit.active, TRUE)]

\* INSERT, under a fresh id of the kind.
Insert(r, kind) ==
    LET i == CHOOSE k \in kind : ~Exists(k) IN
    /\ \E k \in kind : ~Exists(k)
    /\ row' = [row EXCEPT ![i] = CreatedRow(job[r].edit)]
    /\ writes' = writes + 1
    /\ drifted' = IF job[r].edit.en \in Titles THEN drifted \cup {i} ELSE drifted
    /\ Finish(r)
    /\ UNCHANGED <<completedAt, pool>>

\* Mutant: the code is not looked up.
CreateUnchecked(r) ==
    /\ Statement(r, "createCertificate")
    /\ Goto(r, "insert")
    /\ UNCHANGED <<data, pool>>

\* CatalogService.create: 409 if the code is taken.
CreateCheck(r) ==
    /\ Statement(r, "createCertificate")
    /\ IF ProgramCodeTaken(job[r].edit.code, None) THEN Fail(r)
                                             ELSE Goto(r, "insert") /\ UNCHANGED pool
    /\ UNCHANGED data

CreateCertificate(r) == Statement(r, "insert") /\ Insert(r, Certs)

\* createModule and createLesson: the parent is looked up, 404 if it is not
\* there, and the row inserted; nothing deletes a parent in between.
CreateUnder(r, parents, kind) ==
    IF \E i \in parents : Exists(i) THEN Insert(r, kind)
                                    ELSE Fail(r) /\ UNCHANGED <<data>>

CreateModule(r) == Statement(r, "createModule") /\ CreateUnder(r, Certs, Modules)

CreateLesson(r) == Statement(r, "createLesson") /\ CreateUnder(r, Modules, Lessons)

\* update, updateTranslations and softDelete begin with a findOne.
ReadRow(r) ==
    /\ job[r].pc \in {"update", "updateTranslations", "softDelete"}
    /\ Statement(r, job[r].pc)
    /\ Proceed(r, [job[r] EXCEPT !.seen = row[job[r].id],
           !.pc = IF @ = "update" /\ job[r].edit.code \notin {None, row[job[r].id].code}
                  THEN "clash" ELSE "write"])
    /\ UNCHANGED <<data, pool>>

\* The new program code must not be another certificate's; 409.
Clash(r) ==
    /\ Statement(r, "clash")
    /\ IF ProgramCodeTaken(job[r].edit.code, job[r].id) THEN Fail(r)
                                                   ELSE Goto(r, "write") /\ UNCHANGED pool
    /\ UNCHANGED data

\* Mutant: translations are rebuilt only when the body has some.
PatchTranslationsOnly(now, seen, edit) ==
    LET t == BuildTranslations(seen, edit, Or(edit.title, seen.title)) IN
    [code   |-> Or(edit.code, now.code),
     title  |-> Or(edit.title, now.title),
     active |-> Or(edit.active, now.active),
     en     |-> IF {edit.en, edit.other} = {None} THEN now.en ELSE t.en,
     other  |-> IF {edit.en, edit.other} = {None} THEN now.other ELSE t.other]

\* Whether an update rebuilds the translations: the body names the title, the
\* description or a translation.
Rebuilds(edit) == edit.description \/ {edit.title, edit.en, edit.other} # {None}

\* update: the columns named are set; the translations are rebuilt from what
\* was read, if they are, and replaced whole.
Patch(now, seen, edit) ==
    LET t == BuildTranslations(seen, edit, Or(edit.title, seen.title)) IN
    [code   |-> Or(edit.code, now.code),
     title  |-> Or(edit.title, now.title),
     active |-> Or(edit.active, now.active),
     en     |-> IF Rebuilds(edit) THEN t.en ELSE now.en,
     other  |-> IF Rebuilds(edit) THEN t.other ELSE now.other]

\* Mutant: the merged block is taken to have a title.
PatchTranslationsUnguarded(now, seen, edit) ==
    LET en == Or(edit.en, seen.en) IN
    [now EXCEPT !.en = en, !.other = Or(edit.other, seen.other),
                !.title = IF en # seen.title THEN en ELSE @]

\* updateTranslations: a shallow merge into what was read; an English title,
\* if there is one, that differs from the canonical one read replaces it.
PatchTranslations(now, seen, edit) ==
    LET en == Or(edit.en, seen.en) IN
    [now EXCEPT !.en = en, !.other = Or(edit.other, seen.other),
                !.title = IF en \notin {Untitled, seen.title} THEN en ELSE @]

\* Whether the row has been written since the call read it.
Stale(r) == job[r].seen # row[job[r].id]

\* Whether the UPDATE of job j writes the translations, and whether that is the
\* "intentional-divergence case": an English title given beside the canonical.
Retitles(j) == j.op = "updateTranslations" \/ (j.op = "update" /\ Rebuilds(j.edit))
Diverges(j) == j.op = "update" /\ j.edit.en \in Titles

\* UPDATE ... WHERE id, committed at once.
WriteRow(r) ==
    LET i == job[r].id
        new == CASE job[r].op = "update"             -> Patch(row[i], job[r].seen, job[r].edit)
                 [] job[r].op = "updateTranslations" -> PatchTranslations(row[i], job[r].seen, job[r].edit)
                 [] job[r].op = "softDelete"         -> [row[i] EXCEPT !.active = FALSE]
    IN
    /\ Statement(r, "write")
    /\ row' = [row EXCEPT ![i] = new]
    /\ writes' = writes + 1
    /\ drifted' = IF ~Retitles(job[r]) THEN drifted
                  ELSE IF Stale(r) \/ Diverges(job[r]) THEN drifted \cup {i}
                  ELSE drifted \ {i}
    /\ Finish(r)
    /\ UNCHANGED <<completedAt, pool>>

-----------------------------------------------------------------------------
(* The specification.                                                      *)

\* A create for which the bound on the ids leaves one.
Create(r, who, op, body, kind) ==
    /\ Cardinality({q \in Calls : job[q] # Idle /\ job[q].op = op})
           < Cardinality({i \in kind : ~Exists(i)})
    /\ Arrive(r, who, op, None, body)

Request(r) ==
    \/ \E who \in Students, i \in Lessons :
           Exists(i) /\ (Arrive(r, who, "markComplete", i, None) \/ Arrive(r, who, "serveLesson", i, None))
    \/ \E who \in Students, i \in Certs :
           Exists(i) /\ Arrive(r, who, "getCurriculum", i, None)
    \/ \E who \in Students : Arrive(r, who, "getProgressSummary", None, None)
    \/ \E who \in Staff, e \in Bodies :
           \/ e.code # None /\ Create(r, who, "createCertificate", e, Certs)
           \/ e.code = None /\ Create(r, who, "createModule", e, Modules)
           \/ e.code = None /\ Create(r, who, "createLesson", e, Lessons)
    \/ \E who \in Staff, i \in {j \in Ids : Exists(j)} :
           \/ \E e \in Edits[i] : Arrive(r, who, "update", i, e)
           \/ Arrive(r, who, "softDelete", i, None)
    \/ \E who \in Staff, i \in {j \in Certs : Exists(j)} : \E e \in Edits[i] :
           {e.en, e.other} # {None} /\ Arrive(r, who, "updateTranslations", i, e)

Step(r) ==
    \/ Begin(r)
    \/ FindLesson(r) \/ FindCertificate(r) \/ Read(r)
    \/ (\E c \in Conns : AssertPurchased(r, c) \/ FindPurchases(r, c))
    \/ FindProgress(r) \/ SaveProgress(r)
    \/ CreateCheck(r) \/ CreateCertificate(r) \/ CreateModule(r) \/ CreateLesson(r)
    \/ ReadRow(r) \/ Clash(r) \/ WriteRow(r)
    \/ Commit(r)
    \/ AcquireTimeout(r)

Failure(r) == StatementFails(r) \/ BeginFails(r)

Next == \E r \in Calls : Request(r) \/ Step(r) \/ Failure(r)

Spec == Init /\ [][Next]_vars

\* Every call goes on, or times out waiting for the pool.
FairSpec == Spec /\ \A r \in Calls : WF_vars(Step(r))

-----------------------------------------------------------------------------
(* What requests promise.                                                  *)

\* Every variable stays in its type.
TypeOK ==
    /\ row \in [Ids -> Row \cup {None}]
    /\ completedAt \in [Students \X Lessons -> Nat \cup {None}]
    /\ owner \in [Conns -> Calls \cup {None}]
    /\ guc \in [Conns -> Students \cup Staff \cup {None}]
    /\ leaked \subseteq Conns /\ drifted \subseteq Ids
    /\ writes \in Nat
    /\ \A r \in Calls : job[r] = Idle \/
           /\ job[r].who \in Students \cup Staff
           /\ job[r].id \in Ids \cup {None}
           /\ job[r].edit \in Edit \cup {None}
           /\ job[r].seen \in Row \cup {None}

\* app.current_user_id never outlives its request: a connection that goes back
\* to the pool, after a commit, an error or a timeout, carries no identity,
\* and one in a request carries that request's or none yet.
IdentityIsolated ==
    \A c \in Conns :
        guc[c] = IF owner[c] = None \/ c \in leaked THEN None ELSE job[owner[c]].who

\* "Runner is always released", as far as it is so: once its BEGIN succeeded, a
\* request has exactly one connection until its answer, whatever that is; what
\* else a request was ever handed and has not given back is a connection whose
\* BEGIN failed.
ConnectionsReturn ==
    \A r \in Calls :
        /\ Cardinality({c \in Conns : owner[c] = r} \ leaked)
               = IF job[r].pc \in {"idle", "connect"} THEN 0 ELSE 1
        /\ \A c \in leaked : owner[c] # None

\* Check-then-insert on a column without a unique index: requests that race
\* may give a program code to several certificates, never more than there are
\* requests at a time.
FewDuplicateCodes ==
    \A p \in ProgramCodes :
        Cardinality({i \in Certs : Exists(i) /\ row[i].code = p}) <= Cardinality(Calls)

\* What resolveTranslation shows a reader of English: the title of the English
\* block, or the canonical one if that has none.
ShownInEnglish(i) == IF row[i].en = Untitled THEN row[i].title ELSE row[i].en

\* "do not let the two drift": a row shows its canonical title in English,
\* unless the last edit of its translations gave an English title of its own
\* beside it or wrote over an edit made since the row was read.
EnglishMirrorsTitle ==
    \A i \in Ids \ drifted : Exists(i) => ShownInEnglish(i) = row[i].title

\* What a student is answered and what is recorded of them is paid for: nobody
\* gets past the purchase on somebody else's row.
ContentForBuyers ==
    /\ \A r \in Calls : job[r].pc \in {"read", "find_progress", "save_progress"}
                         => job[r].who = Buyer
    /\ \A i \in Lessons : completedAt[<<Visitor, i>>] = None

\* "re-marking complete is a no-op (no change to completedAt)", in a race too.
CompletionIsFinal ==
    [][\A u \in Students, i \in Lessons :
           completedAt[<<u, i>>] # None => completedAt'[<<u, i>>] = completedAt[<<u, i>>]]_vars

\* A pool whose connections are all held by requests that wait for another one
\* does not stay so: every request is answered.  One call stands for all, since
\* nothing tells them apart.
RequestsEnd == \A r \in {CHOOSE q \in Calls : TRUE} : job[r] # Idle ~> job[r] = Idle
=============================================================================
