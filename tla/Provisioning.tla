----------------------------- MODULE Provisioning -----------------------------
(***************************************************************************)
(* Provisioning: how a database comes to serve.  Containers start, run the *)
(* pending migrations, bootstrap a super_admin and serve; the operator     *)
(* seeds demo data, seeds them again, writes rows of their own and reverts *)
(* migrations.  Containers and the seed stop at any statement and are run  *)
(* again.                                                                  *)
(*                                                                         *)
(* TypeORM runs all pending migrations in one transaction, and PostgreSQL  *)
(* makes a statement that creates an object wait for another transaction   *)
(* that created the same one.                                              *)
(***************************************************************************)
EXTENDS DemoData

CONSTANTS
    Containers,
    Configs,        \* environments: [env, optedIn, credentials]
    ManualRows,     \* rows people may add, [id, cols]
    MaxManual,      \* bounds: rows added,
    MaxSeeds,       \*     runs of the demo seed,
    MaxCrashes,     \*     crashes of containers and of the seed,
    MaxReverts      \*     migrations reverted

SuperAdminRow(c) ==
    Row("admin_users", c, [email |-> <<"bootstrap">>, role |-> "super_admin",
                                 created_by_id |-> Null])

\* No unique key holds both rows.
Apart(r, q) ==
    r.id[1] = q.id[1] => \A key \in Keys(r.id) : \E c \in key : r.cols[c] # q.cols[c]

\* A row has the columns of its table, its references name rows of the right
\* one, and a promo code starts unused.
WellFormed(r) ==
    /\ r.id # Null /\ r.id[1] \in DOMAIN TableOf
    /\ DOMAIN Refs(r.id) \cup UNION Keys(r.id) \subseteq DOMAIN r.cols
    /\ \A c \in DOMAIN Refs(r.id) :
           r.cols[c] # Null => r.cols[c][1] = Refs(r.id)[c].to
    /\ r.id[1] = "promo_codes" => "usage_count" \in DOMAIN r.cols /\ r.cols.usage_count = 0
    /\ r.id[1] = "admin_users" => "role" \in DOMAIN r.cols

\* Only bootstrap makes a super_admin.
Ordinary(r) == r.id[1] = "admin_users" => r.cols.role # "super_admin"

\* Row r can be inserted once the rows of earlier are there, and cleanup reaches
\* it: by its id, or along a reference that cascades.
Follows(r, earlier) ==
    /\ \A c \in DOMAIN Refs(r.id) : r.cols[c] # Null => \E e \in earlier : e.id = r.cols[c]
    /\ \A e \in earlier : e.id # r.id /\ Apart(r, e)
    /\ \/ r.id \in CleanupIds
       \/ \E c \in DOMAIN Refs(r.id) : r.cols[c] # Null /\ Refs(r.id)[c].rule = "CASCADE"

\* What the seed may write: the rows of its script, and the progress of a course
\* in lessons of its own and of people.
Lessons == {r.id : r \in {q \in PlannedRows \cup ManualRows : q.id[1] = "lessons"}}
ProgressRows == {ProgressRow(Course[n], l) : n \in CourseSteps, l \in Lessons}
DemoRows == PlannedRows \cup ProgressRows
DemoIds == {r.id : r \in DemoRows}

\* A course is of a student and a certificate of the script, after all lessons,
\* and the only one of that student.
CourseAt(n) ==
    /\ Plan[n] = <<>> /\ Course[n].count \in Nat \ {0}
    /\ Course[n].user_id[1] = "users" /\ Course[n].user_id \in CleanupIds
    /\ Course[n].user_id \in {r.id : r \in RowsOf(n - 1)}
    /\ {r \in PlannedRows : r.id[1] = "lessons"} \subseteq RowsOf(n - 1)
    /\ \A m \in CourseSteps \ {n} : Course[m].user_id # Course[n].user_id

\* Who is certified has passed the exam of that certificate.
Earned(cert, attempt) ==
    /\ attempt.passed
    /\ attempt.user_id = cert.user_id /\ attempt.cert_id = cert.certificate_id

ASSUME PlanAssumption ==
    /\ Plan \in Seq(Seq(PlannedRows)) /\ Len(Plan) > 0
    /\ Cleanup \in Seq([table : DOMAIN TableOf, ids : SUBSET CleanupIds]) /\ Len(Cleanup) > 0
    /\ \A r \in PlannedRows :
           /\ WellFormed(r) /\ Ordinary(r) /\ r.id[1] # "student_progress"
           /\ r.id[1] = "admin_users" => r.cols.email # <<"bootstrap">>
           /\ r.id[1] = "issued_certificates" =>
                  \E a \in PlannedRows : a.id = r.cols.exam_attempt_id /\ Earned(r.cols, a.cols)
    /\ \A n \in DOMAIN Plan : \A j \in DOMAIN Plan[n] :
           Follows(Plan[n][j], RowsOf(n - 1) \cup {Plan[n][i] : i \in 1 .. j - 1})
    /\ \A n \in CourseSteps : CourseAt(n)

\* Ids are UUIDs: nobody draws one of the seed's or one drawn before.
ASSUME ProvisioningAssumption ==
    /\ \A c \in Configs :
           /\ c.env \in {"development", "test", "staging", "production"}
           /\ c.optedIn \in BOOLEAN /\ c.credentials \in BOOLEAN
    /\ \A r \in ManualRows :
           /\ WellFormed(r) /\ Ordinary(r)
           /\ r.id \notin DemoIds \cup CleanupIds
    /\ \A c \in Containers :
           SuperAdminRow(c).id \notin DemoIds \cup CleanupIds \cup {r.id : r \in ManualRows}
    /\ {MaxManual, MaxSeeds, MaxCrashes, MaxReverts} \subseteq Nat

VARIABLES
    config,       \* the environment of the deployment
    objects,      \* the objects of the schema, as committed
    applied,      \* how many migrations the migrations table lists
    db,           \* the rows
    container,    \* where each container is
    seed,         \* where the demo seed is
    made,         \* ids of the manual rows ever added
    seeds, crashes, reverts

bounds == <<seeds, crashes, reverts>>
vars == <<config, objects, applied, db, container, seed, made, bounds>>

Down == [pc |-> "down"]
AtPc(c, label) == container[c].pc = label
Become(c, j) == container' = [container EXCEPT ![c] = j]

SeedAt(pc, next) == [pc |-> pc, next |-> next, todo |-> <<>>]
SeedRunning == seed.pc \in {"cleanup", "insert", "complete"}

Init ==
    /\ config \in Configs
    /\ objects = {}
    /\ applied = 0
    /\ db = <<>>
    /\ container = [c \in Containers |-> Down]
    /\ seed = SeedAt("idle", 1)
    /\ made = {}
    /\ seeds = 0 /\ crashes = 0 /\ reverts = 0

-----------------------------------------------------------------------------
(* docker/entrypoint.sh: migration:run, then the API.                      *)

\* The statements of the migrations after the n-th.
PendingAfter[n \in 0 .. Len(Migrations)] ==
    IF n = Len(Migrations) THEN <<>> ELSE Migrations[n + 1].up \o PendingAfter[n + 1]

Start(c) ==
    /\ AtPc(c, "down")
    /\ Become(c, IF applied = Len(Migrations)
                 THEN [pc |-> "bootstrap"]
                 ELSE [pc |-> "migrate", from |-> applied, next |-> 1, created |-> {}])
    /\ UNCHANGED <<config, objects, applied, db, seed, made, bounds>>

Pending(c) == PendingAfter[container[c].from]
Statement(c) == Pending(c)[container[c].next]

\* The statement of c does not have to wait for another transaction.
Migrating(c) ==
    /\ AtPc(c, "migrate")
    /\ container[c].next <= Len(Pending(c))
    /\ \A d \in Containers \ {c} :
           AtPc(d, "migrate") => Statement(c).object \notin container[d].created

Seen(c) == objects \cup container[c].created

MigrateStep(c) ==
    /\ Migrating(c)
    /\ Succeeds(Seen(c), Statement(c))
    /\ Become(c, [container[c] EXCEPT !.next = @ + 1,
                                      !.created = @ \cup {Statement(c).object}])
    /\ UNCHANGED <<config, objects, applied, db, seed, made, bounds>>

\* The transaction is rolled back and, under set -e, the container ends.
MigrateFails(c) ==
    /\ Migrating(c)
    /\ ~Succeeds(Seen(c), Statement(c))
    /\ Become(c, Down)
    /\ UNCHANGED <<config, objects, applied, db, seed, made, bounds>>

\* Mutant: all migrations are recorded, run or not.
CommitMigrationsAgain(c) ==
    /\ AtPc(c, "migrate")
    /\ container[c].next > Len(Pending(c))
    /\ objects' = Seen(c)
    /\ applied' = applied + Len(Migrations)
    /\ Become(c, [pc |-> "bootstrap"])
    /\ UNCHANGED <<config, db, seed, made, bounds>>

CommitMigrations(c) ==
    /\ AtPc(c, "migrate")
    /\ container[c].next > Len(Pending(c))
    /\ objects' = Seen(c)
    /\ applied' = Len(Migrations)
    /\ Become(c, [pc |-> "bootstrap"])
    /\ UNCHANGED <<config, db, seed, made, bounds>>

-----------------------------------------------------------------------------
(* SeederService.onApplicationBootstrap.                                   *)

Wanted == config.env = "production" => config.optedIn

\* resolveCredentials throws where the defaults must not be used.
CredentialsResolve == config.env \in {"staging", "production"} => config.credentials

BootstrapSkipped(c) ==
    /\ AtPc(c, "bootstrap")
    /\ ~Wanted
    /\ Become(c, [pc |-> "up"])
    /\ UNCHANGED <<config, objects, applied, db, seed, made, bounds>>

\* Mutant: any admin will do.
CountAnyAdmin(c) ==
    /\ AtPc(c, "bootstrap")
    /\ Wanted
    /\ LET existing == {i \in DOMAIN db : i[1] = "admin_users"}
       IN  Become(c, IF existing # {} THEN [pc |-> "up"]
                     ELSE IF CredentialsResolve THEN [pc |-> "insert"] ELSE Down)
    /\ UNCHANGED <<config, objects, applied, db, seed, made, bounds>>

\* count, and if there is none resolveCredentials and bcrypt.
CountSuperAdmins(c) ==
    /\ AtPc(c, "bootstrap")
    /\ Wanted
    /\ Become(c, IF SuperAdmins(db) # {} THEN [pc |-> "up"]
                 ELSE IF CredentialsResolve THEN [pc |-> "insert"] ELSE Down)
    /\ UNCHANGED <<config, objects, applied, db, seed, made, bounds>>

\* Mutant: no ON CONFLICT, and no unique e-mail to conflict with.
InsertAnyway(c) ==
    /\ AtPc(c, "insert")
    /\ db' = InsertRow(db, SuperAdminRow(c).id, SuperAdminRow(c).cols)
    /\ Become(c, [pc |-> "up"])
    /\ UNCHANGED <<config, objects, applied, seed, made, bounds>>

\* INSERT ... ON CONFLICT DO NOTHING.
InsertSuperAdmin(c) ==
    /\ AtPc(c, "insert")
    /\ LET r == SuperAdminRow(c)
       IN  db' = IF CanInsert(db, r.id, r.cols) THEN InsertRow(db, r.id, r.cols) ELSE db
    /\ Become(c, [pc |-> "up"])
    /\ UNCHANGED <<config, objects, applied, seed, made, bounds>>

\* A container stops, at any statement; what it had not committed is gone.
Crash(c) ==
    /\ ~AtPc(c, "down")
    /\ crashes < MaxCrashes
    /\ crashes' = crashes + 1
    /\ Become(c, Down)
    /\ UNCHANGED <<config, objects, applied, db, seed, made, seeds, reverts>>

-----------------------------------------------------------------------------
(* demo-seed.ts, against a migrated database.                              *)

CanSeed ==
    /\ ~SeedRunning
    /\ config.env # "production"
    /\ applied = Len(Migrations)
    /\ seeds < MaxSeeds

\* Mutant: a slice that is there is taken for whole.
StartSeedUnlessPresent ==
    /\ CanSeed
    /\ seeds' = seeds + 1
    /\ seed' = IF DOMAIN db \cap DemoIds # {} THEN SeedAt("done", 1) ELSE SeedAt("cleanup", 1)
    /\ UNCHANGED <<config, objects, applied, db, container, made, crashes, reverts>>

StartSeed ==
    /\ CanSeed
    /\ seeds' = seeds + 1
    /\ seed' = SeedAt("cleanup", 1)
    /\ UNCHANGED <<config, objects, applied, db, container, made, crashes, reverts>>

\* The next statement of a section of n begins, or the next section.
SeedProceeds(pc, n, following) ==
    seed' = IF seed.next < n THEN SeedAt(pc, seed.next + 1) ELSE SeedAt(following, 1)

SeedFails == seed' = SeedAt("failed", 1) /\ db' = db

\* Mutant: all rows of the table are deleted.
CleanupWholeTables ==
    /\ seed.pc = "cleanup"
    /\ db' = DeleteRows(db, {i \in DOMAIN db : i[1] = Cleanup[seed.next].table
                                                 /\ i \notin SuperAdmins(db)})
    /\ SeedProceeds("cleanup", Len(Cleanup), "insert")
    /\ UNCHANGED <<config, objects, applied, container, made, bounds>>

CleanupStep ==
    /\ seed.pc = "cleanup"
    /\ LET ids == Cleanup[seed.next].ids
       IN  IF CanDelete(db, ids)
           THEN /\ db' = DeleteRows(db, ids)
                /\ SeedProceeds("cleanup", Len(Cleanup), "insert")
           ELSE SeedFails
    /\ UNCHANGED <<config, objects, applied, container, made, bounds>>

\* The rows of one transaction, all of them or none.
Inserted(acc, r) ==
    IF acc.ok /\ CanInsert(acc.db, r.id, r.cols)
    THEN [db |-> InsertRow(acc.db, r.id, r.cols), ok |-> TRUE]
    ELSE [db |-> acc.db, ok |-> FALSE]

InsertAll(rows) ==
    LET after[n \in 0 .. Len(rows)] ==
            IF n = 0 THEN [db |-> db, ok |-> TRUE] ELSE Inserted(after[n - 1], rows[n])
    IN  after[Len(rows)]

InsertStep ==
    /\ seed.pc = "insert"
    /\ Course[seed.next] = Null
    /\ LET result == InsertAll(Plan[seed.next])
       IN  IF result.ok
           THEN /\ db' = result.db
                /\ SeedProceeds("insert", Len(Plan), "done")
           ELSE SeedFails
    /\ UNCHANGED <<config, objects, applied, container, made, bounds>>

\* completeLessons: the SELECT, then an INSERT for each of its lessons, each a
\* transaction of its own.
Completing(lessons) ==
    IF lessons = <<>> THEN SeedProceeds("insert", Len(Plan), "done")
                      ELSE seed' = [pc |-> "complete", next |-> seed.next, todo |-> lessons]

SelectLessons ==
    /\ seed.pc = "insert"
    /\ Course[seed.next] # Null
    /\ \E lessons \in Selected(db, Course[seed.next]) : Completing(lessons)
    /\ UNCHANGED <<config, objects, applied, db, container, made, bounds>>

CompleteLesson ==
    /\ seed.pc = "complete"
    /\ LET r == ProgressRow(Course[seed.next], Head(seed.todo))
       IN  IF CanInsert(db, r.id, r.cols)
           THEN /\ db' = InsertRow(db, r.id, r.cols)
                /\ Completing(Tail(seed.todo))
           ELSE SeedFails
    /\ UNCHANGED <<config, objects, applied, container, made, bounds>>

SeedCrash ==
    /\ SeedRunning
    /\ crashes < MaxCrashes
    /\ crashes' = crashes + 1
    /\ seed' = SeedAt("stopped", 1)
    /\ UNCHANGED <<config, objects, applied, db, container, made, seeds, reverts>>

-----------------------------------------------------------------------------
(* People.                                                                 *)

AddRow(r) ==
    /\ applied = Len(Migrations)
    /\ r.id \notin made
    /\ Cardinality(made) < MaxManual
    /\ CanInsert(db, r.id, r.cols)
    /\ db' = InsertRow(db, r.id, r.cols)
    /\ made' = made \cup {r.id}
    /\ UNCHANGED <<config, objects, applied, container, seed, bounds>>

\* migration:revert, with the API and the seed stopped: the down() of the last
\* migration in one transaction.  The rows go with their tables.
Undone(acc, s) == [objects |-> After(acc.objects, s),
                   ok |-> acc.ok /\ Succeeds(acc.objects, s)]

Reverted ==
    LET down == Migrations[applied].down
        after[n \in 0 .. Len(down)] ==
            IF n = 0 THEN [objects |-> objects, ok |-> TRUE] ELSE Undone(after[n - 1], down[n])
    IN  after[Len(down)]

Revert ==
    /\ \A c \in Containers : AtPc(c, "down")
    /\ ~SeedRunning
    /\ applied > 0
    /\ reverts < MaxReverts
    /\ reverts' = reverts + 1
    /\ IF Reverted.ok
       THEN /\ objects' = Reverted.objects
            /\ applied' = applied - 1
            /\ db' = Restrict(db, {i \in DOMAIN db : <<"table", i[1]>> \in objects'})
       ELSE UNCHANGED <<objects, applied, db>>
    /\ seed' = SeedAt("idle", 1)
    /\ UNCHANGED <<config, container, made, seeds, crashes>>

Container(c) ==
    \/ Start(c) \/ MigrateStep(c) \/ MigrateFails(c) \/ CommitMigrations(c)
    \/ BootstrapSkipped(c) \/ CountSuperAdmins(c) \/ InsertSuperAdmin(c)
    \/ Crash(c)

DemoSeed ==
    \/ StartSeed \/ CleanupStep \/ InsertStep
    \/ SelectLessons \/ CompleteLesson
    \/ SeedCrash

Next ==
    \/ \E c \in Containers : Container(c)
    \/ DemoSeed
    \/ \E r \in ManualRows : AddRow(r)
    \/ Revert

Spec == Init /\ [][Next]_vars

-----------------------------------------------------------------------------
(* Properties.                                                             *)

\* Every variable stays in its type, and every row came from somewhere.
TypeOK ==
    /\ config \in Configs
    /\ applied \in 0 .. Len(Migrations)
    /\ \A i \in DOMAIN db \ DemoIds :
           i \in made \/ \E c \in Containers : i = SuperAdminRow(c).id
    /\ \A c \in Containers :
           container[c].pc \in {"down", "migrate", "bootstrap", "insert", "up"}
    /\ seed.pc \in {"idle", "cleanup", "insert", "complete", "done", "failed", "stopped"}
    /\ made \subseteq {r.id : r \in ManualRows}

\* The schema is what the migrations on record add up to, whatever stopped in
\* between and however often migrations were reverted and run again; only the
\* extensions outlast their migration.
SchemaMatchesApplied ==
    /\ SchemaAfter[applied] \subseteq objects
    /\ objects \subseteq SchemaAfter[applied] \cup Extensions

\* "At most one row wins": containers that boot at the same time leave at most
\* one super_admin.
OneSuperAdmin == Cardinality(SuperAdmins(db)) <= 1

\* A container that serves has a fully migrated database and, where bootstrap is
\* asked for, a super_admin, unless another admin holds that e-mail address; a
\* re-run of the demo seed, which deletes admins, does not end that.
ServesProvisioned ==
    \A c \in Containers :
        AtPc(c, "up") =>
            /\ applied = Len(Migrations)
            /\ Wanted => \E i \in DOMAIN db :
                             i[1] = "admin_users" /\ db[i].email = <<"bootstrap">>

\* The lessons the seed has the student of course c complete.
Completed(c) == {l \in Lessons : ProgressRow(c, l).id \in DOMAIN db}

\* A course is told: as many lessons of the certificate as the story asks for,
\* or all demo lessons it has, and none of those is passed over.
CourseTold(c) ==
    LET of == LessonsOf(db, c.cert_id)
    IN  /\ Completed(c) \subseteq of
        /\ Cardinality(Completed(c)) = c.count \/ of \cap DemoIds \subseteq Completed(c)
        /\ \A k \in of \cap DemoIds, l \in Completed(c) :
               Precedes(db, k, l) => k \in Completed(c)

\* A run of the seed never fails on rows an earlier run left, wherever that one
\* stopped: it fails only where people hold a key of a demo row.  One that ends
\* has written the whole script, in which who is certified has passed the exam
\* of that certificate, and the students' courses, whatever lessons people add
\* to them.
SliceWhole ==
    /\ seed.pc = "failed" =>
           \E m \in ManualRows, r \in DemoRows :
               m.id \in DOMAIN db /\ r.id \notin DOMAIN db /\ ~Apart(r, m)
    /\ seed.pc = "done" =>
           /\ \A r \in PlannedRows :
                  /\ r.id \in DOMAIN db
                  /\ r.id[1] # "promo_codes" => db[r.id] = r.cols
           /\ \A i \in DemoIds : i[1] = "issued_certificates" =>
                  Earned(db[i], db[db[i].exam_attempt_id])
           /\ \A n \in CourseSteps : CourseTold(Course[n])

\* The use count of a promo code covers the transactions that name it, after
\* cascades, re-runs and crashes.
UsageCoversTransactions ==
    \A p \in DOMAIN db : p[1] = "promo_codes" =>
        db[p].usage_count >=
            Cardinality({t \in DOMAIN db : t[1] = "transactions" /\ db[t].promo_code_id = p})

\* How a statement may leave the value of column c of row i: as it is, cleared
\* with the row it names, or counted up.
LeavesColumn(i, c) ==
    \/ db'[i][c] = db[i][c]
    \/ /\ c \in DOMAIN Refs(i) /\ Refs(i)[c].rule = "SET NULL"
       /\ db[i][c] \in DOMAIN db \ DOMAIN db' /\ db'[i][c] = Null
    \/ i[1] = "promo_codes" /\ c = "usage_count" /\ db'[i][c] >= db[i][c]

\* "Manually-created data is never touched" is what the seed promises, and more
\* than it keeps: a row people hung on the slice goes with it, or loses its
\* reference.  It goes no further than that: a row that is not the seed's is
\* deleted only along a reference that cascades, with the row it names, and
\* otherwise keeps all else that was written to it.
OnlyDependentsTouched ==
    [][reverts' = reverts =>
        \A i \in DOMAIN db \ DemoIds :
            IF i \in DOMAIN db'
            THEN \A c \in DOMAIN db[i] : LeavesColumn(i, c)
            ELSE \E c \in DOMAIN Refs(i) :
                     Refs(i)[c].rule = "CASCADE" /\ db[i][c] \in DOMAIN db \ DOMAIN db']_vars
===============================================================================
