# TLA+ models of the IOS LMS backend

This directory holds the formal models of the backend in `src/` (NestJS, PostgreSQL, Redis):
TLA+ modules, the TLC configurations that check them on small instances, and proofs for TLAPS.
`PROJECT.json` is the index: components, runs, the lines each definition models, findings and
hazards. File names below are relative to the repository.

## The system

| Component | State it keeps | Operations | Talks to |
|---|---|---|---|
| Exam engine (`src/modules/exam/exam.service.ts`, `test-session.service.ts`, `exam-keyspace.handler.ts`) | Postgres `exam_access_codes`, `test_sessions`, `exam_attempts`; Redis `exam:session:{id}` (with the exam's duration as TTL) and `exam:grace:{id}` (120 s) | assign, validate, start, autosave, status, submit, late submit; on expiry of the two keys: mark EXPIRED and open the grace window, auto-submit | Postgres, Redis commands, Redis expiry notifications, gateway |
| Redis bridge (`src/modules/redis`) | one command and one subscriber connection per process | JSON get/set/getdel, `KEEPTTL XX`, notification to event | engine, gateway |
| Exam gateway (`exam.gateway.ts`) | per process, a map from session to tick timer | join, tick, warn, session_expired | Redis TTL, socket rooms |
| Authentication (`src/modules/auth`) | `refresh_tokens`, `auth_tokens`, `users.password_hash` | register, verify, login, refresh (rotation, reuse detection), logout, forgot/reset/change password | mail |
| Learning (`src/modules/learning`) | modules, lessons, `student_progress` | CRUD, curriculum, mark complete, progress | RLS runner, storage |
| Catalog (`src/modules/catalog`) | `certificates` and their translations | list with a cursor, CRUD, translation merge | - |
| RLS interceptor and pool (`src/common/interceptors`, `typeorm.config.ts`) | one pooled connection and transaction per authenticated request | open, set GUCs, commit or roll back, release | every service |
| Seeder (`src/modules/seeder`) and entry point (`docker/entrypoint.sh`) | `migrations`, `admin_users` | run pending migrations, create the first super admin once, serve | schema |
| Schema and demo seed (`src/database`) | 26 tables, their types, keys, triggers and policies; the demo slice | four migrations up and down; delete and re-insert the slice | everything |
| Guards, i18n, mail, storage, health, web, errors, configuration | little or none | see `PROJECT.json` | - |

Several application processes may run at once (the gateway is written for "multi-instance", the
seeder for "PM2 cluster mode"), all on one Postgres and one Redis. Each process is one event loop:
code between two `await`s is atomic, everything else interleaves.

What is hard, and where: the exam engine spreads one session over two stores and a fire-and-forget
notification, and every operation is several statements long. Authentication has check-then-write
sequences whose loser must be refused. The interceptor makes every request a holder and a waiter of
the same pool. `PROJECT.json` "hazards" lists each such place with its line and, where there is one,
the property that covers it.

What makes each component correct:

- exam engine: a code starts at most one session and is not lost without one; the countdown is never
  extended; a session ends in exactly one attempt; a session that was started ends; a grace window
  admits one late submit; the answers scored are the last ones saved;
- gateway: no tick after the end, one timer per session and process, no timer for a dead session;
- authentication: a refresh token mints at most one successor, reuse revokes the family, no token from
  before a password change survives it, a one-time token works once;
- assignment: exams of a certificate come in order, one outstanding code per exam, the verdict is the
  one the marks give;
- learning and catalog: re-marking a lesson is a no-op, a title and its English translation agree, only
  what was bought is served, only active certificates are public;
- interceptor and pool: an identity ends with its request, connections come back, requests do not wait
  on each other for ever;
- provisioning: the schema is what the recorded migrations add up to, at most one super admin, a seed
  that can be run again after any stop and takes no more with it than what hangs on its rows.

## Modules

| Module | Models | Checked by |
|---|---|---|
| `ExamContract` | what the engine promises of the sittings of one student: the abstract specification | refined by `ExamSession` |
| `ExamSession` | the exam engine for one student and one exam | `exam_safety`, `exam_liveness`, `exam_reopened`, `exam_dev_database`, `exam_two_active` |
| `ExamSessionProofs`, `ExamGraceProofs`, `ExamContractProofs` | theorems about `ExamSession`, its grace window; that it implements `ExamContract` | TLAPS |
| `ExamGateway` | timers, ticks and `session_expired` of one session | `exam_gateway` |
| `ExamScoring` | `scoreAnswers`: marks, rounding, threshold | through `ExamAssign` |
| `ExamAssign` | one student's way through the exams of a certificate | `exam_assign` |
| `AuthSessions` | refresh tokens, one-time tokens and passwords of students | `auth_sessions`, `auth_password_change` |
| `Content` | authenticated requests to catalog and learning, with interceptor and pool | `content` |
| `ExamGatewayProofs`, `ExamAssignProofs`, `AuthSessionsProofs`, `ContentProofs`, `ProvisioningProofs` | theorems about the modules they are named after | TLAPS |
| `CatalogPages` | the public list and look-up | `catalog_search` |
| `Schema` | the four migrations; inserting and deleting rows under their constraints | through `Provisioning` |
| `DemoData` | the demo dataset as transactions | through `Provisioning` |
| `Provisioning` | containers that migrate and bootstrap, the demo seed, people's own rows | `provisioning` |

Each checked module has an `MC...` module with the values and symmetry TLC needs. `ExamContract` hangs
under `ExamSession` by `INSTANCE ... WITH`; `ExamAssign` extends `ExamScoring`; `Provisioning` extends
`DemoData`, which extends `Schema`. `ExamGateway` and `ExamAssign` each see a session through the part
of `ExamSession` they need (key, row, notification; started and scored).

### `ExamSession`

Scope: one student, one exam. Rows, keys and codes of other (student, exam) pairs are disjoint from
these, and a call on a foreign session is refused by `getOwnedSession` without a write.

State. `usedAt`, `status`, `token`, `snapshot`, `attempts` are the columns the engine reads and
writes; `sessionKey`, `graceKey` the two Redis keys by their payload (absent is `None`); `inbox` the
notifications on their way to each process; `job` the program counter and locals of every call in
flight; `told` the sessions whose id reached the student. `ttlElapsed`, `reopened`, `graceOpened`,
`recent` (the answers a row may be expected to hold) are history variables no guard reads; `faults` is
read only by the bound `MaxFaults`.

Atomicity. One action is the code between two `await`s around a single statement on Postgres or Redis.
A transaction is one action: the tests that matter in it are conditions of its UPDATE, which Postgres
re-evaluates under the row lock (READ COMMITTED), and nothing it writes is visible earlier. So
`startExam` is `StartVerify`, `StartCheck`, `StartTxn` or `StartTxnConflict`, `StartRedis` or
`StartRedisFails` then `StartUndo`, `StartReply`; `autosave` is read, GET, `SET KEEPTTL XX`, row
update; the keyspace handler is read, write, `SET` of the grace key.

Slots. A call occupies a slot: a request slot for HTTP, a slot per (process, kind of key, session) for
the handler. A handler that is running when the same notification arrives again at the same process
waits; the session key expires at most once per row, so nothing is lost by that for "session", and for
"grace" a second window can only open after a second instance's handler ran.

Time. Redis expiry is an action that may happen whenever the key exists, with one exception:
`SessionKeyExpires` does not happen while the `startExam` that created the key is about to delete the
row again. The countdown lasts the whole exam (minutes to hours), the failed command a few retries
(`maxRetriesPerRequest: 3`). Without that exception the model reports a code in use with no row, after
a compensation delayed by the length of an exam. Nothing else is assumed about speeds: a handler may be
delayed past the grace window, or a submit past the countdown.

Faults. `CallFails` ends any call before its next statement (crash or exception); `StartRedisFails`
leaves it open whether the failed SET was applied; `NotificationLost` is pub/sub without a subscriber;
`KeyLost` is eviction (`maxmemory-policy allkeys-lru`) or the last second of the append-only file.

Abstractions: answers are members of a small set; `null` and `{}` snapshots are the same value, as the
code treats them; codes exist from the start, issued, and their 24 h and the exam's publication only
ever refuse a call; scores are left out; row ids are never reused.

### `AuthSessions`

State. `account` and `password` are columns of `users`; `refresh` and `links` the rows of
`refresh_tokens` and `auth_tokens`, `hashed` telling whether `'pending'` has been replaced; `cookies`
and `mailed` the tokens that reached a client. `from`, `basis`, `late` and `effects` are history: which
token a row was minted for, the password of the login at the root of the chain, the rows inserted when
that was no longer the password, how often a link was acted upon.

Actions. One per statement, in the code's order, with the label of `job` as program counter:

| Code | Actions |
|---|---|
| `register` | `RegisterRead`, `InsertUser`, then issuing a link |
| `forgotPassword` | `ForgotRead`, then issuing a link |
| `issueAuthToken` and the mail | `Invalidate`, `InsertLink`, `Mail` |
| `verifyEmail`, `resetPassword` | `LinkRead`, `UseLink`, then `VerifyUser`, or `WritePassword` and `RevokeAll` |
| `changePassword` | `ChangeRead`, `WritePassword`, `RevokeAll` |
| `loginStudent` | `LoginRead`, `InsertRefresh`, `WriteHash`, `Reply` |
| `refresh` | `RefreshRead`, `RefreshFlip`, then as a login; or `RevokeAll` on a reuse |
| `logout` | `Logout` |

The password comparisons and hashings are awaits between these statements, so a statement of another
call may fall on either side of them. `CallFails` is an exception or crash before any statement.
Expiry is left out: it only refuses calls, and a token nobody presents any more behaves the same.
Admins use the same code for their tokens; they have no links and change no password here.

### `ExamContract`

`phase` of each sitting (unopened, open, closed, withdrawn), the codes `used`, the `code` each was opened
with and its `results`. Four steps: `Begin`, `Withdraw`, `Close`, `Reopen`. `ExamSession` maps `status`
to the phase (ACTIVE and EXPIRED are open, a row that is gone is withdrawn if a code was read for it),
`usedAt` to `used`, `token` to `code`, `attempts` to `results`. So transaction, key, compensation, expiry,
grace window and every fault amount to: a code opens one sitting, a withdrawn sitting has no result and
frees its own code, a result closes an open sitting, and nothing else changes any of the three together.
`Reopen` is in the contract because the code has it (finding `exam_reopened`).

### `ExamGateway`

State. `ttl` the countdown in bands between the thresholds that count; `row`, `inbox`, `handler` what the
engine shares with the gateway; `calls` the replies of `getSession` on the way, in the order Redis was
asked (one connection per process answers in order); `joining` the joins that await `socket.join`;
`intervals` every `setInterval` ever created here, `entry` the one the map `timers` holds; `sent` the
warnings that went out. `elapsed`, `announced` are history.

Actions. `JoinSession`, `JoinRefused`, `JoinAccepted`, `Joined` are `handleJoinSession`; `Fire`,
`TickKeyGone`, `TickEmits` the callback of `startTimer`, split at its await; `EmitSessionExpired` the
handler's call into the gateway. `GET` and `PTTL` of one `getSession` may fall on two sides of the
expiry. `CallFails`, `ExpiryLost`, `Crash` are the faults; a crash of `Here` takes its map and intervals.

Only the timers of one instance are kept: instances share the row, the key and the notification, which
are there for all. Rooms are left out: with the Redis adapter a room spans instances.

### `ExamScoring` and `ExamAssign`

`ScoreAnswers` computes marks, the percentage rounded half up to two decimals, and the verdict, in
hundredths of a percent. `ExamAssign` walks a student through the pool: `AssignExam`; `AssignNext`,
`PickNext`, `CheckOutstanding`, `IssueAccessCode` of two admins; `Verify`, `StartCheck`, `StartTxn`,
`StartRedis` or `StartUndo`, `Submit`, `AutoSubmit` of the student; `Lapse` for the 24 hours; `Edit` for
an exam published or withdrawn meanwhile. What happens between start and score is `ExamSession`'s.

`findOne` without an order may return any unused row, so a lapsed one can hide one that is good:
`FewOutstanding` therefore speaks of exams no code of which lapsed, used ones
included: a call may still use a code that lapsed after it was verified, and then what was issued past it
is all usable. A session that is running does not
keep the next code from being issued, nor its own exam from being assigned again. `Verify` is the two
look-ups of `findAndVerifyCode` in one action: a withdrawal between the two is one after `Verify`, which
`LateStarts` counts.

### `Content`

One request is: guards (`Arrive`), `connect`, BEGIN and `set_config` (`Begin`), the statements of the
handler, commit or rollback and release. Only the look-up of a purchase runs on the request's connection
(`AssertPurchased`, `FindPurchases`); every other statement takes a second one of the same pool for as
long as it lasts and is durable at once, so a handler's write survives a failing commit (`Commit`).
`AcquireTimeout` is `connectionTimeoutMillis`. `BeginFails` leaks, because connect and BEGIN stand before
the `try`: `owner` still names the call the connection was handed to after that call is answered, and
`leaked` remembers it.

Rows of the three services are edited by the same steps, so certificates, modules and lessons are ids of
one row type: program code, canonical title, the titles in English and in one other locale, active. A
locale's block may be missing, `{}`, or have a description only; all three have no title, which is
`Untitled`. `Patch` and `PatchTranslations` are `update` and `updateTranslations` with
`buildTranslations`, applied to the row as it is now with what the call read earlier. A body is the set
of fields it names: a block it supplies replaces the locale's, title or not, and only without a block for
English is the title mirrored. `ShownInEnglish` is `resolveTranslation`: the English title, or the
canonical one where the block has none.

Of the responses only who gets one is kept. A deactivated module or certificate does not stop its
lessons from being served, nor `markComplete` on them: `FindLesson` looks at the lesson alone.

### `CatalogPages`

`List` with filter, search, sort and cursor, `GetById`, while admins deactivate and reactivate. Times
are in microseconds and the cursor loses them, as the JavaScript date does. The WHERE is put together
the way TypeORM does it, an OR inside an AND.

### `Schema`, `DemoData`, `Provisioning`

`Schema` has the statements of each migration's `up` and `down` as operations on named objects (which
must exist, or not), and inserts and deletes under foreign keys with their rule, unique keys and the
triggers on super admins and promo codes. `DemoData` is the dataset of the seed as a `Script` of
transactions, in order, with the ids and references of every row (`Plan`); `MaxLessons` and
`MaxQuestions` cut how many lessons a module and questions an exam has. A student's progress is not a
row of the script but a `Course`: of whom, in which certificate, how many lessons. Which lessons those
are the code selects when it gets there, and so does `Selected`, from the rows there are then: a lesson
people add to a demo module while the seed runs may take the place of a demo lesson. Lessons of the same
position come in any order.

`Provisioning` runs them: containers (`Start`, `MigrateStep`, `CommitMigrations`, `CountSuperAdmins`,
`InsertSuperAdmin`, `Crash`), the seed (`CleanupStep`, `InsertStep`, `SelectLessons`, `CompleteLesson`,
`SeedCrash`), `AddRow`, `Revert`. All pending migrations are one transaction, and a statement that
creates what another open transaction created waits for it. Cascades, the rows a transaction inserts and
the statements of a `down()` are recursive functions. `PlanAssumption` is all the other modules need to
know of the dataset; TLC evaluates it on the one of the seed.

A revert may follow seeds and rows of people, and a seed a revert. `package.json:22` guards nothing, but
`Revert` happens only with every container down and no seed running: what a serving API does on tables
that vanish under it is left out. A revert ends what a finished seed left, so `seed` is idle afterwards
and `SliceWhole` claims nothing until the next one. Two seeds at the same time are not modelled. Of
database functions no code calls (`check_rate_limit`, the audit trigger, certificate sequences) only the
object is; so the unique index on `issued_certificates.cert_id`, which `set_cert_sequence` fills from a
sequence, is left out.

## Runs

| Run | Instance | Result |
|---|---|---|
| `exam_safety` | 2 rows, 1 code, 2 calls, 2 processes, 2 answer sets within `AnswersBound`, 2 faults, symmetric | the invariants, `SubmittedIsFinal` and the refinement `KeepsContract` hold |
| `exam_liveness` | 1 row, 1 code, 2 calls, 2 processes, 1 answer set, no fault, fairness | `EverySessionCloses` holds |
| `exam_reopened` | 1 row, 1 call, 1 process, no fault | `AtMostOneAttempt` violated |
| `exam_dev_database` | as above on logical database 1, fairness | `EverySessionCloses` violated |
| `exam_two_active` | 2 rows, 2 codes, 2 calls, 1 process | `OneActiveSession` violated |
| `exam_gateway` | 2 instances, countdown of 4 bands with 2 thresholds, a band apart, 2 joins and 2 ticks in flight, 1 fault, fairness | invariants, `TimersStop`, `ExpiryAnnounced` hold |
| `exam_assign` | pool of 2, 3 codes, 2 admins, 1 student call, 2 questions of 1 and 198 marks, threshold 100 %, 1 edit, 1 fault, symmetric | the invariants hold |
| `auth_sessions` | 1 account, 2 passwords, 2 calls, 3 refresh tokens, 2 links, 1 failure, symmetric | the invariants and `RevokedForGood` hold |
| `auth_password_change` | 1 account, 2 passwords, 2 calls, 2 refresh tokens, 1 link, no failure | `SignedOutOnChange` violated |
| `content` | 2 calls, 3 connections, 3 certificates, 1 module, 1 lesson, 6 edits, 2 bodies of creates, 2 writes, 1 leak, fairness | the invariants, `CompletionIsFinal`, `RequestsEnd` hold |
| `catalog_search` | 3 certificates, 2 of which match, pages of 1, 2 edits | `OnlyActive` violated |
| `provisioning` | 2 containers, 4 environments, 2 seed runs, 2 of 5 manual rows, 1 crash, 4 reverts within `RevertsApart`, symmetric | the invariants and `OnlyDependentsTouched` hold |

Why the bounds are enough to be interesting. Every race of the engine is between two parties about
one session: two calls, a call and a handler, or two handlers; the safety run has all of these at once.
Two rows and one code are what the compensation needs: the code is freed and starts a second row. Two
faults allow a failure of what the first failure left behind. Only `SnapshotIsRecent` reads answers: two
autosaves of different answers race for key and row there, as long as the row is unscored, with at most
one fault and one row (`AnswersBound`, a constraint of that run); with `{}` alone nothing is cut. In the
liveness run no property reads them. In the `auth_*` runs three refresh tokens are a login and two rivals for its successor, and two links with a
failing call are enough for the third issue that `FewUsableLinks` would notice.

Two thresholds a band apart in a countdown of four let one tick find both passed, and another find only
the first, and two joins race for one map entry. In `content` three connections serve two requests until one leaks; then each of
two requests holds a connection and waits for another, which is the wait the timeout has to end. Two
writes are a read-modify-write and the edit it loses; the edits of the first certificate name a title, an
English title, an English block without one, or another locale. In `exam_assign` three codes are one more
than the two racing admins may leave outstanding; with 1 and 198 marks a sheet without the first question
has 99.497...%, which is rounded to 99.5 of the 100 required. `provisioning` has a whole slice of rows of
every kind, with one lesson per module and one question per exam; the second seed run follows a first
that ended or was stopped at any transaction, with rows of people added before, in between and during: a
promo code, a use of it, an admin under the bootstrap address, a lesson beside the first of a course and
progress in it, which the seed itself may want to write. Four reverts undo all migrations; `RevertsApart`
lets more than one happen only on a database without rows of people and of the seed, and one where they
did at most two things.

Runs do not check for deadlock: once the session is over, the requests are bounded out or the database
provisioned, nothing has to happen.

Properties.

- `AttemptsAccounted`: attempts of a session = 1 if it is submitted, plus the number of times a
  submitted row was set back to EXPIRED. It pins the only way a second attempt can arise.
- `SubmittedIsFinal`: what may take a row out of a submitted status, and that attempts stay.
- `ExpiredKeyStaysGone`: the autosave after the end does not make an immortal key.
- `CodeMatchesSession`: code used if and only if one row started with it exists, under failures of
  every statement of `startExam` and of its compensation.
- `OneLateSubmitPerWindow`: late attempts, late submits past the gate and an open window together never
  exceed the windows opened, and no process opens two.
- `EverySessionCloses`: a session the student was given is eventually submitted for good. It
  holds without faults although a session may be reopened, since a reopened one is closed again.
- `SnapshotIsRecent`: two autosaves may reach Redis in one order and Postgres in the other, so the row
  need not hold what the key holds. While none is between the two, both hold answers of the autosave that
  wrote the key last or of one that overlapped it; if a call died after its SET, the row may hold what it
  did before. What was saved and over before the last autosave began is never scored instead.
- `RotationIsLinear`: one successor per refresh token, and what was replaced is revoked.
- `RevokedForGood`: no later write, that of the hash included, makes a revoked token usable.
- `OneUsePerLink`, `FewUsableLinks`: two calls with one link, and crossing requests for links.
- `ChangeEndsOldSessions`: unless a call failed, a session of the old password that is live after a
  password change was inserted after it; a row whose hash was not yet written is no exception.
- `KeepsContract`: the refinement of `ExamContract`, a step of `ExamSession` at a time.
- `NoOrphanInterval`: the live intervals are exactly the one the map knows, through racing joins, ticks
  that clear and crashes. `WarnedOnceInOrder`: no interval repeats a warning; a second one starts only
  after the first was cleared because the key was gone, and then nothing is left to warn of.
- `TimersStop`, `ExpiryAnnounced`: a submit clears no timer and neither does an empty room, yet every
  interval ends; an expiry reaches the room unless a fault came between.
- `NextInOrder`, `FewOutstanding`, `LateStarts`, `VerdictExact`: assignment against a pool that changes,
  and the verdict against the unrounded share of marks. For a threshold in whole percent the two
  can differ only from a total of 200 marks on.
- `IdentityIsolated`, `ConnectionsReturn`, `RequestsEnd`: the interceptor, through errors and timeouts.
  `ConnectionsReturn` says how far "Runner is always released" (`rls.interceptor.ts:36`) goes: from a
  successful BEGIN to its answer a call has exactly one connection and then none; one whose BEGIN failed
  keeps its connection for ever.
- `EnglishMirrorsTitle`, `FewDuplicateCodes`: how far racing edits and creates may go. A row shows its
  canonical title in English, with an English block or without; `drifted` marks the rows whose last edit
  of the translations overwrote one made after its read, or gave an English title beside the canonical one.
- `ContentForBuyers`, `CompletionIsFinal`: the purchase decides, and a completion keeps its time.
- `SchemaMatchesApplied`, `OneSuperAdmin`, `ServesProvisioned`: whatever stops or races in between.
- `SliceWhole`: a seed run again after any stop leaves the whole script and tells every course, whatever
  lessons people added; it fails only where people hold a key of a demo row that is not there.
- `OnlyDependentsTouched`: of rows that are not the seed's a step deletes those that a cascade reaches and
  clears references declared SET NULL, and does nothing else to them. `UsageCoversTransactions`: the
  count of a promo code, through that.

Fairness. In `ExamSession`, `FairSpec` is weakly fair in the steps of calls already made (the event loop resumes every
awaited promise), of handlers (a delivered notification is handled) and of Redis expiry (time passes).
Nothing is assumed about the student, who may never call again. Faults are never fair. In `ExamGateway`
it covers the callbacks of the event loop (`Resume`, `Joined`, each instance's handler), the interval
(`Fires`: `setInterval` goes off), time (`Clock`) and the DEL that follows a committed submit. In `Content`
it is one condition per call, `WF_vars(Step(r))`: the next statement goes ahead, or, if no connection is
free, the acquisition times out; which of two waiting calls gets a connection is left open.

Findings. `exam_reopened`: `exam-keyspace.handler.ts:81` writes EXPIRED unconditionally, so a submit
committed after the handler's read is undone and the session is scored a second time; a condition on
ACTIVE in that UPDATE, and an early return when it affects no row, would restore `AtMostOneAttempt`.
`exam_dev_database`: the subscription is fixed to database 0 while `docs/DEPLOYMENT.md` puts dev on 1.
`exam_two_active`: the active-session check is not part of the transaction. `auth_password_change`: the
revocation ends the rows that exist, while a login that had already compared the old password inserts
its row afterwards. `catalog_search`: the OR of the search is not in parentheses, so the match on the
canonical title escapes the filter on `active`; brackets around it would restore `OnlyActive`.

Seen while modelling, without a run of their own:

- gateway: the comments at `exam.gateway.ts:146` (a timer that stops with the last subscriber) and `:250`
  (a clear on submit) have no code behind them; the timer goes on until the key is gone. A student who
  joins as the countdown ends may be shown a remaining time and never get `session_expired`. Two
  instances with subscribers tick and warn twice.
- autosave: of two in flight the row may end with the one and the key with the other, until the next
  autosave; a call that dies after its SET leaves the row behind. The auto-submit scores the row.
- interceptor: `rls.interceptor.ts:36` says "Runner is always released". When BEGIN fails (lines
  66-70, before the `try`) it is not.
- editing: `updateTranslations` with another locale only (`catalog.service.ts:250-260`) overwrites the
  title with an English one set explicitly before. An English block without title, such as the `{}` of
  `update-certificate.dto.ts:78`, leaves a row without English title, which readers do not notice:
  `resolveTranslation` falls back on the canonical one. `update-certificate.dto.ts:17-20` says a translations
  block replaces the whole one; the code merges. The loser of two concurrent `markComplete` gets a 500.
- audit: the trigger reads `app.current_admin_id`, which is set on the request's connection, while
  repositories write on others.
- paging: the cursor drops microseconds, so DESC skips rows of the same millisecond and ASC repeats the
  last row, for ever with a page of 1. A visitor may ask for `?active=false` and get it.
- provisioning: an admin who holds the bootstrap address without being super admin silently prevents
  one; containers with different addresses may create two. "Manually-created data is never touched"
  (`demo-seed.ts:16-18`, `docs/DEMO_DATA.md:18-19`) is not so: a manual row that hangs on a demo row by a
  cascading reference is deleted with it (a transaction of a demo student, in the run), one that names it
  by another reference loses that, and the use a deleted transaction made of a promo code is not given
  back. A manual lesson in a demo module may take a demo lesson's place in a story. A row of people that
  holds a unique value of a demo row makes the seed fail. `pg_trgm` and `pgcrypto` outlast a full revert.

## Proofs

`ExamSessionProofs` proves, for every value of the constants that satisfies `ExamSessionAssumption`:

- `TypeCorrect`: `Spec => []TypeOK`. `TypeOK` alone is not inductive: that a scoring call has answers
  depends on its program counter, so `TypeInv` adds `JobsOK`, what a call holds at each label.
- `AttemptsCorrect`, `DeadlineCorrect`, `CodeCorrect`: `Spec => []` of `AttemptsAccounted`,
  `ExpiredKeyStaysGone`, `CodeMatchesSession`. The inductive invariant `SafeInv` adds two facts.
  `FreshUntouched`: a row not inserted yet has left no trace, so the transaction really creates
  something new. `StartIsPrivate`: until `startExam` has its key, or while it compensates, no other
  call, key, notification or handler is about its row; hence the row it deletes is the ACTIVE one it
  inserted, and freeing the code is right. `CallIsLocal` is the lemma both rest on: any other step only
  reaches sessions the student was told of, or a notification names.
- `SubmittedCorrect`: `Spec => SubmittedIsFinal`, from the same invariant (`StartIsPrivate` excludes that
  the compensation deletes a submitted row).
- `SnapshotCorrect`: `Spec => []SnapshotIsRecent`, for any number of calls in flight and any faults.
  `Recent` adds what calls in flight owe: every call between its SET and its UPDATE holds recent answers,
  so whichever UPDATE comes last leaves some, and a row that `startExam` has not given its key yet has the
  null snapshot the key will start with. Handlers, of any number of processes, only delete keys or end the
  row.

The assumptions: `{}` is an answer set, `None` differs from every answer, session and code, request
slots are not handler slots, instances are finitely many, and `RedisDb` and `MaxFaults` are naturals.

`ExamGraceProofs` proves `OneLateSubmit`: `Spec => []OneLateSubmitPerWindow`, with `SafeInv` and two parts.
`OpensFew`: what an instance still has to do about the end of a countdown, its `Load`, is at most 1, and the
openings of a window plus the instances with a load are at most the instances. `ExpiredKeyStaysGone` is
what makes it inductive: a countdown that ends had not ended before, so nobody had a load then.
`GateKeeps` is the first conjunct of the property with finiteness: `GateConsume` exchanges the key for a
call past the gate, `GateScore` that call for a late attempt, and only `GateOpen` adds to the sum.

`ExamContractProofs` proves `ContractKept`: `Spec => KeepsContract`, for every value of the constants. The
invariant is `SafeInv` and `Unscored`: a row `startExam` may still withdraw has no attempt. `Withdraw` needs
it and `SafeInv` does not say it; it is inductive because such a row is ACTIVE and nobody else may
score it while the start is private. `PhaseStep` reads off what a change of `status` does to the phase;
`StartBegins`, `UndoWithdraws`, `ScoreCloses`, `ExpireReopens` take the four kinds of step (the handler's
unconditional write is `Reopen` if the row was submitted and a stutter if not), and every other step
leaves all four mapped values alone.

`ExamGatewayProofs` proves `TypeOK`, `OneTimer` (`NoOrphanInterval`) and `WarningsOnce` (`WarnedOnceInOrder`)
for any instances, durations, thresholds and numbers of joins, ticks and faults. `NoOrphanInterval` is
inductive: an interval is started only when the map has none, and what is cleared is what the map has.
For the warnings only the first interval of a process ever counts: another one is started after the map
entry was cleared, which happens only once the key is gone (`FirstUntilEnd`, `ExpiryIsOver`), and every
reply sent after that says so (`RepliesSound`). So `sent` is what the first interval remembers
(`SentByFirst`), and as the remaining time only falls, what it remembers is closed upwards (`LongestFirst`).

`ExamAssignProofs` proves `InOrderAlways` (`NextInOrder`), `FewAlways` (`FewOutstanding`) and `LateAlways`
(`LateStarts`) for any pool, codes, admins, calls, edits and faults. `Links` says that no two calls can undo
one code and that a code with a session is used; hence attempts stay (`AttemptsStay`), which `Order` rests
on. `Few` adds the calls about to issue a code to the codes outstanding, `LateFew` the calls a withdrawal
overtook to the late starts: an edit adds at most every call, a late start is one overtaken call less. The
proof covers what three codes cannot: a fourth issued past a lapsed one that is used after all.
`TypesKept` (`TypeOK`) and `VerdictAlways` (`VerdictExact` for less than 200 marks, whatever the questions,
their marks and the threshold) need the sum of marks to be a natural. It is a fold, and what a fold
computes is an induction over data; the proof goes around it: `MarksOf` is the number of pairs of a
question and one of its marks (`MarksAreUnits`, from a smallest set for which it were not), and
cardinalities are naturals. `ScoreIs` then is the arithmetic of the rounding. From 200 marks on
`VerdictExact` is false: half a hundredth of a percent is then a whole mark's share.

`AuthSessionsProofs` proves every property of the run `auth_sessions`, for any accounts, passwords, calls
and failures.

- `TypesKept`: with `AccountsOK` (rows and calls belong to accounts that exist, and a call that will write
  a password holds one).
- `RevocationFinal`: from the types alone; every statement is gone through.
- `RotationLinear`: `Minting` says that a call about to insert the successor of a token is the only one, that
  the token is revoked and has no successor yet. The conditional UPDATE establishes it.
- `LinkUsedOnce`: an unused link has had no effect (`LinksSpent`).
- `LinksFew`: usable links of an account and purpose plus calls about to insert one are at most the calls;
  an `Invalidate` sets the first number to 0, an `InsertLink` moves one over. `Requests` must be finite.
- `OldSessionsEnd`: a session becomes outdated by a password write, whose call then owes the revocation, or
  is inserted outdated, which `late` records; `PendingKept` says no other call settles that debt.

`ContentProofs` proves every safety property of the run `content`, for any calls, connections, rows and bodies.

- `TypesKept`: with `JobsOK`, what a call holds at each label; a row found by a call stays there because
  nothing deletes rows.
- `IdentityKept`, `ConnectionsReleased`: `HoldersKnown` and `OneEach` tie the connections that are not
  leaked to calls past their BEGIN, both ways. Only `Begin` and `Fail` touch those, and only `BeginFails`
  adds to `leaked`; every other step keeps a call on its side.
- `BuyersOnly`, `CompletionKept`: `PaidSteps` is what any step does to a completion or a paid label.
- `TitlesMirror`: `TitlesMirrored` is the fact about `BuildTranslations`, creates and the two PATCHes, on a
  row as it was read: with no English title beside the canonical one the result shows the canonical one,
  whether the English block has a title or not.
- `CodesFew`: certificates that have a code, or are about to be given it by an update, plus creates about to
  insert it, are at most the calls: when a look-up finds nobody else the calls alone are counted, after
  which no step adds to the sum. Needs finitely many calls, at least one, and seeds without duplicates.

`ProvisioningProofs` proves every property of the run `provisioning`, for any containers, environments, rows
of people, seeds, crashes and reverts, over the four migrations and a dataset of any size.

- `Invariance`: the inductive invariant `IInv` has five parts. `Control`: what a container holds at each
  step. `Rows`: ids, columns and references of the rows are sound and promo codes cover their
  transactions (`Sound`), and which rows nobody can have written yet. `Serving`. `Progress`: the seed has
  deleted what its cleanup passed; what its inserts passed is there (`UpTo`), no course is begun before
  its step (`UntoldFrom`), the lessons still to come complete the course that is under way (`Midway`), and
  it failed only if `Blocked`. `SchemaMatchesApplied` itself.
  The properties follow from it, each in a theorem of its own.
- `SchemaIsTheMigrations`: `Undoes` and `Spares`, shown of each migration, say that its `down()` removes what
  its `up()` created, extensions apart, and nothing an earlier one created. `MigrateStep` keeps what a
  container has done in its open transaction equal to the statements it has passed (`PendingAdds`).
- `AtMostOneSuperAdmin`: all super admins come from `InsertSuperAdmin`, whose e-mail is unique (`OneEmail`).
- `ServingIsProvisioned`: who holds the bootstrap address outlasts whatever the seed deletes: it is not a
  demo row, and the one reference of an admin is set to null, not cascaded (`BootstrappedShrinks`).
- `UsageCovers`: `InsertSound` and `DeleteSound` count transactions; an insert adds one to both sides, a
  delete only lowers the right one or removes the code.
- `SeedLeavesTheWholeSlice`: a transaction does not fail, because each row follows rows of the script that
  are there (`Follows`, `NextFits`) and would only meet one that the cleanup has removed (`NoDemoRow`: what
  the cleanup does not name hangs, by cascades, on what it does), unless people hold one of its keys
  (`Blocked`). `Told` says that a set of lessons tells a course; the `SELECT` returns one, by a prefix of
  the order, and it stays one when people add lessons afterwards, since that neither takes a completed
  lesson nor moves a demo lesson (`OthersTell`).
- `SeedTouchesOnlyDependents`: the rows a delete takes are the named ones and those a cascade reaches
  (`CascadeTakes`), and the named ones are the seed's; inserts leave all columns but a promo code's count.

Recursive functions have no induction here. `CascadeExists`, `AfterExists` and `RevertedIs` show that a function with the
equation exists, so that CHOOSE finds one; what it preserves at every index then follows from a least
counterexample (`LeastOf`, `Climbs`). `PlanAssumption` says of the dataset what the seed's code arranges:
rows follow what they refer to, unique values differ, cleanup reaches all of them, who is certified
has passed, and a course is of a scripted student who has no other (`CourseAt`). `ProvisioningAssumption`
says that people's rows are well formed, are not super admins, which no endpoint makes, and that they and
the bootstrap rows repeat no id of a demo row, ids being drawn at random. People's rows may repeat
unique values of demo rows.

The assumptions of the other four, `ExamGatewayAssumption`, `ExamAssignAssumption`, `AuthSessionsAssumption` and
`ContentAssumption`, say that
`None` is none of the other values, that bounds are naturals and the sets counted are finite.

Model-checked only: liveness under fairness (`EverySessionCloses`, `TimersStop`, `ExpiryAnnounced`, `RequestsEnd`),
which is out of the prover's reach, and that the dataset of the seed satisfies `PlanAssumption`, which
TLC evaluates: the run on the dataset cut to one lesson and one question each, and with `MaxLessons = 4`
and `MaxQuestions = 5` it finds it true of the whole dataset (no seeds need be run for that). The five properties of the runs that
expect a violation are false.

## Plan

Modelled and checked: every module above. Left, in this order:

1. Whether a reuse of a refresh token found in a race also ends the session the winner is about to insert.
2. Access tokens and deactivated accounts in `AuthSessions`.

## Not modelled

Mail and storage calls, templates, web pages, health probes, validation of request bodies, text of
errors, the contents of questions, lessons and responses: no state that outlives the call. Verification of JWTs and rate limits: they only refuse calls. Payments, promo
codes, webhooks, notifications and issued certificates have tables, which `Schema` has, and demo rows,
but no code that uses them yet.
