----------------------------- MODULE ExamSession -----------------------------
(***************************************************************************)
(* The exam engine of the IOS LMS backend: ExamService (Postgres side),    *)
(* TestSessionService (Redis side) and ExamKeyspaceHandler (Redis key      *)
(* expiry notifications), for ONE student sitting ONE exam.  Sessions of   *)
(* other (student, exam) pairs share no row, key or code with these; a     *)
(* call on a session of another user ends in getOwnedSession with 403 or   *)
(* 404 and changes nothing, so it is a stuttering step.                    *)
(*                                                                         *)
(* Every await in the code is a point where other requests, handlers and   *)
(* instances of the application run, so every action below is the code     *)
(* between two awaits and holds exactly one statement on Postgres or Redis *)
(* (or one transaction, which the row lock of its UPDATE serialises).      *)
(*                                                                         *)
(* A call runs in a slot: a member of Requests for the HTTP calls, and     *)
(* <<i, type, s>> for the execution, in application instance i, of the     *)
(* keyspace handler for a notification of that type about session s.       *)
(***************************************************************************)
EXTENDS Naturals, Sequences, FiniteSets

CONSTANTS
    Sessions,   \* primary keys of test_sessions
    Codes,      \* the access codes issued to this student for this exam
    Requests,   \* slots for the HTTP calls in flight
    Instances,  \* application processes, each with its own Redis subscriber
    Answers,    \* the answer sets a student may send
    Empty,      \* the answer set {}, which a null snapshot is read as
    None,       \* no key, no session, no code, nothing held
    RedisDb,    \* the logical database the path of REDIS_URL selects
    MaxFaults   \* bound on crashes, failed calls and lost messages

Handlers == Instances \X {"session", "grace"} \X Sessions
Procs == Requests \cup Handlers

ASSUME ExamSessionAssumption ==
    /\ Empty \in Answers
    /\ None \notin Answers \cup Sessions \cup Codes
    /\ Requests \cap Handlers = {}
    /\ IsFiniteSet(Instances)
    /\ RedisDb \in Nat
    /\ MaxFaults \in Nat

VARIABLES
    \* Postgres
    usedAt,       \* [Codes -> BOOLEAN]: exam_access_codes.used_at is set
    status,       \* [Sessions -> RowStatus]: the test_sessions row
    token,        \* test_sessions.session_token, the code the row came from
    snapshot,     \* test_sessions.snapshot
    attempts,     \* the exam_attempts rows of each session, oldest first
    \* Redis
    sessionKey,   \* exam:session:{id}, by its answers, or None
    graceKey,     \* exam:grace:{id}, by its snapshot, or None
    inbox,        \* notifications published to a handler and not yet handled
    \* the application processes and the student
    job,          \* where each slot is, and the local variables it holds
    told,         \* sessions whose id the student has received
    \* bookkeeping of the specification, read by no guard but the bound
    ttlElapsed,   \* the session's countdown has reached zero
    reopened,     \* how often a submitted row was set back to expired
    graceOpened,  \* how often a grace window was opened
    recent,       \* the answers the snapshot may hold: see LastSaved
    faults

postgres == <<usedAt, status, token, snapshot, attempts>>
redis    == <<sessionKey, graceKey, inbox>>
history  == <<ttlElapsed, reopened, graceOpened, recent, faults>>
vars     == <<postgres, redis, job, told, history>>

-----------------------------------------------------------------------------
(* Rows, keys and calls.                                                   *)

LiveStatus == {"active", "expired", "submitted", "auto_submitted"}
RowStatus  == LiveStatus \cup {"none", "deleted"}

\* The statuses scoreAndPersist may leave, and those it leads to.
Open(st)      == st \in {"active", "expired"}
Submitted(st) == st \in {"submitted", "auto_submitted"}

Attempt == [status : {"submitted", "auto_submitted"}, late : BOOLEAN, answers : Answers]

Label == {"idle", "start_check", "start_txn", "start_redis", "start_undo", "start_reply",
          "autosave_get", "autosave_set", "autosave_db", "late_grace",
          "submit_txn", "late_txn", "auto_txn", "delete_key",
          "expire_write", "expire_grace"}

Job == [pc : Label, code : Codes \cup {None}, sess : Sessions \cup {None},
        held : Answers \cup {None}]

Idle == [pc |-> "idle", code |-> None, sess |-> None, held |-> None]

\* A call on session s, at label l, holding the answers a.
On(s, l, a) == [pc |-> l, code |-> None, sess |-> s, held |-> a]

\* A startExam call at label l, with the code it verified and the row it made.
Starting(l, c, s) == [pc |-> l, code |-> c, sess |-> s, held |-> None]

Proceed(p, j) == job' = [job EXCEPT ![p] = j]
Return(p)     == Proceed(p, Idle)

Fault == faults < MaxFaults /\ faults' = faults + 1

Init ==
    /\ usedAt = [c \in Codes |-> FALSE]
    /\ status = [s \in Sessions |-> "none"]
    /\ token = [s \in Sessions |-> None]
    /\ snapshot = [s \in Sessions |-> Empty]
    /\ attempts = [s \in Sessions |-> <<>>]
    /\ sessionKey = [s \in Sessions |-> None]
    /\ graceKey = [s \in Sessions |-> None]
    /\ inbox = [h \in Handlers |-> 0]
    /\ job = [p \in Procs |-> Idle]
    /\ told = {}
    /\ ttlElapsed = [s \in Sessions |-> FALSE]
    /\ reopened = [s \in Sessions |-> 0]
    /\ graceOpened = [s \in Sessions |-> 0]
    /\ recent = [s \in Sessions |-> {Empty}]
    /\ faults = 0

-----------------------------------------------------------------------------
(* startExam.                                                              *)

\* findAndVerifyCode: an unused code of this student and exam matches.  A
\* code that is used, expired or wrong is refused and nothing changes.
StartVerify(r, c) ==
    /\ job[r] = Idle
    /\ ~usedAt[c]
    /\ Proceed(r, Starting("start_check", c, None))
    /\ UNCHANGED <<postgres, redis, told, history>>

\* "Guard: student cannot have an active session for this exam", else 409.
StartCheck(r) ==
    /\ job[r].pc = "start_check"
    /\ IF \E s \in Sessions : status[s] = "active"
       THEN Return(r)
       ELSE Proceed(r, Starting("start_txn", job[r].code, None))
    /\ UNCHANGED <<postgres, redis, told, history>>

\* The transaction: mark the code used if it still is not, insert the row.
StartTxn(r, s) ==
    LET c == job[r].code IN
    /\ job[r].pc = "start_txn"
    /\ ~usedAt[c]
    /\ status[s] = "none"
    /\ usedAt' = [usedAt EXCEPT ![c] = TRUE]
    /\ status' = [status EXCEPT ![s] = "active"]
    /\ token' = [token EXCEPT ![s] = c]
    /\ Proceed(r, Starting("start_redis", c, s))
    /\ UNCHANGED <<snapshot, attempts, redis, told, history>>

\* affected = 0: another call used the code first; rolled back, 409.
StartTxnConflict(r) ==
    /\ job[r].pc = "start_txn"
    /\ usedAt[job[r].code]
    /\ Return(r)
    /\ UNCHANGED <<postgres, redis, told, history>>

\* TestSessionService.start: SET exam:session:{id} EX duration.
StartRedis(r) ==
    LET s == job[r].sess IN
    /\ job[r].pc = "start_redis"
    /\ sessionKey' = [sessionKey EXCEPT ![s] = Empty]
    /\ Proceed(r, Starting("start_reply", job[r].code, s))
    /\ UNCHANGED <<postgres, graceKey, inbox, told, history>>

\* The SET throws.  ioredis reports a lost reply as an error too, so the key
\* may have been set all the same.
StartRedisFails(r) ==
    LET s == job[r].sess IN
    /\ job[r].pc = "start_redis"
    /\ Fault
    /\ sessionKey' \in {sessionKey, [sessionKey EXCEPT ![s] = Empty]}
    /\ Proceed(r, Starting("start_undo", job[r].code, s))
    /\ UNCHANGED <<postgres, graceKey, inbox, told, ttlElapsed, reopened, graceOpened, recent>>

\* Mutant: the compensation forgets to free the code.
StartUndoKeepsCode(r) ==
    /\ job[r].pc = "start_undo"
    /\ status' = [status EXCEPT ![job[r].sess] = "deleted"]
    /\ Return(r)
    /\ UNCHANGED <<usedAt, token, snapshot, attempts, redis, told, history>>

\* The compensating transaction: delete the row by id, free the code.
StartUndo(r) ==
    /\ job[r].pc = "start_undo"
    /\ status' = [status EXCEPT ![job[r].sess] = "deleted"]
    /\ usedAt' = [usedAt EXCEPT ![job[r].code] = FALSE]
    /\ Return(r)
    /\ UNCHANGED <<token, snapshot, attempts, redis, told, history>>

\* The questions are loaded and the response carries the session's id.
StartReply(r) ==
    /\ job[r].pc = "start_reply"
    /\ told' = told \cup {job[r].sess}
    /\ Return(r)
    /\ UNCHANGED <<postgres, redis, history>>

-----------------------------------------------------------------------------
(* autosave.                                                               *)

\* getOwnedSession: the student names a session of theirs, whose id they were
\* told, and its row must be in one of the statuses the operation allows.
OwnedSession(s, allowed) == s \in told /\ status[s] \in allowed

\* getOwnedActiveSession.
AutosaveRead(r, s, a) ==
    /\ job[r] = Idle
    /\ OwnedSession(s, {"active"})
    /\ Proceed(r, On(s, "autosave_get", a))
    /\ UNCHANGED <<postgres, redis, told, history>>

\* TestSessionService.autosave: GET the key; absent means 422.
AutosaveGet(r) ==
    /\ job[r].pc = "autosave_get"
    /\ IF sessionKey[job[r].sess] = None
       THEN Return(r)
       ELSE Proceed(r, On(job[r].sess, "autosave_set", job[r].held))
    /\ UNCHANGED <<postgres, redis, told, history>>

\* Mutant: SET ... KEEPTTL without XX.
SetKeepTtlCreates(s, a) == sessionKey' = [sessionKey EXCEPT ![s] = a]

\* SET ... KEEPTTL XX writes only a key that still exists.
SetKeepTtl(s, a) ==
    sessionKey' = IF sessionKey[s] # None THEN [sessionKey EXCEPT ![s] = a]
                                          ELSE sessionKey

\* The calls that have written the key and not yet the row.
Mirroring(s) == {q \in Requests : job[q].pc = "autosave_db" /\ job[q].sess = s}

\* Bookkeeping: the last autosave to write the key of s, and those that had
\* written it before and are still on their way to the row.
LastSaved(s, a) ==
    recent' = IF sessionKey[s] # None
              THEN [recent EXCEPT ![s] = {a} \cup {job[q].held : q \in Mirroring(s)}]
              ELSE recent

\* Mutant: the mirror in Postgres is forgotten.
AutosaveSetOnly(r) ==
    /\ job[r].pc = "autosave_set"
    /\ SetKeepTtl(job[r].sess, job[r].held)
    /\ LastSaved(job[r].sess, job[r].held)
    /\ Return(r)
    /\ UNCHANGED <<postgres, graceKey, inbox, told, ttlElapsed, reopened, graceOpened, faults>>

AutosaveSet(r) ==
    LET s == job[r].sess IN
    /\ job[r].pc = "autosave_set"
    /\ SetKeepTtl(s, job[r].held)
    /\ LastSaved(s, job[r].held)
    /\ IF sessionKey[s] # None THEN Proceed(r, On(s, "autosave_db", job[r].held))
                               ELSE Return(r)
    /\ UNCHANGED <<postgres, graceKey, inbox, told, ttlElapsed, reopened, graceOpened, faults>>

\* Mutant: the entity that was read, status included, is saved.
AutosaveDbSavesEntity(r) ==
    /\ job[r].pc = "autosave_db"
    /\ snapshot' = [snapshot EXCEPT ![job[r].sess] = job[r].held]
    /\ status' = [status EXCEPT ![job[r].sess] = "active"]
    /\ Return(r)
    /\ UNCHANGED <<usedAt, token, attempts, redis, told, history>>

\* Mirror the answers in the row, by id, whatever the row's status is by now.
AutosaveDb(r) ==
    /\ job[r].pc = "autosave_db"
    /\ snapshot' = [snapshot EXCEPT ![job[r].sess] = job[r].held]
    /\ Return(r)
    /\ UNCHANGED <<usedAt, status, token, attempts, redis, told, history>>

-----------------------------------------------------------------------------
(* submitExam, lateSubmitExam and what they share with the auto-submit.    *)

\* getOwnedActiveSession; Redis is not consulted.
SubmitRead(r, s, a) ==
    /\ job[r] = Idle
    /\ OwnedSession(s, {"active"})
    /\ Proceed(r, On(s, "submit_txn", a))
    /\ UNCHANGED <<postgres, redis, told, history>>

\* getOwnedSession(..., [EXPIRED]).
LateSubmitRead(r, s, a) ==
    /\ job[r] = Idle
    /\ OwnedSession(s, {"expired"})
    /\ Proceed(r, On(s, "late_grace", a))
    /\ UNCHANGED <<postgres, redis, told, history>>

\* Mutant: GET alone, the key stays.
ConsumeGraceKeepsKey(r) ==
    LET s == job[r].sess
        a == IF job[r].held = Empty THEN graceKey[s] ELSE job[r].held
    IN
    /\ job[r].pc = "late_grace"
    /\ IF graceKey[s] = None THEN Return(r) ELSE Proceed(r, On(s, "late_txn", a))
    /\ UNCHANGED <<postgres, redis, told, history>>

\* Mutant: a null snapshot is not refused.
ConsumeGraceUnchecked(r) ==
    LET s == job[r].sess
        a == IF job[r].held = Empty THEN graceKey[s] ELSE job[r].held
    IN
    /\ job[r].pc = "late_grace"
    /\ Proceed(r, On(s, "late_txn", a))
    /\ graceKey' = [graceKey EXCEPT ![s] = None]
    /\ UNCHANGED <<postgres, sessionKey, inbox, told, history>>

\* consumeGrace: GETDEL exam:grace:{id}; absent means 403.  Answers that are
\* {} are replaced by the snapshot the key held.
ConsumeGrace(r) ==
    LET s == job[r].sess
        a == IF job[r].held = Empty THEN graceKey[s] ELSE job[r].held
    IN
    /\ job[r].pc = "late_grace"
    /\ IF graceKey[s] = None THEN Return(r) ELSE Proceed(r, On(s, "late_txn", a))
    /\ graceKey' = [graceKey EXCEPT ![s] = None]
    /\ UNCHANGED <<postgres, sessionKey, inbox, told, history>>

\* The row of exam_attempts that a scoring call at label l inserts.
AttemptOf(l, a) ==
    [status |-> IF l = "auto_txn" THEN "auto_submitted" ELSE "submitted",
     late |-> (l = "late_txn"), answers |-> a]

\* Mutant: the UPDATE by id alone, as before the conditional transition.
ScoreUnconditionally(p) ==
    LET s == job[p].sess
        t == AttemptOf(job[p].pc, job[p].held)
    IN
    /\ job[p].pc \in {"submit_txn", "late_txn", "auto_txn"}
    /\ status' = [status EXCEPT ![s] = t.status]
    /\ snapshot' = [snapshot EXCEPT ![s] = t.answers]
    /\ attempts' = [attempts EXCEPT ![s] = Append(@, t)]
    /\ Proceed(p, On(s, "delete_key", None))
    /\ UNCHANGED <<usedAt, token, redis, told, history>>

\* The transaction of scoreAndPersist, taken: the row leaves ACTIVE/EXPIRED
\* and the attempt is inserted.
ScoreAndPersist(p) ==
    LET s == job[p].sess
        t == AttemptOf(job[p].pc, job[p].held)
    IN
    /\ job[p].pc \in {"submit_txn", "late_txn", "auto_txn"}
    /\ Open(status[s])
    /\ status' = [status EXCEPT ![s] = t.status]
    /\ snapshot' = [snapshot EXCEPT ![s] = t.answers]
    /\ attempts' = [attempts EXCEPT ![s] = Append(@, t)]
    /\ Proceed(p, On(s, "delete_key", None))
    /\ UNCHANGED <<usedAt, token, redis, told, history>>

\* ... and refused: affected # 1, rolled back, 409 (or, in the handler, skipped).
ScoreConflict(p) ==
    /\ job[p].pc \in {"submit_txn", "late_txn", "auto_txn"}
    /\ ~Open(status[job[p].sess])
    /\ Return(p)
    /\ UNCHANGED <<postgres, redis, told, history>>

\* deleteSession, after the commit.
DeleteSession(p) ==
    /\ job[p].pc = "delete_key"
    /\ sessionKey' = [sessionKey EXCEPT ![job[p].sess] = None]
    /\ Return(p)
    /\ UNCHANGED <<postgres, graceKey, inbox, told, history>>

-----------------------------------------------------------------------------
(* Redis expiry and the keyspace handler.                                  *)

\* RedisModule subscribes every instance to __keyevent@0__:expired.
SubscribedDb == 0

\* PUBLISH on __keyevent@<RedisDb>__:expired reaches each subscriber once.
Publish(type, s) ==
    inbox' = [h \in Handlers |->
                IF h[2] = type /\ h[3] = s /\ RedisDb = SubscribedDb
                THEN inbox[h] + 1 ELSE inbox[h]]

\* The countdown ends.  It lasts the whole exam, far longer than the few
\* Redis retries after which a startExam that failed compensates, so it does
\* not end under a startExam that is still about to delete the row.
SessionKeyExpires(s) ==
    /\ sessionKey[s] # None
    /\ \A r \in Requests : job[r].pc = "start_undo" => job[r].sess # s
    /\ sessionKey' = [sessionKey EXCEPT ![s] = None]
    /\ ttlElapsed' = [ttlElapsed EXCEPT ![s] = TRUE]
    /\ Publish("session", s)
    /\ UNCHANGED <<postgres, graceKey, job, told, reopened, graceOpened, recent, faults>>

GraceKeyExpires(s) ==
    /\ graceKey[s] # None
    /\ graceKey' = [graceKey EXCEPT ![s] = None]
    /\ Publish("grace", s)
    /\ UNCHANGED <<postgres, sessionKey, job, told, history>>

Deliver(h) ==
    /\ job[h] = Idle
    /\ inbox[h] > 0
    /\ inbox' = [inbox EXCEPT ![h] = @ - 1]

\* handleSessionExpiry: read the row; anything but ACTIVE ends the handler.
HandleSessionExpiry(h) ==
    LET s == h[3] IN
    /\ h[2] = "session"
    /\ Deliver(h)
    /\ IF status[s] = "active" THEN Proceed(h, On(s, "expire_write", snapshot[s]))
                               ELSE Return(h)
    /\ UNCHANGED <<postgres, sessionKey, graceKey, told, history>>

\* UPDATE ... SET status = EXPIRED by id, whatever the status is by now.
ExpireWrite(h) ==
    LET s == job[h].sess IN
    /\ job[h].pc = "expire_write"
    /\ status' = IF status[s] \in LiveStatus THEN [status EXCEPT ![s] = "expired"]
                                             ELSE status
    /\ reopened' = IF Submitted(status[s]) THEN [reopened EXCEPT ![s] = @ + 1]
                                           ELSE reopened
    /\ Proceed(h, On(s, "expire_grace", job[h].held))
    /\ UNCHANGED <<usedAt, token, snapshot, attempts, redis, told, ttlElapsed,
                   graceOpened, recent, faults>>

\* startGrace with the snapshot read before; then session_expired is emitted.
OpenGrace(h) ==
    LET s == job[h].sess IN
    /\ job[h].pc = "expire_grace"
    /\ graceKey' = [graceKey EXCEPT ![s] = job[h].held]
    /\ graceOpened' = [graceOpened EXCEPT ![s] = @ + 1]
    /\ Return(h)
    /\ UNCHANGED <<postgres, sessionKey, inbox, told, ttlElapsed, reopened, recent, faults>>

\* Mutant: only ACTIVE rows are auto-submitted.
HandleGraceExpirySkipsExpired(h) ==
    LET s == h[3] IN
    /\ h[2] = "grace"
    /\ Deliver(h)
    /\ IF status[s] = "active" THEN Proceed(h, On(s, "auto_txn", snapshot[s]))
                               ELSE Return(h)
    /\ UNCHANGED <<postgres, sessionKey, graceKey, told, history>>

\* handleGraceExpiry -> autoSubmitFromSnapshot: read the row and its snapshot.
HandleGraceExpiry(h) ==
    LET s == h[3] IN
    /\ h[2] = "grace"
    /\ Deliver(h)
    /\ IF Open(status[s]) THEN Proceed(h, On(s, "auto_txn", snapshot[s]))
                          ELSE Return(h)
    /\ UNCHANGED <<postgres, sessionKey, graceKey, told, history>>

-----------------------------------------------------------------------------
(* Faults.                                                                 *)

\* The process dies, or the next statement of the call throws.  startExam
\* catches what its SET throws: that is StartRedisFails.  An autosave that has
\* written the key leaves the row as it is.
CallFails(p) ==
    LET s == job[p].sess IN
    /\ job[p] # Idle
    /\ Fault
    /\ Return(p)
    /\ recent' = IF job[p].pc = "autosave_db"
                 THEN [recent EXCEPT ![s] = @ \cup {snapshot[s]}] ELSE recent
    /\ UNCHANGED <<postgres, redis, told, ttlElapsed, reopened, graceOpened>>

\* Pub/sub is fire and forget: a subscriber that is down misses the message.
NotificationLost(h) ==
    /\ inbox[h] > 0
    /\ Fault
    /\ inbox' = [inbox EXCEPT ![h] = @ - 1]
    /\ UNCHANGED <<postgres, sessionKey, graceKey, job, told, ttlElapsed, reopened,
                   graceOpened, recent>>

\* maxmemory-policy allkeys-lru, or the last second of the append-only file
\* lost in a restart: a key goes and no expiry is published.
KeyLost(s) ==
    /\ Fault
    /\ \/ /\ sessionKey[s] # None
          /\ sessionKey' = [sessionKey EXCEPT ![s] = None]
          /\ UNCHANGED graceKey
       \/ /\ graceKey[s] # None
          /\ graceKey' = [graceKey EXCEPT ![s] = None]
          /\ UNCHANGED sessionKey
    /\ UNCHANGED <<postgres, inbox, job, told, ttlElapsed, reopened, graceOpened, recent>>

-----------------------------------------------------------------------------
(* The specification.                                                      *)

\* The calls the student may make; nobody has to make one.
Call(r) ==
    \/ \E c \in Codes : StartVerify(r, c)
    \/ \E s \in Sessions, a \in Answers :
          AutosaveRead(r, s, a) \/ SubmitRead(r, s, a) \/ LateSubmitRead(r, s, a)

\* The rest of a call that has been made.
Serve(r) ==
    \/ StartCheck(r) \/ StartTxnConflict(r) \/ StartRedis(r) \/ StartUndo(r)
    \/ StartReply(r)
    \/ \E s \in Sessions : StartTxn(r, s)
    \/ AutosaveGet(r) \/ AutosaveSet(r) \/ AutosaveDb(r)
    \/ ConsumeGrace(r)
    \/ ScoreAndPersist(r) \/ ScoreConflict(r) \/ DeleteSession(r)

Handle(h) ==
    \/ HandleSessionExpiry(h) \/ ExpireWrite(h) \/ OpenGrace(h)
    \/ HandleGraceExpiry(h)
    \/ ScoreAndPersist(h) \/ ScoreConflict(h) \/ DeleteSession(h)

Clock(s) == SessionKeyExpires(s) \/ GraceKeyExpires(s)

Failure ==
    \/ \E r \in Requests : StartRedisFails(r)
    \/ \E p \in Procs : CallFails(p)
    \/ \E h \in Handlers : NotificationLost(h)
    \/ \E s \in Sessions : KeyLost(s)

Next ==
    \/ \E r \in Requests : Call(r) \/ Serve(r)
    \/ \E h \in Handlers : Handle(h)
    \/ \E s \in Sessions : Clock(s)
    \/ Failure

Spec == Init /\ [][Next]_vars

\* Time passes, the event loop resumes every call that awaits, and a message
\* that was not lost is delivered.  A student need not do anything.
Fairness ==
    /\ \A r \in Requests : WF_vars(Serve(r))
    /\ \A h \in Handlers : WF_vars(Handle(h))
    /\ \A s \in Sessions : WF_vars(Clock(s))

FairSpec == Spec /\ Fairness

-----------------------------------------------------------------------------
(* What the engine promises.                                               *)

\* Every variable stays in its type.
TypeOK ==
    /\ usedAt \in [Codes -> BOOLEAN]
    /\ status \in [Sessions -> RowStatus]
    /\ token \in [Sessions -> Codes \cup {None}]
    /\ snapshot \in [Sessions -> Answers]
    /\ attempts \in [Sessions -> Seq(Attempt)]
    /\ sessionKey \in [Sessions -> Answers \cup {None}]
    /\ graceKey \in [Sessions -> Answers \cup {None}]
    /\ inbox \in [Handlers -> Nat]
    /\ job \in [Procs -> Job]
    /\ told \subseteq Sessions
    /\ ttlElapsed \in [Sessions -> BOOLEAN]
    /\ reopened \in [Sessions -> Nat]
    /\ graceOpened \in [Sessions -> Nat]
    /\ recent \in [Sessions -> SUBSET Answers]
    /\ faults \in Nat

\* scoreAndPersist's conditional UPDATE and its transaction: double-clicks,
\* submit against auto-submit, two instances auto-submitting and calls that
\* die half-way leave exactly one attempt per submitted row, and a further one
\* only for each time an expiry handler set a submitted row back to EXPIRED.
AttemptsAccounted ==
    \A s \in Sessions :
        Len(attempts[s]) = reopened[s] + (IF Submitted(status[s]) THEN 1 ELSE 0)

\* "That TTL is the authoritative countdown timer - it is NEVER reset": once
\* the key has expired no autosave brings it back (SET ... KEEPTTL XX), so no
\* session key is left without a deadline.
ExpiredKeyStaysGone ==
    \A s \in Sessions : ttlElapsed[s] => sessionKey[s] = None

HasRow(s) == status[s] \in LiveStatus

\* The transaction and the compensation of startExam: a code is marked used
\* exactly while one session row exists that was started with it, so no
\* failure burns a code without a session and none gives a second session.
CodeMatchesSession ==
    /\ \A c \in Codes : usedAt[c] <=> \E s \in Sessions : HasRow(s) /\ token[s] = c
    /\ \A s, t \in Sessions :
          HasRow(s) /\ HasRow(t) /\ token[s] = token[t] => s = t

LateAttempts(s) == {i \in DOMAIN attempts[s] : attempts[s][i].late}
PastGraceGate(s) == {p \in Procs : job[p].pc = "late_txn" /\ job[p].sess = s}

\* GETDEL in consumeGrace: of the late submits racing for one grace window at
\* most one passes the gate, and no instance opens a window twice.
OneLateSubmitPerWindow ==
    \A s \in Sessions :
        /\ Cardinality(LateAttempts(s)) + Cardinality(PastGraceGate(s))
             + (IF graceKey[s] # None THEN 1 ELSE 0) <= graceOpened[s]
        /\ graceOpened[s] <= Cardinality(Instances)

OnlyAnExpiryReopens(s) ==
    /\ Submitted(status[s]) /\ status'[s] # status[s] =>
          /\ status'[s] = "expired"
          /\ \E h \in Handlers : /\ h[3] = s
                                 /\ job[h].pc = "expire_write"
                                 /\ job'[h].pc = "expire_grace"
    /\ Len(attempts'[s]) >= Len(attempts[s])

\* Once submitted, a row changes status only by the unconditional write of an
\* expiry handler that had read it as ACTIVE; attempts are never removed.
SubmittedIsFinal == [][\A s \in Sessions : OnlyAnExpiryReopens(s)]_vars

\* A session the student was given is in the end submitted for good: by the
\* student, late, or by the auto-submit when the grace window has closed.
EverySessionCloses ==
    \A s \in Sessions : (s \in told) ~> [](Submitted(status[s]))

\* "Mirror snapshot in Postgres so the keyspace handler always has a safe
\* answer set to score": whatever autosaves race, while no autosave is between
\* the key and the row, key and row each hold the answers of the autosave that
\* wrote the key last, or of one that overlapped it; if such a call died before
\* it wrote the row, the row may hold what it did before.  So an autosave that
\* was over before the last one began is never what is scored.
SnapshotIsRecent ==
    \A s \in Sessions :
        attempts[s] = <<>> /\ Mirroring(s) = {} =>
            /\ snapshot[s] \in recent[s]
            /\ sessionKey[s] # None => sessionKey[s] \in recent[s]

\* ExamContract's view of a row.
Phase(st) ==
    CASE st = "none"    -> "unopened"
      [] Open(st)       -> "open"
      [] Submitted(st)  -> "closed"
      [] st = "deleted" -> "withdrawn"

Contract == INSTANCE ExamContract
    WITH phase <- [s \in Sessions |-> Phase(status[s])], used <- usedAt,
         code <- token, results <- attempts, Results <- Attempt

\* The engine implements its contract: whatever interleaves or fails, each step
\* opens, closes, withdraws or reopens one sitting as a whole, code and result
\* included, or is none of the contract's business.
KeepsContract == Contract!Spec

\* "Only one submitter can move the session out of ACTIVE/EXPIRED ... instead
\* of inserting a duplicate attempt" (exam.service.ts).
AtMostOneAttempt == \A s \in Sessions : Len(attempts[s]) <= 1

\* "Guard: student cannot have an active session for this exam" before the
\* next one is started (exam.service.ts).
OneActiveSession ==
    \A s, t \in Sessions : status[s] = "active" /\ status[t] = "active" => s = t
==============================================================================
