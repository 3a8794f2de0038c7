-------------------------- MODULE ExamSessionProofs --------------------------
(* Theorems about ExamSession, for every value of its constants.           *)
EXTENDS ExamSession, TLAPS

-----------------------------------------------------------------------------
(* Types, and what a call holds at each of its steps.                      *)

Holding == {"autosave_get", "autosave_set", "autosave_db", "late_grace", "submit_txn",
            "late_txn", "auto_txn", "expire_write", "expire_grace"}

JobOK(p, j) ==
    /\ j \in Job
    /\ j.pc \in {"start_check", "start_txn", "start_redis", "start_undo"}
          => j.code \in Codes
    /\ j.pc \notin {"idle", "start_check", "start_txn"} => j.sess \in Sessions
    /\ j.pc \in Holding => j.held \in Answers
    /\ p \in Handlers => j.sess \in {None, p[3]}

JobsOK == \A p \in Procs : JobOK(p, job[p])

TypeInv == TypeOK /\ JobsOK

\* Handlers and Requests are slots, and a handler's third component a session.
LEMMA Slots ==
    /\ Requests \subseteq Procs /\ Handlers \subseteq Procs
    /\ \A h \in Handlers : h[3] \in Sessions
    /\ \A r \in Requests : r \notin Handlers
BY ExamSessionAssumption DEF Procs, Handlers

\* A slot that moves to a well-formed job leaves all jobs well formed.
LEMMA JobStep ==
    ASSUME TypeInv, NEW p \in Procs, NEW j, JobOK(p, j), Proceed(p, j)
    PROVE  job' \in [Procs -> Job] /\ JobsOK'
BY DEF TypeInv, TypeOK, JobsOK, JobOK, Proceed

\* The jobs the actions build are well formed.
LEMMA JobForms ==
    /\ \A p \in Procs : JobOK(p, Idle)
    /\ \A r \in Requests, s \in Sessions, a \in Answers \cup {None}, l \in Label :
          l \notin {"start_check", "start_txn", "start_redis", "start_undo"}
          /\ (l \in Holding => a \in Answers) => JobOK(r, On(s, l, a))
    /\ \A h \in Handlers, a \in Answers \cup {None}, l \in Label :
          l \notin {"start_check", "start_txn", "start_redis", "start_undo"}
          /\ (l \in Holding => a \in Answers) => JobOK(h, On(h[3], l, a))
    /\ \A r \in Requests, c \in Codes, s \in Sessions \cup {None}, l \in Label :
          l \notin Holding /\ (l \notin {"idle", "start_check", "start_txn"} => s \in Sessions)
          => JobOK(r, Starting(l, c, s))
<1> USE Slots DEF JobOK, Job
<1>1. \A p \in Procs : JobOK(p, Idle)
  BY DEF Idle, Label, Holding
<1>2. \A r \in Requests, s \in Sessions, a \in Answers \cup {None}, l \in Label :
          l \notin {"start_check", "start_txn", "start_redis", "start_undo"}
          /\ (l \in Holding => a \in Answers) => JobOK(r, On(s, l, a))
  BY DEF On
<1>3. \A h \in Handlers, a \in Answers \cup {None}, l \in Label :
          l \notin {"start_check", "start_txn", "start_redis", "start_undo"}
          /\ (l \in Holding => a \in Answers) => JobOK(h, On(h[3], l, a))
  BY DEF On
<1>4. \A r \in Requests, c \in Codes, s \in Sessions \cup {None}, l \in Label :
          l \notin Holding /\ (l \notin {"idle", "start_check", "start_txn"} => s \in Sessions)
          => JobOK(r, Starting(l, c, s))
  BY DEF Starting
<1> QED
  BY <1>1, <1>2, <1>3, <1>4

\* The types hold at the start.
LEMMA TypeInit == Init => TypeInv
<1> SUFFICES ASSUME Init PROVE TypeInv
  OBVIOUS
<1> USE ExamSessionAssumption DEF Init
<1>1. TypeOK
  BY DEF TypeOK, RowStatus, LiveStatus, Job, Idle, Label
<1>2. JobsOK
  BY JobForms DEF JobsOK
<1> QED
  BY <1>1, <1>2 DEF TypeInv

\* A step of startExam keeps the types.
LEMMA TypeStart ==
    ASSUME TypeInv, NEW r \in Requests,
           \/ \E c \in Codes : StartVerify(r, c)
           \/ StartCheck(r) \/ StartTxnConflict(r) \/ StartRedis(r) \/ StartRedisFails(r)
           \/ StartUndo(r) \/ StartReply(r)
           \/ \E s \in Sessions : StartTxn(r, s)
    PROVE  TypeInv'
<1>1. r \in Procs /\ JobOK(r, job[r]) /\ job[r] \in Job
  BY Slots DEF TypeInv, JobsOK, JobOK
<1>2. ASSUME NEW j, JobOK(r, j), Proceed(r, j)
      PROVE  job' \in [Procs -> Job] /\ JobsOK'
  BY <1>1, <1>2, JobStep
<1> USE DEF TypeInv, TypeOK
<1>3. CASE \E c \in Codes : StartVerify(r, c)
  <2> PICK c \in Codes : StartVerify(r, c)
    BY <1>3
  <2>1. JobOK(r, Starting("start_check", c, None))
    BY JobForms DEF Label, Holding
  <2> QED
    BY <1>2, <2>1 DEF StartVerify, postgres, redis, history
<1>4. CASE StartCheck(r)
  <2>1. JobOK(r, Idle) /\ JobOK(r, Starting("start_txn", job[r].code, None))
    BY <1>1, <1>4, JobForms DEF StartCheck, Label, Holding, JobOK
  <2> QED
    BY <1>2, <1>4, <2>1 DEF StartCheck, Return, postgres, redis, history
<1>5. CASE StartTxnConflict(r)
  BY <1>1, <1>2, <1>5, JobForms DEF StartTxnConflict, Return, postgres, redis, history
<1>6. CASE StartRedis(r)
  <2>1. JobOK(r, Starting("start_reply", job[r].code, job[r].sess))
    BY <1>1, <1>6, JobForms DEF StartRedis, Label, Holding, JobOK
  <2> QED
    BY <1>2, <1>6, <2>1, ExamSessionAssumption DEF StartRedis, postgres, history
<1>7. CASE StartRedisFails(r)
  <2>1. JobOK(r, Starting("start_undo", job[r].code, job[r].sess))
    BY <1>1, <1>7, JobForms DEF StartRedisFails, Label, Holding, JobOK
  <2>2. sessionKey' \in [Sessions -> Answers \cup {None}]
    <3> DEFINE k == [sessionKey EXCEPT ![job[r].sess] = Empty]
    <3>1. sessionKey' = sessionKey \/ sessionKey' = k
      BY <1>7 DEF StartRedisFails
    <3>2. k \in [Sessions -> Answers \cup {None}]
      BY ExamSessionAssumption
    <3> QED
      BY <3>1, <3>2
  <2>4. faults' \in Nat
    BY <1>7, ExamSessionAssumption DEF StartRedisFails, Fault
  <2>3. job' \in [Procs -> Job] /\ JobsOK'
    BY <1>2, <1>7, <2>1 DEF StartRedisFails
  <2> QED
    BY <1>7, <2>2, <2>3, <2>4 DEF StartRedisFails, postgres
<1>8. CASE StartUndo(r)
  BY <1>1, <1>2, <1>8, JobForms DEF StartUndo, Return, redis, history, RowStatus
<1>9. CASE StartReply(r)
  BY <1>1, <1>2, <1>9, JobForms DEF StartReply, Return, postgres, redis, history, JobOK
<1>10. CASE \E s \in Sessions : StartTxn(r, s)
  <2> PICK s \in Sessions : StartTxn(r, s)
    BY <1>10
  <2>1. JobOK(r, Starting("start_redis", job[r].code, s)) /\ job[r].code \in Codes
    BY <1>1, JobForms DEF StartTxn, Label, Holding, JobOK
  <2> QED
    BY <1>2, <2>1 DEF StartTxn, redis, history, RowStatus, LiveStatus
<1> QED
  BY <1>3, <1>4, <1>5, <1>6, <1>7, <1>8, <1>9, <1>10

\* A step of autosave keeps the types.
LEMMA TypeAutosave ==
    ASSUME TypeInv, NEW r \in Requests,
           \/ \E s \in Sessions, a \in Answers : AutosaveRead(r, s, a)
           \/ AutosaveGet(r) \/ AutosaveSet(r) \/ AutosaveDb(r)
    PROVE  TypeInv'
<1>1. r \in Procs /\ JobOK(r, job[r]) /\ JobOK(r, Idle)
  BY Slots, JobForms DEF TypeInv, JobsOK
<1>2. ASSUME NEW j, JobOK(r, j), Proceed(r, j)
      PROVE  job' \in [Procs -> Job] /\ JobsOK'
  BY <1>1, <1>2, JobStep
<1> USE DEF TypeInv, TypeOK
<1>3. CASE \E s \in Sessions, a \in Answers : AutosaveRead(r, s, a)
  <2> PICK s \in Sessions, a \in Answers : AutosaveRead(r, s, a)
    BY <1>3
  <2>1. JobOK(r, On(s, "autosave_get", a))
    BY JobForms DEF Label, Holding
  <2> QED
    BY <1>2, <2>1 DEF AutosaveRead, postgres, redis, history
<1>4. CASE AutosaveGet(r)
  <2>1. JobOK(r, On(job[r].sess, "autosave_set", job[r].held))
    BY <1>1, <1>4, JobForms DEF AutosaveGet, Label, Holding, JobOK
  <2> QED
    BY <1>1, <1>2, <1>4, <2>1 DEF AutosaveGet, Return, postgres, redis, history
<1>5. CASE AutosaveSet(r)
  <2>1. job[r].sess \in Sessions /\ job[r].held \in Answers
    BY <1>1, <1>5 DEF AutosaveSet, Holding, JobOK
  <2>2. JobOK(r, On(job[r].sess, "autosave_db", job[r].held))
    BY <2>1, JobForms DEF Label, Holding
  <2>3. recent' \in [Sessions -> SUBSET Answers]
    <3> DEFINE w == {job[r].held} \cup {job[q].held : q \in Mirroring(job[r].sess)}
    <3>1. ASSUME NEW q \in Mirroring(job[r].sess) PROVE job[q].held \in Answers
      BY <3>1, Slots DEF Mirroring, JobsOK, JobOK, Holding
    <3>2. w \in SUBSET Answers
      BY <2>1, <3>1
    <3>3. recent' = [recent EXCEPT ![job[r].sess] = w] \/ recent' = recent
      BY <1>5 DEF AutosaveSet, LastSaved
    <3> HIDE DEF w
    <3> QED
      BY <2>1, <3>2, <3>3
  <2>4. job' \in [Procs -> Job] /\ JobsOK'
    BY <1>1, <1>2, <1>5, <2>2 DEF AutosaveSet, Return
  <2>5. sessionKey' \in [Sessions -> Answers \cup {None}]
    BY <1>5, <2>1 DEF AutosaveSet, SetKeepTtl
  <2> QED
    BY <1>5, <2>3, <2>4, <2>5 DEF AutosaveSet, postgres
<1>6. CASE AutosaveDb(r)
  <2>1. job[r].held \in Answers
    BY <1>1, <1>6 DEF AutosaveDb, Holding, JobOK
  <2> QED
    BY <1>1, <1>2, <1>6, <2>1 DEF AutosaveDb, Return, redis, history
<1> QED
  BY <1>3, <1>4, <1>5, <1>6

\* What scoreAndPersist does in either kind of slot keeps the types.
LEMMA TypeScore ==
    ASSUME TypeInv, NEW p \in Procs,
           ScoreAndPersist(p) \/ ScoreConflict(p) \/ DeleteSession(p)
    PROVE  TypeInv'
<1>1. JobOK(p, job[p]) /\ JobOK(p, Idle)
  BY JobForms DEF TypeInv, JobsOK
<1>2. ASSUME NEW j, JobOK(p, j), Proceed(p, j)
      PROVE  job' \in [Procs -> Job] /\ JobsOK'
  BY <1>2, JobStep
<1> USE DEF TypeInv, TypeOK
<1>3. CASE ScoreAndPersist(p)
  <2> DEFINE s == job[p].sess
             t == AttemptOf(job[p].pc, job[p].held)
  <2>1. s \in Sessions /\ job[p].held \in Answers
    BY <1>1, <1>3 DEF ScoreAndPersist, Holding, JobOK
  <2>2. JobOK(p, On(s, "delete_key", None))
    BY <1>1, <2>1 DEF JobOK, On, Job, Label, Holding
  <2>3. t \in Attempt /\ t.status \in RowStatus /\ t.answers \in Answers
    BY <2>1 DEF AttemptOf, Attempt, RowStatus, LiveStatus
  <2>4. attempts' = [attempts EXCEPT ![s] = Append(attempts[s], t)]
    BY <1>3 DEF ScoreAndPersist
  <2>5. attempts' \in [Sessions -> Seq(Attempt)]
    BY <2>1, <2>3, <2>4
  <2>6. status' \in [Sessions -> RowStatus] /\ snapshot' \in [Sessions -> Answers]
    BY <1>3, <2>1, <2>3 DEF ScoreAndPersist
  <2>7. job' \in [Procs -> Job] /\ JobsOK'
    BY <1>2, <1>3, <2>2 DEF ScoreAndPersist
  <2> QED
    BY <1>3, <2>5, <2>6, <2>7 DEF ScoreAndPersist, redis, history
<1>4. CASE ScoreConflict(p)
  BY <1>1, <1>2, <1>4 DEF ScoreConflict, Return, postgres, redis, history
<1>5. CASE DeleteSession(p)
  BY <1>1, <1>2, <1>5 DEF DeleteSession, Return, postgres, history
<1> QED
  BY <1>3, <1>4, <1>5

\* A step of submitExam or lateSubmitExam before scoring keeps the types.
LEMMA TypeSubmit ==
    ASSUME TypeInv, NEW r \in Requests,
           \/ \E s \in Sessions, a \in Answers : SubmitRead(r, s, a) \/ LateSubmitRead(r, s, a)
           \/ ConsumeGrace(r)
    PROVE  TypeInv'
<1>1. r \in Procs /\ JobOK(r, job[r]) /\ JobOK(r, Idle)
  BY Slots, JobForms DEF TypeInv, JobsOK
<1>2. ASSUME NEW j, JobOK(r, j), Proceed(r, j)
      PROVE  job' \in [Procs -> Job] /\ JobsOK'
  BY <1>1, <1>2, JobStep
<1> USE DEF TypeInv, TypeOK
<1>3. CASE \E s \in Sessions, a \in Answers : SubmitRead(r, s, a) \/ LateSubmitRead(r, s, a)
  <2> PICK s \in Sessions, a \in Answers : SubmitRead(r, s, a) \/ LateSubmitRead(r, s, a)
    BY <1>3
  <2>1. JobOK(r, On(s, "submit_txn", a)) /\ JobOK(r, On(s, "late_grace", a))
    BY JobForms DEF Label, Holding
  <2> QED
    BY <1>2, <2>1 DEF SubmitRead, LateSubmitRead, postgres, redis, history
<1>4. CASE ConsumeGrace(r)
  <2> DEFINE s == job[r].sess
             a == IF job[r].held = Empty THEN graceKey[s] ELSE job[r].held
  <2>1. s \in Sessions /\ job[r].held \in Answers
    BY <1>1, <1>4 DEF ConsumeGrace, Holding, JobOK
  <2>2. graceKey[s] # None => JobOK(r, On(s, "late_txn", a))
    <3> HAVE graceKey[s] # None
    <3>1. a \in Answers
      BY <2>1
    <3> QED
      BY <2>1, <3>1, JobForms DEF Label, Holding
  <2>3. job' \in [Procs -> Job] /\ JobsOK'
    BY <1>1, <1>2, <1>4, <2>2 DEF ConsumeGrace, Return
  <2> QED
    BY <1>4, <2>3 DEF ConsumeGrace, postgres, history
<1> QED
  BY <1>3, <1>4

\* A step of the keyspace handler before scoring keeps the types.
LEMMA TypeHandle ==
    ASSUME TypeInv, NEW h \in Handlers,
           HandleSessionExpiry(h) \/ ExpireWrite(h) \/ OpenGrace(h) \/ HandleGraceExpiry(h)
    PROVE  TypeInv'
<1>1. h \in Procs /\ h[3] \in Sessions /\ JobOK(h, job[h]) /\ JobOK(h, Idle)
  BY Slots, JobForms DEF TypeInv, JobsOK
<1>2. ASSUME NEW j, JobOK(h, j), Proceed(h, j)
      PROVE  job' \in [Procs -> Job] /\ JobsOK'
  BY <1>1, <1>2, JobStep
<1>3. ASSUME Deliver(h)
      PROVE  inbox' \in [Handlers -> Nat]
  BY <1>3 DEF Deliver, TypeInv, TypeOK
<1> USE DEF TypeInv, TypeOK
<1>4. CASE HandleSessionExpiry(h)
  <2>1. JobOK(h, On(h[3], "expire_write", snapshot[h[3]]))
    BY <1>1, JobForms DEF Label, Holding
  <2>2. job' \in [Procs -> Job] /\ JobsOK'
    BY <1>1, <1>2, <1>4, <2>1 DEF HandleSessionExpiry, Return
  <2> QED
    BY <1>3, <1>4, <2>2 DEF HandleSessionExpiry, postgres, history
<1>5. CASE ExpireWrite(h)
  <2>1. job[h].sess = h[3] /\ job[h].held \in Answers
    BY <1>1, <1>5, ExamSessionAssumption DEF ExpireWrite, Holding, JobOK
  <2>2. JobOK(h, On(h[3], "expire_grace", job[h].held))
    BY <1>1, <2>1, JobForms DEF Label, Holding
  <2>3. job' \in [Procs -> Job] /\ JobsOK'
    BY <1>2, <1>5, <2>1, <2>2 DEF ExpireWrite
  <2>4. status' \in [Sessions -> RowStatus] /\ reopened' \in [Sessions -> Nat]
    BY <1>1, <1>5, <2>1 DEF ExpireWrite, RowStatus, LiveStatus
  <2> QED
    BY <1>5, <2>3, <2>4 DEF ExpireWrite, redis
<1>6. CASE OpenGrace(h)
  <2>1. job[h].sess \in Sessions /\ job[h].held \in Answers
    BY <1>1, <1>6 DEF OpenGrace, Holding, JobOK
  <2>2. job' \in [Procs -> Job] /\ JobsOK'
    BY <1>1, <1>2, <1>6 DEF OpenGrace, Return
  <2>3. graceKey' \in [Sessions -> Answers \cup {None}] /\ graceOpened' \in [Sessions -> Nat]
    BY <1>6, <2>1 DEF OpenGrace
  <2> QED
    BY <1>6, <2>2, <2>3 DEF OpenGrace, postgres
<1>7. CASE HandleGraceExpiry(h)
  <2>1. JobOK(h, On(h[3], "auto_txn", snapshot[h[3]]))
    BY <1>1, JobForms DEF Label, Holding
  <2>2. job' \in [Procs -> Job] /\ JobsOK'
    BY <1>1, <1>2, <1>7, <2>1 DEF HandleGraceExpiry, Return
  <2> QED
    BY <1>3, <1>7, <2>2 DEF HandleGraceExpiry, postgres, history
<1> QED
  BY <1>4, <1>5, <1>6, <1>7

\* Key expiry and faults keep the types.
LEMMA TypeEnvironment ==
    ASSUME TypeInv,
           \/ \E s \in Sessions : Clock(s) \/ KeyLost(s)
           \/ \E p \in Procs : CallFails(p)
           \/ \E h \in Handlers : NotificationLost(h)
    PROVE  TypeInv'
<1> USE DEF TypeInv, TypeOK
<1>1. ASSUME UNCHANGED job PROVE JobsOK'
  BY <1>1 DEF JobsOK, JobOK
<1>2. ASSUME NEW k, NEW s, Publish(k, s) PROVE inbox' \in [Handlers -> Nat]
  BY <1>2 DEF Publish
<1>3. CASE \E s \in Sessions : Clock(s)
  <2> PICK s \in Sessions : Clock(s)
    BY <1>3
  <2>1. CASE SessionKeyExpires(s)
    BY <1>1, <1>2, <2>1 DEF SessionKeyExpires, postgres
  <2>2. CASE GraceKeyExpires(s)
    BY <1>1, <1>2, <2>2 DEF GraceKeyExpires, postgres, history
  <2> QED
    BY <2>1, <2>2 DEF Clock
<1>4. CASE \E s \in Sessions : KeyLost(s)
  <2> PICK s \in Sessions : KeyLost(s)
    BY <1>4
  <2>1. /\ sessionKey' \in [Sessions -> Answers \cup {None}]
        /\ graceKey' \in [Sessions -> Answers \cup {None}]
        /\ faults' \in Nat
    <3>1. sessionKey' = [sessionKey EXCEPT ![s] = None] \/ sessionKey' = sessionKey
      BY DEF KeyLost
    <3>2. graceKey' = [graceKey EXCEPT ![s] = None] \/ graceKey' = graceKey
      BY DEF KeyLost
    <3>3. faults' \in Nat
      BY ExamSessionAssumption DEF KeyLost, Fault
    <3> QED
      BY <3>1, <3>2, <3>3
  <2> QED
    BY <1>1, <2>1 DEF KeyLost, postgres
<1>5. CASE \E p \in Procs : CallFails(p)
  <2> PICK p \in Procs : CallFails(p)
    BY <1>5
  <2>1. job' \in [Procs -> Job] /\ JobsOK'
    BY JobStep, JobForms DEF CallFails, Return
  <2>2. recent' \in [Sessions -> SUBSET Answers]
    <3>1. CASE job[p].pc = "autosave_db"
      <4>1. job[p].sess \in Sessions
        BY <3>1 DEF JobsOK, JobOK
      <4> DEFINE w == recent[job[p].sess] \cup {snapshot[job[p].sess]}
      <4>2. w \in SUBSET Answers /\ recent' = [recent EXCEPT ![job[p].sess] = w]
        BY <3>1, <4>1 DEF CallFails
      <4> HIDE DEF w
      <4> QED
        BY <4>2
    <3> QED
      BY <3>1 DEF CallFails
  <2> QED
    BY <2>1, <2>2, ExamSessionAssumption DEF CallFails, Fault, postgres, redis
<1>6. CASE \E h \in Handlers : NotificationLost(h)
  BY <1>1, <1>6, ExamSessionAssumption DEF NotificationLost, Fault, postgres
<1> QED
  BY <1>3, <1>4, <1>5, <1>6

\* Every step keeps the types.
LEMMA TypeNext == TypeInv /\ [Next]_vars => TypeInv'
<1> SUFFICES ASSUME TypeInv, [Next]_vars PROVE TypeInv'
  OBVIOUS
<1>1. CASE \E r \in Requests : Call(r) \/ Serve(r)
  BY <1>1, TypeStart, TypeAutosave, TypeSubmit, TypeScore, Slots DEF Call, Serve
<1>2. CASE \E h \in Handlers : Handle(h)
  BY <1>2, TypeHandle, TypeScore, Slots DEF Handle
<1>3. CASE \E s \in Sessions : Clock(s)
  BY <1>3, TypeEnvironment
<1>4. CASE Failure
  BY <1>4, TypeStart, TypeEnvironment DEF Failure
<1>5. CASE UNCHANGED vars
  BY <1>5 DEF vars, postgres, redis, history, TypeInv, TypeOK, JobsOK, JobOK
<1> QED
  BY <1>1, <1>2, <1>3, <1>4, <1>5 DEF Next

\* Every variable of the exam engine stays in its type, whatever calls,
\* notifications and faults interleave.
THEOREM TypeCorrect == Spec => []TypeOK
<1>1. Spec => []TypeInv
  BY TypeInit, TypeNext, PTL DEF Spec
<1> QED
  BY <1>1, PTL DEF TypeInv

-----------------------------------------------------------------------------
(* The inductive invariant.  Two facts make the properties inductive: a    *)
(* row that was never inserted has left no trace anywhere, and until       *)
(* startExam has set the session key, or has compensated, nobody but that  *)
(* call knows the session.                                                 *)

Untraced(s) ==
    /\ s \notin told
    /\ graceKey[s] = None
    /\ ~ttlElapsed[s]
    /\ \A h \in Handlers : h[3] = s => inbox[h] = 0

FreshUntouched ==
    \A s \in Sessions : status[s] = "none" =>
        /\ Untraced(s)
        /\ sessionKey[s] = None
        /\ \A p \in Procs : job[p].sess # s

Private(r) ==
    /\ Untraced(job[r].sess)
    /\ status[job[r].sess] = "active"
    /\ token[job[r].sess] = job[r].code
    /\ job[r].pc = "start_redis" => sessionKey[job[r].sess] = None
    /\ \A p \in Procs : job[p].sess = job[r].sess => p = r

StartIsPrivate ==
    \A r \in Requests : job[r].pc \in {"start_redis", "start_undo"} => Private(r)

SafeInv ==
    /\ TypeInv
    /\ FreshUntouched
    /\ StartIsPrivate
    /\ AttemptsAccounted
    /\ ExpiredKeyStaysGone
    /\ CodeMatchesSession

SafeInvNext == FreshUntouched' /\ StartIsPrivate' /\ AttemptsAccounted'
               /\ ExpiredKeyStaysGone' /\ CodeMatchesSession'

\* What the step leaves alone outside session s0.
OnlyTouches(s0) ==
    \A s \in Sessions : s # s0 =>
        /\ status'[s] = status[s] /\ token'[s] = token[s]
        /\ sessionKey'[s] = sessionKey[s] /\ graceKey'[s] = graceKey[s]
        /\ ttlElapsed'[s] = ttlElapsed[s]
        /\ s \in told' => s \in told
        /\ \A h \in Handlers : h[3] = s => inbox'[h] = inbox[h]

\* Where a call may find session s0: it works on it already, the student
\* names it, or a notification does.
Reached(p, s0) ==
    \/ s0 = job[p].sess
    \/ s0 \in told
    \/ \E h \in Handlers : h[3] = s0 /\ inbox[h] > 0

\* A step of one call, after startExam's own, keeps what is said of fresh rows
\* and of startExam's privacy: it can have reached neither kind of session.
LEMMA CallIsLocal ==
    ASSUME SafeInv, NEW p \in Procs, NEW j \in Job, Proceed(p, j),
           j.pc \notin {"start_redis", "start_undo"},
           NEW s0, j.sess \in {None, s0}, Reached(p, s0), OnlyTouches(s0),
           s0 \in Sessions => (status'[s0] = "none" => status[s0] = "none")
    PROVE  FreshUntouched' /\ StartIsPrivate'
<1> USE ExamSessionAssumption, Slots DEF SafeInv, TypeInv, TypeOK
<1>1. \A q \in Procs : job'[q] = IF q = p THEN j ELSE job[q]
  BY DEF Proceed
<1>2. s0 \in Sessions => status[s0] # "none"
  BY DEF FreshUntouched, Untraced, Reached
<1>3. ASSUME NEW s \in Sessions, s # s0, Untraced(s) PROVE Untraced(s)'
  BY <1>3 DEF Untraced, OnlyTouches
<1>4. FreshUntouched'
  <2> SUFFICES ASSUME NEW s \in Sessions, status'[s] = "none"
               PROVE  /\ Untraced(s)' /\ sessionKey'[s] = None
                      /\ \A q \in Procs : job'[q].sess # s
    BY DEF FreshUntouched
  <2>1. s # s0 /\ status[s] = "none"
    BY <1>2 DEF OnlyTouches
  <2>2. Untraced(s) /\ sessionKey[s] = None /\ \A q \in Procs : job[q].sess # s
    BY <2>1 DEF FreshUntouched
  <2>3. sessionKey'[s] = None
    BY <2>1, <2>2 DEF OnlyTouches
  <2>4. \A q \in Procs : job'[q].sess # s
    BY <1>1, <2>1, <2>2
  <2> QED
    BY <1>3, <2>1, <2>2, <2>3, <2>4
<1>5. StartIsPrivate'
  <2> SUFFICES ASSUME NEW r \in Requests, job'[r].pc \in {"start_redis", "start_undo"}
               PROVE  Private(r)'
    BY DEF StartIsPrivate
  <2>1. r # p /\ r \in Procs /\ job'[r] = job[r]
    BY <1>1
  <2>2. job[r].sess \in Sessions /\ job[r].sess # None
    BY <2>1 DEF JobsOK, JobOK
  <2>3. Private(r)
    BY <2>1 DEF StartIsPrivate
  <2>4. job[r].sess # s0
    BY <2>1, <2>3 DEF Reached, Untraced, Private
  <2>5. PICK s1 \in Sessions : s1 = job[r].sess
    BY <2>2
  <2>6. Untraced(s1)'
    BY <1>3, <2>3, <2>4, <2>5 DEF Private
  <2>7. \A q \in Procs : job'[q].sess = s1 => q = r
    BY <1>1, <2>2, <2>3, <2>4, <2>5 DEF Private
  <2>8. /\ status'[s1] = "active" /\ token'[s1] = job[r].code
        /\ job[r].pc = "start_redis" => sessionKey'[s1] = None
    BY <2>3, <2>4, <2>5 DEF Private, OnlyTouches
  <2> QED
    BY <2>1, <2>5, <2>6, <2>7, <2>8 DEF Private, Untraced
<1> QED
  BY <1>4, <1>5

\* The properties only depend on these variables.
LEMMA Undisturbed ==
    ASSUME SafeInv,
           UNCHANGED <<usedAt, status, token, attempts, sessionKey, ttlElapsed, reopened>>
    PROVE  AttemptsAccounted' /\ ExpiredKeyStaysGone' /\ CodeMatchesSession'
BY DEF SafeInv, AttemptsAccounted, ExpiredKeyStaysGone, CodeMatchesSession, HasRow

\* A call of the student, or a step of one that writes nothing in Postgres,
\* no session key and no start of a session.
LEMMA SafeQuiet ==
    ASSUME SafeInv, NEW r \in Requests,
           \/ \E c \in Codes : StartVerify(r, c)
           \/ StartCheck(r) \/ StartTxnConflict(r)
           \/ \E s \in Sessions, a \in Answers :
                 AutosaveRead(r, s, a) \/ SubmitRead(r, s, a) \/ LateSubmitRead(r, s, a)
           \/ AutosaveGet(r) \/ AutosaveDb(r) \/ ConsumeGrace(r)
    PROVE  SafeInvNext
<1>1. AttemptsAccounted' /\ ExpiredKeyStaysGone' /\ CodeMatchesSession'
  BY Undisturbed DEF StartVerify, StartCheck, StartTxnConflict, AutosaveRead, SubmitRead,
     LateSubmitRead, AutosaveGet, AutosaveDb, ConsumeGrace, postgres, redis, history
<1>2. r \in Procs /\ job[r] \in Job /\ JobOK(r, job[r]) /\ JobOK(r, Idle)
  BY Slots, JobForms DEF SafeInv, TypeInv, JobsOK, JobOK
<1>3. PICK j \in Job : Proceed(r, j) /\ j.pc \notin {"start_redis", "start_undo"}
                     /\ \/ j.sess \in {None, job[r].sess}
                        \/ j.sess \in told /\ UNCHANGED <<postgres, redis, told, history>>
  <2> USE <1>2 DEF Job, Label, Idle, Starting, On, Return, JobOK, Holding
  <2>1. CASE \E c \in Codes : StartVerify(r, c)
    BY <2>1 DEF StartVerify
  <2>2. CASE StartCheck(r)
    BY <2>2 DEF StartCheck
  <2>3. CASE StartTxnConflict(r)
    BY <2>3 DEF StartTxnConflict
  <2>4. CASE \E s \in Sessions, a \in Answers :
               AutosaveRead(r, s, a) \/ SubmitRead(r, s, a) \/ LateSubmitRead(r, s, a)
    BY <2>4 DEF AutosaveRead, SubmitRead, LateSubmitRead, OwnedSession
  <2>5. CASE AutosaveGet(r)
    BY <2>5 DEF AutosaveGet
  <2>6. CASE AutosaveDb(r)
    BY <2>6 DEF AutosaveDb
  <2>7. CASE ConsumeGrace(r)
    <3>1. job[r].sess \in Sessions /\ job[r].held \in Answers
      BY <2>7 DEF ConsumeGrace
    <3>2. graceKey[job[r].sess] \in Answers \cup {None}
      BY <3>1 DEF SafeInv, TypeInv, TypeOK
    <3> QED
      BY <2>7, <3>1, <3>2 DEF ConsumeGrace
  <2> QED
    BY <2>1, <2>2, <2>3, <2>4, <2>5, <2>6, <2>7
<1>4. OnlyTouches(job[r].sess)
  BY DEF StartVerify, StartCheck, StartTxnConflict, AutosaveRead, SubmitRead,
     LateSubmitRead, AutosaveGet, AutosaveDb, ConsumeGrace, postgres, redis, history,
     OnlyTouches, SafeInv, TypeInv, TypeOK
<1>5. status' = status
  BY DEF StartVerify, StartCheck, StartTxnConflict, AutosaveRead, SubmitRead,
     LateSubmitRead, AutosaveGet, AutosaveDb, ConsumeGrace, postgres
<1>6. CASE j.sess \in {None, job[r].sess}
  BY <1>1, <1>2, <1>3, <1>4, <1>5, <1>6, CallIsLocal DEF SafeInvNext, Reached
<1>7. CASE j.sess \in told /\ UNCHANGED <<postgres, redis, told, history>>
  <2>1. OnlyTouches(j.sess)
    BY <1>7 DEF OnlyTouches, postgres, redis, history
  <2> QED
    BY <1>1, <1>2, <1>3, <1>5, <1>7, <2>1, CallIsLocal DEF SafeInvNext, Reached
<1> QED
  BY <1>3, <1>6, <1>7

\* startExam from its transaction to its reply: the new row is private to the
\* call until its key is set, so the compensation deletes a row nobody has
\* submitted and frees a code no other row came from.
LEMMA SafeStart ==
    ASSUME SafeInv, TypeInv', NEW r \in Requests,
           \/ \E s \in Sessions : StartTxn(r, s)
           \/ StartRedis(r) \/ StartRedisFails(r) \/ StartUndo(r) \/ StartReply(r)
    PROVE  SafeInvNext
<1> USE ExamSessionAssumption, Slots
    DEF SafeInv, SafeInvNext, TypeInv, TypeOK, JobsOK, JobOK, Job, Starting, Proceed,
        postgres, redis, history
<1>1. CASE \E s \in Sessions : StartTxn(r, s)
  <2> PICK s0 \in Sessions : StartTxn(r, s0)
    BY <1>1
  <2> USE DEF StartTxn
  <2>1. FreshUntouched'
    BY DEF FreshUntouched, Untraced
  <2>2. StartIsPrivate'
    BY DEF StartIsPrivate, Private, FreshUntouched, Untraced
  <2>3. AttemptsAccounted'
    BY DEF AttemptsAccounted, Submitted
  <2>4. ExpiredKeyStaysGone'
    BY DEF ExpiredKeyStaysGone
  <2>5. CodeMatchesSession'
    BY DEF CodeMatchesSession, HasRow, LiveStatus
  <2> QED
    BY <2>1, <2>2, <2>3, <2>4, <2>5
<1>2. CASE StartRedis(r)
  <2> USE <1>2 DEF StartRedis
  <2>1. FreshUntouched'
    BY DEF FreshUntouched, Untraced
  <2>2. StartIsPrivate'
    BY DEF StartIsPrivate, Private, Untraced
  <2>3. AttemptsAccounted' /\ CodeMatchesSession'
    BY DEF AttemptsAccounted, CodeMatchesSession, HasRow
  <2>4. ExpiredKeyStaysGone'
    BY DEF ExpiredKeyStaysGone, StartIsPrivate, Private, Untraced
  <2> QED
    BY <2>1, <2>2, <2>3, <2>4
<1>3. CASE StartRedisFails(r)
  <2> USE <1>3 DEF StartRedisFails, Fault
  <2>1. FreshUntouched'
    BY DEF FreshUntouched, Untraced, StartIsPrivate, Private
  <2>2. StartIsPrivate'
    <3>1. \A q \in Procs : job'[q] = IF q = r
                                     THEN Starting("start_undo", job[r].code, job[r].sess)
                                     ELSE job[q]
      OBVIOUS
    <3>2. \A s \in Sessions : s # job[r].sess => sessionKey'[s] = sessionKey[s]
      OBVIOUS
    <3> SUFFICES ASSUME NEW q \in Requests, job'[q].pc \in {"start_redis", "start_undo"}
                 PROVE  Private(q)'
      BY DEF StartIsPrivate
    <3>3. Private(q) /\ job'[q].sess = job[q].sess /\ job'[q].code = job[q].code
      BY <3>1 DEF StartIsPrivate
    <3>4. \A p \in Procs : job'[p].sess = job[p].sess
      BY <3>1
    <3>5. job'[q].pc = "start_redis" => sessionKey'[job[q].sess] = None
      BY <3>1, <3>2, <3>3 DEF Private
    <3> QED
      BY <3>3, <3>4, <3>5 DEF Private, Untraced
  <2>3. AttemptsAccounted' /\ CodeMatchesSession'
    BY DEF AttemptsAccounted, CodeMatchesSession, HasRow
  <2>4. ExpiredKeyStaysGone'
    BY DEF ExpiredKeyStaysGone, StartIsPrivate, Private, Untraced
  <2> QED
    BY <2>1, <2>2, <2>3, <2>4
<1>4. CASE StartUndo(r)
  <2> USE <1>4 DEF StartUndo
  <2>1. PICK j \in Job : Proceed(r, j) /\ j.pc = "idle" /\ j.sess = None
    BY JobForms DEF Return, Idle
  <2>2. FreshUntouched' /\ StartIsPrivate'
    <3>1. OnlyTouches(job[r].sess) /\ status'[job[r].sess] # "none"
      BY DEF OnlyTouches
    <3> HIDE DEF SafeInv, TypeInv, TypeOK, JobsOK, JobOK, Job, Proceed, Starting
    <3> QED
      BY <2>1, <3>1, CallIsLocal DEF Reached
  <2>3. AttemptsAccounted'
    BY DEF AttemptsAccounted, Submitted, StartIsPrivate, Private
  <2>4. ExpiredKeyStaysGone'
    BY DEF ExpiredKeyStaysGone
  <2>5. CodeMatchesSession'
    BY DEF CodeMatchesSession, HasRow, LiveStatus, StartIsPrivate, Private
  <2> QED
    BY <2>2, <2>3, <2>4, <2>5
<1>5. CASE StartReply(r)
  <2> USE <1>5 DEF StartReply
  <2>1. PICK j \in Job : Proceed(r, j) /\ j.pc = "idle" /\ j.sess = None
    BY JobForms DEF Return, Idle
  <2>2. FreshUntouched' /\ StartIsPrivate'
    <3>1. OnlyTouches(job[r].sess)
      BY DEF OnlyTouches
    <3> HIDE DEF SafeInv, TypeInv, TypeOK, JobsOK, JobOK, Job, Proceed, Starting
    <3> QED
      BY <2>1, <3>1, CallIsLocal DEF Reached
  <2> QED
    BY <2>2, Undisturbed
<1> QED
  BY <1>1, <1>2, <1>3, <1>4, <1>5

\* The autosave's SET ... KEEPTTL XX.
LEMMA SafeAutosaveSet ==
    ASSUME SafeInv, NEW r \in Requests, AutosaveSet(r)
    PROVE  SafeInvNext
<1> USE ExamSessionAssumption, Slots DEF SafeInv, TypeInv, TypeOK, AutosaveSet, postgres, history
<1>1. job[r].sess \in Sessions /\ job[r].held \in Answers
  BY DEF JobsOK, JobOK, Holding
<1>2. PICK j \in Job : Proceed(r, j) /\ j.pc \notin {"start_redis", "start_undo"}
                     /\ j.sess \in {None, job[r].sess}
  <2>1. CASE sessionKey[job[r].sess] # None
    <3> DEFINE j == On(job[r].sess, "autosave_db", job[r].held)
    <3>1. j \in Job /\ j.pc = "autosave_db" /\ j.sess = job[r].sess
      BY <1>1 DEF Job, On, Label
    <3> QED
      BY <2>1, <3>1
  <2>2. CASE sessionKey[job[r].sess] = None
    <3>1. Idle \in Job /\ Idle.pc = "idle" /\ Idle.sess = None
      BY DEF Job, Idle, Label
    <3> QED
      BY <2>2, <3>1 DEF Return
  <2> QED
    BY <2>1, <2>2
<1>3. OnlyTouches(job[r].sess)
  BY <1>1 DEF OnlyTouches, SetKeepTtl
<1>4. FreshUntouched' /\ StartIsPrivate'
  BY <1>2, <1>3, CallIsLocal DEF Reached
<1>5. AttemptsAccounted' /\ CodeMatchesSession'
  BY DEF AttemptsAccounted, CodeMatchesSession, HasRow
<1>6. ExpiredKeyStaysGone'
  BY <1>1 DEF ExpiredKeyStaysGone, SetKeepTtl
<1> QED
  BY <1>4, <1>5, <1>6 DEF SafeInvNext

\* scoreAndPersist: the conditional transition and the insert are one step.
LEMMA SafeScore ==
    ASSUME SafeInv, NEW p \in Procs,
           ScoreAndPersist(p) \/ ScoreConflict(p) \/ DeleteSession(p)
    PROVE  SafeInvNext
<1>1. job[p] \in Job /\ JobOK(p, job[p]) /\ Idle \in Job /\ Idle.pc = "idle" /\ Idle.sess = None
  BY ExamSessionAssumption DEF SafeInv, TypeInv, JobsOK, JobOK, Job, Idle, Label
<1>2. job[p].sess \in Sessions
  BY <1>1 DEF JobOK, ScoreAndPersist, ScoreConflict, DeleteSession
<1>3. PICK j \in Job : Proceed(p, j) /\ j.pc \notin {"start_redis", "start_undo"}
                     /\ j.sess \in {None, job[p].sess}
  <2>1. CASE ScoreAndPersist(p)
    <3> DEFINE j == On(job[p].sess, "delete_key", None)
    <3>1. j \in Job /\ j.pc = "delete_key" /\ j.sess = job[p].sess
      BY <1>2 DEF Job, On, Label
    <3> QED
      BY <2>1, <3>1 DEF ScoreAndPersist
  <2>2. CASE ScoreConflict(p) \/ DeleteSession(p)
    BY <1>1, <2>2 DEF ScoreConflict, DeleteSession, Return
  <2> QED
    BY <2>1, <2>2
<1>4. OnlyTouches(job[p].sess)
  BY <1>2 DEF OnlyTouches, ScoreAndPersist, ScoreConflict, DeleteSession, postgres, redis,
     history, SafeInv, TypeInv, TypeOK
<1>5. status'[job[p].sess] = "none" => status[job[p].sess] = "none"
  BY <1>2 DEF ScoreAndPersist, ScoreConflict, DeleteSession, AttemptOf, postgres,
     SafeInv, TypeInv, TypeOK
<1>6. FreshUntouched' /\ StartIsPrivate'
  BY <1>3, <1>4, <1>5, CallIsLocal DEF Reached
<1>7. CASE ScoreAndPersist(p)
  <2> DEFINE t == AttemptOf(job[p].pc, job[p].held)
             s0 == job[p].sess
  <2> USE <1>7 DEF ScoreAndPersist, SafeInv, TypeInv, TypeOK
  <2>1. t.status \in {"submitted", "auto_submitted"} /\ t \in Attempt
    BY <1>1 DEF AttemptOf, Attempt, JobOK, Holding
  <2>2. status' = [status EXCEPT ![s0] = t.status]
    OBVIOUS
  <2>3. AttemptsAccounted'
    <3> SUFFICES ASSUME NEW s \in Sessions
                 PROVE  Len(attempts'[s]) = reopened'[s] + (IF Submitted(status'[s]) THEN 1 ELSE 0)
      BY DEF AttemptsAccounted
    <3>1. Len(attempts[s]) = reopened[s] + (IF Submitted(status[s]) THEN 1 ELSE 0)
          /\ reopened' = reopened
      BY DEF AttemptsAccounted, history
    <3>2. CASE s = s0
      <4>1. attempts'[s] = Append(attempts[s], t) /\ attempts[s] \in Seq(Attempt)
        BY <3>2
      <4>2. Len(attempts'[s]) = Len(attempts[s]) + 1
        BY <2>1, <4>1
      <4>3. ~Submitted(status[s]) /\ Submitted(status'[s])
        BY <1>2, <2>1, <2>2, <3>2 DEF Submitted, Open
      <4> QED
        BY <3>1, <4>2, <4>3
    <3>3. CASE s # s0
      BY <2>2, <3>1, <3>3
    <3> QED
      BY <3>2, <3>3
  <2>4. ExpiredKeyStaysGone'
    BY DEF ExpiredKeyStaysGone, redis, history
  <2>5. CodeMatchesSession'
    <3>1. \A s \in Sessions : HasRow(s)' <=> HasRow(s)
      BY <2>1, <2>2 DEF HasRow, LiveStatus, Open
    <3> QED
      BY <3>1 DEF CodeMatchesSession
  <2> QED
    BY <1>6, <2>3, <2>4, <2>5 DEF SafeInvNext
<1>8. CASE ScoreConflict(p)
  <2>1. AttemptsAccounted' /\ ExpiredKeyStaysGone' /\ CodeMatchesSession'
    BY <1>8, Undisturbed DEF ScoreConflict, postgres, redis, history
  <2> QED
    BY <1>6, <2>1 DEF SafeInvNext
<1>9. CASE DeleteSession(p)
  <2>1. AttemptsAccounted' /\ CodeMatchesSession'
    BY <1>9 DEF DeleteSession, postgres, history, SafeInv, AttemptsAccounted,
       CodeMatchesSession, HasRow
  <2>2. ExpiredKeyStaysGone'
    BY <1>2, <1>9 DEF DeleteSession, history, SafeInv, TypeInv, TypeOK, ExpiredKeyStaysGone
  <2> QED
    BY <1>6, <2>1, <2>2 DEF SafeInvNext
<1> QED
  BY <1>7, <1>8, <1>9

\* The keyspace handler before scoring.  Its unconditional write is the one
\* step that takes a row out of a submitted status, and it is counted.
LEMMA SafeHandle ==
    ASSUME SafeInv, NEW h \in Handlers,
           HandleSessionExpiry(h) \/ ExpireWrite(h) \/ OpenGrace(h) \/ HandleGraceExpiry(h)
    PROVE  SafeInvNext
<1>1. /\ h \in Procs /\ job[h] \in Job /\ JobOK(h, job[h]) /\ h[3] \in Sessions
      /\ Idle \in Job /\ Idle.pc = "idle" /\ Idle.sess = None
  BY ExamSessionAssumption, Slots DEF SafeInv, TypeInv, JobsOK, JobOK, Job, Idle, Label
<1>2. \A l \in Label, a \in Answers : On(h[3], l, a) \in Job
  BY <1>1 DEF Job, On
<1>3. ExpireWrite(h) \/ OpenGrace(h) => job[h].sess = h[3] /\ job[h].held \in Answers
  BY <1>1, ExamSessionAssumption DEF ExpireWrite, OpenGrace, JobOK, Holding
<1>4. HandleSessionExpiry(h) \/ HandleGraceExpiry(h) => inbox[h] > 0
  BY DEF HandleSessionExpiry, HandleGraceExpiry, Deliver
<1>5. Reached(h, h[3])
  BY <1>3, <1>4 DEF Reached
<1>6. PICK j \in Job : Proceed(h, j) /\ j.pc \notin {"start_redis", "start_undo"}
                     /\ j.sess \in {None, h[3]}
  <2>1. CASE HandleSessionExpiry(h)
    <3> DEFINE j == On(h[3], "expire_write", snapshot[h[3]])
    <3>1. j \in Job /\ j.pc = "expire_write" /\ j.sess = h[3]
      BY <1>1, <1>2 DEF On, Label, SafeInv, TypeInv, TypeOK
    <3> QED
      BY <1>1, <2>1, <3>1 DEF HandleSessionExpiry, Return
  <2>2. CASE ExpireWrite(h)
    <3> DEFINE j == On(h[3], "expire_grace", job[h].held)
    <3>1. j \in Job /\ j.pc = "expire_grace" /\ j.sess = h[3]
      BY <1>2, <1>3, <2>2 DEF On, Label
    <3> QED
      BY <1>3, <2>2, <3>1 DEF ExpireWrite
  <2>3. CASE OpenGrace(h)
    BY <1>1, <2>3 DEF OpenGrace, Return
  <2>4. CASE HandleGraceExpiry(h)
    <3> DEFINE j == On(h[3], "auto_txn", snapshot[h[3]])
    <3>1. j \in Job /\ j.pc = "auto_txn" /\ j.sess = h[3]
      BY <1>1, <1>2 DEF On, Label, SafeInv, TypeInv, TypeOK
    <3> QED
      BY <1>1, <2>4, <3>1 DEF HandleGraceExpiry, Return
  <2> QED
    BY <2>1, <2>2, <2>3, <2>4
<1>7. OnlyTouches(h[3])
  BY <1>1, <1>3 DEF OnlyTouches, HandleSessionExpiry, ExpireWrite, OpenGrace, HandleGraceExpiry,
     Deliver, postgres, redis, history, SafeInv, TypeInv, TypeOK
<1>8. status'[h[3]] = "none" => status[h[3]] = "none"
  BY <1>1, <1>3 DEF HandleSessionExpiry, ExpireWrite, OpenGrace, HandleGraceExpiry, postgres,
     SafeInv, TypeInv, TypeOK
<1>9. FreshUntouched' /\ StartIsPrivate'
  BY <1>1, <1>5, <1>6, <1>7, <1>8, CallIsLocal
<1>10. CASE ExpireWrite(h)
  <2> USE <1>3, <1>10 DEF ExpireWrite, SafeInv, TypeInv, TypeOK
  <2>1. AttemptsAccounted'
    <3> SUFFICES ASSUME NEW s \in Sessions
                 PROVE  Len(attempts'[s]) = reopened'[s] + (IF Submitted(status'[s]) THEN 1 ELSE 0)
      BY DEF AttemptsAccounted
    <3>1. Len(attempts[s]) = reopened[s] + (IF Submitted(status[s]) THEN 1 ELSE 0)
          /\ attempts' = attempts
      BY DEF AttemptsAccounted
    <3>2. CASE s = h[3]
      <4>1. status'[s] = (IF status[s] \in LiveStatus THEN "expired" ELSE status[s])
            /\ reopened'[s] = (IF Submitted(status[s]) THEN reopened[s] + 1 ELSE reopened[s])
        BY <3>2
      <4> HIDE DEF SafeInv, TypeInv, TypeOK, ExpireWrite
      <4>2. reopened[s] \in Nat /\ Len(attempts[s]) \in Nat
        BY DEF SafeInv, TypeInv, TypeOK
      <4> QED
        BY <3>1, <4>1, <4>2 DEF Submitted, LiveStatus
    <3>3. CASE s # h[3]
      BY <3>1, <3>3
    <3> QED
      BY <3>2, <3>3
  <2>2. ExpiredKeyStaysGone'
    BY DEF ExpiredKeyStaysGone, redis
  <2>3. CodeMatchesSession'
    <3>1. \A s \in Sessions : HasRow(s)' <=> HasRow(s)
      BY DEF HasRow, LiveStatus
    <3> QED
      BY <3>1 DEF CodeMatchesSession
  <2> QED
    BY <1>9, <2>1, <2>2, <2>3 DEF SafeInvNext
<1>11. CASE HandleSessionExpiry(h) \/ OpenGrace(h) \/ HandleGraceExpiry(h)
  <2>1. AttemptsAccounted' /\ ExpiredKeyStaysGone' /\ CodeMatchesSession'
    BY <1>11, Undisturbed
    DEF HandleSessionExpiry, OpenGrace, HandleGraceExpiry, postgres, history
  <2> QED
    BY <1>9, <2>1 DEF SafeInvNext
<1> QED
  BY <1>10, <1>11

\* Keys that expire or are lost, messages that are lost, calls that die.
LEMMA SafeEnvironment ==
    ASSUME SafeInv,
           \/ \E s \in Sessions : Clock(s) \/ KeyLost(s)
           \/ \E p \in Procs : CallFails(p)
           \/ \E h \in Handlers : NotificationLost(h)
    PROVE  SafeInvNext
<1> USE ExamSessionAssumption, Slots DEF SafeInv, SafeInvNext, TypeInv, TypeOK
<1>1. CASE \E s \in Sessions : SessionKeyExpires(s)
  <2> PICK s0 \in Sessions : SessionKeyExpires(s0)
    BY <1>1
  <2> USE DEF SessionKeyExpires, Publish, postgres
  <2>1. FreshUntouched'
    BY DEF FreshUntouched, Untraced
  <2>2. StartIsPrivate'
    BY DEF StartIsPrivate, Private, Untraced
  <2>3. AttemptsAccounted' /\ CodeMatchesSession'
    BY DEF AttemptsAccounted, CodeMatchesSession, HasRow
  <2>4. ExpiredKeyStaysGone'
    BY DEF ExpiredKeyStaysGone
  <2> QED
    BY <2>1, <2>2, <2>3, <2>4
<1>2. CASE \E s \in Sessions : GraceKeyExpires(s)
  <2> PICK s0 \in Sessions : GraceKeyExpires(s0)
    BY <1>2
  <2> USE DEF GraceKeyExpires, Publish, postgres, history
  <2>1. FreshUntouched'
    BY DEF FreshUntouched, Untraced
  <2>2. StartIsPrivate'
    BY DEF StartIsPrivate, Private, Untraced
  <2> QED
    BY <2>1, <2>2, Undisturbed
<1>3. CASE \E s \in Sessions : KeyLost(s)
  <2> PICK s0 \in Sessions : KeyLost(s0)
    BY <1>3
  <2>1. \A s \in Sessions : /\ sessionKey[s] = None => sessionKey'[s] = None
                            /\ graceKey[s] = None => graceKey'[s] = None
    BY DEF KeyLost
  <2> USE DEF KeyLost, postgres
  <2>2. FreshUntouched'
    BY <2>1 DEF FreshUntouched, Untraced
  <2>3. \A s \in Sessions : Untraced(s) => Untraced(s)'
    BY <2>1 DEF Untraced
  <2>4. StartIsPrivate'
    <3> SUFFICES ASSUME NEW r \in Requests, job'[r].pc \in {"start_redis", "start_undo"}
                 PROVE  Private(r)'
      BY DEF StartIsPrivate
    <3>1. Private(r) /\ job[r].sess \in Sessions
      BY DEF StartIsPrivate, JobsOK, JobOK
    <3>2. PICK s1 \in Sessions : s1 = job[r].sess
      BY <3>1
    <3>3. Untraced(s1)' /\ (sessionKey[s1] = None => sessionKey'[s1] = None)
      BY <2>1, <2>3, <3>1, <3>2 DEF Private
    <3>4. job' = job /\ UNCHANGED postgres
      OBVIOUS
    <3>5. job[r].pc = "start_redis" => sessionKey'[s1] = None
      BY <3>1, <3>2, <3>3 DEF Private
    <3> HIDE DEF SafeInv, TypeInv, TypeOK, KeyLost
    <3>6. Untraced(job[r].sess)'
      BY <3>2, <3>3, <3>4 DEF Untraced
    <3> QED
      BY <3>1, <3>2, <3>4, <3>5, <3>6 DEF Private
  <2>5. AttemptsAccounted' /\ CodeMatchesSession'
    BY DEF AttemptsAccounted, CodeMatchesSession, HasRow
  <2>6. ExpiredKeyStaysGone'
    BY <2>1 DEF ExpiredKeyStaysGone
  <2> QED
    BY <2>2, <2>4, <2>5, <2>6
<1>4. CASE \E p \in Procs : CallFails(p)
  <2> PICK p \in Procs : CallFails(p)
    BY <1>4
  <2>1. Idle \in Job /\ Idle.pc = "idle" /\ Idle.sess = None
    BY DEF Job, Idle, Label
  <2>2. OnlyTouches(job[p].sess) /\ status' = status
    BY DEF CallFails, OnlyTouches, postgres, redis
  <2>3. FreshUntouched' /\ StartIsPrivate'
    <3> HIDE DEF SafeInv, TypeInv, TypeOK
    <3> QED
      BY <2>1, <2>2, CallIsLocal DEF CallFails, Return, Reached
  <2> QED
    BY <2>3, Undisturbed DEF CallFails, postgres, redis
<1>5. CASE \E h \in Handlers : NotificationLost(h)
  <2> PICK h \in Handlers : NotificationLost(h)
    BY <1>5
  <2> USE DEF NotificationLost, postgres
  <2>1. FreshUntouched'
    BY DEF FreshUntouched, Untraced
  <2>2. \A s \in Sessions : Untraced(s) => Untraced(s)'
    BY DEF Untraced
  <2>3. StartIsPrivate'
    <3> SUFFICES ASSUME NEW r \in Requests, job'[r].pc \in {"start_redis", "start_undo"}
                 PROVE  Private(r)'
      BY DEF StartIsPrivate
    <3>1. Private(r) /\ job[r].sess \in Sessions
      BY DEF StartIsPrivate, JobsOK, JobOK
    <3>2. job' = job /\ UNCHANGED <<postgres, sessionKey>>
      OBVIOUS
    <3>3. Untraced(job[r].sess)'
      BY <2>2, <3>1, <3>2 DEF Private
    <3> HIDE DEF SafeInv, TypeInv, TypeOK, NotificationLost
    <3> QED
      BY <3>1, <3>2, <3>3 DEF Private
  <2> QED
    BY <2>1, <2>3, Undisturbed
<1> QED
  BY <1>1, <1>2, <1>3, <1>4, <1>5 DEF Clock

\* The initial state satisfies the invariant.
LEMMA SafeInit == Init => SafeInv
<1> SUFFICES ASSUME Init PROVE SafeInv
  OBVIOUS
<1> USE ExamSessionAssumption DEF Init
<1>1. TypeInv
  BY TypeInit
<1>2. FreshUntouched
  BY Slots DEF FreshUntouched, Untraced, Idle
<1>3. StartIsPrivate
  BY Slots DEF StartIsPrivate, Idle
<1>4. AttemptsAccounted
  BY DEF AttemptsAccounted, Submitted
<1>5. ExpiredKeyStaysGone /\ CodeMatchesSession
  BY DEF ExpiredKeyStaysGone, CodeMatchesSession, HasRow, LiveStatus
<1> QED
  BY <1>1, <1>2, <1>3, <1>4, <1>5 DEF SafeInv

\* Every step keeps the invariant.
LEMMA SafeNext == SafeInv /\ [Next]_vars => SafeInv'
<1> SUFFICES ASSUME SafeInv, [Next]_vars PROVE SafeInv'
  OBVIOUS
<1>1. TypeInv'
  BY TypeNext DEF SafeInv
<1>2. CASE \E r \in Requests : Call(r) \/ Serve(r)
  BY <1>1, <1>2, SafeQuiet, SafeStart, SafeAutosaveSet, SafeScore, Slots
  DEF Call, Serve, SafeInv, SafeInvNext
<1>3. CASE \E h \in Handlers : Handle(h)
  BY <1>1, <1>3, SafeHandle, SafeScore, Slots DEF Handle, SafeInv, SafeInvNext
<1>4. CASE \E s \in Sessions : Clock(s)
  BY <1>1, <1>4, SafeEnvironment DEF SafeInv, SafeInvNext
<1>5. CASE Failure
  BY <1>1, <1>5, SafeStart, SafeEnvironment DEF Failure, SafeInv, SafeInvNext
<1>6. CASE UNCHANGED vars
  <2>1. AttemptsAccounted' /\ ExpiredKeyStaysGone' /\ CodeMatchesSession'
    BY <1>6, Undisturbed DEF vars, postgres, redis, history
  <2>2. FreshUntouched' /\ StartIsPrivate'
    BY <1>6 DEF vars, postgres, redis, history, SafeInv, FreshUntouched, StartIsPrivate,
       Private, Untraced
  <2> QED
    BY <1>1, <2>1, <2>2 DEF SafeInv
<1> QED
  BY <1>2, <1>3, <1>4, <1>5, <1>6 DEF Next

LEMMA SafeAlways == Spec => []SafeInv
BY SafeInit, SafeNext, PTL DEF Spec

\* Whatever submits, late submits, auto-submits, instances and faults
\* interleave: one attempt per submitted row, plus one for each time an expiry
\* handler overwrote a submitted status.
THEOREM AttemptsCorrect == Spec => []AttemptsAccounted
BY SafeAlways, PTL DEF SafeInv

\* No autosave revives a session key whose countdown has ended.
THEOREM DeadlineCorrect == Spec => []ExpiredKeyStaysGone
BY SafeAlways, PTL DEF SafeInv

\* A code is used exactly while the one session row started with it exists.
THEOREM CodeCorrect == Spec => []CodeMatchesSession
BY SafeAlways, PTL DEF SafeInv

-----------------------------------------------------------------------------
(* Submitted rows.                                                         *)

StaysFinal == \A s \in Sessions : OnlyAnExpiryReopens(s)

\* A step that writes neither a status nor an attempt reopens nothing.
LEMMA QuietIsFinal ==
    ASSUME TypeInv, UNCHANGED <<status, attempts>>
    PROVE  StaysFinal
<1>1. \A s \in Sessions : Len(attempts[s]) \in Nat
  BY DEF TypeInv, TypeOK
<1> QED
  BY <1>1 DEF StaysFinal, OnlyAnExpiryReopens

\* The steps that do write one.
LEMMA WriteIsFinal ==
    ASSUME SafeInv, NEW p \in Procs,
           \/ p \in Requests /\ (StartUndo(p) \/ \E s \in Sessions : StartTxn(p, s))
           \/ ScoreAndPersist(p)
           \/ p \in Handlers /\ ExpireWrite(p)
    PROVE  StaysFinal
<1>1. JobOK(p, job[p]) /\ \A s \in Sessions : attempts[s] \in Seq(Attempt)
  BY DEF SafeInv, TypeInv, TypeOK, JobsOK
<1> SUFFICES ASSUME NEW s \in Sessions PROVE OnlyAnExpiryReopens(s)
  BY DEF StaysFinal
<1>2. Len(attempts[s]) \in Nat
  BY <1>1
<1> USE DEF SafeInv, TypeInv, TypeOK, OnlyAnExpiryReopens, Submitted
<1>3. CASE p \in Requests /\ StartUndo(p)
  <2>1. status[job[p].sess] = "active" /\ job[p].sess \in Sessions
    BY <1>1, <1>3 DEF StartUndo, StartIsPrivate, Private, JobOK
  <2> QED
    BY <1>2, <1>3, <2>1 DEF StartUndo
<1>4. CASE \E t \in Sessions : StartTxn(p, t)
  BY <1>2, <1>4 DEF StartTxn
<1>5. CASE ScoreAndPersist(p)
  <2> DEFINE t == job[p].sess
             a == AttemptOf(job[p].pc, job[p].held)
  <2>1. t \in Sessions /\ a \in Attempt
    BY <1>1, <1>5 DEF ScoreAndPersist, JobOK, Holding, AttemptOf, Attempt
  <2>2. Open(status[t]) /\ status' = [status EXCEPT ![t] = a.status]
        /\ attempts' = [attempts EXCEPT ![t] = Append(@, a)]
    BY <1>5 DEF ScoreAndPersist
  <2> HIDE DEF a
  <2>3. Len(Append(attempts[s], a)) = Len(attempts[s]) + 1
    BY <1>1, <2>1
  <2> QED
    BY <1>2, <2>1, <2>2, <2>3 DEF Open
<1>6. CASE p \in Handlers /\ ExpireWrite(p)
  <2>1. job[p].sess = p[3] /\ p[3] \in Sessions /\ job'[p].pc = "expire_grace"
    BY <1>1, <1>6, Slots, ExamSessionAssumption
    DEF ExpireWrite, JobOK, Holding, Proceed, On
  <2>2. job[p].pc = "expire_write" /\ UNCHANGED attempts
        /\ (status'[s] # status[s] => s = p[3] /\ status'[s] = "expired")
    BY <1>6, <2>1 DEF ExpireWrite
  <2> QED
    BY <1>2, <1>6, <2>1, <2>2
<1> QED
  BY <1>3, <1>4, <1>5, <1>6

\* No step takes a submitted row out of its status but an expiry handler that
\* read the row while it was ACTIVE, and none removes an attempt.
THEOREM SubmittedCorrect == Spec => SubmittedIsFinal
<1>1. SafeInv /\ [Next]_vars => [StaysFinal]_vars
  <2> SUFFICES ASSUME SafeInv, Next PROVE StaysFinal
    OBVIOUS
  <2>1. TypeInv
    BY DEF SafeInv
  <2>2. CASE \E r \in Requests : Call(r)
    BY <2>1, <2>2, QuietIsFinal
    DEF Call, StartVerify, AutosaveRead, SubmitRead, LateSubmitRead, postgres
  <2>3. CASE \E r \in Requests : Serve(r)
    BY <2>1, <2>3, QuietIsFinal, WriteIsFinal, Slots
    DEF Serve, StartCheck, StartTxnConflict, StartRedis, StartReply, AutosaveGet,
        AutosaveSet, AutosaveDb, ConsumeGrace, ScoreConflict, DeleteSession, postgres
  <2>4. CASE \E h \in Handlers : Handle(h)
    BY <2>1, <2>4, QuietIsFinal, WriteIsFinal, Slots
    DEF Handle, HandleSessionExpiry, OpenGrace, HandleGraceExpiry, ScoreConflict,
        DeleteSession, postgres
  <2>5. CASE (\E s \in Sessions : Clock(s)) \/ Failure
    BY <2>1, <2>5, QuietIsFinal
    DEF Clock, SessionKeyExpires, GraceKeyExpires, Failure, StartRedisFails, CallFails,
        NotificationLost, KeyLost, postgres
  <2> QED
    BY <2>2, <2>3, <2>4, <2>5 DEF Next
<1>2. [StaysFinal]_vars <=> [\A s \in Sessions : OnlyAnExpiryReopens(s)]_vars
  BY DEF StaysFinal
<1> QED
  BY <1>1, <1>2, SafeAlways, PTL DEF Spec, SubmittedIsFinal

-----------------------------------------------------------------------------
(* The answers in the key and in the row.                                  *)

\* What makes SnapshotIsRecent inductive: a call on its way from the key to the
\* row holds recent answers, and until startExam has set the key the null
\* snapshot that the key will start with is recent.
RecentOf(s) ==
    /\ status[s] = "none" \/ (\E r \in Requests : job[r].pc = "start_redis" /\ job[r].sess = s)
          => Empty \in recent[s]
    /\ \A r \in Mirroring(s) : job[r].held \in recent[s]
    /\ sessionKey[s] # None => sessionKey[s] \in recent[s]
    /\ attempts[s] = <<>> /\ Mirroring(s) = {} => snapshot[s] \in recent[s]

Recent == \A s \in Sessions : RecentOf(s)

\* No call on session s is between the key and the row.
LEMMA NobodyMirrors ==
    ASSUME NEW s
    PROVE  /\ (\A q \in Requests : job[q].pc = "autosave_db" => job[q].sess # s)
              => Mirroring(s) = {}
           /\ (\A q \in Requests : job'[q].pc = "autosave_db" => job'[q].sess # s)
              => Mirroring(s)' = {}
BY DEF Mirroring

\* After a step of r, whoever else mirrors was mirroring before, the same.
LEMMA StillMirrors ==
    ASSUME NEW s, NEW r, \A q \in Requests : q # r => job'[q] = job[q]
    PROVE  \A q \in Mirroring(s)' :
              /\ q \in Requests /\ job'[q].pc = "autosave_db"
              /\ q = r \/ (q \in Mirroring(s) /\ job'[q] = job[q])
<1> SUFFICES ASSUME NEW q \in Mirroring(s)'
             PROVE  /\ q \in Requests /\ job'[q].pc = "autosave_db"
                    /\ q = r \/ (q \in Mirroring(s) /\ job'[q] = job[q])
  OBVIOUS
<1>1. q \in Requests /\ job'[q].pc = "autosave_db" /\ job'[q].sess = s
  BY DEF Mirroring
<1>2. ASSUME q # r PROVE q \in Mirroring(s) /\ job'[q] = job[q]
  <2>1. job'[q] = job[q] BY <1>1, <1>2
  <2> QED BY <1>1, <2>1 DEF Mirroring
<1> QED BY <1>1, <1>2, Zenon

\* A step that writes no answers but with an attempt, no key except to delete
\* it, and neither makes a row nor begins or ends the mirroring of an autosave.
LEMMA RecentQuiet ==
    ASSUME Recent,
           \A s \in Sessions :
               /\ recent[s] \subseteq recent'[s]
               /\ status'[s] = "none" => status[s] = "none"
               /\ attempts'[s] = <<>> => attempts[s] = <<>> /\ snapshot'[s] = snapshot[s]
               /\ sessionKey'[s] \in {sessionKey[s], None},
           \A r \in Requests :
               \/ job'[r] = job[r]
               \/ /\ job[r].pc # "autosave_db"
                  /\ job'[r].pc \notin {"start_redis", "autosave_db"}
    PROVE  Recent'
<1> SUFFICES ASSUME NEW s \in Sessions PROVE RecentOf(s)' BY DEF Recent
<1>1. RecentOf(s) BY DEF Recent
<1>2. Mirroring(s)' = Mirroring(s) BY DEF Mirroring
<1>3. \A r \in Mirroring(s) : job'[r] = job[r] BY DEF Mirroring
<1>4. \A r \in Requests : job'[r].pc = "start_redis" => job'[r] = job[r] OBVIOUS
<1> QED BY <1>1, <1>2, <1>3, <1>4 DEF RecentOf

\* A step of call r on session s0 leaves what is said of other sessions true.
LEMMA RecentElsewhere ==
    ASSUME TypeInv, Recent, NEW r \in Requests, NEW s0 \in Sessions, NEW s \in Sessions, s # s0,
           job[r].sess = s0 \/ job[r].pc = "start_txn",
           job'[r].sess = s0 \/ job'[r].pc = "idle",
           \A q \in Requests : q # r => job'[q] = job[q],
           status'[s] = status[s], attempts'[s] = attempts[s], snapshot'[s] = snapshot[s],
           sessionKey'[s] = sessionKey[s], recent'[s] = recent[s]
    PROVE  RecentOf(s)'
<1>1. RecentOf(s) BY DEF Recent
<1>2. Mirroring(s)' = Mirroring(s) /\ r \notin Mirroring(s) BY DEF Mirroring
<1>3. \A q \in Mirroring(s) : job'[q] = job[q] BY <1>2 DEF Mirroring
<1>4. \A q \in Requests : job'[q].pc = "start_redis" /\ job'[q].sess = s => job'[q] = job[q]
  OBVIOUS
<1> QED BY <1>1, <1>2, <1>3, <1>4 DEF RecentOf

\* startExam: the new row has the null snapshot, and no key until the SET,
\* under which nobody saves: the session is still the call's own.
LEMMA RecentStart ==
    ASSUME SafeInv, Recent, NEW r \in Requests,
           StartRedis(r) \/ StartRedisFails(r) \/ \E s \in Sessions : StartTxn(r, s)
    PROVE  Recent'
<1> USE ExamSessionAssumption, Slots DEF SafeInv, TypeInv, TypeOK
<1> SUFFICES ASSUME NEW s \in Sessions PROVE RecentOf(s)' BY DEF Recent
<1>1. RecentOf(s) BY DEF Recent
<1>2. ASSUME StartRedis(r) \/ StartRedisFails(r) PROVE RecentOf(s)'
  <2>1. /\ job'[r].pc \in {"start_reply", "start_undo"} /\ job'[r].sess = job[r].sess
        /\ job[r].pc = "start_redis" /\ UNCHANGED <<postgres, recent>>
        /\ \A q \in Requests : q # r => job'[q] = job[q]
    BY <1>2 DEF StartRedis, StartRedisFails, Proceed, Starting, history
  <2>2. job[r].sess \in Sessions BY <2>1 DEF JobsOK, JobOK
  <2>3. \/ sessionKey' = sessionKey
        \/ sessionKey' = [sessionKey EXCEPT ![job[r].sess] = Empty]
    BY <1>2 DEF StartRedis, StartRedisFails
  <2>4. CASE s = job[r].sess
    <3>1. Mirroring(s)' = {} /\ Mirroring(s) = {}
      <4>1. \A q \in Requests : job[q].sess = s => q = r
        BY <2>1, <2>4 DEF StartIsPrivate, Private
      <4>2. \A q \in Requests : job'[q].pc = "autosave_db" => job'[q].sess # s
        BY <2>1, <4>1
      <4>3. \A q \in Requests : job[q].pc = "autosave_db" => job[q].sess # s
        BY <2>1, <4>1
      <4> HIDE DEF SafeInv, TypeInv, TypeOK
      <4> QED BY <4>2, <4>3, NobodyMirrors
    <3>2. Empty \in recent[s] BY <1>1, <2>1, <2>4 DEF RecentOf
    <3>3. sessionKey'[s] \in {sessionKey[s], Empty} BY <2>3, <2>4
    <3> QED BY <1>1, <2>1, <3>1, <3>2, <3>3 DEF RecentOf, postgres
  <2>5. CASE s # job[r].sess
    <3>1. sessionKey'[s] = sessionKey[s] BY <2>3, <2>5
    <3> QED BY <2>1, <2>2, <2>5, <3>1, RecentElsewhere DEF postgres
  <2> QED BY <2>4, <2>5
<1>3. ASSUME NEW s0 \in Sessions, StartTxn(r, s0) PROVE RecentOf(s)'
  <2>1. /\ job'[r].pc = "start_redis" /\ job'[r].sess = s0 /\ job[r].pc = "start_txn"
        /\ UNCHANGED <<snapshot, attempts, redis, recent>>
        /\ status' = [status EXCEPT ![s0] = "active"] /\ status[s0] = "none"
        /\ \A q \in Requests : q # r => job'[q] = job[q]
    BY <1>3 DEF StartTxn, Proceed, Starting, history
  <2>2. CASE s = s0
    <3>1. Mirroring(s)' = {} /\ Mirroring(s) = {}
      <4>1. \A q \in Requests : job[q].sess # s
        BY <2>1, <2>2 DEF FreshUntouched
      <4>2. \A q \in Requests : job'[q].pc = "autosave_db" => job'[q].sess # s
        BY <2>1, <4>1
      <4>3. \A q \in Requests : job[q].pc = "autosave_db" => job[q].sess # s
        BY <2>1, <4>1
      <4> HIDE DEF SafeInv, TypeInv, TypeOK
      <4> QED BY <4>2, <4>3, NobodyMirrors
    <3> QED BY <1>1, <2>1, <2>2, <3>1 DEF RecentOf, redis
  <2>3. CASE s # s0
    BY <2>1, <2>3, RecentElsewhere DEF redis
  <2> QED BY <2>2, <2>3
<1> QED BY <1>2, <1>3

\* autosave: the SET makes its answers and those still on their way the recent
\* ones, the UPDATE puts recent answers in the row, and a call that dies in
\* between makes recent what the row held.
LEMMA RecentAutosave ==
    ASSUME SafeInv, Recent, NEW r \in Requests,
           \/ AutosaveSet(r) \/ AutosaveDb(r)
           \/ job[r].pc = "autosave_db" /\ CallFails(r)
    PROVE  Recent'
<1> USE ExamSessionAssumption, Slots DEF SafeInv, TypeInv, TypeOK
<1> SUFFICES ASSUME NEW s \in Sessions PROVE RecentOf(s)' BY DEF Recent
<1> DEFINE s0 == job[r].sess
<1>1. RecentOf(s) BY DEF Recent
<1>2. job[r].pc \in {"autosave_set", "autosave_db"} /\ s0 \in Sessions
      /\ status[s0] # "none" /\ job[r].held \in Answers
  BY DEF AutosaveSet, AutosaveDb, JobsOK, JobOK, FreshUntouched, Holding
<1>3. \A q \in Requests : q # r => job'[q] = job[q]
  BY DEF AutosaveSet, AutosaveDb, CallFails, Return, Proceed
<1>4. \/ job'[r].pc = "idle"
      \/ job'[r].pc = "autosave_db" /\ job'[r].sess = s0 /\ job'[r].held = job[r].held
  BY DEF AutosaveSet, AutosaveDb, CallFails, Return, Proceed, Idle, On
<1>5. status' = status /\ attempts' = attempts
  BY DEF AutosaveSet, AutosaveDb, CallFails, postgres
<1>6. \A q \in Requests : job'[q].pc = "start_redis" => job[q] = job'[q]
  BY <1>3, <1>4
<1>7. CASE s # s0
  <2>1. snapshot'[s] = snapshot[s] /\ sessionKey'[s] = sessionKey[s] /\ recent'[s] = recent[s]
    BY <1>2, <1>7 DEF AutosaveSet, SetKeepTtl, LastSaved, AutosaveDb, CallFails, postgres,
       redis, history
  <2> QED BY <1>2, <1>3, <1>4, <1>5, <1>7, <2>1, RecentElsewhere
<1>8. CASE s = s0 /\ AutosaveSet(r) /\ sessionKey[s] # None
  <2> DEFINE w == {job[r].held} \cup {job[q].held : q \in Mirroring(s)}
  <2>1. recent'[s] = w /\ sessionKey'[s] = job[r].held /\ job'[r] = On(s, "autosave_db", job[r].held)
    BY <1>2, <1>8 DEF AutosaveSet, LastSaved, SetKeepTtl, Proceed
  <2>2. job'[r].pc = "autosave_db" /\ job'[r].sess = s /\ job'[r].held = job[r].held
    BY <2>1 DEF On
  <2>3. r \in Mirroring(s)' BY <2>2 DEF Mirroring
  <2>4. ASSUME NEW q \in Mirroring(s)' PROVE job'[q].held \in recent'[s]
    <3> HIDE DEF SafeInv, TypeInv, TypeOK
    <3>1. q \in Requests /\ (q = r \/ (q \in Mirroring(s) /\ job'[q] = job[q]))
      BY <1>3, <2>4, StillMirrors
    <3> QED BY <2>1, <2>2, <3>1
  <2>5. ~\E q \in Requests : job'[q].pc = "start_redis" /\ job'[q].sess = s
    BY <1>2, <1>6, <1>8 DEF StartIsPrivate, Private
  <2> QED BY <1>2, <1>5, <1>8, <2>1, <2>3, <2>4, <2>5 DEF RecentOf
<1>9. CASE s = s0 /\ AutosaveSet(r) /\ sessionKey[s] = None
  <2>1. UNCHANGED <<snapshot, recent, sessionKey>> /\ job'[r] = Idle /\ job[r].pc = "autosave_set"
    BY <1>9 DEF AutosaveSet, LastSaved, SetKeepTtl, Return, Proceed, postgres
  <2>2. \A q \in Mirroring(s)' : q \in Mirroring(s) /\ job'[q] = job[q]
    <3>1. job'[r].pc = "idle" BY <2>1 DEF Idle
    <3> HIDE DEF SafeInv, TypeInv, TypeOK
    <3> QED BY <1>3, <3>1, StillMirrors
  <2>3. Mirroring(s) \subseteq Mirroring(s)'
    <3> HIDE DEF SafeInv, TypeInv, TypeOK
    <3> QED BY <1>3, <2>1 DEF Mirroring
  <2> QED BY <1>1, <1>5, <1>6, <2>1, <2>2, <2>3 DEF RecentOf
<1>10. CASE s = s0 /\ AutosaveDb(r)
  <2>1. job[r].held \in recent[s] /\ snapshot'[s] = job[r].held
        /\ UNCHANGED <<recent, sessionKey>> /\ job'[r] = Idle
    BY <1>1, <1>2, <1>10 DEF RecentOf, Mirroring, AutosaveDb, Return, Proceed, redis, history
  <2>2. \A q \in Mirroring(s)' : q \in Mirroring(s) /\ job'[q] = job[q]
    <3> HIDE DEF SafeInv, TypeInv, TypeOK
    <3>1. job'[r].pc = "idle" BY <2>1 DEF Idle
    <3> QED BY <1>3, <3>1, StillMirrors
  <2> QED BY <1>1, <1>5, <1>6, <2>1, <2>2 DEF RecentOf
<1>11. CASE s = s0 /\ job[r].pc = "autosave_db" /\ CallFails(r)
  <2>1. recent'[s] = recent[s] \cup {snapshot[s]} /\ UNCHANGED <<snapshot, sessionKey>>
        /\ job'[r] = Idle
    BY <1>2, <1>11 DEF CallFails, Return, Proceed, postgres, redis
  <2>2. \A q \in Mirroring(s)' : q \in Mirroring(s) /\ job'[q] = job[q]
    <3> HIDE DEF SafeInv, TypeInv, TypeOK
    <3>1. job'[r].pc = "idle" BY <2>1 DEF Idle
    <3> QED BY <1>3, <3>1, StillMirrors
  <2> QED BY <1>1, <1>5, <1>6, <2>1, <2>2 DEF RecentOf
<1> QED BY <1>7, <1>8, <1>9, <1>10, <1>11

\* The steps of a call, of a handler or of the environment that RecentQuiet covers.
LEMMA RecentCall ==
    ASSUME SafeInv, Recent, NEW r \in Requests,
           \/ Call(r)
           \/ StartCheck(r) \/ StartTxnConflict(r) \/ StartUndo(r) \/ StartReply(r)
           \/ AutosaveGet(r) \/ ConsumeGrace(r)
    PROVE  Recent'
<1> USE ExamSessionAssumption, Slots DEF SafeInv, TypeInv, TypeOK
<1>1. UNCHANGED recent /\
      \A s \in Sessions :
         /\ status'[s] = "none" => status[s] = "none"
         /\ attempts'[s] = <<>> => attempts[s] = <<>> /\ snapshot'[s] = snapshot[s]
         /\ sessionKey'[s] \in {sessionKey[s], None}
  BY DEF Call, StartVerify, AutosaveRead, SubmitRead, LateSubmitRead, StartCheck,
     StartTxnConflict, StartUndo, StartReply, AutosaveGet, ConsumeGrace, postgres, redis, history
<1>2. /\ job[r].pc # "autosave_db"
      /\ job'[r].pc \notin {"start_redis", "autosave_db"}
      /\ \A q \in Requests : q # r => job'[q] = job[q]
  BY DEF Call, StartVerify, AutosaveRead, SubmitRead, LateSubmitRead, StartCheck,
     StartTxnConflict, StartUndo, StartReply, AutosaveGet, ConsumeGrace,
     Return, Proceed, Idle, On, Starting
<1> HIDE DEF SafeInv, TypeInv, TypeOK
<1> QED BY <1>1, <1>2, RecentQuiet

LEMMA RecentScore ==
    ASSUME SafeInv, Recent, NEW p \in Procs,
           ScoreAndPersist(p) \/ ScoreConflict(p) \/ DeleteSession(p)
    PROVE  Recent'
<1> USE ExamSessionAssumption, Slots DEF SafeInv, TypeInv, TypeOK
<1>1. ASSUME NEW s \in Sessions
      PROVE  attempts'[s] = <<>> => attempts[s] = <<>> /\ snapshot'[s] = snapshot[s]
  <2>1. CASE ScoreAndPersist(p)
    <3> DEFINE t == AttemptOf(job[p].pc, job[p].held)
    <3>1. job[p].held \in Answers /\ t \in Attempt
      BY <2>1 DEF ScoreAndPersist, JobsOK, JobOK, Holding, AttemptOf, Attempt
    <3>2. /\ attempts' = [attempts EXCEPT ![job[p].sess] = Append(@, t)]
          /\ snapshot' = [snapshot EXCEPT ![job[p].sess] = t.answers]
      BY <2>1 DEF ScoreAndPersist
    <3> HIDE DEF t
    <3>3. attempts[s] \in Seq(Attempt) OBVIOUS
    <3>4. Append(attempts[s], t) # <<>>
      <4>1. Len(Append(attempts[s], t)) = Len(attempts[s]) + 1 /\ Len(attempts[s]) \in Nat
        BY <3>1, <3>3
      <4> HIDE DEF SafeInv, TypeInv, TypeOK
      <4>2. Len(<<>>) = 0
        OBVIOUS
      <4>3. ASSUME Append(attempts[s], t) = <<>> PROVE FALSE
        BY <4>1, <4>2, <4>3
      <4> QED BY <4>3, Zenon
    <3> QED BY <3>2, <3>4
  <2>2. CASE ScoreConflict(p) \/ DeleteSession(p)
    BY <2>2 DEF ScoreConflict, DeleteSession, postgres
  <2> QED BY <2>1, <2>2
<1>2. AttemptOf(job[p].pc, job[p].held).status \in {"submitted", "auto_submitted"}
  BY DEF AttemptOf
<1>3. UNCHANGED recent /\
      \A s \in Sessions : /\ status'[s] = "none" => status[s] = "none"
                          /\ sessionKey'[s] \in {sessionKey[s], None}
  BY <1>2 DEF ScoreAndPersist, ScoreConflict, DeleteSession, postgres, redis, history
<1>4. /\ job[p].pc # "autosave_db"
      /\ job'[p].pc \notin {"start_redis", "autosave_db"}
      /\ \A q \in Procs : q # p => job'[q] = job[q]
  BY DEF ScoreAndPersist, ScoreConflict, DeleteSession, Return, Proceed, Idle, On
<1> HIDE DEF SafeInv, TypeInv, TypeOK
<1> QED BY <1>1, <1>3, <1>4, RecentQuiet

LEMMA RecentHandle ==
    ASSUME SafeInv, Recent,
           \/ \E h \in Handlers : \/ HandleSessionExpiry(h) \/ ExpireWrite(h) \/ OpenGrace(h)
                                  \/ HandleGraceExpiry(h) \/ NotificationLost(h)
           \/ \E s \in Sessions : Clock(s) \/ KeyLost(s)
           \/ \E p \in Procs : /\ p \in Handlers \/ job[p].pc # "autosave_db"
                             /\ CallFails(p)
    PROVE  Recent'
<1> USE ExamSessionAssumption, Slots DEF SafeInv, TypeInv, TypeOK
<1>1. \A s \in Sessions :
         /\ recent[s] \subseteq recent'[s]
         /\ status'[s] = "none" => status[s] = "none"
         /\ attempts'[s] = <<>> => attempts[s] = <<>> /\ snapshot'[s] = snapshot[s]
         /\ sessionKey'[s] \in {sessionKey[s], None}
  <2>1. CASE \E p \in Procs : CallFails(p)
    <3> PICK p \in Procs : CallFails(p) BY <2>1
    <3>1. UNCHANGED <<postgres, redis>> BY DEF CallFails
    <3>2. ASSUME NEW s \in Sessions PROVE recent[s] \subseteq recent'[s]
      BY DEF CallFails
    <3> HIDE DEF SafeInv, TypeInv, TypeOK
    <3> QED BY <3>1, <3>2 DEF postgres, redis
  <2>2. CASE \E h \in Handlers : HandleSessionExpiry(h) \/ ExpireWrite(h) \/ OpenGrace(h)
                                \/ HandleGraceExpiry(h) \/ NotificationLost(h)
    BY <2>2 DEF HandleSessionExpiry, ExpireWrite, OpenGrace, HandleGraceExpiry,
       NotificationLost, postgres, redis, history
  <2>3. CASE \E s \in Sessions : Clock(s) \/ KeyLost(s)
    BY <2>3 DEF Clock, KeyLost, SessionKeyExpires, GraceKeyExpires, postgres, redis, history
  <2> QED BY <2>1, <2>2, <2>3
<1>2. \A r \in Requests : \/ job'[r] = job[r]
                          \/ job[r].pc # "autosave_db" /\ job'[r].pc = "idle"
  BY DEF HandleSessionExpiry, ExpireWrite, OpenGrace, HandleGraceExpiry, Clock, KeyLost,
     SessionKeyExpires, GraceKeyExpires, NotificationLost, CallFails, Return, Proceed, Idle
<1> HIDE DEF SafeInv, TypeInv, TypeOK
<1> QED BY <1>1, <1>2, RecentQuiet

LEMMA RecentNext == SafeInv /\ Recent /\ [Next]_vars => Recent'
<1> SUFFICES ASSUME SafeInv, Recent, [Next]_vars PROVE Recent'
  OBVIOUS
<1>1. CASE \E r \in Requests : Call(r) \/ Serve(r)
  BY <1>1, RecentCall, RecentStart, RecentAutosave, RecentScore, Slots DEF Serve
<1>2. CASE \E h \in Handlers : Handle(h)
  BY <1>2, RecentHandle, RecentScore, Slots DEF Handle
<1>3. CASE \E s \in Sessions : Clock(s)
  BY <1>3, RecentHandle
<1>4. CASE Failure
  <2>1. CASE \E p \in Procs : CallFails(p)
    BY <2>1, RecentAutosave, RecentHandle DEF Procs
  <2> QED BY <1>4, <2>1, RecentStart, RecentHandle DEF Failure
<1>5. CASE UNCHANGED vars
  BY <1>5 DEF vars, postgres, redis, history, Recent, RecentOf, Mirroring
<1> QED BY <1>1, <1>2, <1>3, <1>4, <1>5 DEF Next

\* "Mirror snapshot in Postgres so the keyspace handler always has a safe
\* answer set to score": whatever autosaves, submits, handlers and faults
\* interleave, for any number of calls in flight, the row a handler will score
\* and the key hold answers of the autosave that wrote the key last, or of one
\* that overlapped it, or of the row before a call died between the two.
THEOREM SnapshotCorrect == Spec => []SnapshotIsRecent
<1>1. Init => Recent
  BY Slots, ExamSessionAssumption DEF Init, Recent, RecentOf, Mirroring, Idle
<1>2. Recent => SnapshotIsRecent
  BY DEF Recent, RecentOf, SnapshotIsRecent
<1> QED BY <1>1, <1>2, SafeAlways, RecentNext, PTL DEF Spec
==============================================================================
