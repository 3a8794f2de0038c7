-------------------------- MODULE ExamContractProofs --------------------------
(* ExamSession implements ExamContract, for every value of the constants.  *)
EXTENDS ExamSessionProofs

-----------------------------------------------------------------------------
(* A sitting that startExam may still withdraw has no result.              *)

Unscored ==
    /\ \A s \in Sessions : status[s] = "none" => attempts[s] = <<>>
    /\ \A r \in Requests : job[r].pc \in {"start_redis", "start_undo"}
                            => attempts[job[r].sess] = <<>>

\* A step that scores nothing and starts nothing keeps it.
LEMMA UnscoredQuiet ==
    ASSUME Unscored, SafeInv, UNCHANGED attempts,
           \A s \in Sessions : status'[s] = "none" => status[s] = "none",
           \A r \in Requests : job'[r].pc \in {"start_redis", "start_undo"}
               => job[r].pc \in {"start_redis", "start_undo"} /\ job'[r].sess = job[r].sess
    PROVE  Unscored'
BY DEF Unscored

LEMMA UnscoredNext == SafeInv /\ Unscored /\ [Next]_vars => Unscored'
<1> SUFFICES ASSUME SafeInv, Unscored, [Next]_vars PROVE Unscored'
  OBVIOUS
<1>1. /\ \A p \in Procs : JobOK(p, job[p])
      /\ job \in [Procs -> Job] /\ status \in [Sessions -> RowStatus]
      /\ attempts \in [Sessions -> Seq(Attempt)]
  BY DEF SafeInv, TypeInv, TypeOK, JobsOK
<1>2. Requests \subseteq Procs /\ Handlers \subseteq Procs /\ Requests \cap Handlers = {}
  BY Slots
<1>3. CASE \E r \in Requests, s \in Sessions : StartTxn(r, s)
  BY <1>1, <1>2, <1>3 DEF StartTxn, Proceed, Starting, Unscored, SafeInv, FreshUntouched
<1>4. CASE \E p \in Procs : ScoreAndPersist(p)
  <2> PICK p \in Procs : ScoreAndPersist(p)
    BY <1>4
  <2> DEFINE t == job[p].sess
  <2>1. /\ t \in Sessions /\ Open(status[t]) /\ job[p].pc \notin {"start_redis", "start_undo"}
        /\ \A s \in Sessions : s # t => attempts'[s] = attempts[s] /\ status'[s] = status[s]
        /\ status'[t] # "none"
    BY <1>1 DEF ScoreAndPersist, JobOK, Holding, AttemptOf, Open
  <2>2. /\ job'[p].pc = "delete_key"
        /\ \A q \in Procs : q # p => job'[q] = job[q]
    BY <1>1 DEF ScoreAndPersist, Proceed, On
  <2>3. ASSUME NEW r \in Requests, job'[r].pc \in {"start_redis", "start_undo"}
        PROVE  attempts'[job'[r].sess] = <<>>
    <3>1. r # p /\ job'[r] = job[r] /\ job[r].pc \in {"start_redis", "start_undo"}
      BY <1>2, <2>2, <2>3
    <3>2. job[r].sess \in Sessions /\ job[r].sess # t
      BY <1>1, <1>2, <3>1 DEF SafeInv, StartIsPrivate, Private, JobOK
    <3> QED
      BY <2>1, <3>1, <3>2 DEF Unscored
  <2> QED
    BY <2>1, <2>3 DEF Unscored
<1> USE <1>1, <1>2, UnscoredQuiet DEF Proceed, Return, Idle, On, Starting
<1>5. CASE \E r \in Requests : Call(r)
  BY <1>5 DEF Call, StartVerify, AutosaveRead, SubmitRead, LateSubmitRead, postgres
<1>6. CASE \E r \in Requests : StartCheck(r) \/ StartTxnConflict(r) \/ StartRedis(r)
                               \/ StartUndo(r) \/ StartReply(r)
  BY <1>6 DEF StartCheck, StartTxnConflict, StartRedis, StartUndo, StartReply, postgres
<1>7. CASE \E r \in Requests : AutosaveGet(r) \/ AutosaveSet(r) \/ AutosaveDb(r)
                               \/ ConsumeGrace(r)
  BY <1>7 DEF AutosaveGet, AutosaveSet, AutosaveDb, ConsumeGrace, postgres
<1>8. CASE \E p \in Procs : ScoreConflict(p) \/ DeleteSession(p) \/ CallFails(p)
  BY <1>8 DEF ScoreConflict, DeleteSession, CallFails, postgres
<1>9. CASE \E h \in Handlers : HandleSessionExpiry(h) \/ ExpireWrite(h) \/ OpenGrace(h)
                               \/ HandleGraceExpiry(h)
  BY <1>9 DEF HandleSessionExpiry, ExpireWrite, OpenGrace, HandleGraceExpiry, postgres,
              LiveStatus
<1>10. CASE \/ \E s \in Sessions : Clock(s) \/ KeyLost(s)
            \/ \E r \in Requests : StartRedisFails(r)
            \/ \E h \in Handlers : NotificationLost(h)
            \/ UNCHANGED vars
  BY <1>10 DEF Clock, SessionKeyExpires, GraceKeyExpires, KeyLost, StartRedisFails,
               NotificationLost, postgres, vars
<1> QED
  BY <1>3, <1>4, <1>5, <1>6, <1>7, <1>8, <1>9, <1>10
  DEF Next, Serve, Handle, Failure

LEMMA UnscoredAlways == Spec => []Unscored
<1>1. Init => Unscored
  BY Slots DEF Init, Unscored, Idle
<1> QED
  BY <1>1, UnscoredNext, SafeAlways, PTL DEF Spec

-----------------------------------------------------------------------------
(* Steps map to steps.                                                     *)

AbstractPhase == [s \in Sessions |-> Phase(status[s])]

\* What the contract does not see is a stutter of it.
LEMMA Stutter ==
    ASSUME UNCHANGED <<usedAt, token, attempts>>, AbstractPhase' = AbstractPhase
    PROVE  UNCHANGED Contract!contract
BY DEF AbstractPhase, Contract!contract

\* A row that changes its status changes its phase, and no other row's.
LEMMA PhaseStep ==
    ASSUME TypeInv, NEW s \in Sessions, NEW st \in RowStatus,
           status' = [status EXCEPT ![s] = st]
    PROVE  AbstractPhase' = [AbstractPhase EXCEPT ![s] = Phase(st)]
BY DEF TypeInv, TypeOK, AbstractPhase

\* startExam's transaction opens a sitting.
LEMMA StartBegins ==
    ASSUME SafeInv, NEW r \in Requests, NEW s \in Sessions, StartTxn(r, s)
    PROVE  Contract!Next
<1>1. job[r].code \in Codes /\ TypeInv
  BY Slots DEF SafeInv, TypeInv, JobsOK, JobOK, StartTxn
<1>2. AbstractPhase' = [AbstractPhase EXCEPT ![s] = Phase("active")]
  BY <1>1, PhaseStep DEF StartTxn, RowStatus, LiveStatus
<1>3. Phase("active") = "open" /\ Phase("none") = "unopened"
  BY DEF Phase, Open, Submitted
<1>4. Contract!Begin(s, job[r].code)
  BY <1>1, <1>2, <1>3 DEF Contract!Begin, StartTxn, AbstractPhase
<1> QED
  BY <1>1, <1>4 DEF Contract!Next

\* Its compensation withdraws one that has no result.
LEMMA UndoWithdraws ==
    ASSUME SafeInv, Unscored, NEW r \in Requests, StartUndo(r)
    PROVE  Contract!Next
<1> DEFINE s == job[r].sess
<1>1. s \in Sessions /\ TypeInv /\ job[r].pc = "start_undo"
  BY Slots DEF SafeInv, TypeInv, JobsOK, JobOK, StartUndo
<1>2. status[s] = "active" /\ token[s] = job[r].code /\ attempts[s] = <<>>
  BY <1>1 DEF SafeInv, StartIsPrivate, Private, Unscored
<1>3. AbstractPhase' = [AbstractPhase EXCEPT ![s] = Phase("deleted")]
  BY <1>1, PhaseStep DEF StartUndo, RowStatus
<1>4. Phase("active") = "open" /\ Phase("deleted") = "withdrawn"
  BY DEF Phase, Open, Submitted
<1>5. Contract!Withdraw(s)
  BY <1>1, <1>2, <1>3, <1>4 DEF Contract!Withdraw, StartUndo, AbstractPhase
<1> QED
  BY <1>1, <1>5 DEF Contract!Next

\* scoreAndPersist closes one.
LEMMA ScoreCloses ==
    ASSUME SafeInv, NEW p \in Procs, ScoreAndPersist(p)
    PROVE  Contract!Next
<1> DEFINE s == job[p].sess
           t == AttemptOf(job[p].pc, job[p].held)
<1>1. TypeInv /\ s \in Sessions /\ t \in Attempt /\ t.status \in {"submitted", "auto_submitted"}
  BY DEF SafeInv, TypeInv, JobsOK, JobOK, ScoreAndPersist, Holding, AttemptOf, Attempt
<1>2. /\ Open(status[s]) /\ UNCHANGED <<usedAt, token>>
      /\ status' = [status EXCEPT ![s] = t.status]
      /\ attempts' = [attempts EXCEPT ![s] = Append(@, t)]
  BY DEF ScoreAndPersist
<1> HIDE DEF t
<1>3. AbstractPhase' = [AbstractPhase EXCEPT ![s] = Phase(t.status)]
  BY <1>1, <1>2, PhaseStep DEF RowStatus, LiveStatus
<1>4. Phase(t.status) = "closed" /\ Phase(status[s]) = "open"
  BY <1>1, <1>2 DEF Phase, Open, Submitted
<1>5. Contract!Close(s, t)
  BY <1>1, <1>2, <1>3, <1>4 DEF Contract!Close, AbstractPhase
<1> QED
  BY <1>1, <1>5 DEF Contract!Next

\* The unconditional write of an expiry handler reopens one or changes nothing.
LEMMA ExpireReopens ==
    ASSUME SafeInv, NEW h \in Handlers, ExpireWrite(h)
    PROVE  Contract!Next \/ UNCHANGED Contract!contract
<1> DEFINE s == job[h].sess
<1>1. TypeInv /\ s \in Sessions /\ status[s] \in RowStatus
  BY Slots DEF SafeInv, TypeInv, TypeOK, JobsOK, JobOK, ExpireWrite, Holding
<1>2. UNCHANGED <<usedAt, token, attempts>>
  BY DEF ExpireWrite
<1>3. Phase("expired") = "open"
  BY DEF Phase, Open, Submitted
<1>4. CASE status[s] \notin LiveStatus
  BY <1>2, <1>4, Stutter DEF ExpireWrite, AbstractPhase
<1>5. CASE status[s] \in LiveStatus
  <2>1. AbstractPhase' = [AbstractPhase EXCEPT ![s] = "open"]
    <3>1. status' = [status EXCEPT ![s] = "expired"]
      BY <1>5 DEF ExpireWrite
    <3>2. "expired" \in RowStatus
      BY DEF RowStatus, LiveStatus
    <3> HIDE DEF s
    <3> QED
      BY <1>1, <1>3, <3>1, <3>2, PhaseStep
  <2>2. CASE Open(status[s])
    <3>1. AbstractPhase[s] = "open"
      BY <1>1, <2>2 DEF AbstractPhase, Phase, Open, Submitted
    <3> QED
      BY <1>2, <2>1, <3>1, Stutter DEF AbstractPhase
  <2>3. CASE Submitted(status[s])
    <3>1. AbstractPhase[s] = "closed"
      BY <1>1, <2>3 DEF AbstractPhase, Phase, Open, Submitted
    <3>2. Contract!Reopen(s)
      BY <1>2, <2>1, <3>1 DEF Contract!Reopen, AbstractPhase
    <3> QED
      BY <1>1, <3>2 DEF Contract!Next
  <2> QED
    BY <1>5, <2>2, <2>3 DEF LiveStatus, Open, Submitted
<1> QED
  BY <1>4, <1>5

\* Every other step writes nothing the contract sees.
LEMMA StepKeepsContract ==
    ASSUME SafeInv, Unscored, Next
    PROVE  Contract!Next \/ UNCHANGED Contract!contract
<1>1. CASE \E r \in Requests : Call(r)
  BY <1>1, Stutter DEF Call, StartVerify, AutosaveRead, SubmitRead, LateSubmitRead,
                       postgres, AbstractPhase
<1>2. CASE \E r \in Requests : Serve(r)
  <2>1. CASE \E r \in Requests : StartUndo(r) \/ ScoreAndPersist(r)
                                 \/ \E s \in Sessions : StartTxn(r, s)
    BY <2>1, StartBegins, UndoWithdraws, ScoreCloses, Slots
  <2>2. CASE \E r \in Requests : StartCheck(r) \/ StartTxnConflict(r) \/ StartRedis(r)
                  \/ StartReply(r) \/ AutosaveGet(r) \/ AutosaveSet(r) \/ AutosaveDb(r)
                  \/ ConsumeGrace(r) \/ ScoreConflict(r) \/ DeleteSession(r)
    BY <2>2, Stutter
    DEF StartCheck, StartTxnConflict, StartRedis, StartReply, AutosaveGet, AutosaveSet,
        AutosaveDb, ConsumeGrace, ScoreConflict, DeleteSession, postgres, AbstractPhase
  <2> QED
    BY <1>2, <2>1, <2>2 DEF Serve
<1>3. CASE \E h \in Handlers : Handle(h)
  <2>1. CASE \E h \in Handlers : ScoreAndPersist(h) \/ ExpireWrite(h)
    BY <2>1, ScoreCloses, ExpireReopens, Slots
  <2>2. CASE \E h \in Handlers : HandleSessionExpiry(h) \/ OpenGrace(h)
                  \/ HandleGraceExpiry(h) \/ ScoreConflict(h) \/ DeleteSession(h)
    BY <2>2, Stutter
    DEF HandleSessionExpiry, OpenGrace, HandleGraceExpiry, ScoreConflict, DeleteSession,
        postgres, AbstractPhase
  <2> QED
    BY <1>3, <2>1, <2>2 DEF Handle
<1>4. CASE (\E s \in Sessions : Clock(s)) \/ Failure
  BY <1>4, Stutter
  DEF Clock, SessionKeyExpires, GraceKeyExpires, Failure, StartRedisFails, CallFails,
      NotificationLost, KeyLost, postgres, AbstractPhase
<1> QED
  BY <1>1, <1>2, <1>3, <1>4 DEF Next

\* The engine, with its handlers, Redis keys, instances and faults, implements
\* ExamContract: a sitting is opened, closed, withdrawn and reopened as a whole.
THEOREM ContractKept == Spec => KeepsContract
<1>1. Init => Contract!Init
  <2> SUFFICES ASSUME Init PROVE Contract!Init
    OBVIOUS
  <2>1. Phase("none") = "unopened"
    BY DEF Phase, Open, Submitted
  <2> QED
    BY <2>1 DEF Init, Contract!Init
<1>2. SafeInv /\ Unscored /\ [Next]_vars => [Contract!Next]_(Contract!contract)
  <2>1. UNCHANGED vars => UNCHANGED Contract!contract
    BY DEF vars, postgres, Contract!contract
  <2> QED
    BY <2>1, StepKeepsContract
<1> QED
  BY <1>1, <1>2, SafeAlways, UnscoredAlways, PTL DEF Spec, KeepsContract, Contract!Spec
===============================================================================
