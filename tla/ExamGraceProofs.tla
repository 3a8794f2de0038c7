--------------------------- MODULE ExamGraceProofs ---------------------------
(* The grace window of ExamSession: how often it opens and who gets in.     *)
EXTENDS ExamSessionProofs, FiniteSetTheorems

-----------------------------------------------------------------------------
(* The inductive invariant.                                                *)

Expire == {"expire_write", "expire_grace"}

ExpiryHandlers == {h \in Handlers : h[2] = "session"}

\* What an instance still has to do about the end of a countdown.
Load(h) == inbox[h] + (IF job[h].pc \in Expire THEN 1 ELSE 0)

\* The instances that may still open the window of a session.
Expiring(s) == {i \in Instances : Load(<<i, "session", s>>) > 0}

\* Nobody else is at the labels of handleSessionExpiry.
ExpireIsTheirs == \A p \in Procs : job[p].pc \in Expire => p \in ExpiryHandlers

\* A countdown ends once and each instance hears of it at most once, so each
\* opens the window at most once.
Opens(s) ==
    /\ ~ttlElapsed[s] => graceOpened[s] = 0 /\ Expiring(s) = {}
    /\ graceOpened[s] + Cardinality(Expiring(s)) <= Cardinality(Instances)

OpensFew ==
    /\ ExpireIsTheirs
    /\ \A h \in ExpiryHandlers : Load(h) <= 1
    /\ \A s \in Sessions : Opens(s)

\* The window's key lets one late submit in.
GateKeeps(s) ==
    /\ IsFiniteSet(PastGraceGate(s))
    /\ Cardinality(LateAttempts(s)) + Cardinality(PastGraceGate(s))
         + (IF graceKey[s] # None THEN 1 ELSE 0) <= graceOpened[s]

GraceInv == SafeInv /\ OpensFew /\ \A s \in Sessions : GateKeeps(s)

-----------------------------------------------------------------------------
(* How often the window opens.                                             *)

LEMMA ExpirySlots ==
    /\ \A i \in Instances, s \in Sessions : /\ <<i, "session", s>> \in ExpiryHandlers
                                            /\ <<i, "session", s>>[1] = i
                                            /\ <<i, "session", s>>[3] = s
    /\ \A h \in ExpiryHandlers : /\ h \in Handlers /\ h \in Procs
                                 /\ h[1] \in Instances /\ h[3] \in Sessions
                                 /\ h = <<h[1], "session", h[3]>>
BY DEF ExpiryHandlers, Handlers, Procs

LEMMA LoadType == SafeInv => \A h \in ExpiryHandlers : Load(h) \in Nat
BY ExpirySlots DEF SafeInv, TypeInv, TypeOK, Load

\* A step that adds to no instance's load opens nothing and lets no instance
\* open more.
LEMMA LighterOpens ==
    ASSUME OpensFew, SafeInv, SafeInv', UNCHANGED <<graceOpened, ttlElapsed>>, ExpireIsTheirs',
           \A h \in ExpiryHandlers : Load(h)' <= Load(h)
    PROVE  OpensFew'
<1>1. \A h \in ExpiryHandlers : Load(h) \in Nat /\ Load(h)' \in Nat
    <2>1. inbox' \in [Handlers -> Nat] BY DEF SafeInv, TypeInv, TypeOK
    <2> QED BY <2>1, LoadType, ExpirySlots DEF Load
<1>2. \A h \in ExpiryHandlers : Load(h)' <= 1 BY <1>1 DEF OpensFew
<1>3. ASSUME NEW s \in Sessions PROVE Opens(s)'
    <2>1. Expiring(s)' \subseteq Expiring(s) BY <1>1, ExpirySlots DEF Expiring
    <2>2. Expiring(s) \in SUBSET Instances BY DEF Expiring
    <2>3. IsFiniteSet(Expiring(s)) BY <2>2, FS_Subset, ExamSessionAssumption
    <2>4. IsFiniteSet(Expiring(s)') /\ Cardinality(Expiring(s)') <= Cardinality(Expiring(s))
        BY <2>1, <2>3, FS_Subset
    <2>5. /\ Cardinality(Expiring(s)) \in Nat /\ Cardinality(Expiring(s)') \in Nat
          /\ Cardinality(Instances) \in Nat /\ graceOpened[s] \in Nat
        BY <2>3, <2>4, FS_CardinalityType, ExamSessionAssumption DEF SafeInv, TypeInv, TypeOK
    <2>6. graceOpened[s] + Cardinality(Expiring(s)') <= Cardinality(Instances)
        BY <2>4, <2>5 DEF OpensFew, Opens
    <2> QED BY <2>1, <2>6 DEF OpensFew, Opens
<1> QED BY <1>2, <1>3 DEF OpensFew

\* A call that moves on without entering handleSessionExpiry.
LEMMA MoveIsLight ==
    ASSUME OpensFew, SafeInv, SafeInv', NEW p \in Procs, NEW j, Proceed(p, j),
           j.pc \in Expire => job[p].pc \in Expire,
           \A h \in ExpiryHandlers : inbox'[h] <= inbox[h]
    PROVE  ExpireIsTheirs' /\ \A h \in ExpiryHandlers : Load(h)' <= Load(h)
<1>1. \A q \in Procs : job'[q] = IF q = p THEN j ELSE job[q]
    BY DEF Proceed, SafeInv, TypeInv, TypeOK
<1>2. ExpireIsTheirs' BY <1>1 DEF OpensFew, ExpireIsTheirs
<1>3. ASSUME NEW h \in ExpiryHandlers PROVE Load(h)' <= Load(h)
    <2>1. inbox[h] \in Nat /\ inbox'[h] \in Nat /\ h \in Procs
        BY ExpirySlots DEF SafeInv, TypeInv, TypeOK
    <2>2. job'[h].pc \in Expire => job[h].pc \in Expire BY <1>1, <2>1
    <2> QED BY <2>1, <2>2 DEF Load
<1> QED BY <1>2, <1>3

\* The HTTP calls, and what every call shares.
LEMMA OpensCall ==
    ASSUME OpensFew, SafeInv, SafeInv',
           \/ \E r \in Requests : Call(r) \/ Serve(r) \/ StartRedisFails(r)
           \/ \E p \in Procs : ScoreAndPersist(p) \/ ScoreConflict(p) \/ DeleteSession(p) \/ CallFails(p)
    PROVE  OpensFew'
<1> USE DEF Idle, On, Starting, Expire, Return, postgres, redis, history
<1>1. UNCHANGED <<graceOpened, ttlElapsed, inbox>>
    BY DEF Call, StartVerify, AutosaveRead, SubmitRead, LateSubmitRead, Serve, StartCheck,
           StartTxnConflict, StartRedis, StartUndo, StartReply, StartTxn, AutosaveGet, AutosaveSet,
           AutosaveDb, ConsumeGrace, StartRedisFails, ScoreAndPersist, ScoreConflict,
           DeleteSession, CallFails
<1>2. \A h \in ExpiryHandlers : inbox'[h] <= inbox[h]
    BY <1>1, ExpirySlots DEF SafeInv, TypeInv, TypeOK
<1>3. ASSUME NEW p \in Procs, NEW j, Proceed(p, j), j.pc \notin Expire PROVE OpensFew'
    BY <1>1, <1>2, <1>3, MoveIsLight, LighterOpens
<1>4. ASSUME NEW r \in Requests, Call(r) PROVE OpensFew'
    BY <1>3, <1>4, Slots DEF Call, StartVerify, AutosaveRead, SubmitRead, LateSubmitRead
<1>5. ASSUME NEW r \in Requests,
             \/ StartCheck(r) \/ StartTxnConflict(r) \/ StartRedis(r) \/ StartUndo(r)
             \/ StartReply(r) \/ (\E s \in Sessions : StartTxn(r, s)) \/ StartRedisFails(r)
      PROVE  OpensFew'
    BY <1>3, <1>5, Slots DEF StartCheck, StartTxnConflict, StartRedis, StartUndo, StartReply,
                             StartTxn, StartRedisFails
<1>6. ASSUME NEW r \in Requests,
             AutosaveGet(r) \/ AutosaveSet(r) \/ AutosaveDb(r) \/ ConsumeGrace(r)
      PROVE  OpensFew'
    BY <1>3, <1>6, Slots DEF AutosaveGet, AutosaveSet, AutosaveDb, ConsumeGrace
<1>7. ASSUME NEW p \in Procs,
             ScoreAndPersist(p) \/ ScoreConflict(p) \/ DeleteSession(p) \/ CallFails(p)
      PROVE  OpensFew'
    BY <1>3, <1>7 DEF ScoreAndPersist, ScoreConflict, DeleteSession, CallFails
<1> QED BY <1>4, <1>5, <1>6, <1>7, Slots DEF Serve

\* The keyspace handler: the notification is exchanged for the labels of
\* handleSessionExpiry, and those for one opening.
LEMMA OpensHandler ==
    ASSUME OpensFew, SafeInv, SafeInv', NEW h \in Handlers,
           HandleSessionExpiry(h) \/ ExpireWrite(h) \/ OpenGrace(h) \/ HandleGraceExpiry(h)
    PROVE  OpensFew'
<1> USE DEF postgres, redis, history
<1>0. h \in Procs /\ inbox \in [Handlers -> Nat] /\ inbox' \in [Handlers -> Nat]
      /\ job \in [Procs -> Job] /\ graceOpened \in [Sessions -> Nat]
    BY Slots DEF SafeInv, TypeInv, TypeOK
<1>1. CASE HandleSessionExpiry(h)
    <2>1. h \in ExpiryHandlers BY <1>1 DEF HandleSessionExpiry, ExpiryHandlers
    <2>2. /\ inbox[h] > 0 /\ inbox'[h] = inbox[h] - 1 /\ job[h] = Idle
          /\ \A k \in Handlers : k # h => inbox'[k] = inbox[k]
        BY <1>0, <1>1 DEF HandleSessionExpiry, Deliver
    <2>3. \A q \in Procs : q # h => job'[q] = job[q]
        BY <1>0, <1>1 DEF HandleSessionExpiry, Proceed, Return
    <2>4. ExpireIsTheirs' BY <2>1, <2>3 DEF ExpireIsTheirs, OpensFew
    <2>5. Load(h)' <= Load(h) BY <1>0, <2>2 DEF Load, Idle, Expire
    <2>6. \A k \in ExpiryHandlers : k # h => Load(k)' = Load(k)
        BY <2>2, <2>3, ExpirySlots DEF Load
    <2>7. \A k \in ExpiryHandlers : Load(k)' <= Load(k)
        BY <2>5, <2>6, LoadType
    <2>8. UNCHANGED <<graceOpened, ttlElapsed>> BY <1>1 DEF HandleSessionExpiry
    <2> QED BY <2>4, <2>7, <2>8, LighterOpens
<1>2. CASE ExpireWrite(h)
    <2>1. UNCHANGED <<graceOpened, ttlElapsed, inbox>> /\ job[h].pc \in Expire
        BY <1>2 DEF ExpireWrite, Expire
    <2>2. \A k \in ExpiryHandlers : inbox'[k] <= inbox[k] BY <1>0, <2>1, ExpirySlots
    <2>3. PICK j : Proceed(h, j) BY <1>2 DEF ExpireWrite
    <2> QED BY <1>0, <2>1, <2>2, <2>3, MoveIsLight, LighterOpens
<1>3. CASE HandleGraceExpiry(h)
    <2>1. UNCHANGED <<graceOpened, ttlElapsed>> /\ h \notin ExpiryHandlers
        BY <1>3 DEF HandleGraceExpiry, ExpiryHandlers
    <2>2. \A k \in ExpiryHandlers : inbox'[k] <= inbox[k]
        BY <1>0, <1>3, <2>1, ExpirySlots DEF HandleGraceExpiry, Deliver
    <2>3. ASSUME NEW j, Proceed(h, j), j.pc \notin Expire PROVE OpensFew'
        BY <1>0, <2>1, <2>2, <2>3, MoveIsLight, LighterOpens
    <2> QED BY <1>3, <2>3 DEF HandleGraceExpiry, Return, Idle, On, Expire
<1>4. CASE OpenGrace(h)
    <2> DEFINE s == h[3]
               i == h[1]
    <2>1. h \in ExpiryHandlers /\ job[h].pc \in Expire
        BY <1>0, <1>4 DEF OpenGrace, OpensFew, ExpireIsTheirs, Expire
    <2>2. job[h].sess = s /\ s \in Sessions /\ i \in Instances
        BY <1>0, <1>4, <2>1, ExpirySlots, ExamSessionAssumption
        DEF OpenGrace, SafeInv, TypeInv, JobsOK, JobOK
    <2>3. Load(h) >= 1 /\ Load(h) <= 1 /\ inbox[h] = 0
        BY <1>0, <2>1, ExpirySlots DEF OpensFew, Load
    <2>4. /\ inbox' = inbox /\ ttlElapsed' = ttlElapsed /\ job'[h].pc = "idle"
          /\ \A q \in Procs : q # h => job'[q] = job[q]
          /\ graceOpened'[s] = graceOpened[s] + 1
          /\ \A t \in Sessions : t # s => graceOpened'[t] = graceOpened[t]
        BY <1>0, <1>4, <2>2 DEF OpenGrace, Return, Proceed, Idle
    <2>5. Load(h)' = 0 BY <2>3, <2>4 DEF Load, Expire
    <2>6. \A k \in ExpiryHandlers : k # h => Load(k)' = Load(k)
        BY <2>4, ExpirySlots DEF Load
    <2>7. ExpireIsTheirs' BY <2>4 DEF ExpireIsTheirs, OpensFew, Expire
    <2>8. \A k \in ExpiryHandlers : Load(k)' <= 1
        BY <2>5, <2>6 DEF OpensFew
    <2>9. ASSUME NEW t \in Sessions, t # s PROVE Opens(t)'
        <3>1. Expiring(t)' = Expiring(t)
            BY <2>6, <2>9, ExpirySlots DEF Expiring
        <3> QED BY <2>4, <2>9, <3>1 DEF OpensFew, Opens
    <2>10. Opens(s)'
        <3>1. i \in Expiring(s)
            <4>1. <<i, "session", s>> = h BY <2>1, ExpirySlots
            <4>2. Load(h) \in Nat BY <2>1, LoadType
            <4>3. Load(<<i, "session", s>>) > 0 BY <2>3, <4>1, <4>2
            <4> QED BY <2>2, <4>3 DEF Expiring
        <3>2. Expiring(s)' \subseteq Expiring(s) \ {i}
            <4>1. <<i, "session", s>> = h BY <2>1, ExpirySlots
            <4>2. ~(Load(<<i, "session", s>>)' > 0) BY <2>5, <4>1
            <4>3. ASSUME NEW k \in Instances, k # i
                  PROVE  Load(<<k, "session", s>>)' = Load(<<k, "session", s>>)
                <5>1. <<k, "session", s>> # h /\ <<k, "session", s>> \in ExpiryHandlers
                    BY <2>2, <4>3, ExpirySlots
                <5> QED BY <2>6, <5>1
            <4> QED BY <4>2, <4>3 DEF Expiring
        <3>3. Expiring(s) \in SUBSET Instances BY DEF Expiring
        <3>4. IsFiniteSet(Expiring(s)) BY <3>3, FS_Subset, ExamSessionAssumption
        <3>5. /\ IsFiniteSet(Expiring(s) \ {i})
              /\ Cardinality(Expiring(s) \ {i}) = Cardinality(Expiring(s)) - 1
            BY <3>1, <3>4, FS_RemoveElement
        <3>6. IsFiniteSet(Expiring(s)') /\ Cardinality(Expiring(s)') <= Cardinality(Expiring(s)) - 1
            BY <3>2, <3>5, FS_Subset
        <3>7. /\ Cardinality(Expiring(s)) \in Nat /\ Cardinality(Expiring(s)') \in Nat
              /\ Cardinality(Instances) \in Nat /\ graceOpened[s] \in Nat
            BY <1>0, <2>2, <3>4, <3>6, FS_CardinalityType, ExamSessionAssumption
        <3>8. ttlElapsed[s] /\ graceOpened[s] + Cardinality(Expiring(s)) <= Cardinality(Instances)
            BY <2>2, <3>1 DEF OpensFew, Opens
        <3>9. graceOpened'[s] + Cardinality(Expiring(s)') <= Cardinality(Instances)
            BY <2>4, <3>6, <3>7, <3>8
        <3> QED BY <2>4, <3>8, <3>9 DEF Opens
    <2> QED BY <2>7, <2>8, <2>9, <2>10 DEF OpensFew
<1> QED BY <1>1, <1>2, <1>3, <1>4

\* The countdown ends: each instance is told, and had not been before.
LEMMA OpensClock ==
    ASSUME OpensFew, SafeInv, SafeInv', NEW s \in Sessions, Clock(s)
    PROVE  OpensFew'
<1> USE DEF postgres, redis, history
<1>0. /\ inbox \in [Handlers -> Nat] /\ ttlElapsed \in [Sessions -> BOOLEAN]
    BY DEF SafeInv, TypeInv, TypeOK
<1>1. CASE GraceKeyExpires(s)
    <2>1. UNCHANGED <<job, graceOpened, ttlElapsed>> BY <1>1 DEF GraceKeyExpires
    <2>2. \A h \in ExpiryHandlers : inbox'[h] = inbox[h]
        BY <1>0, <1>1, ExpirySlots DEF GraceKeyExpires, Publish, ExpiryHandlers
    <2>3. \A h \in ExpiryHandlers : Load(h)' <= Load(h) BY <2>1, <2>2, LoadType DEF Load
    <2>4. ExpireIsTheirs' BY <2>1 DEF OpensFew, ExpireIsTheirs
    <2> QED BY <2>1, <2>3, <2>4, LighterOpens
<1>2. CASE SessionKeyExpires(s)
    <2>1. UNCHANGED <<job, graceOpened>> BY <1>2 DEF SessionKeyExpires
    <2>2. graceOpened[s] = 0 /\ Expiring(s) = {}
        BY <1>0, <1>2 DEF SessionKeyExpires, SafeInv, ExpiredKeyStaysGone, OpensFew, Opens
    <2>3. /\ \A h \in ExpiryHandlers : h[3] # s => inbox'[h] = inbox[h]
          /\ \A h \in ExpiryHandlers : inbox'[h] <= inbox[h] + 1
          /\ ttlElapsed' = [ttlElapsed EXCEPT ![s] = TRUE]
        BY <1>0, <1>2, ExpirySlots DEF SessionKeyExpires, Publish
    <2>4. \A h \in ExpiryHandlers : h[3] # s => Load(h)' = Load(h)
        BY <2>1, <2>3 DEF Load
    <2>5. \A h \in ExpiryHandlers : h[3] = s => Load(h) = 0
        <3>1. \A i \in Instances : ~(Load(<<i, "session", s>>) > 0) BY <2>2 DEF Expiring
        <3> QED BY <3>1, ExpirySlots, LoadType
    <2>6. \A h \in ExpiryHandlers : Load(h)' <= 1
        <3>1. ASSUME NEW h \in ExpiryHandlers, h[3] = s PROVE Load(h)' <= 1
            <4>1. inbox[h] \in Nat /\ inbox'[h] \in Nat
                BY <1>0, ExpirySlots DEF SafeInv, TypeInv, TypeOK
            <4>2. inbox[h] = 0 /\ job[h].pc \notin Expire
                BY <2>5, <3>1, <4>1 DEF Load
            <4> QED BY <2>1, <2>3, <4>1, <4>2 DEF Load
        <3> QED BY <2>4, <3>1 DEF OpensFew
    <2>7. ASSUME NEW t \in Sessions, t # s PROVE Opens(t)'
        <3>1. Expiring(t)' = Expiring(t) BY <2>4, <2>7, ExpirySlots DEF Expiring
        <3> QED BY <1>0, <2>1, <2>3, <2>7, <3>1 DEF OpensFew, Opens
    <2>8. Opens(s)'
        <3>1. Expiring(s)' \in SUBSET Instances BY DEF Expiring
        <3>2. /\ IsFiniteSet(Expiring(s)') /\ Cardinality(Expiring(s)') <= Cardinality(Instances)
            BY <3>1, FS_Subset, ExamSessionAssumption
        <3>3. Cardinality(Expiring(s)') \in Nat BY <3>2, FS_CardinalityType
        <3>4. graceOpened'[s] + Cardinality(Expiring(s)') <= Cardinality(Instances)
            BY <2>1, <2>2, <3>2, <3>3
        <3> QED BY <1>0, <2>3, <3>4 DEF Opens
    <2>9. ExpireIsTheirs' BY <2>1 DEF OpensFew, ExpireIsTheirs
    <2> QED BY <2>6, <2>7, <2>8, <2>9 DEF OpensFew
<1> QED BY <1>1, <1>2 DEF Clock

LEMMA OpensNext ==
    ASSUME OpensFew, SafeInv, SafeInv', [Next]_vars
    PROVE  OpensFew'
<1>1. CASE \E r \in Requests : Call(r) \/ Serve(r) BY <1>1, OpensCall
<1>2. CASE \E h \in Handlers : Handle(h)
    BY <1>2, OpensCall, OpensHandler, Slots DEF Handle
<1>3. CASE \E s \in Sessions : Clock(s) BY <1>3, OpensClock
<1>4. CASE Failure
    <2>1. CASE \E h \in Handlers : NotificationLost(h)
        <3>1. UNCHANGED <<job, graceOpened, ttlElapsed>> BY <2>1 DEF NotificationLost
        <3>2. \A k \in ExpiryHandlers : inbox'[k] <= inbox[k] /\ inbox[k] \in Nat /\ inbox'[k] \in Nat
            BY <2>1, ExpirySlots DEF NotificationLost, SafeInv, TypeInv, TypeOK
        <3>3. \A k \in ExpiryHandlers : Load(k)' <= Load(k) BY <3>1, <3>2 DEF Load
        <3>4. ExpireIsTheirs' BY <3>1 DEF OpensFew, ExpireIsTheirs
        <3> QED BY <3>1, <3>3, <3>4, LighterOpens
    <2>2. CASE \E s \in Sessions : KeyLost(s)
        BY <2>2 DEF KeyLost, OpensFew, Opens, ExpireIsTheirs, Expiring, Load
    <2> QED BY <1>4, <2>1, <2>2, OpensCall DEF Failure
<1>5. CASE UNCHANGED vars
    BY <1>5 DEF vars, redis, history, OpensFew, Opens, ExpireIsTheirs, Expiring, Load
<1> QED BY <1>1, <1>2, <1>3, <1>4, <1>5 DEF Next

-----------------------------------------------------------------------------
(* Who gets in.                                                            *)

LEMMA LateSets ==
    ASSUME SafeInv, NEW s \in Sessions
    PROVE  IsFiniteSet(LateAttempts(s)) /\ Cardinality(LateAttempts(s)) \in Nat
<1>1. attempts[s] \in Seq(Attempt) BY DEF SafeInv, TypeInv, TypeOK
<1>2. LateAttempts(s) \in SUBSET (1 .. Len(attempts[s])) /\ Len(attempts[s]) \in Nat
    BY <1>1 DEF LateAttempts
<1>3. IsFiniteSet(1 .. Len(attempts[s])) BY <1>2, FS_Interval
<1> QED BY <1>2, <1>3, FS_Subset, FS_CardinalityType

\* A step that scores nothing, passes nobody and opens no window.
LEMMA QuietGate ==
    ASSUME SafeInv, NEW s \in Sessions, GateKeeps(s),
           attempts'[s] = attempts[s],
           PastGraceGate(s)' \subseteq PastGraceGate(s),
           graceKey'[s] # None => graceKey[s] # None,
           graceOpened'[s] = graceOpened[s]
    PROVE  GateKeeps(s)'
<1>1. LateAttempts(s)' = LateAttempts(s) BY DEF LateAttempts
<1>2. /\ IsFiniteSet(PastGraceGate(s)')
      /\ Cardinality(PastGraceGate(s)') <= Cardinality(PastGraceGate(s))
    BY FS_Subset DEF GateKeeps
<1>3. /\ Cardinality(LateAttempts(s)) \in Nat /\ graceOpened[s] \in Nat
      /\ Cardinality(PastGraceGate(s)) \in Nat /\ Cardinality(PastGraceGate(s)') \in Nat
    BY <1>2, LateSets, FS_CardinalityType DEF GateKeeps, SafeInv, TypeInv, TypeOK
<1> QED BY <1>1, <1>2, <1>3 DEF GateKeeps

\* Only consumeGrace brings a call past the gate.
LEMMA GateMove ==
    ASSUME SafeInv, NEW p \in Procs, NEW j, Proceed(p, j), NEW s,
           j.pc = "late_txn" => j.sess # s
    PROVE  PastGraceGate(s)' \subseteq PastGraceGate(s) \ {p}
<1>1. \A q \in Procs : job'[q] = IF q = p THEN j ELSE job[q]
    BY DEF Proceed, SafeInv, TypeInv, TypeOK
<1> QED BY <1>1 DEF PastGraceGate

\* GETDEL: the window's key is exchanged for one call past the gate.
LEMMA GateConsume ==
    ASSUME SafeInv, NEW s \in Sessions, GateKeeps(s), NEW r \in Requests, ConsumeGrace(r)
    PROVE  GateKeeps(s)'
<1> USE DEF postgres, history
<1>0. r \in Procs /\ graceKey \in [Sessions -> Answers \cup {None}]
      /\ UNCHANGED <<attempts, graceOpened>> /\ job[r].sess \in Sessions
    BY Slots DEF ConsumeGrace, SafeInv, TypeInv, TypeOK, JobsOK, JobOK
<1>1. graceKey'[s] # None => graceKey[s] # None BY <1>0 DEF ConsumeGrace
<1>2. CASE job[r].sess # s \/ graceKey[s] = None
    <2>1. PICK j : Proceed(r, j) /\ (j.pc = "late_txn" => j.sess # s)
        <3>1. CASE graceKey[job[r].sess] = None
            BY <3>1 DEF ConsumeGrace, Return, Idle
        <3>2. CASE graceKey[job[r].sess] # None
            <4>1. job[r].sess # s BY <1>2, <3>2
            <4>2. PICK a : Proceed(r, On(job[r].sess, "late_txn", a))
                BY <3>2 DEF ConsumeGrace
            <4>3. On(job[r].sess, "late_txn", a).sess # s BY <4>1 DEF On
            <4> QED BY <4>2, <4>3
        <3> QED BY <3>1, <3>2
    <2>2. PastGraceGate(s)' \subseteq PastGraceGate(s) BY <1>0, <2>1, GateMove
    <2> QED BY <1>0, <1>1, <2>2, QuietGate
<1>3. CASE job[r].sess = s /\ graceKey[s] # None
    <2>1. graceKey'[s] = None BY <1>0, <1>3 DEF ConsumeGrace
    <2>2. \A q \in Procs : q # r => job'[q] = job[q]
        BY <1>0 DEF ConsumeGrace, Proceed, Return, SafeInv, TypeInv, TypeOK
    <2>3. PastGraceGate(s)' \subseteq PastGraceGate(s) \cup {r} BY <2>2 DEF PastGraceGate
    <2>4. /\ IsFiniteSet(PastGraceGate(s) \cup {r})
          /\ Cardinality(PastGraceGate(s) \cup {r})
                = IF r \in PastGraceGate(s) THEN Cardinality(PastGraceGate(s))
                                            ELSE Cardinality(PastGraceGate(s)) + 1
        BY FS_AddElement DEF GateKeeps
    <2>5. /\ IsFiniteSet(PastGraceGate(s)')
          /\ Cardinality(PastGraceGate(s)') <= Cardinality(PastGraceGate(s) \cup {r})
        BY <2>3, <2>4, FS_Subset
    <2>6. /\ Cardinality(LateAttempts(s)) \in Nat /\ graceOpened[s] \in Nat
          /\ Cardinality(PastGraceGate(s)) \in Nat /\ Cardinality(PastGraceGate(s)') \in Nat
        BY <2>5, LateSets, FS_CardinalityType DEF GateKeeps, SafeInv, TypeInv, TypeOK
    <2>7. LateAttempts(s)' = LateAttempts(s) BY <1>0 DEF LateAttempts
    <2>8. Cardinality(PastGraceGate(s)') <= Cardinality(PastGraceGate(s)) + 1
        BY <2>4, <2>5, <2>6
    <2> QED BY <1>0, <1>3, <2>1, <2>5, <2>6, <2>7, <2>8 DEF GateKeeps
<1> QED BY <1>2, <1>3

\* The transaction of a call past the gate is the late attempt.
LEMMA GateScore ==
    ASSUME SafeInv, NEW s \in Sessions, GateKeeps(s), NEW p \in Procs, ScoreAndPersist(p)
    PROVE  GateKeeps(s)'
<1> USE DEF postgres, redis, history
<1> DEFINE t == AttemptOf(job[p].pc, job[p].held)
<1>0. /\ UNCHANGED <<graceKey, graceOpened>> /\ job[p].sess \in Sessions
      /\ attempts \in [Sessions -> Seq(Attempt)]
      /\ attempts' = [attempts EXCEPT ![job[p].sess] = Append(@, t)]
      /\ t \in Attempt
      /\ t.late <=> job[p].pc = "late_txn"
    BY DEF ScoreAndPersist, AttemptOf, Attempt, SafeInv, TypeInv, TypeOK, JobsOK, JobOK, Holding
<1>1. PastGraceGate(s)' \subseteq PastGraceGate(s) \ {p}
    BY GateMove DEF ScoreAndPersist, On
<1>2. CASE job[p].sess # s
    <2>1. attempts'[s] = attempts[s] BY <1>0, <1>2
    <2> QED BY <1>0, <1>1, <2>1, QuietGate
<1>3. CASE job[p].sess = s
    <2> DEFINE n == Len(attempts[s]) + 1
    <2>1. /\ attempts'[s] = Append(attempts[s], t) /\ n \in Nat
          /\ DOMAIN attempts'[s] = (DOMAIN attempts[s]) \cup {n}
          /\ \A k \in DOMAIN attempts[s] : attempts'[s][k] = attempts[s][k]
          /\ attempts'[s][n] = t
        BY <1>0, <1>3
    <2>2. IsFiniteSet(LateAttempts(s)) /\ Cardinality(LateAttempts(s)) \in Nat BY LateSets
    <2>3. /\ Cardinality(PastGraceGate(s)) \in Nat /\ graceOpened[s] \in Nat
          /\ IsFiniteSet(PastGraceGate(s))
        BY FS_CardinalityType DEF GateKeeps, SafeInv, TypeInv, TypeOK
    <2>4. CASE job[p].pc # "late_txn"
        <3>1. LateAttempts(s)' = LateAttempts(s) BY <1>0, <2>1, <2>4 DEF LateAttempts
        <3>2. /\ IsFiniteSet(PastGraceGate(s)')
              /\ Cardinality(PastGraceGate(s)') <= Cardinality(PastGraceGate(s))
            BY <1>1, <2>3, FS_Subset
        <3>3. Cardinality(PastGraceGate(s)') \in Nat BY <3>2, FS_CardinalityType
        <3> QED BY <1>0, <2>2, <2>3, <3>1, <3>2, <3>3 DEF GateKeeps
    <2>5. CASE job[p].pc = "late_txn"
        <3>1. LateAttempts(s)' \subseteq LateAttempts(s) \cup {n}
            BY <2>1 DEF LateAttempts
        <3>2. /\ IsFiniteSet(LateAttempts(s) \cup {n})
              /\ Cardinality(LateAttempts(s) \cup {n})
                    = IF n \in LateAttempts(s) THEN Cardinality(LateAttempts(s))
                                               ELSE Cardinality(LateAttempts(s)) + 1
            BY <2>2, FS_AddElement
        <3>3. /\ IsFiniteSet(LateAttempts(s)')
              /\ Cardinality(LateAttempts(s)') <= Cardinality(LateAttempts(s) \cup {n})
            BY <3>1, <3>2, FS_Subset
        <3>4. p \in PastGraceGate(s) BY <1>3, <2>5 DEF PastGraceGate
        <3>5. /\ IsFiniteSet(PastGraceGate(s) \ {p})
              /\ Cardinality(PastGraceGate(s) \ {p}) = Cardinality(PastGraceGate(s)) - 1
            BY <2>3, <3>4, FS_RemoveElement
        <3>6. /\ IsFiniteSet(PastGraceGate(s)')
              /\ Cardinality(PastGraceGate(s)') <= Cardinality(PastGraceGate(s)) - 1
            BY <1>1, <3>5, FS_Subset
        <3>7. Cardinality(LateAttempts(s)') \in Nat /\ Cardinality(PastGraceGate(s)') \in Nat
            BY <3>3, <3>6, FS_CardinalityType
        <3>8. Cardinality(LateAttempts(s)') <= Cardinality(LateAttempts(s)) + 1
            BY <2>2, <3>2, <3>3, <3>7
        <3> QED BY <1>0, <2>2, <2>3, <3>6, <3>7, <3>8 DEF GateKeeps
    <2> QED BY <2>4, <2>5
<1> QED BY <1>2, <1>3

\* One window, one key.
LEMMA GateOpen ==
    ASSUME SafeInv, NEW s \in Sessions, GateKeeps(s), NEW h \in Handlers, OpenGrace(h)
    PROVE  GateKeeps(s)'
<1> USE DEF postgres, history
<1>0. h \in Procs /\ job[h].sess \in Sessions /\ UNCHANGED attempts
      /\ graceOpened \in [Sessions -> Nat] /\ graceKey \in [Sessions -> Answers \cup {None}]
    BY Slots DEF OpenGrace, SafeInv, TypeInv, TypeOK, JobsOK, JobOK
<1>1. PastGraceGate(s)' \subseteq PastGraceGate(s)
    BY <1>0, GateMove DEF OpenGrace, Return, Idle
<1>2. CASE job[h].sess # s
    <2>1. graceKey'[s] = graceKey[s] /\ graceOpened'[s] = graceOpened[s]
        BY <1>0, <1>2 DEF OpenGrace
    <2> QED BY <1>0, <1>1, <2>1, QuietGate
<1>3. CASE job[h].sess = s
    <2>1. graceOpened'[s] = graceOpened[s] + 1 BY <1>0, <1>3 DEF OpenGrace
    <2>2. LateAttempts(s)' = LateAttempts(s) BY <1>0 DEF LateAttempts
    <2>3. /\ IsFiniteSet(PastGraceGate(s)')
          /\ Cardinality(PastGraceGate(s)') <= Cardinality(PastGraceGate(s))
        BY <1>1, FS_Subset DEF GateKeeps
    <2>4. /\ Cardinality(LateAttempts(s)) \in Nat /\ graceOpened[s] \in Nat
          /\ Cardinality(PastGraceGate(s)) \in Nat /\ Cardinality(PastGraceGate(s)') \in Nat
        BY <1>0, <2>3, LateSets, FS_CardinalityType DEF GateKeeps
    <2> QED BY <2>1, <2>2, <2>3, <2>4 DEF GateKeeps
<1> QED BY <1>2, <1>3

\* Every other step of a call.
LEMMA GateCall ==
    ASSUME SafeInv, NEW s \in Sessions, GateKeeps(s),
           \/ \E r \in Requests : Call(r) \/ StartRedisFails(r)
           \/ \E r \in Requests : (Serve(r) /\ ~ConsumeGrace(r) /\ ~ScoreAndPersist(r))
           \/ \E h \in Handlers : (Handle(h) /\ ~OpenGrace(h) /\ ~ScoreAndPersist(h))
           \/ \E p \in Procs : CallFails(p)
    PROVE  GateKeeps(s)'
<1> USE DEF postgres, redis, history, Idle, On, Starting, Return
<1>1. UNCHANGED <<attempts, graceKey, graceOpened>>
    BY DEF Call, StartVerify, AutosaveRead, SubmitRead, LateSubmitRead, Serve, StartCheck,
           StartTxnConflict, StartRedis, StartUndo, StartReply, StartTxn, AutosaveGet, AutosaveSet,
           AutosaveDb, StartRedisFails, ScoreConflict, DeleteSession, CallFails, Handle,
           HandleSessionExpiry, ExpireWrite, HandleGraceExpiry
<1>2. ASSUME NEW p \in Procs, NEW j, Proceed(p, j), j.pc # "late_txn" PROVE GateKeeps(s)'
    <2>1. PastGraceGate(s)' \subseteq PastGraceGate(s) BY <1>2, GateMove
    <2> QED BY <1>1, <2>1, QuietGate
<1>3. ASSUME NEW r \in Requests, Call(r) \/ StartRedisFails(r) PROVE GateKeeps(s)'
    BY <1>2, <1>3, Slots DEF Call, StartVerify, AutosaveRead, SubmitRead, LateSubmitRead,
                             StartRedisFails
<1>4. ASSUME NEW r \in Requests,
             \/ StartCheck(r) \/ StartTxnConflict(r) \/ StartRedis(r) \/ StartUndo(r)
             \/ StartReply(r) \/ (\E x \in Sessions : StartTxn(r, x))
      PROVE  GateKeeps(s)'
    BY <1>2, <1>4, Slots DEF StartCheck, StartTxnConflict, StartRedis, StartUndo, StartReply,
                             StartTxn
<1>5. ASSUME NEW r \in Requests, AutosaveGet(r) \/ AutosaveSet(r) \/ AutosaveDb(r)
      PROVE  GateKeeps(s)'
    BY <1>2, <1>5, Slots DEF AutosaveGet, AutosaveSet, AutosaveDb
<1>6. ASSUME NEW p \in Procs, ScoreConflict(p) \/ DeleteSession(p) \/ CallFails(p)
      PROVE  GateKeeps(s)'
    BY <1>2, <1>6 DEF ScoreConflict, DeleteSession, CallFails
<1>7. ASSUME NEW h \in Handlers, HandleSessionExpiry(h) \/ ExpireWrite(h) \/ HandleGraceExpiry(h)
      PROVE  GateKeeps(s)'
    BY <1>2, <1>7, Slots DEF HandleSessionExpiry, ExpireWrite, HandleGraceExpiry
<1> QED BY <1>3, <1>4, <1>5, <1>6, <1>7, Slots DEF Serve, Handle

LEMMA GateNext ==
    ASSUME SafeInv, NEW s \in Sessions, GateKeeps(s), [Next]_vars
    PROVE  GateKeeps(s)'
<1>1. CASE \E r \in Requests : Call(r) \/ Serve(r)
    BY <1>1, GateCall, GateConsume, GateScore, Slots
<1>2. CASE \E h \in Handlers : Handle(h)
    BY <1>2, GateCall, GateOpen, GateScore, Slots
<1>3. CASE \/ \E x \in Sessions : Clock(x) \/ KeyLost(x)
           \/ \E h \in Handlers : NotificationLost(h)
           \/ UNCHANGED vars
    <2>1. UNCHANGED <<attempts, job, graceOpened>>
        BY <1>3 DEF Clock, SessionKeyExpires, GraceKeyExpires, KeyLost, NotificationLost, postgres,
                    redis, history, vars
    <2>2. graceKey'[s] # None => graceKey[s] # None
        BY <1>3 DEF Clock, SessionKeyExpires, GraceKeyExpires, KeyLost, NotificationLost, postgres,
                    redis, history, vars, SafeInv, TypeInv, TypeOK
    <2>3. PastGraceGate(s)' = PastGraceGate(s) BY <2>1 DEF PastGraceGate
    <2> QED BY <2>1, <2>2, <2>3, QuietGate
<1>4. CASE Failure
    BY <1>3, <1>4, GateCall DEF Failure
<1> QED BY <1>1, <1>2, <1>3, <1>4 DEF Next

-----------------------------------------------------------------------------
(* The theorem.                                                            *)

LEMMA GraceInit == Init => GraceInv
<1> SUFFICES ASSUME Init PROVE GraceInv OBVIOUS
<1> USE DEF Init
<1>1. SafeInv BY SafeInit
<1>2. \A p \in Procs : job[p].pc = "idle" BY DEF Idle
<1>3. ExpireIsTheirs BY <1>2 DEF ExpireIsTheirs, Expire
<1>4. \A h \in ExpiryHandlers : Load(h) = 0 BY <1>2, ExpirySlots DEF Load, Expire
<1>5. ASSUME NEW s \in Sessions PROVE Opens(s) /\ GateKeeps(s)
    <2>1. Expiring(s) = {} BY <1>4, ExpirySlots DEF Expiring
    <2>2. PastGraceGate(s) = {} BY <1>2 DEF PastGraceGate
    <2>3. LateAttempts(s) = {} BY DEF LateAttempts
    <2>4. Cardinality(Instances) \in Nat BY FS_CardinalityType, ExamSessionAssumption
    <2> QED BY <2>1, <2>2, <2>3, <2>4, FS_EmptySet DEF Opens, GateKeeps
<1> QED BY <1>1, <1>3, <1>4, <1>5 DEF GraceInv, OpensFew

\* Late submits, crashes, lost notifications and several instances: each late
\* attempt took a window of its own, and a window is opened by each instance
\* at most once.
THEOREM OneLateSubmit == Spec => []OneLateSubmitPerWindow
<1>1. GraceInv /\ [Next]_vars => GraceInv'
    <2> SUFFICES ASSUME GraceInv, [Next]_vars PROVE GraceInv' OBVIOUS
    <2>1. SafeInv' BY SafeNext DEF GraceInv
    <2>2. OpensFew' BY <2>1, OpensNext DEF GraceInv
    <2>3. \A s \in Sessions : GateKeeps(s)' BY GateNext DEF GraceInv
    <2> QED BY <2>1, <2>2, <2>3 DEF GraceInv
<1>2. GraceInv => OneLateSubmitPerWindow
    <2> SUFFICES ASSUME GraceInv, NEW s \in Sessions
                 PROVE  graceOpened[s] <= Cardinality(Instances)
        BY DEF OneLateSubmitPerWindow, GraceInv, GateKeeps
    <2>1. Expiring(s) \in SUBSET Instances BY DEF Expiring
    <2>2. IsFiniteSet(Expiring(s)) BY <2>1, FS_Subset, ExamSessionAssumption
    <2>3. /\ Cardinality(Expiring(s)) \in Nat /\ Cardinality(Instances) \in Nat
          /\ graceOpened[s] \in Nat
        BY <2>2, FS_CardinalityType, ExamSessionAssumption
        DEF GraceInv, SafeInv, TypeInv, TypeOK
    <2>4. graceOpened[s] + Cardinality(Expiring(s)) <= Cardinality(Instances)
        BY DEF GraceInv, OpensFew, Opens
    <2> QED BY <2>3, <2>4
<1> QED BY GraceInit, <1>1, <1>2, PTL DEF Spec
=============================================================================
