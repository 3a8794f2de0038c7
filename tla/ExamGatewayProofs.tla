-------------------------- MODULE ExamGatewayProofs --------------------------
(* Theorems about ExamGateway, for every number of instances, bands,       *)
(* thresholds, ticks and joins in flight, and faults.                      *)
EXTENDS ExamGateway, SequenceTheorems, TLAPS

Interval == [live : BOOLEAN, warned : SUBSET Thresholds]

\* The replies that name one of the intervals ns.
ReplyFor(ns) == [kind : {"join"}, found : BOOLEAN]
                \cup [kind : {"tick"}, timer : ns, pttl : 0 .. Duration]

-----------------------------------------------------------------------------
(* Types.                                                                  *)

\* A reply that is added to the queue.
LEMMA ReplyAdded ==
    ASSUME TypeOK, NEW reply \in ReplyFor(DOMAIN intervals),
           calls' = Append(calls, reply)
    PROVE  /\ calls' \in Seq(ReplyFor(DOMAIN intervals))
           /\ DOMAIN calls' = 1 .. Len(calls) + 1
           /\ \A k \in 1 .. Len(calls) : calls'[k] = calls[k]
           /\ calls'[Len(calls) + 1] = reply
BY DEF TypeOK, ReplyFor

\* The oldest reply leaves the queue.
LEMMA ReplyTaken ==
    ASSUME TypeOK, calls # <<>>, Consume
    PROVE  /\ calls' \in Seq(ReplyFor(DOMAIN intervals))
           /\ Head(calls) = calls[1] /\ 1 \in DOMAIN calls
           /\ Head(calls) \in ReplyFor(DOMAIN intervals)
           /\ \A k \in DOMAIN calls' : k + 1 \in DOMAIN calls /\ calls'[k] = calls[k + 1]
<1> DEFINE S == ReplyFor(DOMAIN intervals)
<1>1. calls \in Seq(S)
  BY DEF TypeOK, ReplyFor
<1>2. /\ Head(calls) \in S /\ Tail(calls) \in Seq(S)
      /\ Len(Tail(calls)) = Len(calls) - 1
      /\ \A i \in 1 .. Len(Tail(calls)) : Tail(calls)[i] = calls[i + 1]
  <2> HIDE DEF S
  <2> QED BY <1>1, HeadTailProperties
<1>3. /\ Len(calls) \in Nat \ {0}
      /\ DOMAIN calls = 1 .. Len(calls)
      /\ DOMAIN Tail(calls) = 1 .. Len(Tail(calls))
  <2> HIDE DEF S
  <2> QED BY <1>1, <1>2, EmptySeq, LenProperties
<1>4. Head(calls) = calls[1]
  <2> HIDE DEF S
  <2> QED BY <1>1, <1>3
<1> QED BY <1>1, <1>2, <1>3, <1>4 DEF Consume

\* The intervals are only added to, so no reply loses its own.
LEMMA RepliesKept ==
    ASSUME TypeOK, NEW s \in Seq(ReplyFor(DOMAIN intervals)),
           DOMAIN intervals \subseteq DOMAIN intervals'
    PROVE  s \in Seq(ReplyFor(DOMAIN intervals'))
<1>1. ReplyFor(DOMAIN intervals) \subseteq ReplyFor(DOMAIN intervals')
  BY DEF ReplyFor
<1> QED BY <1>1, SeqMonotonic

\* What the two changes to the timers do to the intervals.
LEMMA TimersStarted ==
    ASSUME TypeOK, entry = 0, StartTimer
    PROVE  /\ intervals' \in Seq(Interval)
           /\ DOMAIN intervals = 1 .. Len(intervals)
           /\ DOMAIN intervals' = 1 .. Len(intervals) + 1
           /\ Len(intervals') = Len(intervals) + 1
           /\ entry' = Len(intervals) + 1 /\ Len(intervals) \in Nat
           /\ \A n \in DOMAIN intervals : intervals'[n] = intervals[n]
           /\ intervals'[Len(intervals) + 1] = [live |-> TRUE, warned |-> {}]
           /\ sent' = sent
<1>1. NewInterval \in Interval /\ intervals \in Seq(Interval)
  BY DEF NewInterval, Interval, TypeOK
<1> QED BY <1>1 DEF StartTimer, NewInterval

LEMMA TimersCleared ==
    ASSUME TypeOK, ClearTimer
    PROVE  /\ intervals' \in Seq(Interval)
           /\ DOMAIN intervals = 1 .. Len(intervals) /\ DOMAIN intervals' = DOMAIN intervals
           /\ Len(intervals') = Len(intervals)
           /\ entry' = 0
           /\ \A n \in DOMAIN intervals : /\ intervals'[n].warned = intervals[n].warned
                                          /\ intervals'[n].live = (intervals[n].live /\ n # entry)
           /\ sent' = sent
<1>1. intervals \in Seq(Interval) /\ entry \in 0 .. Len(intervals)
  BY DEF Interval, TypeOK
<1>2. DOMAIN intervals = 1 .. Len(intervals)
  BY <1>1, LenProperties
<1>3. \A n \in DOMAIN intervals : intervals[n] \in Interval
  BY <1>1, <1>2, ElementOfSeq
<1>4. CASE entry = 0
  BY <1>1, <1>2, <1>3, <1>4 DEF ClearTimer, Interval
<1>5. CASE entry # 0
  <2> DEFINE e == [intervals[entry] EXCEPT !.live = FALSE]
  <2>1. intervals' = [intervals EXCEPT ![entry] = e] /\ entry \in 1 .. Len(intervals)
    BY <1>1, <1>2, <1>5 DEF ClearTimer
  <2>2. e \in Interval /\ e.warned = intervals[entry].warned /\ e.live = FALSE
    BY <1>2, <1>3, <2>1 DEF Interval
  <2>3. /\ intervals' \in Seq(Interval) /\ Len(intervals') = Len(intervals)
        /\ \A j \in 1 .. Len(intervals) :
               intervals'[j] = IF j = entry THEN e ELSE intervals[j]
    <3> HIDE DEF e
    <3> QED BY <1>1, <2>1, <2>2, ExceptSeq
  <2>4. DOMAIN intervals' = 1 .. Len(intervals')
    BY <2>3, LenProperties
  <2>5. \A n \in DOMAIN intervals : intervals[n].live \in BOOLEAN
    BY <1>3 DEF Interval
  <2>6. \A n \in DOMAIN intervals :
            /\ intervals'[n].warned = intervals[n].warned
            /\ intervals'[n].live = (intervals[n].live /\ n # entry)
    <3> HIDE DEF e
    <3> QED BY <1>2, <2>2, <2>3, <2>5
  <2> QED BY <1>2, <2>3, <2>4, <2>6 DEF ClearTimer
<1> QED BY <1>4, <1>5

\* A getSession is asked for, and the countdown perhaps ends with it.
LEMMA Asked ==
    ASSUME TypeOK,
           NEW reply \in ReplyFor(DOMAIN intervals), NEW final \in ReplyFor(DOMAIN intervals),
           GetSession(reply, final), UNCHANGED <<timers, joining, faults>>
    PROVE  TypeOK'
<1>1. calls' \in Seq(ReplyFor(DOMAIN intervals))
  BY ReplyAdded DEF GetSession
<1>2. /\ ttl' \in 0 .. Duration /\ row' = row /\ handler' = handler /\ announced' = announced
      /\ elapsed' \in BOOLEAN /\ inbox' \subseteq Instances
  <2>1. CASE UNCHANGED <<redis, expiry>>
    BY <2>1 DEF redis, expiry, TypeOK
  <2>2. CASE Expire
    BY <2>2, ExamGatewayAssumption DEF Expire, TypeOK
  <2> QED BY <2>1, <2>2 DEF GetSession
<1>3. intervals' = intervals
  BY DEF timers
<1>4. calls' \in Seq(ReplyFor(DOMAIN intervals'))
  BY <1>1, <1>3
<1> QED BY <1>2, <1>4 DEF TypeOK, ReplyFor, timers

LEMMA TypeStep ==
    ASSUME TypeOK, [Next]_vars
    PROVE  TypeOK'
<1>1. /\ intervals \in Seq(Interval) /\ calls \in Seq(ReplyFor(DOMAIN intervals))
      /\ ttl \in 0 .. Duration /\ Duration \in Nat \ {0}
      /\ handler \in [Instances -> {"idle", "expire_write", "expire_grace"}]
      /\ sent \in [Thresholds -> Nat] /\ faults \in Nat /\ joining \in Nat
  BY ExamGatewayAssumption DEF TypeOK, Interval, ReplyFor
<1>2. ASSUME JoinSession PROVE TypeOK'
  <2>1. JoinReply(ttl > 0) \in ReplyFor(DOMAIN intervals)
        /\ JoinReply(TRUE) \in ReplyFor(DOMAIN intervals)
    BY <1>1 DEF JoinReply, ReplyFor
  <2> QED BY <1>1, <1>2, <2>1, Asked DEF JoinSession
<1>3. ASSUME NEW n, Fire(n) PROVE TypeOK'
  <2>1. TickReply(n, ttl) \in ReplyFor(DOMAIN intervals)
        /\ TickReply(n, 0) \in ReplyFor(DOMAIN intervals)
    BY <1>1, <1>3 DEF TickReply, ReplyFor, Fire
  <2> QED BY <1>1, <1>3, <2>1, Asked DEF Fire
<1>4. ASSUME JoinRefused \/ JoinAccepted PROVE TypeOK'
  <2>1. calls # <<>> /\ Consume /\ intervals' = intervals
    BY <1>4 DEF JoinRefused, JoinAccepted, Replied, timers
  <2>2. calls' \in Seq(ReplyFor(DOMAIN intervals'))
    BY <2>1, ReplyTaken
  <2> QED BY <1>1, <1>4, <2>1, <2>2
          DEF JoinRefused, JoinAccepted, TypeOK, ReplyFor, redis, expiry, timers
<1>5. ASSUME Joined PROVE TypeOK'
  <2>1. CASE entry = 0
    <3>1. StartTimer BY <1>5, <2>1 DEF Joined
    <3>2. /\ intervals' \in Seq(Interval) /\ DOMAIN intervals \subseteq DOMAIN intervals'
          /\ entry' \in 0 .. Len(intervals') /\ sent' = sent
      BY <2>1, <3>1, TimersStarted
    <3>3. calls' \in Seq(ReplyFor(DOMAIN intervals'))
      BY <1>1, <1>5, <3>2, RepliesKept DEF Joined
    <3> QED BY <1>1, <1>5, <3>2, <3>3 DEF Joined, TypeOK, Interval, ReplyFor, redis, expiry
  <2>2. CASE entry # 0
    BY <1>1, <1>5, <2>2 DEF Joined, TypeOK, redis, expiry, timers
  <2> QED BY <2>1, <2>2
<1>6. ASSUME TickKeyGone PROVE TypeOK'
  <2>1. calls # <<>> /\ Consume /\ ClearTimer
    BY <1>6 DEF TickKeyGone, Replied
  <2>2. /\ intervals' \in Seq(Interval) /\ DOMAIN intervals' = DOMAIN intervals
        /\ entry' \in 0 .. Len(intervals') /\ sent' = sent
    <3>1. /\ intervals' \in Seq(Interval) /\ DOMAIN intervals' = DOMAIN intervals
          /\ entry' = 0 /\ sent' = sent
      BY <2>1, TimersCleared
    <3> QED BY <3>1, LenProperties
  <2>3. calls' \in Seq(ReplyFor(DOMAIN intervals'))
    BY <2>1, <2>2, ReplyTaken
  <2> QED BY <1>1, <1>6, <2>2, <2>3 DEF TickKeyGone, TypeOK, Interval, ReplyFor, redis, expiry
<1>7. ASSUME TickEmits PROVE TypeOK'
  <2> DEFINE n == Head(calls).timer
             w == intervals[n].warned \cup Due(n, Head(calls).pttl)
  <2>1. calls # <<>> /\ Consume /\ Head(calls).kind = "tick"
    BY <1>7 DEF TickEmits, Replied
  <2>2. n \in DOMAIN intervals
    BY <2>1, ReplyTaken DEF ReplyFor
  <2>3. intervals[n] \in Interval /\ DOMAIN intervals = 1 .. Len(intervals)
    BY <1>1, <2>2, ElementOfSeq, LenProperties
  <2>4. w \in SUBSET Thresholds
    BY <2>3 DEF Due, Interval
  <2>5. [intervals[n] EXCEPT !.warned = w] \in Interval
    BY <2>3, <2>4 DEF Interval
  <2>6. intervals' = [intervals EXCEPT ![n] = [intervals[n] EXCEPT !.warned = w]]
    BY <1>7 DEF TickEmits
  <2>7. intervals' \in Seq(Interval) /\ Len(intervals') = Len(intervals)
    <3> HIDE DEF w, n
    <3> QED BY <1>1, <2>2, <2>3, <2>5, <2>6, ExceptSeq
  <2>8. DOMAIN intervals' = DOMAIN intervals
    BY <2>3, <2>7, LenProperties
  <2>9. calls' \in Seq(ReplyFor(DOMAIN intervals'))
    BY <2>1, <2>8, ReplyTaken
  <2>10. sent' \in [Thresholds -> Nat]
    BY <1>1, <1>7 DEF TickEmits
  <2> QED BY <1>1, <1>7, <2>7, <2>9, <2>10 DEF TickEmits, TypeOK, Interval, ReplyFor, redis, expiry
<1>8. ASSUME NEW i \in Instances, HandleSessionExpiry(i) \/ ExpireWrite(i) PROVE TypeOK'
  BY <1>1, <1>8 DEF HandleSessionExpiry, ExpireWrite, TypeOK, redis, timers
<1>9. ASSUME NEW i \in Instances, EmitSessionExpired(i) PROVE TypeOK'
  <2>1. /\ intervals' \in Seq(Interval) /\ DOMAIN intervals' = DOMAIN intervals
        /\ entry' \in 0 .. Len(intervals') /\ sent' = sent
    <3>1. CASE i = Here
      <4>1. /\ intervals' \in Seq(Interval) /\ DOMAIN intervals' = DOMAIN intervals
            /\ entry' = 0 /\ sent' = sent
        BY <1>9, <3>1, TimersCleared DEF EmitSessionExpired
      <4> QED BY <4>1, LenProperties
    <3>2. CASE i # Here
      BY <1>1, <1>9, <3>2 DEF EmitSessionExpired, TypeOK, timers
    <3> QED BY <3>1, <3>2
  <2> QED BY <1>1, <1>9, <2>1 DEF EmitSessionExpired, TypeOK, Interval, redis
<1>10. ASSUME Clock PROVE TypeOK'
  <2>1. CASE Elapse
    BY <1>1, <2>1 DEF Elapse, TypeOK, expiry, timers
  <2>2. CASE KeyExpires
    BY <1>1, <2>2 DEF KeyExpires, Expire, TypeOK, timers
  <2> QED BY <1>10, <2>1, <2>2 DEF Clock
<1>11. ASSUME Submit \/ DeleteSession PROVE TypeOK'
  BY <1>1, <1>11 DEF Submit, DeleteSession, TypeOK, expiry, timers
<1>12. ASSUME CallFails PROVE TypeOK'
  <2>1. calls # <<>> /\ Consume /\ intervals' = intervals
    BY <1>12 DEF CallFails, timers
  <2>2. calls' \in Seq(ReplyFor(DOMAIN intervals'))
    BY <2>1, ReplyTaken
  <2> QED BY <1>1, <1>12, <2>1, <2>2 DEF CallFails, Fault, TypeOK, ReplyFor, redis, expiry, timers
<1>13. ASSUME Crash PROVE TypeOK'
  <2>1. /\ intervals' = <<>> /\ calls' = <<>> /\ entry' = 0
        /\ intervals' \in Seq(Interval) /\ calls' \in Seq(ReplyFor(DOMAIN intervals'))
        /\ entry' \in 0 .. Len(intervals')
    BY <1>13, EmptySeq DEF Crash
  <2>2. /\ ttl' \in 0 .. Duration /\ row' = row /\ elapsed' = elapsed /\ announced' = announced
        /\ inbox' \subseteq Instances /\ joining' \in Nat /\ faults' \in Nat
        /\ sent' \in [Thresholds -> Nat]
    BY <1>1, <1>13 DEF Crash, Fault, TypeOK, redis
  <2>3. handler' \in [Instances -> {"idle", "expire_write", "expire_grace"}]
    BY <1>1, <1>13 DEF Crash
  <2> QED BY <2>1, <2>2, <2>3 DEF TypeOK, Interval, ReplyFor
<1>14. ASSUME NEW i \in Instances, ExpiryLost(i) PROVE TypeOK'
  BY <1>1, <1>14 DEF ExpiryLost, Fault, TypeOK, redis, timers
<1>15. ASSUME UNCHANGED vars PROVE TypeOK'
  BY <1>15 DEF vars, redis, expiry, timers, TypeOK
<1> QED
  BY <1>2, <1>3, <1>4, <1>5, <1>6, <1>7, <1>8, <1>9, <1>10, <1>11, <1>12, <1>13, <1>14, <1>15
     DEF Next, Resume, Handle, Fires, Failure

\* ExamGateway!TypeOK.
THEOREM TypesKept == Spec => []TypeOK
<1>1. Init => TypeOK
  <2> SUFFICES ASSUME Init PROVE TypeOK
    OBVIOUS
  <2>1. /\ intervals \in Seq(Interval) /\ calls \in Seq(ReplyFor(DOMAIN intervals))
        /\ entry \in 0 .. Len(intervals)
    BY EmptySeq DEF Init
  <2>2. /\ ttl \in 0 .. Duration /\ joining \in Nat /\ faults \in Nat
        /\ sent \in [Thresholds -> Nat]
    BY ExamGatewayAssumption DEF Init
  <2>3. /\ row \in {"active", "expired", "submitted"} /\ inbox \subseteq Instances
        /\ handler \in [Instances -> {"idle", "expire_write", "expire_grace"}]
        /\ elapsed \in BOOLEAN /\ announced \in BOOLEAN
    BY DEF Init
  <2> QED BY <2>1, <2>2, <2>3 DEF TypeOK, Interval, ReplyFor
<1> QED BY <1>1, TypeStep, PTL DEF Spec

-----------------------------------------------------------------------------
(* One interval per instance.                                              *)

\* The only steps that touch the timers.
LEMMA TimerSteps ==
    ASSUME [Next]_vars
    PROVE  \/ Joined /\ entry = 0 /\ StartTimer
           \/ ClearTimer /\ (TickKeyGone \/ EmitSessionExpired(Here))
           \/ TickEmits
           \/ Crash
           \/ UNCHANGED timers
<1>1. ASSUME Joined PROVE (entry = 0 /\ StartTimer) \/ UNCHANGED timers
  BY <1>1 DEF Joined
<1>2. ASSUME TickKeyGone PROVE ClearTimer
  BY <1>2 DEF TickKeyGone
<1>3. ASSUME NEW i \in Instances, EmitSessionExpired(i)
      PROVE  (ClearTimer /\ EmitSessionExpired(Here)) \/ UNCHANGED timers
  BY <1>3 DEF EmitSessionExpired
<1>4. ASSUME \/ JoinSession \/ JoinRefused \/ JoinAccepted \/ Fires
             \/ (\E i \in Instances : HandleSessionExpiry(i) \/ ExpireWrite(i) \/ ExpiryLost(i))
             \/ Clock \/ Submit \/ DeleteSession \/ CallFails \/ UNCHANGED vars
      PROVE  UNCHANGED timers
  BY <1>4 DEF JoinSession, JoinRefused, JoinAccepted, Fires, Fire, HandleSessionExpiry,
              ExpireWrite, ExpiryLost, Clock, Elapse, KeyExpires, Submit, DeleteSession,
              CallFails, vars
<1> QED
  BY <1>1, <1>2, <1>3, <1>4 DEF Next, Resume, Handle, Failure

\* What TickEmits does to the intervals.
LEMMA TickWarns ==
    ASSUME TypeOK, TickEmits
    PROVE  /\ DOMAIN intervals = 1 .. Len(intervals) /\ DOMAIN intervals' = DOMAIN intervals
           /\ Len(intervals') = Len(intervals) /\ Len(intervals) \in Nat
           /\ entry' = entry
           /\ Head(calls).timer \in DOMAIN intervals
           /\ Head(calls).pttl \in 0 .. Duration
           /\ \A m \in DOMAIN intervals :
                  /\ intervals[m] \in Interval
                  /\ intervals'[m].live = intervals[m].live
                  /\ intervals'[m].warned =
                         IF m = Head(calls).timer
                         THEN intervals[m].warned \cup Due(m, Head(calls).pttl)
                         ELSE intervals[m].warned
<1> DEFINE n == Head(calls).timer
           e == [intervals[n] EXCEPT !.warned = intervals[n].warned \cup Due(n, Head(calls).pttl)]
<1>1. calls # <<>> /\ Consume /\ Head(calls).kind = "tick"
  BY DEF TickEmits, Replied
<1>2. n \in DOMAIN intervals /\ Head(calls).pttl \in 0 .. Duration
  BY <1>1, ReplyTaken DEF ReplyFor
<1>3. intervals \in Seq(Interval)
  BY DEF TypeOK, Interval
<1>4. DOMAIN intervals = 1 .. Len(intervals) /\ Len(intervals) \in Nat
  BY <1>3, LenProperties
<1>5. \A m \in DOMAIN intervals : intervals[m] \in Interval
  BY <1>3, <1>4, ElementOfSeq
<1>6. e \in Interval /\ e.live = intervals[n].live
      /\ e.warned = intervals[n].warned \cup Due(n, Head(calls).pttl)
  BY <1>2, <1>5 DEF Interval, Due
<1>7. intervals' = [intervals EXCEPT ![n] = e]
  BY DEF TickEmits
<1>8. /\ intervals' \in Seq(Interval) /\ Len(intervals') = Len(intervals)
      /\ \A m \in 1 .. Len(intervals) : intervals'[m] = IF m = n THEN e ELSE intervals[m]
  <2> HIDE DEF e, n
  <2> QED BY <1>2, <1>3, <1>4, <1>6, <1>7, ExceptSeq
<1>9. DOMAIN intervals' = DOMAIN intervals
  BY <1>4, <1>8, LenProperties
<1>10. entry' = entry
  BY DEF TickEmits
<1>11. \A m \in DOMAIN intervals :
           /\ intervals'[m].live = intervals[m].live
           /\ intervals'[m].warned = IF m = n THEN intervals[m].warned \cup Due(m, Head(calls).pttl)
                                     ELSE intervals[m].warned
  <2> HIDE DEF e
  <2> QED BY <1>4, <1>6, <1>8
<1> QED BY <1>2, <1>4, <1>5, <1>8, <1>9, <1>10, <1>11

LEMMA OrphanStep ==
    ASSUME TypeOK, NoOrphanInterval, [Next]_vars
    PROVE  NoOrphanInterval'
<1> USE DEF NoOrphanInterval
<1>1. CASE Joined /\ entry = 0 /\ StartTimer
  BY <1>1, TimersStarted
<1>2. CASE ClearTimer
  BY <1>2, TimersCleared
<1>3. CASE TickEmits
  BY <1>3, TickWarns
<1>4. CASE Crash
  <2>1. intervals' = <<>> /\ entry' = 0 /\ DOMAIN intervals' = {}
    BY <1>4 DEF Crash
  <2> QED BY <2>1
<1>5. CASE UNCHANGED timers
  BY <1>5 DEF timers
<1> QED BY <1>1, <1>2, <1>3, <1>4, <1>5, TimerSteps

\* "one timer per active exam session": an instance never runs an interval its
\* map does not hold, however joins, ticks, expiries and crashes interleave.
THEOREM OneTimer == Spec => []NoOrphanInterval
<1>1. Init => NoOrphanInterval
  <2>1. DOMAIN <<>> = {}
    OBVIOUS
  <2> QED BY <2>1 DEF Init, NoOrphanInterval
<1>2. TypeOK /\ NoOrphanInterval /\ [Next]_vars => NoOrphanInterval'
  BY OrphanStep
<1> QED BY <1>1, <1>2, TypesKept, PTL DEF Spec

-----------------------------------------------------------------------------
(* Warnings.  Only the first interval of a process ever warns: another one *)
(* is started when the first was cleared, which happens when the key is    *)
(* gone, and what it then asks Redis is answered with no time left.        *)

\* A tick's reply says truly that the key is gone, and is the first interval's
\* if it says that it is not.
RepliesSound ==
    \A k \in DOMAIN calls : calls[k].kind = "tick" =>
        /\ calls[k].pttl = 0 => ttl = 0
        /\ calls[k].pttl > 0 => calls[k].timer = 1

\* Whoever handles the expiry does so after it.
ExpiryIsOver ==
    \A i \in Instances : i \in inbox \/ handler[i] # "idle" => ttl = 0

\* A timer is cleared, and another one started, only when the key is gone.
FirstUntilEnd == Len(intervals) > 1 \/ (Len(intervals) = 1 /\ entry = 0) => ttl = 0

\* What was emitted is what the first interval warned of, longest time first.
SentByFirst ==
    \A t \in Thresholds :
        sent[t] = IF Len(intervals) > 0 /\ t \in intervals[1].warned THEN 1 ELSE 0

LongestFirst ==
    Len(intervals) > 0 =>
        \A t, u \in Thresholds : t > u /\ u \in intervals[1].warned => t \in intervals[1].warned

WarnInv == RepliesSound /\ ExpiryIsOver /\ FirstUntilEnd /\ SentByFirst /\ LongestFirst

\* The countdown never starts again.
LEMMA StaysOver ==
    ASSUME TypeOK, [Next]_vars, ttl = 0
    PROVE  ttl' = 0
<1>1. ASSUME NEW reply, NEW final, GetSession(reply, final) PROVE ttl' = 0
  BY <1>1 DEF GetSession, Expire, redis
<1>2. ASSUME JoinSession \/ Fires PROVE ttl' = 0
  BY <1>1, <1>2 DEF JoinSession, Fires, Fire
<1>3. ASSUME Clock PROVE ttl' = 0
  BY <1>3 DEF Clock, Elapse, KeyExpires, Expire
<1>4. ASSUME Submit \/ DeleteSession PROVE ttl' = 0
  BY <1>4 DEF Submit, DeleteSession
<1>5. ASSUME \/ Resume \/ Joined \/ UNCHANGED vars \/ CallFails \/ Crash
             \/ \E i \in Instances : Handle(i) \/ ExpiryLost(i)
      PROVE  ttl' = 0
  BY <1>5 DEF Resume, JoinRefused, JoinAccepted, TickKeyGone, TickEmits, Joined, vars, redis,
              CallFails, Crash, Handle, HandleSessionExpiry, ExpireWrite, EmitSessionExpired,
              ExpiryLost
<1> QED BY <1>2, <1>3, <1>4, <1>5 DEF Next, Failure

\* The countdown's end as GetSession or the clock sees it.
LEMMA ExpiryStep ==
    ASSUME TypeOK, ExpiryIsOver, [Next]_vars
    PROVE  ExpiryIsOver'
<1> USE StaysOver DEF ExpiryIsOver
<1>1. ASSUME UNCHANGED expiry PROVE ExpiryIsOver'
  BY <1>1 DEF expiry
<1>2. ASSUME Expire PROVE ExpiryIsOver'
  BY <1>2 DEF Expire
<1>3. ASSUME NEW reply, NEW final, GetSession(reply, final) PROVE ExpiryIsOver'
  BY <1>1, <1>2, <1>3 DEF GetSession
<1>4. ASSUME JoinSession \/ Fires PROVE ExpiryIsOver'
  BY <1>3, <1>4 DEF JoinSession, Fires, Fire
<1>5. ASSUME NEW i \in Instances, Handle(i) \/ ExpiryLost(i) PROVE ExpiryIsOver'
  <2>1. \A j \in Instances : j \in inbox' \/ handler'[j] # "idle" => j \in inbox \/ handler[j] # "idle"
    BY <1>5 DEF Handle, HandleSessionExpiry, ExpireWrite, EmitSessionExpired, ExpiryLost, TypeOK
  <2> QED BY <2>1
<1>6. ASSUME Crash PROVE ExpiryIsOver'
  <2>1. \A j \in Instances : j \in inbox' \/ handler'[j] # "idle" => j \in inbox \/ handler[j] # "idle"
    BY <1>6 DEF Crash, TypeOK
  <2> QED BY <2>1
<1>7. ASSUME \/ Resume \/ Joined \/ UNCHANGED vars \/ CallFails \/ Elapse \/ Submit \/ DeleteSession
      PROVE  ExpiryIsOver'
  BY <1>1, <1>7 DEF Resume, JoinRefused, JoinAccepted, TickKeyGone, TickEmits, Joined, vars,
              CallFails, Elapse, Submit, DeleteSession
<1>8. ASSUME KeyExpires PROVE ExpiryIsOver'
  BY <1>2, <1>8 DEF KeyExpires
<1> QED BY <1>4, <1>5, <1>6, <1>7, <1>8 DEF Next, Failure, Clock

\* A reply joins the queue, leaves it, or the queue is as it was.
LEMMA RepliesStep ==
    ASSUME TypeOK, NoOrphanInterval, RepliesSound, FirstUntilEnd, [Next]_vars
    PROVE  RepliesSound'
<1> USE StaysOver DEF RepliesSound
<1>1. ASSUME calls' = calls PROVE RepliesSound'
  BY <1>1
<1>2. ASSUME calls # <<>>, Consume PROVE RepliesSound'
  BY <1>2, ReplyTaken
<1>3. ASSUME Crash PROVE RepliesSound'
  <2>1. calls' = <<>> /\ DOMAIN calls' = {}
    BY <1>3 DEF Crash
  <2> QED BY <2>1
<1>4. ASSUME NEW reply \in ReplyFor(DOMAIN intervals), calls' = Append(calls, reply),
             reply.kind = "tick" => /\ reply.pttl = 0 => ttl' = 0
                                    /\ reply.pttl > 0 => reply.timer = 1
      PROVE  RepliesSound'
  <2>1. /\ DOMAIN calls' = 1 .. Len(calls) + 1 /\ calls'[Len(calls) + 1] = reply
        /\ \A k \in 1 .. Len(calls) : calls'[k] = calls[k]
    BY <1>4, ReplyAdded
  <2>2. DOMAIN calls = 1 .. Len(calls) /\ Len(calls) \in Nat
    BY LenProperties DEF TypeOK
  <2>3. \A k \in DOMAIN calls' : k \in DOMAIN calls \/ k = Len(calls) + 1
    BY <2>1, <2>2
  <2> QED BY <1>4, <2>1, <2>2, <2>3
<1>5. ASSUME JoinSession PROVE RepliesSound'
  <2>1. \A found \in BOOLEAN : /\ JoinReply(found) \in ReplyFor(DOMAIN intervals)
                               /\ JoinReply(found).kind # "tick"
    BY DEF JoinReply, ReplyFor
  <2>2. (ttl > 0) \in BOOLEAN
    BY DEF TypeOK
  <2>3. \E found \in BOOLEAN : calls' = Append(calls, JoinReply(found))
    BY <1>5, <2>2 DEF JoinSession, GetSession
  <2> QED BY <1>4, <2>1, <2>3
<1>6. ASSUME NEW n, Fire(n) PROVE RepliesSound'
  <2>1. /\ n \in DOMAIN intervals /\ intervals[n].live
        /\ DOMAIN intervals = 1 .. Len(intervals) /\ Len(intervals) \in Nat
        /\ ttl \in 0 .. Duration /\ Duration \in Nat
    BY <1>6, LenProperties, ExamGatewayAssumption DEF Fire, TypeOK
  <2>2. ttl > 0 => n = 1
    BY <2>1 DEF NoOrphanInterval, FirstUntilEnd
  <2>3. /\ TickReply(n, ttl) \in ReplyFor(DOMAIN intervals)
        /\ TickReply(n, 0) \in ReplyFor(DOMAIN intervals)
    BY <2>1 DEF TickReply, ReplyFor
  <2>4. \/ calls' = Append(calls, TickReply(n, ttl)) /\ ttl' = ttl
        \/ calls' = Append(calls, TickReply(n, 0)) /\ ttl' = 0
    BY <1>6 DEF Fire, GetSession, Expire, redis
  <2> QED BY <1>4, <2>1, <2>2, <2>3, <2>4 DEF TickReply
<1>7. ASSUME Resume \/ CallFails PROVE RepliesSound'
  BY <1>2, <1>7 DEF Resume, JoinRefused, JoinAccepted, TickKeyGone, TickEmits, Replied, CallFails
<1>8. ASSUME \/ Joined \/ Clock \/ Submit \/ DeleteSession \/ UNCHANGED vars
             \/ \E i \in Instances : Handle(i) \/ ExpiryLost(i)
      PROVE  RepliesSound'
  BY <1>1, <1>8 DEF Joined, Clock, Elapse, KeyExpires, Submit, DeleteSession, vars, Handle,
              HandleSessionExpiry, ExpireWrite, EmitSessionExpired, ExpiryLost
<1> QED BY <1>3, <1>5, <1>6, <1>7, <1>8 DEF Next, Fires, Failure

\* A cleared timer had its reason.
LEMMA ClearedAtEnd ==
    ASSUME TypeOK, RepliesSound, ExpiryIsOver, TickKeyGone \/ EmitSessionExpired(Here)
    PROVE  ttl = 0
<1>1. CASE TickKeyGone
  <2>1. calls # <<>> /\ Consume /\ Head(calls).kind = "tick" /\ Head(calls).pttl = 0
    BY <1>1 DEF TickKeyGone, Replied
  <2>2. Head(calls) = calls[1] /\ 1 \in DOMAIN calls
    BY <2>1, ReplyTaken
  <2> QED BY <2>1, <2>2 DEF RepliesSound
<1>2. CASE EmitSessionExpired(Here)
  BY <1>2, ExamGatewayAssumption DEF EmitSessionExpired, ExpiryIsOver
<1> QED BY <1>1, <1>2

LEMMA FirstStep ==
    ASSUME TypeOK, RepliesSound, ExpiryIsOver, FirstUntilEnd, [Next]_vars
    PROVE  FirstUntilEnd'
<1> USE StaysOver DEF FirstUntilEnd
<1>1. CASE Joined /\ entry = 0 /\ StartTimer
  BY <1>1, TimersStarted
<1>2. CASE ClearTimer /\ (TickKeyGone \/ EmitSessionExpired(Here))
  BY <1>2, ClearedAtEnd
<1>3. CASE TickEmits
  BY <1>3, TickWarns
<1>4. CASE Crash
  <2>1. Len(intervals') = 0
    BY <1>4 DEF Crash
  <2> QED BY <2>1
<1>5. CASE UNCHANGED timers
  BY <1>5 DEF timers
<1> QED BY <1>1, <1>2, <1>3, <1>4, <1>5, TimerSteps

\* The reply that makes a timer warn is the first interval's.
LEMMA FirstWarns ==
    ASSUME TypeOK, RepliesSound, TickEmits
    PROVE  Head(calls).timer = 1 /\ Len(intervals) > 0
<1>1. calls # <<>> /\ Consume /\ Head(calls).kind = "tick" /\ Head(calls).pttl > 0
  BY DEF TickEmits, Replied
<1>2. Head(calls) = calls[1] /\ 1 \in DOMAIN calls
  BY <1>1, ReplyTaken
<1>3. Head(calls).timer = 1
  BY <1>1, <1>2 DEF RepliesSound
<1> QED BY <1>3, TickWarns

LEMMA SentStep ==
    ASSUME TypeOK, RepliesSound, SentByFirst, LongestFirst, [Next]_vars
    PROVE  SentByFirst' /\ LongestFirst'
<1> USE DEF SentByFirst, LongestFirst
<1>1. CASE Joined /\ entry = 0 /\ StartTimer
  <2>1. /\ DOMAIN intervals = 1 .. Len(intervals) /\ Len(intervals) \in Nat
        /\ Len(intervals') = Len(intervals) + 1 /\ sent' = sent
        /\ Len(intervals) > 0 => intervals'[1] = intervals[1]
        /\ Len(intervals) = 0 => intervals'[1].warned = {}
    BY <1>1, TimersStarted
  <2> QED BY <2>1
<1>2. CASE ClearTimer
  <2>1. /\ Len(intervals') = Len(intervals) /\ sent' = sent
        /\ Len(intervals) > 0 => intervals'[1].warned = intervals[1].warned
    BY <1>2, TimersCleared, LenProperties DEF TypeOK
  <2> QED BY <2>1
<1>3. CASE TickEmits
  <2> DEFINE left == Head(calls).pttl
  <2>1. /\ Head(calls).timer = 1 /\ Len(intervals) > 0
        /\ Len(intervals') = Len(intervals) /\ left \in 0 .. Duration
        /\ intervals'[1].warned = intervals[1].warned \cup Due(1, left)
    BY <1>3, FirstWarns, TickWarns
  <2>2. \A t \in Thresholds :
            t \in intervals'[1].warned <=> left <= t \/ t \in intervals[1].warned
    BY <2>1 DEF Due
  <2>3. \A t \in Thresholds : sent'[t] = IF t \in Due(1, left) THEN sent[t] + 1 ELSE sent[t]
    BY <1>3, <2>1 DEF TickEmits
  <2>4. SentByFirst'
    BY <2>1, <2>3 DEF Due
  <2>5. LongestFirst'
    BY <2>1, <2>2, ExamGatewayAssumption
  <2> QED BY <2>4, <2>5
<1>4. CASE Crash
  <2>1. Len(intervals') = 0 /\ \A t \in Thresholds : sent'[t] = 0
    BY <1>4 DEF Crash
  <2> QED BY <2>1
<1>5. CASE UNCHANGED timers
  BY <1>5 DEF timers
<1> QED BY <1>1, <1>2, <1>3, <1>4, <1>5, TimerSteps

\* warnedThresholds: an instance emits each warning once at most, and the ten
\* minute one no later than the five minute one, whatever the students, Redis
\* and the other instances do.
THEOREM WarningsOnce == Spec => []WarnedOnceInOrder
<1>1. Init => WarnInv
  <2>1. Len(<<>>) = 0 /\ DOMAIN <<>> = {}
    OBVIOUS
  <2> QED BY <2>1 DEF Init, WarnInv, RepliesSound, ExpiryIsOver, FirstUntilEnd, SentByFirst,
                      LongestFirst
<1>2. TypeOK /\ NoOrphanInterval /\ WarnInv /\ [Next]_vars => WarnInv'
  BY RepliesStep, ExpiryStep, FirstStep, SentStep DEF WarnInv
<1>3. WarnInv => WarnedOnceInOrder
  BY DEF WarnInv, SentByFirst, LongestFirst, WarnedOnceInOrder
<1> QED BY <1>1, <1>2, <1>3, TypesKept, OneTimer, PTL DEF Spec
=============================================================================
