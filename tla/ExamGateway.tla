----------------------------- MODULE ExamGateway -----------------------------
(***************************************************************************)
(* ExamGateway: the WebSocket side of ONE exam session.  Every application *)
(* instance keeps a map from sessions to setInterval timers; a timer asks  *)
(* Redis for the remaining time every 30 s and emits timer_tick and        *)
(* warning to the session's room, and ExamKeyspaceHandler emits            *)
(* session_expired when the key has expired.  Timers, keys and rooms of    *)
(* other sessions are disjoint from these.                                 *)
(*                                                                         *)
(* The timers and calls modelled are those of ONE instance, Here; another  *)
(* instance shares with it the row, the key and the notification, so only  *)
(* its keyspace handler is kept.                                           *)
(*                                                                         *)
(* An instance talks to Redis over one connection, so replies come in      *)
(* the order the commands were sent (calls, oldest first), each with       *)
(* what Redis held when it executed the command and possibly much later.   *)
(* A command Redis executes late is one the instance sent late: nothing    *)
(* but the reply depends on when it was sent.                              *)
(*                                                                         *)
(* Time is counted in warning bands: ttl is the number of bands the        *)
(* countdown still has to go through, 0 once the key is gone.              *)
(***************************************************************************)
EXTENDS Naturals, Sequences, FiniteSets

CONSTANTS
    Instances,   \* application processes
    Here,        \* the one whose timers are modelled
    Duration,    \* the countdown of the session, in bands
    Thresholds,  \* WARNING_THRESHOLDS, in bands
    MaxTicks,    \* bound on the ticks of one interval that wait for Redis
    MaxJoins,    \* bound on the join_session calls in flight
    MaxFaults    \* bound on crashes, failed calls and lost notifications

ASSUME ExamGatewayAssumption ==
    /\ Duration \in Nat \ {0}
    /\ Thresholds \subseteq 1 .. Duration
    /\ Here \in Instances
    /\ MaxTicks \in Nat \ {0}
    /\ MaxFaults \in Nat
    /\ MaxJoins \in Nat \ {0}

VARIABLES
    ttl,         \* exam:session:{id}: the bands left, 0 when there is no key
    row,         \* the status of the test_sessions row
    inbox,       \* instances an expiry notification is on its way to
    handler,     \* where each instance's ExamKeyspaceHandler is
    joining,     \* join_sessions that await socket.join
    calls,       \* replies of getSession on their way
    intervals,   \* the setIntervals the process has created, in order
    entry,       \* timers.get(sessionId): an index into intervals, or 0
    \* bookkeeping of the specification, read by no guard but the bound
    elapsed,     \* the countdown has reached zero
    sent,        \* how often each warning was emitted
    announced,   \* session_expired has been emitted
    faults

redis   == <<ttl, row, elapsed>>
expiry  == <<inbox, handler, announced>>
timers  == <<intervals, entry, sent>>
vars    == <<redis, expiry, timers, joining, calls, faults>>

\* What the caller uses of the reply to its getSession: join_session whether
\* GET found the key, a tick of timer n what PTTL returned.
JoinReply(found)   == [kind |-> "join", found |-> found]
TickReply(n, left) == [kind |-> "tick", timer |-> n, pttl |-> left]

Fault == faults < MaxFaults /\ faults' = faults + 1

\* startExam has set the key and answered; nobody is connected yet.
Init ==
    /\ ttl = Duration
    /\ row = "active"
    /\ elapsed = FALSE
    /\ inbox = {}
    /\ handler = [i \in Instances |-> "idle"]
    /\ announced = FALSE
    /\ joining = 0
    /\ calls = <<>>
    /\ intervals = <<>>
    /\ entry = 0
    /\ sent = [t \in Thresholds |-> 0]
    /\ faults = 0

-----------------------------------------------------------------------------
(* getSession: GET and PTTL in one pipeline.                               *)

\* The countdown reaches zero: the key goes and every subscribed instance is
\* notified.
Expire ==
    /\ ttl = 1
    /\ ttl' = 0
    /\ elapsed' = TRUE
    /\ inbox' = Instances
    /\ UNCHANGED <<row, handler, announced>>

\* GET and PTTL are executed together, or the countdown ends between the two
\* and the reply is the second one.
GetSession(reply, replyAtExpiry) ==
    \/ /\ calls' = Append(calls, reply)
       /\ UNCHANGED <<redis, expiry>>
    \/ /\ Expire
       /\ calls' = Append(calls, replyAtExpiry)

\* The oldest reply has arrived.
Replied(kind) == calls # <<>> /\ Head(calls).kind = kind

Consume == calls' = Tail(calls)

-----------------------------------------------------------------------------
(* join_session.                                                           *)

JoinsInFlight == joining + Cardinality({n \in DOMAIN calls : calls[n].kind = "join"})

\* A connection of the session's owner sends join_session, as often as it
\* likes.  A connection the JWT middleware of afterInit turned away sends
\* nothing, one of another user is refused after the getSession and changes
\* nothing, and handleDisconnect only logs.
JoinSession ==
    /\ JoinsInFlight < MaxJoins
    /\ GetSession(JoinReply(ttl > 0), JoinReply(TRUE))
    /\ UNCHANGED <<timers, joining, faults>>

\* No session: WsException.
JoinRefused ==
    /\ Replied("join")
    /\ ~Head(calls).found
    /\ Consume
    /\ UNCHANGED <<redis, expiry, timers, joining, faults>>

\* The ownership check passes; socket.join(room) is awaited.
JoinAccepted ==
    /\ Replied("join")
    /\ Head(calls).found
    /\ Consume
    /\ joining' = joining + 1
    /\ UNCHANGED <<redis, expiry, timers, faults>>

NewInterval == [live |-> TRUE, warned |-> {}]

StartTimer ==
    /\ intervals' = Append(intervals, NewInterval)
    /\ entry' = Len(intervals) + 1
    /\ UNCHANGED sent

\* Mutant: the timer is started without looking at the map again.
JoinedStartsAlways ==
    /\ joining > 0
    /\ joining' = joining - 1
    /\ StartTimer
    /\ UNCHANGED <<redis, expiry, calls, faults>>

\* socket.join has put it in the room; the first subscriber in this instance
\* starts the timer.
Joined ==
    /\ joining > 0
    /\ joining' = joining - 1
    /\ IF entry = 0 THEN StartTimer ELSE UNCHANGED timers
    /\ UNCHANGED <<redis, expiry, calls, faults>>

-----------------------------------------------------------------------------
(* The timer.                                                              *)

IsTick(call, n) == call.kind = "tick" /\ call.timer = n

\* setInterval runs its callback, which asks for the remaining time.
Fire(n) ==
    /\ n \in DOMAIN intervals
    /\ intervals[n].live
    /\ Cardinality({m \in DOMAIN calls : IsTick(calls[m], n)}) < MaxTicks
    /\ GetSession(TickReply(n, ttl), TickReply(n, 0))
    /\ UNCHANGED <<timers, joining, faults>>

\* clearTimer(sessionId): whichever interval the map holds now.
ClearTimer ==
    /\ entry' = 0
    /\ intervals' = IF entry = 0 THEN intervals
                    ELSE [intervals EXCEPT ![entry].live = FALSE]
    /\ UNCHANGED sent

\* Mutant: the callback returns and leaves the interval running.
TickKeyGoneReturns ==
    /\ Replied("tick")
    /\ Head(calls).pttl = 0
    /\ Consume
    /\ UNCHANGED <<redis, expiry, timers, joining, faults>>

\* pttl <= 0.
TickKeyGone ==
    /\ Replied("tick")
    /\ Head(calls).pttl = 0
    /\ Consume
    /\ ClearTimer
    /\ UNCHANGED <<redis, expiry, joining, faults>>

\* Mutant: a threshold is not remembered.
WarnedNow(n, left) == {t \in Thresholds : left <= t}

\* The thresholds reached that this timer has not warned of.
Due(n, left) == {t \in Thresholds : left <= t} \ intervals[n].warned

\* Mutant: warnedThresholds.add(remainingSeconds).
TickEmitsRemembersTime ==
    LET n == Head(calls).timer
        left == Head(calls).pttl
        due == Due(n, left)
    IN
    /\ Replied("tick")
    /\ left > 0
    /\ Consume
    /\ intervals' = [intervals EXCEPT ![n].warned = IF due = {} THEN @ ELSE @ \cup {left}]
    /\ sent' = [t \in Thresholds |-> IF t \in due THEN sent[t] + 1 ELSE sent[t]]
    /\ UNCHANGED <<redis, expiry, entry, joining, faults>>

\* timer_tick is emitted, then a warning for every threshold that is due.
TickEmits ==
    LET n == Head(calls).timer
        due == Due(n, Head(calls).pttl)
    IN
    /\ Replied("tick")
    /\ Head(calls).pttl > 0
    /\ Consume
    /\ intervals' = [intervals EXCEPT ![n].warned = @ \cup due]
    /\ sent' = [t \in Thresholds |-> IF t \in due THEN sent[t] + 1 ELSE sent[t]]
    /\ UNCHANGED <<redis, expiry, entry, joining, faults>>

-----------------------------------------------------------------------------
(* The countdown, the submit and the expiry handler.                       *)

\* A band of the countdown goes by.
Elapse ==
    /\ ttl > 1
    /\ ttl' = ttl - 1
    /\ UNCHANGED <<row, elapsed, expiry, timers, joining, calls, faults>>

KeyExpires ==
    /\ Expire
    /\ UNCHANGED <<timers, joining, calls, faults>>

\* submitExam, or a late submit: the row first, the key afterwards.
Submit ==
    /\ row \in {"active", "expired"}
    /\ row' = "submitted"
    /\ UNCHANGED <<ttl, elapsed, expiry, timers, joining, calls, faults>>

DeleteSession ==
    /\ row = "submitted"
    /\ ttl > 0
    /\ ttl' = 0
    /\ UNCHANGED <<row, elapsed, expiry, timers, joining, calls, faults>>

\* handleSessionExpiry reads the row.
HandleSessionExpiry(i) ==
    /\ i \in inbox
    /\ handler[i] = "idle"
    /\ inbox' = inbox \ {i}
    /\ handler' = [handler EXCEPT ![i] = IF row = "active" THEN "expire_write" ELSE "idle"]
    /\ UNCHANGED <<redis, announced, timers, joining, calls, faults>>

ExpireWrite(i) ==
    /\ handler[i] = "expire_write"
    /\ row' = "expired"
    /\ handler' = [handler EXCEPT ![i] = "expire_grace"]
    /\ UNCHANGED <<ttl, elapsed, inbox, announced, timers, joining, calls, faults>>

\* Mutant: the grace window opens and nobody is told.
OpenGraceSilently(i) ==
    /\ handler[i] = "expire_grace"
    /\ handler' = [handler EXCEPT ![i] = "idle"]
    /\ IF i = Here THEN ClearTimer ELSE UNCHANGED timers
    /\ UNCHANGED <<redis, inbox, announced, joining, calls, faults>>

\* startGrace, then emitSessionExpired: the room is told, through whichever
\* instance, and the timer of the emitting instance is cleared.
EmitSessionExpired(i) ==
    /\ handler[i] = "expire_grace"
    /\ handler' = [handler EXCEPT ![i] = "idle"]
    /\ announced' = TRUE
    /\ IF i = Here THEN ClearTimer ELSE UNCHANGED timers
    /\ UNCHANGED <<redis, inbox, joining, calls, faults>>

-----------------------------------------------------------------------------
(* Faults.                                                                 *)

\* getSession throws: a tick logs it, a join_session is answered with it.
CallFails ==
    /\ calls # <<>>
    /\ Fault
    /\ Consume
    /\ UNCHANGED <<redis, expiry, timers, joining>>

\* A statement of the handler throws, or the notification never came.
ExpiryLost(i) ==
    /\ Fault
    /\ \/ i \in inbox /\ inbox' = inbox \ {i} /\ UNCHANGED handler
       \/ /\ handler[i] # "idle"
          /\ handler' = [handler EXCEPT ![i] = "idle"]
          /\ UNCHANGED inbox
    /\ UNCHANGED <<redis, announced, timers, joining, calls>>

\* The process dies and a fresh one starts.  Its timers and calls go with it;
\* its connections come back to any instance and join again.
Crash ==
    /\ Fault
    /\ calls' = <<>>
    /\ joining' = 0
    /\ inbox' = inbox \ {Here}
    /\ handler' = [handler EXCEPT ![Here] = "idle"]
    /\ intervals' = <<>>
    /\ entry' = 0
    /\ sent' = [t \in Thresholds |-> 0]
    /\ UNCHANGED <<redis, announced>>

-----------------------------------------------------------------------------
(* The specification.                                                      *)

\* The callbacks an instance's event loop has to run: the reply that came
\* first, the joins that continue, the keyspace handler.
Resume == JoinRefused \/ JoinAccepted \/ TickKeyGone \/ TickEmits

Handle(i) == HandleSessionExpiry(i) \/ ExpireWrite(i) \/ EmitSessionExpired(i)

Fires == \E n \in DOMAIN intervals : Fire(n)

Clock == Elapse \/ KeyExpires

Failure == CallFails \/ Crash \/ \E i \in Instances : ExpiryLost(i)

Next ==
    \/ JoinSession \/ Resume \/ Joined \/ Fires
    \/ \E i \in Instances : Handle(i)
    \/ Clock \/ Submit \/ DeleteSession
    \/ Failure

Spec == Init /\ [][Next]_vars

\* Event loops run, replies arrive, intervals go off and time passes, and the
\* DEL that follows a submit is sent.  Students need not do anything.
Fairness ==
    /\ WF_vars(Resume) /\ WF_vars(Joined) /\ WF_vars(Fires)
    /\ \A i \in Instances : WF_vars(Handle(i))
    /\ WF_vars(Clock) /\ WF_vars(DeleteSession)

FairSpec == Spec /\ Fairness

-----------------------------------------------------------------------------
(* What the gateway promises.                                              *)

\* Every variable stays in its type.
TypeOK ==
    /\ ttl \in 0 .. Duration
    /\ row \in {"active", "expired", "submitted"}
    /\ inbox \subseteq Instances
    /\ handler \in [Instances -> {"idle", "expire_write", "expire_grace"}]
    /\ joining \in Nat
    /\ intervals \in Seq([live : BOOLEAN, warned : SUBSET Thresholds])
    /\ entry \in 0 .. Len(intervals)
    /\ calls \in Seq([kind : {"join"}, found : BOOLEAN]
                      \cup [kind : {"tick"}, timer : DOMAIN intervals, pttl : 0 .. Duration])
    /\ sent \in [Thresholds -> Nat]
    /\ elapsed \in BOOLEAN /\ announced \in BOOLEAN
    /\ faults \in Nat

\* "one timer per active exam session": joins that race, ticks of an interval
\* already cleared and session_expired in between never leave an instance with
\* an interval its map has forgotten and nothing can stop.
NoOrphanInterval ==
    {n \in DOMAIN intervals : intervals[n].live} = {entry} \ {0}

\* warnedThresholds: however often the students of a session come and go, and
\* however late Redis answers, an instance emits each warning once, the ten
\* minute one no later than the five minute one.
WarnedOnceInOrder ==
    \A t, u \in Thresholds : sent[t] <= 1 /\ (t > u => sent[u] <= sent[t])

\* Submit clears no timer and neither does an empty room; an expiry clears
\* the timer of the instance that handled it.  All the same no instance keeps
\* asking Redis for ever about a session that has ended.
TimersStop == <>[](ttl = 0 /\ entry = 0)

\* Barring faults, a countdown that ends on a session nobody has submitted is
\* announced to its room, or the session was submitted meanwhile.
ExpiryAnnounced ==
    (elapsed /\ row = "active") ~> (announced \/ row = "submitted" \/ faults > 0)
=============================================================================
