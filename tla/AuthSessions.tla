----------------------------- MODULE AuthSessions -----------------------------
(***************************************************************************)
(* AuthService: registration, verification, login, refresh-token rotation  *)
(* with reuse detection, logout, and the three ways a password is written. *)
(* Students are modelled; an admin logs in, refreshes and logs out by the  *)
(* same code with another owner column.                                    *)
(*                                                                         *)
(* As in ExamSession an action holds one statement on Postgres, and each   *)
(* call runs in a slot of Requests.  A bcrypt comparison is an await too,  *)
(* but compares what the preceding query returned, so it belongs to that   *)
(* query's action.  Calls the code refuses before a write do not appear.   *)
(* Expiry does nothing but refuse calls: a token that has expired is one   *)
(* nobody presents any more.                                               *)
(***************************************************************************)
EXTENDS Naturals, FiniteSets

CONSTANTS
    Users,       \* accounts, by their normalised e-mail address
    Passwords,
    Requests,    \* slots for the HTTP calls in flight
    None,        \* no user, no password
    Take,        \* how many candidates consumeAuthToken looks at: 50
    MaxRefresh,  \* bound on the rows of refresh_tokens
    MaxLinks,    \* bound on the rows of auth_tokens
    MaxFaults    \* bound on calls that fail between two statements

ASSUME AuthSessionsAssumption ==
    /\ None \notin Users \cup Passwords
    /\ IsFiniteSet(Requests)
    /\ Take \in Nat /\ MaxRefresh \in Nat /\ MaxLinks \in Nat /\ MaxFaults \in Nat

\* SERIAL primary keys; 0 is no row.
RefreshIds == 1..MaxRefresh
LinkIds    == 1..MaxLinks

VARIABLES
    \* Postgres
    account,   \* [Users -> {"none", "unverified", "verified"}]
    password,  \* users.password_hash, by the password it is the hash of
    refresh,   \* the rows of refresh_tokens
    links,     \* the rows of auth_tokens
    \* calls and clients
    job,       \* where each slot is, and the local variables it holds
    cookies,   \* refresh tokens that reached a client
    mailed,    \* auth_tokens whose plain token reached a mailbox
    \* bookkeeping of the specification, read by no guard but the bound
    from,      \* the refresh token a row was minted for, 0 after a login
    basis,     \* the password the login at the root of that chain was made with
    late,      \* the rows inserted when that was no longer the password
    effects,   \* how often the token of a link was acted upon
    faults

tables  == <<account, password, refresh, links>>
clients == <<cookies, mailed>>
history == <<from, basis, late, effects, faults>>
vars    == <<tables, job, clients, history>>

-----------------------------------------------------------------------------
(* Rows and calls.                                                         *)

Purpose == {"email_verification", "password_reset"}

RefreshRow == [owner : Users \cup {None}, hashed : BOOLEAN, revoked : BOOLEAN]
LinkRow    == [owner : Users \cup {None}, purpose : Purpose, used : BOOLEAN]

NoRefresh == [owner |-> None, hashed |-> FALSE, revoked |-> FALSE]
NoLink    == [owner |-> None, purpose |-> "password_reset", used |-> FALSE]

Live(i) == refresh[i].owner # None /\ ~refresh[i].revoked

Label == {"idle", "insert_user", "invalidate", "insert_link", "mail", "use_link",
          "verify_user", "write_password", "revoke_all", "flip", "insert", "hash",
          "reply"}

\* presented: the refresh token of the cookie; row: the row the call works on.
Job == [pc : Label, user : Users \cup {None}, pw : Passwords \cup {None},
        purpose : Purpose, presented : RefreshIds \cup {0},
        row : RefreshIds \cup LinkIds \cup {0}]

Idle == [pc |-> "idle", user |-> None, pw |-> None, purpose |-> "password_reset",
         presented |-> 0, row |-> 0]

Proceed(r, j) == job' = [job EXCEPT ![r] = j]
Step(r, l)    == Proceed(r, [job[r] EXCEPT !.pc = l])
Return(r)     == Proceed(r, Idle)

Init ==
    /\ account = [u \in Users |-> "none"]
    /\ password = [u \in Users |-> None]
    /\ refresh = [i \in RefreshIds |-> NoRefresh]
    /\ links = [m \in LinkIds |-> NoLink]
    /\ job = [r \in Requests |-> Idle]
    /\ cookies = {} /\ mailed = {}
    /\ from = [i \in RefreshIds |-> 0]
    /\ basis = [i \in RefreshIds |-> None]
    /\ late = {}
    /\ effects = [m \in LinkIds |-> 0]
    /\ faults = 0

-----------------------------------------------------------------------------
(* register and the mails.                                                 *)

\* The e-mail address is free; else 409.
RegisterRead(r, u, w) ==
    /\ job[r] = Idle
    /\ account[u] = "none"
    /\ Proceed(r, [Idle EXCEPT !.pc = "insert_user", !.user = u, !.pw = w,
                               !.purpose = "email_verification"])
    /\ UNCHANGED <<tables, clients, history>>

\* INSERT; idx_users_email refuses the second of two registrations.
InsertUser(r) ==
    LET u == job[r].user IN
    /\ job[r].pc = "insert_user"
    /\ IF account[u] = "none"
       THEN /\ account' = [account EXCEPT ![u] = "unverified"]
            /\ password' = [password EXCEPT ![u] = job[r].pw]
            /\ Step(r, "invalidate")
       ELSE /\ Return(r)
            /\ UNCHANGED <<account, password>>
    /\ UNCHANGED <<refresh, links, clients, history>>

\* forgotPassword: the account exists; else the same answer and nothing done.
ForgotRead(r, u) ==
    /\ job[r] = Idle
    /\ account[u] # "none"
    /\ Proceed(r, [Idle EXCEPT !.pc = "invalidate", !.user = u,
                               !.purpose = "password_reset"])
    /\ UNCHANGED <<tables, clients, history>>

IsUnused(m, purpose) ==
    links[m].owner # None /\ links[m].purpose = purpose /\ ~links[m].used

\* Mutant: only tokens of the other purpose are invalidated.
InvalidateOthers(r) ==
    /\ job[r].pc = "invalidate"
    /\ links' = [m \in LinkIds |->
                   IF links[m].owner = job[r].user /\ links[m].purpose # job[r].purpose
                   THEN [links[m] EXCEPT !.used = TRUE] ELSE links[m]]
    /\ Step(r, "insert_link")
    /\ UNCHANGED <<account, password, refresh, clients, history>>

\* issueAuthToken: the earlier tokens of this user and purpose are used up ...
Invalidate(r) ==
    /\ job[r].pc = "invalidate"
    /\ links' = [m \in LinkIds |->
                   IF links[m].owner = job[r].user /\ links[m].purpose = job[r].purpose
                   THEN [links[m] EXCEPT !.used = TRUE] ELSE links[m]]
    /\ Step(r, "insert_link")
    /\ UNCHANGED <<account, password, refresh, clients, history>>

\* ... and, in a second statement, the new one is inserted.
InsertLink(r) ==
    /\ job[r].pc = "insert_link"
    /\ \E m \in LinkIds :
          /\ links[m] = NoLink
          /\ \A n \in LinkIds : n < m => links[n] # NoLink
          /\ links' = [links EXCEPT ![m] = [owner |-> job[r].user,
                           purpose |-> job[r].purpose, used |-> FALSE]]
          /\ Proceed(r, [job[r] EXCEPT !.pc = "mail", !.row = m])
    /\ UNCHANGED <<account, password, refresh, clients, history>>

Mail(r) ==
    /\ job[r].pc = "mail"
    /\ mailed' = mailed \cup {job[r].row}
    /\ Return(r)
    /\ UNCHANGED <<tables, cookies, history>>

-----------------------------------------------------------------------------
(* verifyEmail and resetPassword.                                          *)

\* The newest Take unused tokens of a purpose, whoever they belong to.
Candidates(purpose) ==
    LET unused == {m \in LinkIds : IsUnused(m, purpose)}
    IN  {m \in unused : Cardinality({n \in unused : n > m}) < Take}

\* consumeAuthToken: the token matches one of the candidates.
LinkRead(r, m, w) ==
    /\ job[r] = Idle
    /\ m \in mailed
    /\ m \in Candidates(links[m].purpose)
    /\ (w = None) = (links[m].purpose = "email_verification")
    /\ Proceed(r, [Idle EXCEPT !.pc = "use_link", !.user = links[m].owner, !.pw = w,
                               !.purpose = links[m].purpose, !.row = m])
    /\ UNCHANGED <<tables, clients, history>>

\* Mutant: the UPDATE does not ask whether the token is still unused.
UseLinkAgain(r) ==
    LET m == job[r].row IN
    /\ job[r].pc = "use_link"
    /\ links' = [links EXCEPT ![m].used = TRUE]
    /\ effects' = [effects EXCEPT ![m] = @ + 1]
    /\ Step(r, IF job[r].purpose = "password_reset" THEN "write_password"
                                                    ELSE "verify_user")
    /\ UNCHANGED <<account, password, refresh, clients, from, basis, late, faults>>

\* Mutant: a token of either purpose resets the password.
UseLinkForReset(r) ==
    LET m == job[r].row IN
    /\ job[r].pc = "use_link"
    /\ IF links[m].used
       THEN /\ Return(r)
            /\ UNCHANGED <<links, effects>>
       ELSE /\ links' = [links EXCEPT ![m].used = TRUE]
            /\ effects' = [effects EXCEPT ![m] = @ + 1]
            /\ Step(r, "write_password")
    /\ UNCHANGED <<account, password, refresh, clients, from, basis, late, faults>>

\* UPDATE ... WHERE used_at IS NULL: the second of two calls gets a 400.
UseLink(r) ==
    LET m == job[r].row IN
    /\ job[r].pc = "use_link"
    /\ IF links[m].used
       THEN /\ Return(r)
            /\ UNCHANGED <<links, effects>>
       ELSE /\ links' = [links EXCEPT ![m].used = TRUE]
            /\ effects' = [effects EXCEPT ![m] = @ + 1]
            /\ Step(r, IF job[r].purpose = "password_reset" THEN "write_password"
                                                            ELSE "verify_user")
    /\ UNCHANGED <<account, password, refresh, clients, from, basis, late, faults>>

VerifyUser(r) ==
    /\ job[r].pc = "verify_user"
    /\ account' = [account EXCEPT ![job[r].user] = "verified"]
    /\ Return(r)
    /\ UNCHANGED <<password, refresh, links, clients, history>>

\* changePassword, for a student some client is logged in as: the current
\* password matches and the new one differs.
ChangeRead(r, u, w) ==
    /\ job[r] = Idle
    /\ \E i \in cookies : refresh[i].owner = u
    /\ w # password[u]
    /\ Proceed(r, [Idle EXCEPT !.pc = "write_password", !.user = u, !.pw = w])
    /\ UNCHANGED <<tables, clients, history>>

WritePassword(r) ==
    /\ job[r].pc = "write_password"
    /\ password' = [password EXCEPT ![job[r].user] = job[r].pw]
    /\ Step(r, "revoke_all")
    /\ UNCHANGED <<account, refresh, links, clients, history>>

\* Mutant: only the tokens whose hash is written are revoked.
RevokeAllHashed(r) ==
    /\ job[r].pc = "revoke_all"
    /\ refresh' = [i \in RefreshIds |->
                     IF refresh[i].owner = job[r].user /\ refresh[i].hashed
                     THEN [refresh[i] EXCEPT !.revoked = TRUE] ELSE refresh[i]]
    /\ Return(r)
    /\ UNCHANGED <<account, password, links, clients, history>>

\* revokeAllRefreshTokens, the end of a password change, a reset and a reuse.
RevokeAll(r) ==
    /\ job[r].pc = "revoke_all"
    /\ refresh' = [i \in RefreshIds |->
                     IF refresh[i].owner = job[r].user
                     THEN [refresh[i] EXCEPT !.revoked = TRUE] ELSE refresh[i]]
    /\ Return(r)
    /\ UNCHANGED <<account, password, links, clients, history>>

-----------------------------------------------------------------------------
(* login, refresh and logout.                                              *)

\* The password matches and the e-mail address is verified; else 401.
LoginRead(r, u) ==
    /\ job[r] = Idle
    /\ account[u] = "verified"
    /\ Proceed(r, [Idle EXCEPT !.pc = "insert", !.user = u, !.pw = password[u]])
    /\ UNCHANGED <<tables, clients, history>>

Presents(r, t) == job[r] = Idle /\ t \in cookies

\* refresh: a token already revoked is reuse; another one must match its hash.
RefreshRead(r, t) ==
    /\ Presents(r, t)
    /\ refresh[t].revoked \/ refresh[t].hashed
    /\ Proceed(r, [Idle EXCEPT !.pc = IF refresh[t].revoked THEN "revoke_all" ELSE "flip",
                               !.user = refresh[t].owner, !.presented = t])
    /\ UNCHANGED <<tables, clients, history>>

\* Mutant: the number of affected rows is not looked at.
RefreshFlipUnchecked(r) ==
    LET t == job[r].presented IN
    /\ job[r].pc = "flip"
    /\ refresh' = [refresh EXCEPT ![t].revoked = TRUE]
    /\ Proceed(r, [job[r] EXCEPT !.pc = "insert", !.pw = basis[t]])
    /\ UNCHANGED <<account, password, links, clients, history>>

\* UPDATE ... WHERE revoked_at IS NULL: who does not flip it has met a reuse.
RefreshFlip(r) ==
    LET t == job[r].presented IN
    /\ job[r].pc = "flip"
    /\ IF refresh[t].revoked
       THEN /\ Step(r, "revoke_all")
            /\ UNCHANGED refresh
       ELSE /\ refresh' = [refresh EXCEPT ![t].revoked = TRUE]
            /\ Proceed(r, [job[r] EXCEPT !.pc = "insert", !.pw = basis[t]])
    /\ UNCHANGED <<account, password, links, clients, history>>

\* issueRefreshToken: the row comes first, for the JWT carries its id ...
InsertRefresh(r) ==
    /\ job[r].pc = "insert"
    /\ \E i \in RefreshIds :
          /\ refresh[i] = NoRefresh
          /\ \A k \in RefreshIds : k < i => refresh[k] # NoRefresh
          /\ refresh' = [refresh EXCEPT ![i] = [NoRefresh EXCEPT !.owner = job[r].user]]
          /\ from' = [from EXCEPT ![i] = job[r].presented]
          /\ basis' = [basis EXCEPT ![i] = job[r].pw]
          /\ late' = IF job[r].pw = password[job[r].user] THEN late ELSE late \cup {i}
          /\ Proceed(r, [job[r] EXCEPT !.pc = "hash", !.row = i])
    /\ UNCHANGED <<account, password, links, clients, effects, faults>>

\* Mutant: the inserted entity is saved again, revoked_at with it.
WriteHashSavesEntity(r) ==
    /\ job[r].pc = "hash"
    /\ refresh' = [refresh EXCEPT ![job[r].row].hashed = TRUE,
                                  ![job[r].row].revoked = FALSE]
    /\ Step(r, "reply")
    /\ UNCHANGED <<account, password, links, clients, history>>

\* ... and its hash replaces 'pending' in a second statement.
WriteHash(r) ==
    /\ job[r].pc = "hash"
    /\ refresh' = [refresh EXCEPT ![job[r].row].hashed = TRUE]
    /\ Step(r, "reply")
    /\ UNCHANGED <<account, password, links, clients, history>>

\* The cookie reaches the client.
Reply(r) ==
    /\ job[r].pc = "reply"
    /\ cookies' = cookies \cup {job[r].row}
    /\ Return(r)
    /\ UNCHANGED <<tables, mailed, history>>

\* logout is one statement, whatever the row holds.
Logout(r, t) ==
    /\ Presents(r, t)
    /\ refresh' = [refresh EXCEPT ![t].revoked = TRUE]
    /\ UNCHANGED <<account, password, links, job, clients, history>>

-----------------------------------------------------------------------------
(* Failures.                                                               *)

\* A crash, a failing statement or mail, an account found inactive.
CallFails(r) ==
    /\ job[r] # Idle
    /\ faults < MaxFaults
    /\ faults' = faults + 1
    /\ Return(r)
    /\ UNCHANGED <<tables, clients, from, basis, late, effects>>

Call(r) ==
    \/ \E u \in Users, w \in Passwords : RegisterRead(r, u, w) \/ ChangeRead(r, u, w)
    \/ \E u \in Users : ForgotRead(r, u) \/ LoginRead(r, u)
    \/ \E m \in LinkIds, w \in Passwords \cup {None} : LinkRead(r, m, w)
    \/ \E t \in RefreshIds : RefreshRead(r, t) \/ Logout(r, t)

Resume(r) ==
    \/ InsertUser(r) \/ Invalidate(r) \/ InsertLink(r) \/ Mail(r)
    \/ UseLink(r) \/ VerifyUser(r) \/ WritePassword(r) \/ RevokeAll(r)
    \/ RefreshFlip(r) \/ InsertRefresh(r) \/ WriteHash(r) \/ Reply(r)

Next == \E r \in Requests : Call(r) \/ Resume(r) \/ CallFails(r)

Spec == Init /\ [][Next]_vars

-----------------------------------------------------------------------------
(* Properties.                                                             *)

\* Every variable has its type, and an account that exists has a password: no
\* call of verifyEmail or resetPassword writes what it was not given.
TypeOK ==
    /\ account \in [Users -> {"none", "unverified", "verified"}]
    /\ password \in [Users -> Passwords \cup {None}]
    /\ \A u \in Users : account[u] # "none" => password[u] \in Passwords
    /\ refresh \in [RefreshIds -> RefreshRow]
    /\ links \in [LinkIds -> LinkRow]
    /\ job \in [Requests -> Job]
    /\ cookies \subseteq RefreshIds /\ mailed \subseteq LinkIds
    /\ from \in [RefreshIds -> RefreshIds \cup {0}]
    /\ basis \in [RefreshIds -> Passwords \cup {None}]
    /\ late \subseteq RefreshIds
    /\ effects \in [LinkIds -> Nat]
    /\ faults \in 0..MaxFaults

\* First writer wins: however many refreshes present one cookie at a time, one
\* of them mints a successor, and the cookie it replaces is revoked.
RotationIsLinear ==
    /\ \A i, k \in RefreshIds : from[i] = from[k] /\ from[i] # 0 => i = k
    /\ \A i \in RefreshIds : from[i] # 0 => refresh[from[i]].revoked

\* A refresh token revoked by rotation, logout, reuse or a password change is
\* not usable again, not even one whose hash is written after that.
RevokedForGood ==
    [][\A i \in RefreshIds : refresh[i].revoked => refresh'[i].revoked]_vars

\* A mailed token is acted upon at most once, by however many calls.
OneUsePerLink == \A m \in LinkIds : effects[m] <= 1

\* Issuing a link ends the earlier ones of its user and purpose, so there are
\* never more usable ones, with those about to be inserted, than calls that may
\* have crossed each other.
FewUsableLinks ==
    \A u \in Users, p \in Purpose :
        LET usable == {m \in LinkIds : links[m].owner = u /\ IsUnused(m, p)}
            coming == {r \in Requests : /\ job[r].pc = "insert_link"
                                        /\ job[r].user = u /\ job[r].purpose = p}
        IN  Cardinality(usable) + Cardinality(coming) <= Cardinality(Requests)

\* A password write of u whose revocation is still to come.
ChangePending(u) ==
    \E r \in Requests : job[r].pc = "revoke_all" /\ job[r].user = u

\* Live, although the login it goes back to was made with another password.
Outdated(i) == Live(i) /\ basis[i] # password[refresh[i].owner]

\* Where no call failed, changing or resetting the password ends every session
\* whose row existed at that time, with or without its hash.
ChangeEndsOldSessions ==
    faults = 0 => \A i \in RefreshIds :
        Outdated(i) => i \in late \/ ChangePending(refresh[i].owner)

\* "All active sessions have been signed out": no session of the old password
\* outlives the change.
SignedOutOnChange ==
    \A i \in RefreshIds : Outdated(i) => ChangePending(refresh[i].owner)
=============================================================================
