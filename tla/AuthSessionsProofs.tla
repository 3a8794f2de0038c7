-------------------------- MODULE AuthSessionsProofs --------------------------
(* Theorems about AuthSessions, for any number of accounts, passwords,     *)
(* calls, tokens and failures.                                             *)
EXTENDS AuthSessions, FiniteSetTheorems, TLAPS

-----------------------------------------------------------------------------
(* Types, and what is known of a call's account.                           *)

HasAccount(u) == u \in Users => account[u] # "none"

\* What a call writes as a password was given to it.
PasswordHeld(j) ==
    \/ j.pc \in {"insert_user", "write_password"}
    \/ j.pc = "use_link" /\ j.purpose = "password_reset"

\* The row a call works on is there.
RowHeld(j) ==
    /\ j.pc \in {"mail", "use_link"} => j.row \in LinkIds
    /\ j.pc = "flip" => j.presented \in RefreshIds
    /\ j.pc \in {"hash", "reply"} => j.row \in RefreshIds

\* Rows and calls belong to accounts that exist.
AccountsOK ==
    /\ \A i \in RefreshIds : HasAccount(refresh[i].owner)
    /\ \A m \in LinkIds : HasAccount(links[m].owner)
    /\ \A r \in Requests :
           /\ job[r].pc \notin {"idle", "insert_user"} => HasAccount(job[r].user)
           /\ PasswordHeld(job[r]) => job[r].pw \in Passwords
           /\ RowHeld(job[r])

AuthInv == TypeOK /\ AccountsOK

LEMMA IdleJob ==
    /\ Idle \in Job /\ Idle.pc = "idle" /\ Idle.user = None /\ Idle.pw = None
    /\ Idle.presented = 0 /\ Idle.row = 0 /\ Idle.purpose = "password_reset"
    /\ ~PasswordHeld(Idle) /\ RowHeld(Idle)
BY DEF Idle, Job, Label, Purpose, PasswordHeld, RowHeld

\* A call that moves on; the others stay where they are.
LEMMA JobMoves ==
    ASSUME TypeOK, NEW r \in Requests, NEW j \in Job, Proceed(r, j)
    PROVE  /\ job' \in [Requests -> Job]
           /\ job'[r] = j
           /\ \A q \in Requests \ {r} : job'[q] = job[q]
BY DEF TypeOK, Proceed

\* Accounts are not deleted.
LEMMA CallKeepsAccounts ==
    ASSUME AuthInv, NEW r \in Requests, NEW j \in Job, Proceed(r, j),
           \A u \in Users : account[u] # "none" => account'[u] # "none",
           \A i \in RefreshIds : HasAccount(refresh'[i].owner),
           \A m \in LinkIds : HasAccount(links'[m].owner),
           j.pc \notin {"idle", "insert_user"} => (j.user \in Users => account'[j.user] # "none"),
           PasswordHeld(j) => j.pw \in Passwords,
           RowHeld(j)
    PROVE  AccountsOK'
<1>1. /\ job' \in [Requests -> Job] /\ job'[r] = j
      /\ \A q \in Requests \ {r} : job'[q] = job[q]
  BY JobMoves DEF AuthInv
<1> QED BY <1>1 DEF AuthInv, AccountsOK, HasAccount, PasswordHeld, RowHeld

LEMMA StepJob ==
    ASSUME TypeOK, NEW r \in Requests, NEW l \in Label
    PROVE  /\ [job[r] EXCEPT !.pc = l] \in Job
           /\ [job[r] EXCEPT !.pc = l].pc = l
           /\ [job[r] EXCEPT !.pc = l].user = job[r].user
           /\ [job[r] EXCEPT !.pc = l].pw = job[r].pw
           /\ [job[r] EXCEPT !.pc = l].purpose = job[r].purpose
           /\ [job[r] EXCEPT !.pc = l].presented = job[r].presented
           /\ [job[r] EXCEPT !.pc = l].row = job[r].row
<1>1. job[r] \in Job
  BY DEF TypeOK
<1> QED BY <1>1 DEF Job

\* The tables' part of TypeOK.
TablesOK ==
    /\ account \in [Users -> {"none", "unverified", "verified"}]
    /\ password \in [Users -> Passwords \cup {None}]
    /\ \A u \in Users : account[u] # "none" => password[u] \in Passwords
    /\ refresh \in [RefreshIds -> RefreshRow]
    /\ links \in [LinkIds -> LinkRow]

LEMMA AuthStep ==
    ASSUME AuthInv, [Next]_vars
    PROVE  AuthInv'
<1> USE DEF AuthInv
<1>0. /\ TablesOK /\ job \in [Requests -> Job]
      /\ \A u : HasAccount(u) /\ u \in Users => account[u] # "none"
      /\ \A i \in RefreshIds : HasAccount(refresh[i].owner)
      /\ \A m \in LinkIds : HasAccount(links[m].owner)
      /\ faults \in 0 .. MaxFaults /\ MaxFaults \in Nat
  BY AuthSessionsAssumption DEF TypeOK, TablesOK, AccountsOK, HasAccount
<1>1. ASSUME NEW r \in Requests, NEW u \in Users, NEW w \in Passwords,
             RegisterRead(r, u, w) \/ ChangeRead(r, u, w)
      PROVE  AuthInv'
  <2>1. ASSUME RegisterRead(r, u, w) PROVE AuthInv'
    <3> DEFINE j == [Idle EXCEPT !.pc = "insert_user", !.user = u, !.pw = w,
                                 !.purpose = "email_verification"]
    <3>1. j \in Job /\ j.pc = "insert_user" /\ j.user = u /\ j.pw \in Passwords /\ RowHeld(j)
      BY DEF Idle, Job, Label, Purpose, RowHeld
    <3>2. Proceed(r, j) /\ UNCHANGED <<tables, clients, history>>
      BY <2>1 DEF RegisterRead
    <3>3. job' \in [Requests -> Job] /\ AccountsOK'
      <4> HIDE DEF j
      <4> QED BY <1>0, <3>1, <3>2, JobMoves, CallKeepsAccounts DEF tables
    <3> QED BY <3>2, <3>3 DEF TypeOK, tables, clients, history
  <2>2. ASSUME ChangeRead(r, u, w) PROVE AuthInv'
    <3> DEFINE j == [Idle EXCEPT !.pc = "write_password", !.user = u, !.pw = w]
    <3>1. j \in Job /\ j.pc = "write_password" /\ j.user = u /\ j.pw \in Passwords /\ RowHeld(j)
      BY DEF Idle, Job, Label, Purpose, RowHeld
    <3>2. Proceed(r, j) /\ UNCHANGED <<tables, clients, history>> /\ account[u] # "none"
      BY <1>0, <2>2 DEF ChangeRead, TypeOK
    <3>3. job' \in [Requests -> Job] /\ AccountsOK'
      <4> HIDE DEF j
      <4> QED BY <1>0, <3>1, <3>2, JobMoves, CallKeepsAccounts DEF tables
    <3> QED BY <3>2, <3>3 DEF TypeOK, tables, clients, history
  <2> QED BY <1>1, <2>1, <2>2
<1>2. ASSUME NEW r \in Requests, NEW u \in Users, ForgotRead(r, u) \/ LoginRead(r, u)
      PROVE  AuthInv'
  <2>1. PICK j \in Job : /\ Proceed(r, j) /\ j.user = u /\ ~PasswordHeld(j) /\ RowHeld(j)
    <3>1. ASSUME ForgotRead(r, u)
          PROVE  \E j \in Job : Proceed(r, j) /\ j.user = u /\ ~PasswordHeld(j) /\ RowHeld(j)
      <4>1. [Idle EXCEPT !.pc = "invalidate", !.user = u, !.purpose = "password_reset"] \in Job
        BY DEF Idle, Job, Label, Purpose
      <4> QED BY <3>1, <4>1 DEF ForgotRead, Idle, PasswordHeld, RowHeld
    <3>2. ASSUME LoginRead(r, u)
          PROVE  \E j \in Job : Proceed(r, j) /\ j.user = u /\ ~PasswordHeld(j) /\ RowHeld(j)
      <4>1. [Idle EXCEPT !.pc = "insert", !.user = u, !.pw = password[u]] \in Job
        BY <1>0 DEF Idle, Job, Label, Purpose, TablesOK
      <4> QED BY <3>2, <4>1 DEF LoginRead, Idle, PasswordHeld, RowHeld
    <3> QED BY <1>2, <3>1, <3>2
  <2>2. UNCHANGED <<tables, clients, history>> /\ account[u] # "none"
    BY <1>2 DEF ForgotRead, LoginRead
  <2>3. job' \in [Requests -> Job] /\ AccountsOK'
    BY <1>0, <2>1, <2>2, JobMoves, CallKeepsAccounts DEF tables
  <2> QED BY <2>2, <2>3 DEF TypeOK, tables, clients, history
<1>3. ASSUME NEW r \in Requests, NEW m \in LinkIds, NEW w \in Passwords \cup {None}, LinkRead(r, m, w)
      PROVE  AuthInv'
  <2> DEFINE j == [Idle EXCEPT !.pc = "use_link", !.user = links[m].owner, !.pw = w,
                               !.purpose = links[m].purpose, !.row = m]
  <2>1. links[m] \in LinkRow /\ HasAccount(links[m].owner)
    BY <1>0 DEF TablesOK
  <2>2. /\ j \in Job /\ j.pc = "use_link" /\ j.user = links[m].owner
        /\ j.purpose = links[m].purpose /\ j.pw = w /\ RowHeld(j)
    BY <2>1 DEF Idle, Job, Label, LinkRow, RowHeld
  <2>3. PasswordHeld(j) => j.pw \in Passwords
    BY <1>3, <2>2 DEF PasswordHeld, LinkRead
  <2>4. Proceed(r, j) /\ UNCHANGED <<tables, clients, history>>
    BY <1>3 DEF LinkRead
  <2>5. job' \in [Requests -> Job] /\ AccountsOK'
    <3> HIDE DEF j
    <3> QED BY <1>0, <2>1, <2>2, <2>3, <2>4, JobMoves, CallKeepsAccounts DEF tables, HasAccount
  <2> QED BY <2>4, <2>5 DEF TypeOK, tables, clients, history
<1>4. ASSUME NEW r \in Requests, NEW t \in RefreshIds, RefreshRead(r, t)
      PROVE  AuthInv'
  <2> DEFINE j == [Idle EXCEPT !.pc = IF refresh[t].revoked THEN "revoke_all" ELSE "flip",
                               !.user = refresh[t].owner, !.presented = t]
  <2>1. refresh[t] \in RefreshRow /\ HasAccount(refresh[t].owner)
    BY <1>0 DEF TablesOK
  <2>2. j \in Job /\ j.pc \in {"revoke_all", "flip"} /\ j.user = refresh[t].owner /\ RowHeld(j)
    BY <2>1 DEF Idle, Job, Label, RefreshRow, Purpose, RowHeld
  <2>3. Proceed(r, j) /\ UNCHANGED <<tables, clients, history>>
    BY <1>4 DEF RefreshRead
  <2>4. job' \in [Requests -> Job] /\ AccountsOK'
    <3> HIDE DEF j
    <3> QED BY <1>0, <2>1, <2>2, <2>3, JobMoves, CallKeepsAccounts DEF tables, HasAccount, PasswordHeld
  <2> QED BY <2>3, <2>4 DEF TypeOK, tables, clients, history
<1>5. ASSUME NEW r \in Requests, NEW t \in RefreshIds, Logout(r, t)
      PROVE  AuthInv'
  <2>1. /\ refresh' \in [RefreshIds -> RefreshRow]
        /\ \A i \in RefreshIds : refresh'[i].owner = refresh[i].owner
    BY <1>0, <1>5 DEF Logout, TablesOK, RefreshRow
  <2> QED BY <1>0, <1>5, <2>1 DEF Logout, TypeOK, AccountsOK, HasAccount, clients, history
<1>6. ASSUME NEW r \in Requests, InsertUser(r) PROVE AuthInv'
  <2> DEFINE u == job[r].user
  <2>1. job[r].pc = "insert_user" /\ job[r].pw \in Passwords /\ u \in Users \cup {None}
    BY <1>0, <1>6 DEF InsertUser, AccountsOK, PasswordHeld, Job
  <2>2. CASE account[u] = "none"
    <3> DEFINE j == [job[r] EXCEPT !.pc = "invalidate"]
    <3>1. /\ account' = [account EXCEPT ![u] = "unverified"]
          /\ password' = [password EXCEPT ![u] = job[r].pw]
          /\ Proceed(r, j)
          /\ UNCHANGED <<refresh, links, clients, history>>
      BY <1>6, <2>2 DEF InsertUser, Step
    <3>2. /\ account' \in [Users -> {"none", "unverified", "verified"}]
          /\ password' \in [Users -> Passwords \cup {None}]
          /\ \A v \in Users : account'[v] # "none" => password'[v] \in Passwords
          /\ \A v \in Users : account[v] # "none" => account'[v] # "none"
          /\ u \in Users => account'[u] # "none"
      BY <1>0, <2>1, <3>1 DEF TablesOK
    <3>3. j \in Job /\ j.pc = "invalidate" /\ j.user = u /\ ~PasswordHeld(j) /\ RowHeld(j)
      <4>1. "invalidate" \in Label
        BY DEF Label
      <4> QED BY <4>1, StepJob DEF PasswordHeld, RowHeld
    <3>4. job' \in [Requests -> Job] /\ AccountsOK'
      <4> HIDE DEF j
      <4> QED BY <1>0, <3>1, <3>2, <3>3, JobMoves, CallKeepsAccounts
    <3> QED BY <3>1, <3>2, <3>4 DEF TypeOK, clients, history
  <2>3. CASE account[u] # "none"
    <3>1. Proceed(r, Idle) /\ UNCHANGED <<tables, clients, history>>
      BY <1>6, <2>3 DEF InsertUser, Return, tables
    <3>2. job' \in [Requests -> Job] /\ AccountsOK'
      BY <1>0, <3>1, IdleJob, JobMoves, CallKeepsAccounts DEF tables
    <3> QED BY <3>1, <3>2 DEF TypeOK, tables, clients, history
  <2> QED BY <2>2, <2>3
<1>7. ASSUME NEW r \in Requests, Invalidate(r) PROVE AuthInv'
  <2>1. /\ links' \in [LinkIds -> LinkRow]
        /\ \A m \in LinkIds : links'[m].owner = links[m].owner
    BY <1>0, <1>7 DEF Invalidate, TablesOK, LinkRow
  <2> DEFINE j == [job[r] EXCEPT !.pc = "insert_link"]
  <2>2. /\ Proceed(r, j) /\ job[r].pc = "invalidate"
        /\ UNCHANGED <<account, password, refresh, clients, history>>
    BY <1>7 DEF Invalidate, Step
  <2>3. /\ j \in Job /\ j.pc = "insert_link" /\ HasAccount(j.user)
        /\ ~PasswordHeld(j) /\ RowHeld(j)
    <3>1. "insert_link" \in Label /\ HasAccount(job[r].user)
      BY <2>2 DEF Label, AccountsOK
    <3> QED BY <3>1, StepJob DEF PasswordHeld, RowHeld
  <2>4. job' \in [Requests -> Job] /\ AccountsOK'
    <3> HIDE DEF j
    <3> QED BY <1>0, <2>1, <2>2, <2>3, JobMoves, CallKeepsAccounts DEF HasAccount
  <2> QED BY <2>1, <2>2, <2>4 DEF TypeOK, clients, history
<1>8. ASSUME NEW r \in Requests, InsertLink(r) PROVE AuthInv'
  <2>1. PICK m \in LinkIds :
            /\ links' = [links EXCEPT ![m] = [owner |-> job[r].user,
                                              purpose |-> job[r].purpose, used |-> FALSE]]
            /\ Proceed(r, [job[r] EXCEPT !.pc = "mail", !.row = m])
    BY <1>8 DEF InsertLink
  <2>2. /\ job[r].pc = "insert_link" /\ job[r] \in Job /\ HasAccount(job[r].user)
        /\ UNCHANGED <<account, password, refresh, clients, history>>
    BY <1>0, <1>8 DEF InsertLink, AccountsOK
  <2>3. /\ links' \in [LinkIds -> LinkRow]
        /\ \A k \in LinkIds : HasAccount(links'[k].owner)
    BY <1>0, <2>1, <2>2 DEF TablesOK, LinkRow, Job
  <2> DEFINE j == [job[r] EXCEPT !.pc = "mail", !.row = m]
  <2>4. j \in Job /\ j.pc = "mail" /\ j.user = job[r].user /\ RowHeld(j)
    BY <2>2 DEF Job, Label, RowHeld
  <2>5. job' \in [Requests -> Job] /\ AccountsOK'
    <3> HIDE DEF j
    <3> QED BY <1>0, <2>1, <2>2, <2>3, <2>4, JobMoves, CallKeepsAccounts
            DEF j, PasswordHeld, HasAccount
  <2> QED BY <2>2, <2>3, <2>5 DEF TypeOK, clients, history
<1>9. ASSUME NEW r \in Requests, Mail(r) \/ Reply(r) \/ CallFails(r) PROVE AuthInv'
  <2>1. Proceed(r, Idle) /\ UNCHANGED tables
    BY <1>9 DEF Mail, Reply, CallFails, Return
  <2>2. job' \in [Requests -> Job] /\ AccountsOK'
    BY <1>0, <2>1, IdleJob, JobMoves, CallKeepsAccounts DEF tables
  <2>3. cookies' \subseteq RefreshIds /\ mailed' \subseteq LinkIds
    BY <1>9 DEF Mail, Reply, CallFails, clients, TypeOK, AccountsOK, RowHeld
  <2>4. faults' \in 0 .. MaxFaults /\ UNCHANGED <<from, basis, late, effects>>
    BY <1>0, <1>9 DEF Mail, Reply, CallFails, history
  <2> QED BY <2>1, <2>2, <2>3, <2>4 DEF TypeOK, tables
<1>10. ASSUME NEW r \in Requests, UseLink(r) PROVE AuthInv'
  <2> DEFINE m == job[r].row
             l == IF job[r].purpose = "password_reset" THEN "write_password" ELSE "verify_user"
             j == [job[r] EXCEPT !.pc = l]
  <2>1. /\ job[r].pc = "use_link" /\ HasAccount(job[r].user)
        /\ job[r].purpose = "password_reset" => job[r].pw \in Passwords
        /\ m \in LinkIds
    BY <1>10 DEF UseLink, AccountsOK, PasswordHeld, RowHeld
  <2>2. CASE links[m].used
    <3>1. Proceed(r, Idle) /\ UNCHANGED <<tables, clients, history>>
      BY <1>10, <2>2 DEF UseLink, Return, tables, history
    <3>2. job' \in [Requests -> Job] /\ AccountsOK'
      BY <1>0, <3>1, IdleJob, JobMoves, CallKeepsAccounts DEF tables
    <3> QED BY <3>1, <3>2 DEF TypeOK, tables, clients, history
  <2>3. CASE ~links[m].used
    <3>1. /\ links' = [links EXCEPT ![m].used = TRUE]
          /\ effects' = [effects EXCEPT ![m] = @ + 1]
          /\ Proceed(r, j)
          /\ UNCHANGED <<account, password, refresh, clients, from, basis, late, faults>>
      BY <1>10, <2>3 DEF UseLink, Step
    <3>2. /\ links' \in [LinkIds -> LinkRow]
          /\ \A k \in LinkIds : links'[k].owner = links[k].owner
      BY <1>0, <3>1 DEF TablesOK, LinkRow
    <3>3. effects' \in [LinkIds -> Nat]
      BY <2>1, <3>1 DEF TypeOK
    <3>4. /\ j \in Job /\ HasAccount(j.user) /\ RowHeld(j)
          /\ PasswordHeld(j) => j.pw \in Passwords
      <4>1. l \in Label /\ l \notin {"mail", "hash", "reply", "use_link", "insert_user", "flip"}
        BY DEF Label
      <4>2. l = "write_password" => job[r].pw \in Passwords
        BY <2>1
      <4> HIDE DEF l
      <4> QED BY <2>1, <4>1, <4>2, StepJob DEF RowHeld, PasswordHeld
    <3>5. job' \in [Requests -> Job] /\ AccountsOK'
      <4> HIDE DEF j
      <4> QED BY <1>0, <3>1, <3>2, <3>4, JobMoves, CallKeepsAccounts DEF HasAccount
    <3> QED BY <3>1, <3>2, <3>3, <3>5 DEF TypeOK, clients
  <2> QED BY <2>2, <2>3
<1>11. ASSUME NEW r \in Requests, VerifyUser(r) PROVE AuthInv'
  <2>1. HasAccount(job[r].user)
    BY <1>11 DEF VerifyUser, AccountsOK
  <2>2. /\ account' \in [Users -> {"none", "unverified", "verified"}]
        /\ \A v \in Users : account'[v] # "none" <=> account[v] # "none"
    BY <1>0, <1>11, <2>1 DEF VerifyUser, TablesOK, HasAccount
  <2>3. Proceed(r, Idle) /\ UNCHANGED <<password, refresh, links, clients, history>>
    BY <1>11 DEF VerifyUser, Return
  <2>4. job' \in [Requests -> Job] /\ AccountsOK'
    BY <1>0, <2>2, <2>3, IdleJob, JobMoves, CallKeepsAccounts
  <2> QED BY <2>2, <2>3, <2>4 DEF TypeOK, clients, history
<1>12. ASSUME NEW r \in Requests, WritePassword(r) PROVE AuthInv'
  <2> DEFINE j == [job[r] EXCEPT !.pc = "revoke_all"]
  <2>1. job[r].pc = "write_password" /\ HasAccount(job[r].user) /\ job[r].pw \in Passwords
    BY <1>12 DEF WritePassword, AccountsOK, PasswordHeld
  <2>2. /\ password' = [password EXCEPT ![job[r].user] = job[r].pw]
        /\ Proceed(r, j) /\ UNCHANGED <<account, refresh, links, clients, history>>
    BY <1>12 DEF WritePassword, Step
  <2>3. /\ password' \in [Users -> Passwords \cup {None}]
        /\ \A v \in Users : account[v] # "none" => password'[v] \in Passwords
    BY <1>0, <2>1, <2>2 DEF TablesOK
  <2>4. j \in Job /\ j.pc = "revoke_all" /\ HasAccount(j.user) /\ ~PasswordHeld(j) /\ RowHeld(j)
    <3>1. "revoke_all" \in Label
      BY DEF Label
    <3> QED BY <2>1, <3>1, StepJob DEF PasswordHeld, RowHeld
  <2>5. job' \in [Requests -> Job] /\ AccountsOK'
    <3> HIDE DEF j
    <3> QED BY <1>0, <2>2, <2>4, JobMoves, CallKeepsAccounts DEF HasAccount
  <2> QED BY <2>2, <2>3, <2>5 DEF TypeOK, clients, history
<1>13. ASSUME NEW r \in Requests, RevokeAll(r) PROVE AuthInv'
  <2>1. /\ refresh' \in [RefreshIds -> RefreshRow]
        /\ \A i \in RefreshIds : refresh'[i].owner = refresh[i].owner
    BY <1>0, <1>13 DEF RevokeAll, TablesOK, RefreshRow
  <2>2. Proceed(r, Idle) /\ UNCHANGED <<account, password, links, clients, history>>
    BY <1>13 DEF RevokeAll, Return
  <2>3. job' \in [Requests -> Job] /\ AccountsOK'
    BY <1>0, <2>1, <2>2, IdleJob, JobMoves, CallKeepsAccounts
  <2> QED BY <2>1, <2>2, <2>3 DEF TypeOK, clients, history
<1>14. ASSUME NEW r \in Requests, RefreshFlip(r) PROVE AuthInv'
  <2> DEFINE t == job[r].presented
  <2>1. job[r].pc = "flip" /\ job[r] \in Job /\ HasAccount(job[r].user)
    BY <1>0, <1>14 DEF RefreshFlip, AccountsOK
  <2>2. PICK j \in Job : /\ Proceed(r, j) /\ j.user = job[r].user
                         /\ ~PasswordHeld(j) /\ RowHeld(j)
    <3>1. CASE refresh[t].revoked
      <4>1. Proceed(r, [job[r] EXCEPT !.pc = "revoke_all"]) /\ "revoke_all" \in Label
        BY <1>14, <3>1 DEF RefreshFlip, Step, Label
      <4> QED BY <4>1, StepJob DEF PasswordHeld, RowHeld
    <3>2. CASE ~refresh[t].revoked
      <4> DEFINE j == [job[r] EXCEPT !.pc = "insert", !.pw = basis[t]]
      <4>1. Proceed(r, j)
        BY <1>14, <3>2 DEF RefreshFlip
      <4>2. t \in RefreshIds
        BY <2>1 DEF AccountsOK, RowHeld
      <4>3. basis[t] \in Passwords \cup {None}
        BY <4>2 DEF TypeOK
      <4>4. j \in Job /\ j.pc = "insert" /\ j.user = job[r].user
        BY <2>1, <4>3 DEF Job, Label
      <4> QED BY <4>1, <4>4 DEF PasswordHeld, RowHeld
    <3> QED BY <3>1, <3>2
  <2>3. /\ refresh' \in [RefreshIds -> RefreshRow]
        /\ \A i \in RefreshIds : refresh'[i].owner = refresh[i].owner
        /\ UNCHANGED <<account, password, links, clients, history>>
    <3>1. t \in RefreshIds /\ (refresh' = refresh \/ refresh' = [refresh EXCEPT ![t].revoked = TRUE])
      BY <1>14, <2>1 DEF RefreshFlip, AccountsOK, RowHeld
    <3>2. UNCHANGED <<account, password, links, clients, history>>
      BY <1>14 DEF RefreshFlip
    <3>3. CASE refresh' = refresh
      BY <1>0, <3>2, <3>3 DEF TablesOK
    <3>4. CASE refresh' = [refresh EXCEPT ![t].revoked = TRUE]
      <4>1. /\ refresh' \in [RefreshIds -> RefreshRow]
            /\ \A i \in RefreshIds : refresh'[i].owner = refresh[i].owner
        <5> HIDE DEF t
        <5> QED BY <1>0, <3>1, <3>4 DEF TablesOK, RefreshRow
      <4> QED BY <3>2, <4>1
    <3> QED BY <3>1, <3>3, <3>4
  <2>4. job' \in [Requests -> Job] /\ AccountsOK'
    BY <1>0, <2>1, <2>2, <2>3, JobMoves, CallKeepsAccounts DEF HasAccount
  <2> QED BY <2>3, <2>4 DEF TypeOK, clients, history
<1>15. ASSUME NEW r \in Requests, InsertRefresh(r) PROVE AuthInv'
  <2>1. PICK i \in RefreshIds :
            /\ refresh' = [refresh EXCEPT ![i] = [NoRefresh EXCEPT !.owner = job[r].user]]
            /\ from' = [from EXCEPT ![i] = job[r].presented]
            /\ basis' = [basis EXCEPT ![i] = job[r].pw]
            /\ late' = IF job[r].pw = password[job[r].user] THEN late ELSE late \cup {i}
            /\ Proceed(r, [job[r] EXCEPT !.pc = "hash", !.row = i])
    BY <1>15 DEF InsertRefresh
  <2>2. /\ job[r].pc = "insert" /\ job[r] \in Job /\ HasAccount(job[r].user)
        /\ UNCHANGED <<account, password, links, clients, effects, faults>>
    BY <1>0, <1>15 DEF InsertRefresh, AccountsOK
  <2>3. /\ refresh' \in [RefreshIds -> RefreshRow]
        /\ \A k \in RefreshIds : HasAccount(refresh'[k].owner)
    BY <1>0, <2>1, <2>2 DEF TablesOK, RefreshRow, NoRefresh, Job
  <2>4. /\ from' \in [RefreshIds -> RefreshIds \cup {0}]
        /\ basis' \in [RefreshIds -> Passwords \cup {None}]
        /\ late' \subseteq RefreshIds
    BY <2>1, <2>2 DEF TypeOK, Job
  <2> DEFINE j == [job[r] EXCEPT !.pc = "hash", !.row = i]
  <2>5. j \in Job /\ j.pc = "hash" /\ j.user = job[r].user /\ ~PasswordHeld(j) /\ RowHeld(j)
    BY <2>2 DEF Job, Label, RowHeld, PasswordHeld
  <2>6. job' \in [Requests -> Job] /\ AccountsOK'
    <3>1. Proceed(r, j)
      BY <2>1
    <3> HIDE DEF j
    <3> QED BY <1>0, <2>2, <2>3, <2>5, <3>1, JobMoves, CallKeepsAccounts DEF HasAccount
  <2> QED BY <2>2, <2>3, <2>4, <2>6 DEF TypeOK, clients
<1>16. ASSUME NEW r \in Requests, WriteHash(r) PROVE AuthInv'
  <2> DEFINE j == [job[r] EXCEPT !.pc = "reply"]
  <2>1. job[r].pc = "hash" /\ HasAccount(job[r].user) /\ job[r].row \in RefreshIds
    BY <1>16 DEF WriteHash, AccountsOK, RowHeld
  <2>2. /\ refresh' \in [RefreshIds -> RefreshRow]
        /\ \A i \in RefreshIds : refresh'[i].owner = refresh[i].owner
        /\ Proceed(r, j) /\ UNCHANGED <<account, password, links, clients, history>>
    BY <1>0, <1>16 DEF WriteHash, Step, TablesOK, RefreshRow
  <2>3. j \in Job /\ HasAccount(j.user) /\ ~PasswordHeld(j) /\ RowHeld(j)
    <3>1. "reply" \in Label
      BY DEF Label
    <3> QED BY <2>1, <3>1, StepJob DEF PasswordHeld, RowHeld
  <2>4. job' \in [Requests -> Job] /\ AccountsOK'
    <3> HIDE DEF j
    <3> QED BY <1>0, <2>2, <2>3, JobMoves, CallKeepsAccounts DEF HasAccount
  <2> QED BY <2>2, <2>4 DEF TypeOK, clients, history
<1>17. CASE UNCHANGED vars
  BY <1>17 DEF vars, tables, clients, history, TypeOK, AccountsOK, HasAccount
<1> QED
  BY <1>1, <1>2, <1>3, <1>4, <1>5, <1>6, <1>7, <1>8, <1>9, <1>10, <1>11, <1>12, <1>13, <1>14,
     <1>15, <1>16, <1>17
     DEF Next, Call, Resume

LEMMA AuthInit == Init => AuthInv
<1> SUFFICES ASSUME Init PROVE AuthInv
  OBVIOUS
<1>1. TypeOK
  BY AuthSessionsAssumption, IdleJob
     DEF Init, TypeOK, RefreshRow, LinkRow, NoRefresh, NoLink, Purpose
<1>2. AccountsOK
  BY AuthSessionsAssumption, IdleJob DEF Init, AccountsOK, NoRefresh, NoLink, HasAccount
<1> QED BY <1>1, <1>2 DEF AuthInv

\* AuthSessions!TypeOK: no call writes a password it was not given.
THEOREM TypesKept == Spec => []TypeOK
<1>1. AuthInv => TypeOK
  BY DEF AuthInv
<1> QED BY <1>1, AuthInit, AuthStep, PTL DEF Spec

-----------------------------------------------------------------------------
(* Revocation.                                                             *)

\* No statement makes a revoked row usable.
LEMMA RevokedStays ==
    ASSUME TypeOK, [Next]_vars, NEW i \in RefreshIds, refresh[i].revoked
    PROVE  refresh'[i].revoked
<1>0. refresh \in [RefreshIds -> RefreshRow] /\ refresh[i] \in RefreshRow
  BY DEF TypeOK
<1>1. ASSUME refresh' = refresh PROVE refresh'[i].revoked
  BY <1>1
<1>2. ASSUME NEW r \in Requests, Call(r) PROVE refresh'[i].revoked
  <2>1. CASE \E t \in RefreshIds : Logout(r, t)
    BY <1>0, <2>1 DEF Logout, RefreshRow
  <2>2. CASE refresh' = refresh
    BY <1>1, <2>2
  <2> QED BY <1>2, <2>1, <2>2
          DEF Call, RegisterRead, ChangeRead, ForgotRead, LoginRead, LinkRead, RefreshRead, tables
<1>3. ASSUME NEW r \in Requests, RevokeAll(r) PROVE refresh'[i].revoked
  BY <1>0, <1>3 DEF RevokeAll, RefreshRow
<1>4. ASSUME NEW r \in Requests, RefreshFlip(r) PROVE refresh'[i].revoked
  BY <1>0, <1>4 DEF RefreshFlip, RefreshRow
<1>5. ASSUME NEW r \in Requests, InsertRefresh(r) PROVE refresh'[i].revoked
  BY <1>0, <1>5 DEF InsertRefresh, NoRefresh, RefreshRow
<1>6. ASSUME NEW r \in Requests, WriteHash(r) PROVE refresh'[i].revoked
  BY <1>0, <1>6 DEF WriteHash, RefreshRow
<1>7. ASSUME NEW r \in Requests,
             \/ InsertUser(r) \/ Invalidate(r) \/ InsertLink(r) \/ Mail(r) \/ UseLink(r)
             \/ VerifyUser(r) \/ WritePassword(r) \/ Reply(r) \/ CallFails(r)
      PROVE  refresh' = refresh
  BY <1>7 DEF InsertUser, Invalidate, InsertLink, Mail, UseLink, VerifyUser, WritePassword,
              Reply, CallFails, tables
<1>8. UNCHANGED vars => refresh' = refresh
  BY DEF vars, tables
<1> QED BY <1>1, <1>2, <1>3, <1>4, <1>5, <1>6, <1>7, <1>8 DEF Next, Resume

\* A refresh token revoked by rotation, logout, reuse or a password change stays
\* so: no later write, that of its hash included, brings it back.
THEOREM RevocationFinal == Spec => RevokedForGood
<1>1. TypeOK /\ [Next]_vars =>
          [\A i \in RefreshIds : refresh[i].revoked => refresh'[i].revoked]_vars
  BY RevokedStays
<1> QED BY <1>1, TypesKept, PTL DEF Spec, RevokedForGood

-----------------------------------------------------------------------------
(* Rotation.                                                               *)

\* A call that is about to mint the successor of a token is the one that
\* revoked it, and the token has none yet.
Minting ==
    \A r \in Requests : job[r].pc = "insert" /\ job[r].presented # 0 =>
        /\ refresh[job[r].presented].revoked
        /\ \A i \in RefreshIds : from[i] # job[r].presented
        /\ \A q \in Requests : job[q].pc = "insert" /\ job[q].presented = job[r].presented => q = r

\* Only a login, a flip and the insertion itself concern the successors.
LEMMA MintSteps ==
    ASSUME TypeOK, [Next]_vars
    PROVE  \/ \E r \in Requests : InsertRefresh(r) \/ RefreshFlip(r)
           \/ /\ from' = from
              /\ \A q \in Requests : job'[q].pc = "insert" /\ job'[q].presented # 0 => job'[q] = job[q]
<1> DEFINE Quiet == /\ from' = from
                    /\ \A q \in Requests : job'[q].pc = "insert" /\ job'[q].presented # 0
                                              => job'[q] = job[q]
<1>1. ASSUME NEW r \in Requests, NEW j \in Job, Proceed(r, j), from' = from,
             j.pc # "insert" \/ j.presented = 0
      PROVE  Quiet
  BY <1>1, JobMoves
<1>2. ASSUME NEW r \in Requests, NEW l \in Label \ {"insert"}, Step(r, l), from' = from
      PROVE  Quiet
  <2> DEFINE j == [job[r] EXCEPT !.pc = l]
  <2>1. j \in Job /\ j.pc # "insert" /\ Proceed(r, j)
    BY <1>2, StepJob DEF Step
  <2> HIDE DEF j
  <2> QED BY <1>1, <1>2, <2>1
<1>3. ASSUME NEW r \in Requests, Return(r), from' = from
      PROVE  Quiet
  BY <1>1, <1>3, IdleJob DEF Return
<1>4. ASSUME from' = from, job' = job
      PROVE  Quiet
  BY <1>4
<1>5. ASSUME NEW r \in Requests, Call(r)
      PROVE  Quiet
  <2>1. from' = from
    BY <1>5 DEF Call, RegisterRead, ChangeRead, ForgotRead, LoginRead, LinkRead, RefreshRead,
                Logout, history
  <2>2. job \in [Requests -> Job]
    BY DEF TypeOK
  <2>3. ASSUME NEW u, NEW w, RegisterRead(r, u, w) \/ ChangeRead(r, u, w)
        PROVE  Quiet
    BY <2>1, <2>2, <2>3 DEF RegisterRead, ChangeRead, Idle, Proceed
  <2>4. ASSUME NEW u, ForgotRead(r, u) \/ LoginRead(r, u)
        PROVE  Quiet
    BY <2>1, <2>2, <2>4 DEF ForgotRead, LoginRead, Idle, Proceed
  <2>5. ASSUME NEW m, NEW w, LinkRead(r, m, w)
        PROVE  Quiet
    BY <2>1, <2>2, <2>5 DEF LinkRead, Idle, Proceed
  <2>6. ASSUME NEW t, RefreshRead(r, t)
        PROVE  Quiet
    BY <2>1, <2>2, <2>6 DEF RefreshRead, Idle, Proceed
  <2>7. ASSUME NEW t, Logout(r, t)
        PROVE  Quiet
    BY <1>4, <2>1, <2>7 DEF Logout
  <2> QED BY <1>5, <2>3, <2>4, <2>5, <2>6, <2>7 DEF Call
<1>6. ASSUME NEW r \in Requests,
             InsertUser(r) \/ Invalidate(r) \/ UseLink(r) \/ WritePassword(r) \/ WriteHash(r)
      PROVE  Quiet
  <2>1. {"invalidate", "insert_link", "write_password", "verify_user", "revoke_all", "reply"}
            \subseteq Label \ {"insert"}
    BY DEF Label
  <2>2. from' = from /\ (Return(r) \/ \E l \in Label \ {"insert"} : Step(r, l))
    BY <1>6, <2>1 DEF InsertUser, Invalidate, UseLink, WritePassword, WriteHash, history
  <2> QED BY <1>2, <1>3, <2>2
<1>7. ASSUME NEW r \in Requests,
             Mail(r) \/ VerifyUser(r) \/ RevokeAll(r) \/ Reply(r) \/ CallFails(r)
      PROVE  Quiet
  BY <1>3, <1>7 DEF Mail, VerifyUser, RevokeAll, Reply, CallFails, history
<1>8. ASSUME NEW r \in Requests, InsertLink(r)
      PROVE  Quiet
  <2>1. PICK m \in LinkIds : Proceed(r, [job[r] EXCEPT !.pc = "mail", !.row = m])
    BY <1>8 DEF InsertLink
  <2>2. job[r] \in Job
    BY DEF TypeOK
  <2> DEFINE j == [job[r] EXCEPT !.pc = "mail", !.row = m]
  <2>3. j \in Job /\ j.pc # "insert" /\ Proceed(r, j) /\ from' = from
    BY <1>8, <2>1, <2>2 DEF InsertLink, Job, Label, history
  <2> HIDE DEF j
  <2> QED BY <1>1, <2>3
<1>9. UNCHANGED vars => Quiet
  BY <1>4 DEF vars, history
<1> QED BY <1>5, <1>6, <1>7, <1>8, <1>9 DEF Next, Resume

LEMMA RotationStep ==
    ASSUME TypeOK, RotationIsLinear, Minting, [Next]_vars
    PROVE  RotationIsLinear' /\ Minting'
<1> USE DEF RotationIsLinear, Minting
<1>0. /\ job \in [Requests -> Job] /\ \A q \in Requests : job[q].presented \in RefreshIds \cup {0}
      /\ from \in [RefreshIds -> RefreshIds \cup {0}]
      /\ refresh \in [RefreshIds -> RefreshRow]
      /\ \A i \in RefreshIds : refresh[i].revoked => refresh'[i].revoked
      /\ 0 \notin RefreshIds
  BY RevokedStays DEF TypeOK, Job, RefreshIds
<1>1. ASSUME NEW r \in Requests, InsertRefresh(r) PROVE RotationIsLinear' /\ Minting'
  <2>1. PICK i \in RefreshIds :
            /\ refresh[i] = NoRefresh
            /\ from' = [from EXCEPT ![i] = job[r].presented]
            /\ Proceed(r, [job[r] EXCEPT !.pc = "hash", !.row = i])
    BY <1>1 DEF InsertRefresh
  <2>2. /\ job[r].pc = "insert" /\ ~refresh[i].revoked
        /\ job'[r].pc = "hash" /\ \A q \in Requests \ {r} : job'[q] = job[q]
    BY <1>0, <1>1, <2>1 DEF InsertRefresh, NoRefresh, Proceed, Job
  <2>3. /\ from'[i] = job[r].presented
        /\ \A k \in RefreshIds \ {i} : from'[k] = from[k] /\ from[k] # i
    BY <1>0, <2>1, <2>2
  <2>4. RotationIsLinear'
    BY <1>0, <2>2, <2>3
  <2>5. Minting'
    BY <1>0, <2>2, <2>3
  <2> QED BY <2>4, <2>5
<1>2. ASSUME NEW r \in Requests, RefreshFlip(r) PROVE RotationIsLinear' /\ Minting'
  <2> DEFINE t == job[r].presented
  <2>1. from' = from
    BY <1>2 DEF RefreshFlip, history
  <2>2. CASE refresh[t].revoked
    <3>1. job'[r].pc = "revoke_all" /\ \A q \in Requests \ {r} : job'[q] = job[q]
      BY <1>0, <1>2, <2>2 DEF RefreshFlip, Step, Proceed, Job
    <3> QED BY <1>0, <2>1, <3>1
  <2>3. CASE ~refresh[t].revoked
    <3>1. /\ job'[r].presented = t /\ \A q \in Requests \ {r} : job'[q] = job[q]
          /\ refresh' = [refresh EXCEPT ![t].revoked = TRUE]
      <4>1. /\ job' = [job EXCEPT ![r] = [job[r] EXCEPT !.pc = "insert", !.pw = basis[t]]]
            /\ refresh' = [refresh EXCEPT ![t].revoked = TRUE]
        BY <1>2, <2>3 DEF RefreshFlip, Proceed
      <4>2. [job[r] EXCEPT !.pc = "insert", !.pw = basis[t]].presented = t
        BY DEF TypeOK, Job
      <4> QED BY <1>0, <4>1, <4>2
    <3>2. t # 0 => /\ refresh'[t].revoked
                   /\ \A i \in RefreshIds : from[i] # t
                   /\ \A q \in Requests : job[q].pc = "insert" => job[q].presented # t
      BY <1>0, <2>3, <3>1 DEF RefreshRow
    <3> QED BY <1>0, <2>1, <3>1, <3>2
  <2> QED BY <2>2, <2>3
<1>3. ASSUME /\ from' = from
             /\ \A q \in Requests : job'[q].pc = "insert" /\ job'[q].presented # 0 => job'[q] = job[q]
      PROVE  RotationIsLinear' /\ Minting'
  BY <1>0, <1>3
<1> QED BY <1>1, <1>2, <1>3, MintSteps

\* "First writer wins": however many calls present one cookie at the same time,
\* it gets one successor at most, and is revoked before it has one.
THEOREM RotationLinear == Spec => []RotationIsLinear
<1>1. Init => RotationIsLinear /\ Minting
  BY IdleJob DEF Init, RotationIsLinear, Minting
<1>2. TypeOK /\ RotationIsLinear /\ Minting /\ [Next]_vars => RotationIsLinear' /\ Minting'
  BY RotationStep
<1> QED BY <1>1, <1>2, TypesKept, PTL DEF Spec

-----------------------------------------------------------------------------
(* One-time links.                                                         *)

\* A link that is still usable has not been acted upon.
LinksSpent ==
    \A m \in LinkIds : effects[m] <= 1 /\ (~links[m].used => effects[m] = 0)

\* The steps that change links, and where calls that insert one come from.
LEMMA LinkSteps ==
    ASSUME TypeOK, [Next]_vars
    PROVE  \/ \E r \in Requests : Invalidate(r) \/ InsertLink(r) \/ UseLink(r)
           \/ /\ links' = links /\ effects' = effects
              /\ \A q \in Requests : job'[q].pc = "insert_link" => job'[q] = job[q]
<1> DEFINE Quiet == /\ links' = links /\ effects' = effects
                    /\ \A q \in Requests : job'[q].pc = "insert_link" => job'[q] = job[q]
<1>0. job \in [Requests -> Job] /\ \A q \in Requests : job[q] \in Job
  BY DEF TypeOK
<1>1. ASSUME NEW r \in Requests, NEW l \in Label \ {"insert_link"}, Step(r, l),
             links' = links, effects' = effects
      PROVE  Quiet
  <2> DEFINE j == [job[r] EXCEPT !.pc = l]
  <2>1. j \in Job /\ j.pc # "insert_link" /\ Proceed(r, j)
    BY <1>1, StepJob DEF Step
  <2> HIDE DEF j
  <2> QED BY <1>1, <2>1, JobMoves
<1>2. ASSUME NEW r \in Requests, Return(r), links' = links, effects' = effects
      PROVE  Quiet
  BY <1>2, IdleJob, JobMoves DEF Return
<1>3. ASSUME links' = links, effects' = effects, job' = job
      PROVE  Quiet
  BY <1>3
<1>4. ASSUME NEW r \in Requests, Call(r)
      PROVE  Quiet
  <2>1. links' = links /\ effects' = effects
    BY <1>4 DEF Call, RegisterRead, ChangeRead, ForgotRead, LoginRead, LinkRead, RefreshRead,
                Logout, tables, history
  <2>2. ASSUME NEW u, NEW w, RegisterRead(r, u, w) \/ ChangeRead(r, u, w)
        PROVE  Quiet
    BY <1>0, <2>1, <2>2 DEF RegisterRead, ChangeRead, Idle, Proceed
  <2>3. ASSUME NEW u, ForgotRead(r, u) \/ LoginRead(r, u)
        PROVE  Quiet
    BY <1>0, <2>1, <2>3 DEF ForgotRead, LoginRead, Idle, Proceed
  <2>4. ASSUME NEW m, NEW w, LinkRead(r, m, w)
        PROVE  Quiet
    BY <1>0, <2>1, <2>4 DEF LinkRead, Idle, Proceed
  <2>5. ASSUME NEW t, RefreshRead(r, t)
        PROVE  Quiet
    BY <1>0, <2>1, <2>5 DEF RefreshRead, Idle, Proceed
  <2>6. ASSUME NEW t, Logout(r, t)
        PROVE  Quiet
    BY <1>3, <2>1, <2>6 DEF Logout
  <2> QED BY <1>4, <2>2, <2>3, <2>4, <2>5, <2>6 DEF Call
<1>5. ASSUME NEW r \in Requests, InsertUser(r) \/ WritePassword(r) \/ WriteHash(r)
      PROVE  Quiet
  <2>1. {"invalidate", "revoke_all", "reply"} \subseteq Label \ {"insert_link"}
    BY DEF Label
  <2>2. /\ links' = links /\ effects' = effects
        /\ Return(r) \/ \E l \in Label \ {"insert_link"} : Step(r, l)
    BY <1>5, <2>1 DEF InsertUser, WritePassword, WriteHash, history
  <2> QED BY <1>1, <1>2, <2>2
<1>6. ASSUME NEW r \in Requests,
             Mail(r) \/ VerifyUser(r) \/ RevokeAll(r) \/ Reply(r) \/ CallFails(r)
      PROVE  Quiet
  BY <1>2, <1>6 DEF Mail, VerifyUser, RevokeAll, Reply, CallFails, history, tables
<1>7. ASSUME NEW r \in Requests, RefreshFlip(r)
      PROVE  Quiet
  <2> DEFINE j == [job[r] EXCEPT !.pc = "insert", !.pw = basis[job[r].presented]]
  <2>1. links' = links /\ effects' = effects
    BY <1>7 DEF RefreshFlip, history
  <2>2. "revoke_all" \in Label \ {"insert_link"}
    BY DEF Label
  <2>3. j.pc = "insert"
    BY <1>0 DEF Job
  <2>4. Step(r, "revoke_all") \/ Proceed(r, j)
    BY <1>7 DEF RefreshFlip
  <2>5. Proceed(r, j) => Quiet
    <3> HIDE DEF j
    <3> QED BY <1>0, <2>1, <2>3 DEF Proceed
  <2> QED BY <1>1, <2>1, <2>2, <2>4, <2>5
<1>8. ASSUME NEW r \in Requests, InsertRefresh(r)
      PROVE  Quiet
  <2>1. PICK i \in RefreshIds : Proceed(r, [job[r] EXCEPT !.pc = "hash", !.row = i])
    BY <1>8 DEF InsertRefresh
  <2>2. links' = links /\ effects' = effects
    BY <1>8 DEF InsertRefresh
  <2> DEFINE j == [job[r] EXCEPT !.pc = "hash", !.row = i]
  <2>3. j.pc = "hash"
    BY <1>0 DEF Job
  <2>4. Proceed(r, j)
    BY <2>1
  <2> HIDE DEF j
  <2> QED BY <1>0, <2>2, <2>3, <2>4 DEF Proceed
<1>9. UNCHANGED vars => Quiet
  BY <1>3 DEF vars, tables, history
<1> QED BY <1>4, <1>5, <1>6, <1>7, <1>8, <1>9 DEF Next, Resume

\* consumeAuthToken's conditional UPDATE: a mailed token takes effect at most
\* once, by however many calls it is presented.
THEOREM LinkUsedOnce == Spec => []OneUsePerLink
<1>1. Init => LinksSpent
  BY DEF Init, LinksSpent, NoLink
<1>2. ASSUME TypeOK, LinksSpent, [Next]_vars PROVE LinksSpent'
  <2>0. /\ links \in [LinkIds -> LinkRow] /\ effects \in [LinkIds -> Nat]
        /\ \A m \in LinkIds : effects[m] <= 1 /\ (~links[m].used => effects[m] = 0)
    BY <1>2 DEF TypeOK, LinksSpent
  <2>1. ASSUME NEW r \in Requests, Invalidate(r) PROVE LinksSpent'
    BY <2>0, <2>1 DEF Invalidate, LinksSpent, LinkRow, history
  <2>2. ASSUME NEW r \in Requests, InsertLink(r) PROVE LinksSpent'
    <3>1. PICK m \in LinkIds :
              /\ links[m] = NoLink
              /\ links' = [links EXCEPT ![m] = [owner |-> job[r].user,
                                                purpose |-> job[r].purpose, used |-> FALSE]]
      BY <2>2 DEF InsertLink
    <3>2. effects' = effects /\ effects[m] = 0
      BY <2>0, <2>2, <3>1 DEF InsertLink, history, NoLink
    <3> QED BY <2>0, <3>1, <3>2 DEF LinksSpent
  <2>3. ASSUME NEW r \in Requests, UseLink(r) PROVE LinksSpent'
    <3> DEFINE m == job[r].row
    <3>1. CASE links[m].used
      BY <2>0, <2>3, <3>1 DEF UseLink, LinksSpent
    <3>2. CASE ~links[m].used
      <4>1. /\ links' = [links EXCEPT ![m].used = TRUE]
            /\ effects' = [effects EXCEPT ![m] = @ + 1]
        BY <2>3, <3>2 DEF UseLink
      <4>2. ASSUME NEW k \in LinkIds
            PROVE  effects'[k] <= 1 /\ (~links'[k].used => effects'[k] = 0)
        <5> HIDE DEF m
        <5>1. CASE k = m
          BY <2>0, <3>2, <4>1, <5>1 DEF LinkRow
        <5>2. CASE k # m
          BY <2>0, <4>1, <5>2
        <5> QED BY <5>1, <5>2
      <4> QED BY <4>2 DEF LinksSpent
    <3> QED BY <3>1, <3>2
  <2>4. ASSUME links' = links, effects' = effects PROVE LinksSpent'
    BY <1>2, <2>4 DEF LinksSpent
  <2> QED BY <1>2, <2>1, <2>2, <2>3, <2>4, LinkSteps
<1>3. LinksSpent => OneUsePerLink
  BY DEF LinksSpent, OneUsePerLink
<1> QED BY <1>1, <1>2, <1>3, TypesKept, PTL DEF Spec

\* The links of an account that would work, and those about to be inserted.
Usable(u, p) == {m \in LinkIds : links[m].owner = u /\ IsUnused(m, p)}
Coming(u, p) == {r \in Requests : /\ job[r].pc = "insert_link"
                                  /\ job[r].user = u /\ job[r].purpose = p}
FewLinks(u, p) == Cardinality(Usable(u, p)) + Cardinality(Coming(u, p)) <= Cardinality(Requests)

LEMMA FewLinksStep ==
    ASSUME TypeOK, [Next]_vars, NEW u \in Users, NEW p \in Purpose, FewLinks(u, p)
    PROVE  FewLinks(u, p)'
<1> DEFINE U == Usable(u, p)
           C == Coming(u, p)
<1>0. /\ job \in [Requests -> Job] /\ \A q \in Requests : job[q] \in Job
      /\ links \in [LinkIds -> LinkRow] /\ u # None
  BY AuthSessionsAssumption DEF TypeOK
<1>1. IsFiniteSet(LinkIds) /\ IsFiniteSet(Requests)
  BY FS_Interval, AuthSessionsAssumption DEF LinkIds
<1>2. U \subseteq LinkIds /\ C \subseteq Requests
  BY DEF Usable, Coming
<1>3. /\ IsFiniteSet(U) /\ IsFiniteSet(C)
      /\ Cardinality(U) \in Nat /\ Cardinality(C) \in Nat /\ Cardinality(Requests) \in Nat
  <2> HIDE DEF U, C
  <2> QED BY <1>1, <1>2, FS_Subset, FS_CardinalityType
<1>4. ASSUME U' \subseteq U, C' \subseteq C
      PROVE  FewLinks(u, p)'
  <2>1. /\ Cardinality(U') <= Cardinality(U) /\ Cardinality(C') <= Cardinality(C)
        /\ Cardinality(U') \in Nat /\ Cardinality(C') \in Nat
    <3> HIDE DEF U, C
    <3> QED BY <1>3, <1>4, FS_Subset, FS_CardinalityType
  <2>2. Cardinality(U) + Cardinality(C) <= Cardinality(Requests)
    BY DEF FewLinks
  <2>3. Cardinality(U') + Cardinality(C') <= Cardinality(Requests)
    <3> HIDE DEF U, C
    <3> QED BY <1>3, <2>1, <2>2
  <2> QED BY <2>3 DEF FewLinks
<1>5. ASSUME NEW r \in Requests, Invalidate(r) PROVE FewLinks(u, p)'
  <2>1. /\ job[r].pc = "invalidate"
        /\ links' = [m \in LinkIds |->
                       IF links[m].owner = job[r].user /\ links[m].purpose = job[r].purpose
                       THEN [links[m] EXCEPT !.used = TRUE] ELSE links[m]]
        /\ Proceed(r, [job[r] EXCEPT !.pc = "insert_link"])
    BY <1>5 DEF Invalidate, Step
  <2>2. /\ job'[r].user = job[r].user /\ job'[r].purpose = job[r].purpose
        /\ \A q \in Requests \ {r} : job'[q] = job[q]
    BY <1>0, <2>1 DEF Proceed, Job
  <2>3. CASE job[r].user = u /\ job[r].purpose = p
    <3>1. U' = {}
      BY <1>0, <2>1, <2>3 DEF Usable, IsUnused, LinkRow
    <3>2. C' \subseteq Requests
      BY DEF Coming
    <3>3. Cardinality(C') <= Cardinality(Requests) /\ Cardinality(C') \in Nat
      <4> HIDE DEF C
      <4> QED BY <1>1, <3>2, FS_Subset, FS_CardinalityType
    <3>4. Cardinality(U') = 0
      <4> HIDE DEF U
      <4> QED BY <3>1, FS_EmptySet
    <3> QED BY <1>3, <3>3, <3>4 DEF FewLinks
  <2>4. CASE ~(job[r].user = u /\ job[r].purpose = p)
    <3>1. U' \subseteq U
      BY <1>0, <2>1, <2>4 DEF Usable, IsUnused, LinkRow
    <3>2. C' \subseteq C
      BY <2>2, <2>4 DEF Coming
    <3> QED BY <1>4, <3>1, <3>2
  <2> QED BY <2>3, <2>4
<1>6. ASSUME NEW r \in Requests, InsertLink(r) PROVE FewLinks(u, p)'
  <2>1. PICK m \in LinkIds :
            /\ links' = [links EXCEPT ![m] = [owner |-> job[r].user,
                                              purpose |-> job[r].purpose, used |-> FALSE]]
            /\ Proceed(r, [job[r] EXCEPT !.pc = "mail", !.row = m])
    BY <1>6 DEF InsertLink
  <2>2. job[r].pc = "insert_link" /\ job'[r].pc = "mail" /\ \A q \in Requests \ {r} : job'[q] = job[q]
    BY <1>0, <1>6, <2>1 DEF InsertLink, Proceed, Job
  <2>3. CASE job[r].user = u /\ job[r].purpose = p
    <3>1. U' \subseteq U \cup {m}
      BY <1>0, <2>1 DEF Usable, IsUnused
    <3>2. C' \subseteq C \ {r} /\ r \in C
      BY <2>2, <2>3 DEF Coming
    <3>3. Cardinality(U') <= Cardinality(U) + 1 /\ Cardinality(U') \in Nat
      <4> HIDE DEF U
      <4>1. /\ IsFiniteSet(U \cup {m})
            /\ Cardinality(U \cup {m}) = IF m \in U THEN Cardinality(U) ELSE Cardinality(U) + 1
        BY <1>3, FS_AddElement
      <4>2. IsFiniteSet(U') /\ Cardinality(U') <= Cardinality(U \cup {m})
        BY <3>1, <4>1, FS_Subset
      <4> QED BY <1>3, <4>1, <4>2, FS_CardinalityType
    <3>4. Cardinality(C') <= Cardinality(C) - 1 /\ Cardinality(C') \in Nat
      <4> HIDE DEF C
      <4>1. IsFiniteSet(C \ {r}) /\ Cardinality(C \ {r}) = Cardinality(C) - 1
        BY <1>3, <3>2, FS_RemoveElement
      <4>2. IsFiniteSet(C') /\ Cardinality(C') <= Cardinality(C \ {r})
        BY <3>2, <4>1, FS_Subset
      <4> QED BY <4>1, <4>2, FS_CardinalityType
    <3>5. Cardinality(U) + Cardinality(C) <= Cardinality(Requests)
      BY DEF FewLinks
    <3>6. Cardinality(U') + Cardinality(C') <= Cardinality(Requests)
      <4> HIDE DEF U, C
      <4> QED BY <1>3, <3>3, <3>4, <3>5
    <3> QED BY <3>6 DEF FewLinks
  <2>4. CASE ~(job[r].user = u /\ job[r].purpose = p)
    <3>1. U' \subseteq U
      BY <1>0, <2>1, <2>4 DEF Usable, IsUnused
    <3>2. C' \subseteq C
      BY <2>2 DEF Coming
    <3> QED BY <1>4, <3>1, <3>2
  <2> QED BY <2>3, <2>4
<1>7. ASSUME NEW r \in Requests, UseLink(r) PROVE FewLinks(u, p)'
  <2>1. U' \subseteq U
    BY <1>0, <1>7 DEF UseLink, Usable, IsUnused, LinkRow
  <2>2. job'[r].pc # "insert_link" /\ \A q \in Requests \ {r} : job'[q] = job[q]
    BY <1>0, <1>7, IdleJob DEF UseLink, Return, Step, Proceed, Job
  <2>3. C' \subseteq C
    BY <2>2 DEF Coming
  <2> QED BY <1>4, <2>1, <2>3
<1>8. ASSUME links' = links,
             \A q \in Requests : job'[q].pc = "insert_link" => job'[q] = job[q]
      PROVE  FewLinks(u, p)'
  <2>1. U' \subseteq U
    BY <1>8 DEF Usable, IsUnused
  <2>2. C' \subseteq C
    BY <1>8 DEF Coming
  <2> QED BY <1>4, <2>1, <2>2
<1> QED BY <1>5, <1>6, <1>7, <1>8, LinkSteps

\* issueAuthToken: although it invalidates and inserts in two statements, an
\* account never has more usable links of one purpose than there are calls.
THEOREM LinksFew == Spec => []FewUsableLinks
<1> DEFINE Few == \A u \in Users, p \in Purpose : FewLinks(u, p)
<1>1. Init => Few
  <2> SUFFICES ASSUME Init, NEW u \in Users, NEW p \in Purpose
               PROVE  FewLinks(u, p)
    OBVIOUS
  <2>1. Usable(u, p) = {} /\ Coming(u, p) = {}
    BY AuthSessionsAssumption, IdleJob DEF Init, Usable, Coming, IsUnused, NoLink
  <2>2. Cardinality(Requests) \in Nat
    BY AuthSessionsAssumption, FS_CardinalityType
  <2> QED BY <2>1, <2>2, FS_EmptySet DEF FewLinks
<1>2. TypeOK /\ Few /\ [Next]_vars => Few'
  BY FewLinksStep
<1>3. Few => FewUsableLinks
  BY DEF FewUsableLinks, FewLinks, Usable, Coming
<1> QED BY <1>1, <1>2, <1>3, TypesKept, PTL DEF Spec

-----------------------------------------------------------------------------
(* Password changes.                                                       *)

\* A step of one call leaves the revocations the others still have to make.
LEMMA PendingKept ==
    ASSUME TypeOK, [Next]_vars, faults' = 0
    PROVE  /\ faults = 0
           /\ \/ \E r \in Requests : RevokeAll(r)
              \/ \A u : ChangePending(u) => ChangePending(u)'
<1>0. job \in [Requests -> Job] /\ faults \in 0 .. MaxFaults /\ MaxFaults \in Nat
  BY AuthSessionsAssumption DEF TypeOK
<1>1. ASSUME NEW r \in Requests, job[r].pc # "revoke_all",
             \A q \in Requests \ {r} : job'[q] = job[q]
      PROVE  \A u : ChangePending(u) => ChangePending(u)'
  BY <1>1 DEF ChangePending
<1>2. ASSUME NEW r \in Requests, NEW j, Proceed(r, j)
      PROVE  \A q \in Requests \ {r} : job'[q] = job[q]
  BY <1>0, <1>2 DEF Proceed
<1>3. ASSUME NEW r \in Requests, Call(r)
      PROVE  faults = 0 /\ \A u : ChangePending(u) => ChangePending(u)'
  <2>1. faults = 0 /\ job[r].pc # "revoke_all"
    BY <1>3, IdleJob DEF Call, RegisterRead, ChangeRead, ForgotRead, LoginRead, LinkRead,
                RefreshRead, Logout, Presents, history
  <2>2. \A q \in Requests \ {r} : job'[q] = job[q]
    BY <1>0, <1>2, <1>3 DEF Call, RegisterRead, ChangeRead, ForgotRead, LoginRead, LinkRead,
                     RefreshRead, Logout
  <2> QED BY <1>1, <2>1, <2>2
<1>4. ASSUME NEW r \in Requests, Resume(r), ~RevokeAll(r)
      PROVE  faults = 0 /\ \A u : ChangePending(u) => ChangePending(u)'
  <2>1. faults = 0 /\ job[r].pc # "revoke_all"
    BY <1>4 DEF Resume, InsertUser, Invalidate, InsertLink, Mail, UseLink, VerifyUser,
                WritePassword, RefreshFlip, InsertRefresh, WriteHash, Reply, history
  <2>2. \A q \in Requests \ {r} : job'[q] = job[q]
    BY <1>2, <1>4 DEF Resume, InsertUser, Invalidate, InsertLink, Mail, UseLink, VerifyUser,
                WritePassword, RefreshFlip, InsertRefresh, WriteHash, Reply, Step, Return
  <2> QED BY <1>1, <2>1, <2>2
<1>5. ASSUME NEW r \in Requests, RevokeAll(r) PROVE faults = 0
  BY <1>5 DEF RevokeAll, history
<1>6. ASSUME NEW r \in Requests, CallFails(r) PROVE FALSE
  BY <1>0, <1>6 DEF CallFails
<1>7. UNCHANGED vars => faults = 0 /\ \A u : ChangePending(u) => ChangePending(u)'
  BY DEF vars, history, ChangePending
<1> QED BY <1>3, <1>4, <1>5, <1>6, <1>7 DEF Next

\* A token that has become outdated was inserted late, or a revocation is due.
LEMMA OldSessionsStep ==
    ASSUME AuthInv, ChangeEndsOldSessions, [Next]_vars
    PROVE  ChangeEndsOldSessions'
<1> SUFFICES ASSUME faults' = 0, NEW i \in RefreshIds, Outdated(i)'
             PROVE  (i \in late \/ ChangePending(refresh[i].owner))'
  BY DEF ChangeEndsOldSessions
<1>0. /\ refresh \in [RefreshIds -> RefreshRow] /\ password \in [Users -> Passwords \cup {None}]
      /\ basis \in [RefreshIds -> Passwords \cup {None}] /\ late \subseteq RefreshIds
      /\ job \in [Requests -> Job] /\ TypeOK
      /\ \A k \in RefreshIds : HasAccount(refresh[k].owner)
  BY DEF AuthInv, TypeOK, AccountsOK
<1>1. /\ faults = 0
      /\ \/ \E r \in Requests : RevokeAll(r)
         \/ \A u : ChangePending(u) => ChangePending(u)'
  BY <1>0, PendingKept
<1>2. Outdated(i) => i \in late \/ ChangePending(refresh[i].owner)
  BY <1>1 DEF ChangeEndsOldSessions
<1>3. /\ refresh'[i].owner # None /\ ~refresh'[i].revoked /\ ~refresh[i].revoked
      /\ basis'[i] # password'[refresh'[i].owner]
  BY <1>0, RevokedStays DEF Outdated, Live
<1>4. ASSUME NEW r \in Requests, RevokeAll(r)
      PROVE  (i \in late \/ ChangePending(refresh[i].owner))'
  <2>1. /\ refresh'[i] = refresh[i] /\ refresh[i].owner # job[r].user
        /\ UNCHANGED <<password, basis, late>>
    BY <1>0, <1>3, <1>4 DEF RevokeAll, history, RefreshRow
  <2>2. \A q \in Requests \ {r} : job'[q] = job[q]
    BY <1>0, <1>4 DEF RevokeAll, Return, Proceed
  <2>3. Outdated(i)
    BY <1>3, <2>1 DEF Outdated, Live
  <2>4. CASE i \in late
    BY <2>1, <2>4
  <2>5. CASE ChangePending(refresh[i].owner)
    BY <2>1, <2>2, <2>5 DEF ChangePending
  <2> QED BY <1>2, <2>3, <2>4, <2>5
<1> SUFFICES ASSUME \A r \in Requests : ~RevokeAll(r)
             PROVE  (i \in late \/ ChangePending(refresh[i].owner))'
  BY <1>4
<1>5. \A u : ChangePending(u) => ChangePending(u)'
  BY <1>1
<1>6. ASSUME refresh'[i].owner = refresh[i].owner, basis'[i] = basis[i], late \subseteq late',
             password'[refresh[i].owner] = password[refresh[i].owner]
      PROVE  (i \in late \/ ChangePending(refresh[i].owner))'
  BY <1>2, <1>3, <1>5, <1>6 DEF Outdated, Live, ChangePending
<1>7. ASSUME NEW r \in Requests, InsertRefresh(r)
      PROVE  (i \in late \/ ChangePending(refresh[i].owner))'
  <2>1. PICK k \in RefreshIds :
            /\ refresh' = [refresh EXCEPT ![k] = [NoRefresh EXCEPT !.owner = job[r].user]]
            /\ basis' = [basis EXCEPT ![k] = job[r].pw]
            /\ late' = IF job[r].pw = password[job[r].user] THEN late ELSE late \cup {k}
    BY <1>7 DEF InsertRefresh
  <2>2. password' = password
    BY <1>7 DEF InsertRefresh
  <2>3. CASE i = k
    BY <1>0, <1>3, <2>1, <2>2, <2>3 DEF NoRefresh
  <2>4. CASE i # k
    BY <1>0, <1>6, <2>1, <2>2, <2>4
  <2> QED BY <2>3, <2>4
<1>8. ASSUME NEW r \in Requests, WritePassword(r)
      PROVE  (i \in late \/ ChangePending(refresh[i].owner))'
  <2>1. /\ password' = [password EXCEPT ![job[r].user] = job[r].pw]
        /\ UNCHANGED <<refresh, basis, late>>
    BY <1>8 DEF WritePassword, history
  <2>2. CASE refresh[i].owner = job[r].user
    <3>1. job'[r].pc = "revoke_all" /\ job'[r].user = job[r].user
      BY <1>0, <1>8 DEF WritePassword, Step, Proceed, Job
    <3> QED BY <2>1, <2>2, <3>1 DEF ChangePending
  <2>3. CASE refresh[i].owner # job[r].user
    BY <1>0, <1>6, <2>1, <2>3
  <2> QED BY <2>2, <2>3
<1>9. ASSUME NEW r \in Requests, InsertUser(r)
      PROVE  (i \in late \/ ChangePending(refresh[i].owner))'
  <2>1. UNCHANGED <<refresh, basis, late>>
    BY <1>9 DEF InsertUser, history
  <2>2. refresh[i].owner \in Users /\ account[refresh[i].owner] # "none"
    BY <1>0, <1>3, <2>1 DEF RefreshRow, HasAccount
  <2>3. password'[refresh[i].owner] = password[refresh[i].owner]
    BY <1>0, <1>9, <2>2 DEF InsertUser
  <2> QED BY <1>6, <2>1, <2>3
<1>10. ASSUME NEW r \in Requests, RefreshFlip(r) \/ WriteHash(r) \/ \E t \in RefreshIds : Logout(r, t)
       PROVE  (i \in late \/ ChangePending(refresh[i].owner))'
  <2>1. UNCHANGED <<password, basis, late>>
    BY <1>10 DEF RefreshFlip, WriteHash, Logout, history
  <2>2. refresh'[i].owner = refresh[i].owner
    BY <1>0, <1>10 DEF RefreshFlip, WriteHash, Logout, RefreshRow
  <2> QED BY <1>6, <2>1, <2>2
<1>11. ASSUME UNCHANGED <<refresh, password, basis, late>>
       PROVE  (i \in late \/ ChangePending(refresh[i].owner))'
  BY <1>6, <1>11
<1>12. ASSUME NEW r \in Requests,
              \/ Invalidate(r) \/ InsertLink(r) \/ Mail(r) \/ UseLink(r)
              \/ VerifyUser(r) \/ Reply(r) \/ CallFails(r)
       PROVE  UNCHANGED <<refresh, password, basis, late>>
  BY <1>12 DEF Invalidate, InsertLink, Mail, UseLink, VerifyUser, Reply, CallFails,
               tables, history
<1>13. ASSUME NEW r \in Requests, Call(r), ~ \E t \in RefreshIds : Logout(r, t)
       PROVE  UNCHANGED <<refresh, password, basis, late>>
  BY <1>13 DEF Call, RegisterRead, ChangeRead, ForgotRead, LoginRead, LinkRead, RefreshRead,
               tables, history
<1>14. UNCHANGED vars => UNCHANGED <<refresh, password, basis, late>>
  BY DEF vars, tables, history
<1> QED BY <1>7, <1>8, <1>9, <1>10, <1>11, <1>12, <1>13, <1>14 DEF Next, Resume

\* changePassword and resetPassword: unless a call failed, a session of an
\* earlier password that is still live was inserted after the change.
THEOREM OldSessionsEnd == Spec => []ChangeEndsOldSessions
<1>1. Init => ChangeEndsOldSessions
  BY DEF Init, ChangeEndsOldSessions, Outdated, Live, NoRefresh
<1> QED BY <1>1, AuthInit, AuthStep, OldSessionsStep, PTL DEF Spec
=============================================================================
