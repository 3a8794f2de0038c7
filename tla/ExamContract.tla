----------------------------- MODULE ExamContract -----------------------------
(***************************************************************************)
(* ExamContract: what the exam engine promises of the sittings of one      *)
(* student, without Redis, calls or handlers.  A sitting is opened with a  *)
(* code, which it uses up, and closed with a result, or withdrawn before   *)
(* it has one, which frees the code.  The one way back is Reopen, the      *)
(* race of an expiry with a submit.  ExamSession implements this.          *)
(***************************************************************************)
EXTENDS Sequences

CONSTANTS
    Sessions,
    Codes,
    None,
    Results     \* what an exam may be scored as

VARIABLES
    phase,      \* unopened, open, closed or withdrawn
    used,       \* the codes that are used up
    code,       \* the code each sitting was opened with
    results     \* of each sitting, oldest first

contract == <<phase, used, code, results>>

Init ==
    /\ phase = [s \in Sessions |-> "unopened"]
    /\ used = [c \in Codes |-> FALSE]
    /\ code = [s \in Sessions |-> None]
    /\ results = [s \in Sessions |-> <<>>]

Begin(s, c) ==
    /\ phase[s] = "unopened"
    /\ ~used[c]
    /\ phase' = [phase EXCEPT ![s] = "open"]
    /\ used' = [used EXCEPT ![c] = TRUE]
    /\ code' = [code EXCEPT ![s] = c]
    /\ UNCHANGED results

Withdraw(s) ==
    /\ phase[s] = "open"
    /\ results[s] = <<>>
    /\ phase' = [phase EXCEPT ![s] = "withdrawn"]
    /\ used' = [used EXCEPT ![code[s]] = FALSE]
    /\ UNCHANGED <<code, results>>

Close(s, r) ==
    /\ phase[s] = "open"
    /\ phase' = [phase EXCEPT ![s] = "closed"]
    /\ results' = [results EXCEPT ![s] = Append(@, r)]
    /\ UNCHANGED <<used, code>>

Reopen(s) ==
    /\ phase[s] = "closed"
    /\ phase' = [phase EXCEPT ![s] = "open"]
    /\ UNCHANGED <<used, code, results>>

Next == \E s \in Sessions :
    \/ \E c \in Codes : Begin(s, c)
    \/ Withdraw(s)
    \/ \E r \in Results : Close(s, r)
    \/ Reopen(s)

Spec == Init /\ [][Next]_contract
===============================================================================
