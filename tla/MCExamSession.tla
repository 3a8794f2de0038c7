--------------------------- MODULE MCExamSession ---------------------------
(* The exam engine on small sets of model values.                          *)
EXTENDS ExamSession, TLC

\* Sessions, codes, request slots and instances are interchangeable in every run that
\* checks safety only.
Symmetry ==
    Permutations(Sessions) \cup Permutations(Codes) \cup Permutations(Requests)
        \cup Permutations(Instances)

\* A call, key or row holds other answers than {}.
AnswersSent ==
    \/ \E p \in Procs : job[p].held \notin {Empty, None}
    \/ \E s \in Sessions :
           \/ {snapshot[s], sessionKey[s], graceKey[s]} \ {Empty, None} # {}
           \/ recent[s] # {Empty}
           \/ \E i \in DOMAIN attempts[s] : attempts[s][i].answers # Empty

\* The bound on the interleavings of different answers: while there are some,
\* one row, up to its first attempt, and one fault.
AnswersBound ==
    AnswersSent => /\ faults <= 1
                   /\ \A s \in Sessions : attempts[s] = <<>>
                   /\ Cardinality({s \in Sessions : status[s] # "none"}) <= 1
=============================================================================
