--------------------------- MODULE MCAuthSessions ---------------------------
(* AuthSessions on small sets of model values.                             *)
EXTENDS AuthSessions, TLC

\* Accounts, passwords and request slots are interchangeable.
Symmetry ==
    Permutations(Users) \cup Permutations(Passwords) \cup Permutations(Requests)
=============================================================================
