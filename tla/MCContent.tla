------------------------------ MODULE MCContent ------------------------------
(* Two requests at a time and a pool of three: enough for both to go on,   *)
(* until a BEGIN fails and one connection is gone.                         *)
EXTENDS Content, TLC

CONSTANTS c1, c2, c3, m1, l1, t1, t2, p1, p2

MCCerts == {c1, c2, c3}
MCModules == {m1}
MCLessons == {l1}
MCSeeds == {{}, {c1, m1}}

MCTitles == {t1, t2}
MCProgramCodes == {p1, p2}
MCNothing == [code |-> None, title |-> None, en |-> None, other |-> None,
              description |-> FALSE, active |-> None]
\* The certificate that is there first is edited, in every way; the others
\* only compete for a program code.
MCEdits == (c1 :> {[MCNothing EXCEPT !.title = t2, !.code = p2, !.active = TRUE], [MCNothing EXCEPT !.en = t2],
                   [MCNothing EXCEPT !.en = Untitled], [MCNothing EXCEPT !.other = t1]})
           @@ (c2 :> {}) @@ (c3 :> {})
           @@ (m1 :> {[MCNothing EXCEPT !.description = TRUE]}) @@ (l1 :> {[MCNothing EXCEPT !.active = TRUE]})
MCBodies == {[MCNothing EXCEPT !.title = t1, !.en = t2],
             [MCNothing EXCEPT !.title = t1, !.code = p1]}
=============================================================================
