-------------------------- MODULE MCOperatorCommands --------------------------
(* Redrives with one operation key, one of them for another request, and two *)
(* cleanups of rows that become due while the commands run.                  *)
EXTENDS OperatorCommands, TLC

CONSTANTS r1, r2, r3, c1, c2, k1, h1, h2, x1, x2

MCOpKey == [r \in Redrives |-> k1]
MCHash == [r \in Redrives |-> IF r = r3 THEN h2 ELSE h1]
MCRetainUntil == [x \in Records |-> 1]

\* Neither the cleanups nor the redrives of one request are told apart.
Symmetry == Permutations(Cleanups) \cup Permutations({r1, r2})
=============================================================================
