-------------------------- MODULE MCDataResidency ---------------------------
(***************************************************************************)
(* Small instances of DataResidency for TLC.                               *)
(***************************************************************************)
EXTENDS DataResidency, TLC

CONSTANTS w1, w2, m1

MCWorkers == {w1, w2}
MCOneMigration == {m1}
MCRegions == {"us", "eu"}
MCKeys == {1, 2}

\* The list as it stands, the list with every table scoped and every row within the
\* copy's reach, and two more in which rows are out of it.
Repaired == [scoped |-> TRUE, keyless |-> {}, orphans |-> {}, own |-> {}]
MCSchemas == {[Repaired EXCEPT !.scoped = FALSE], Repaired,
              [Repaired EXCEPT !.keyless = {1}, !.orphans = {2}],
              [Repaired EXCEPT !.orphans = {2}, !.own = {1}]}

=============================================================================
