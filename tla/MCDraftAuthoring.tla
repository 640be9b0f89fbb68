-------------------------- MODULE MCDraftAuthoring --------------------------
(***************************************************************************)
(* Small instances of DraftAuthoring for TLC.                              *)
(***************************************************************************)
EXTENDS DraftAuthoring

CONSTANTS s1, s2, t1

MCSessions == {s1, s2}
MCSteps == {t1}
MCLimits == [claim |-> 1, discard |-> 2, fault |-> 1, review |-> 2, rewrite |-> 1]

MCSymmetry == Permutations(MCSessions)

=============================================================================
