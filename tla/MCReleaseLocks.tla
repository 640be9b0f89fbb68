--------------------------- MODULE MCReleaseLocks ---------------------------
(***************************************************************************)
(* Small instances of ReleaseLocks for TLC.                                *)
(***************************************************************************)
EXTENDS ReleaseLocks, TLC

CONSTANTS t1, t2, d1, d2

MCTransactions == {t1, t2}
MCDocuments == {d1, d2}
MCIds == <<Production, Staging>>

MCReleases == {"publish", "promote", "approve", "verify", "unpublish",
               "schedule", "start", "end"}
MCSettings == {"approvalCount", "environmentPolicy", "memberRole", "changePlan"}
MCKinds == MCReleases \union MCSettings

\* The plan may change without changing the limit.
MCLimits == {1}

LockSymmetry == Permutations(MCTransactions) \union Permutations(MCDocuments)
=============================================================================
