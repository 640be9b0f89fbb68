-------------------------- MODULE MCAuthEmailOutbox --------------------------
(***************************************************************************)
(* Small instances of AuthEmailOutbox for TLC.                             *)
(***************************************************************************)
EXTENDS AuthEmailOutbox, TLC

CONSTANTS m1, m2, w1, w2

MCMails == {m1, m2}
MCWorkers == {w1, w2}
=============================================================================
