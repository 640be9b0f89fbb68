------------------------- MODULE MCDeliverySchedule -------------------------
(***************************************************************************)
(* Small instances of DeliverySchedule for TLC.                            *)
(***************************************************************************)
EXTENDS DeliverySchedule, MCDocumentRelease

CONSTANTS w1, w2

MCWorkers == {w1, w2}
MCOneWorker == {w1}

=============================================================================
