-------------------------- MODULE MCWebhookDelivery --------------------------
(***************************************************************************)
(* Small instances of WebhookDelivery for TLC.                             *)
(***************************************************************************)
EXTENDS WebhookDelivery

CONSTANTS w1, w2, ev1, ep1

MCWorkers == {w1, w2}
MCOneEvent == {ev1}
MCOneEndpoint == {ep1}
MCOneSubscription == {<<ev1, ep1>>}
MCRetryDelay == [n \in 0..MaxAttempts |-> IF n = 0 THEN 1 ELSE 2 ^ (n - 1)]

=============================================================================
