----------------------------- MODULE MailPromise -----------------------------
(***************************************************************************)
(* What the outbox of authentication e-mails promises for each mail: once  *)
(* requested it is open until it is sent or dropped, once and for good,    *)
(* and it is recorded as sent only if the mail provider took it.           *)
(***************************************************************************)
CONSTANT Mails

VARIABLES
    outcome,     \* of each mail: "none", "open", "sent" or "dropped"
    taken        \* the mails the provider has accepted

promiseVars == <<outcome, taken>>

PromiseInit ==
    /\ outcome = [m \in Mails |-> "none"]
    /\ taken = {}

Becomes(m, from, to) ==
    /\ outcome[m] = from
    /\ outcome' = [outcome EXCEPT ![m] = to]
    /\ UNCHANGED taken

Request(m) == Becomes(m, "none", "open")

ProviderTakes(m) ==
    /\ outcome[m] # "none"
    /\ taken' = taken \union {m}
    /\ UNCHANGED outcome

RecordAsSent(m) == m \in taken /\ Becomes(m, "open", "sent")

Drop(m) == Becomes(m, "open", "dropped")

PromiseNext ==
    \E m \in Mails : Request(m) \/ ProviderTakes(m) \/ RecordAsSent(m) \/ Drop(m)

PromiseSpec == PromiseInit /\ [][PromiseNext]_promiseVars
=============================================================================
