--------------------------- MODULE WebhookDelivery ---------------------------
(***************************************************************************)
(* Outbound webhooks: endpoints, deliveries and the workers that lease      *)
(* deliveries in batches and POST them to the customers' servers            *)
(* (apps/api/src/outbound-webhooks.ts, packages/database/src/drizzle/       *)
(* webhooks.ts).                                                            *)
(*                                                                         *)
(* Every transaction of the repository is one action, except the two whose  *)
(* statements another transaction may come between: enqueueing (endpoints   *)
(* are read, then deliveries are inserted) and retention (ids are selected, *)
(* then rows are deleted).  A worker's await is a step boundary.            *)
(*                                                                         *)
(* Time is discrete.  Points in time are kept as the number of ticks until  *)
(* they come (0: they have come), so that the model needs no horizon.       *)
(***************************************************************************)
EXTENDS Integers, FiniteSets

CONSTANTS
  Workers,        \* worker processes, one per API instance
  Events,         \* events that occur; their ids derive from what happened
  Endpoints,      \* webhook endpoints a workspace may create
  Subscriptions,  \* <<event, endpoint>>: the endpoint asks for the event's type
  None,           \* no delivery, no owner
  BatchSize,      \* deliveries leased at once
  Timeout,        \* WEBHOOK_TIMEOUT_MS: a POST is aborted after it
  Slack,          \* WEBHOOK_DELIVERY_SLACK_MS
  LookupTime,     \* longest name lookup of the environment
  WriteTime,      \* longest settlement of the environment
  LeaseTrip,      \* time the leasing transaction takes
  MaxAttempts,    \* 8 in the code
  RetryDelay,     \* delay after the n-th attempt, doubling up to 15 minutes
  MaxReplays,     \* bound: replays by people
  MaxFaults       \* bound: crashed workers and failed settlements

Deliveries == Subscriptions

ASSUME WebhookAssumption ==
  /\ None \notin Deliveries \cup Workers
  /\ Subscriptions \subseteq Events \X Endpoints
  /\ BatchSize \in Nat \ {0}
  /\ Timeout \in Nat /\ Slack \in Nat
  /\ LookupTime \in Nat /\ WriteTime \in Nat /\ LeaseTrip \in Nat
  /\ MaxAttempts \in Nat \ {0}
  /\ RetryDelay \in [0..MaxAttempts -> Nat \ {0}]
  /\ MaxReplays \in Nat /\ MaxFaults \in Nat

Budget == Timeout + Slack

\* What is left of a lease when the worker has it: runOnce reads the clock
\* before it asks for the lease.
LeaseTime == IF LeaseTrip > BatchSize * Budget THEN 0 ELSE BatchSize * Budget - LeaseTrip

\* Bound of the history variable `accepted`, more than a property allows.
CountedAnswers == MaxFaults + 2

VARIABLES
  endpoints,  \* "absent", "enabled" or "disabled"
  events,     \* ids in webhook_events
  inserting,  \* deliveries an open enqueueing transaction is about to insert
  rows,       \* webhook_deliveries
  workers,    \* what each worker is doing
  doomed,     \* ids each worker's retention sweep has selected
  accepted,   \* history: 2xx answers to a delivery since it was enqueued or replayed
  replays,    \* history: replays so far
  faults      \* history: faults so far

tables == <<endpoints, events, inserting, rows>>
vars == <<endpoints, events, inserting, rows, workers, doomed, accepted, replays, faults>>

-----------------------------------------------------------------------------
Statuses == {"none", "pending", "delivering", "succeeded", "dead"}
Settled == {"succeeded", "dead"}
Unsettled == {"pending", "delivering"}

Row == [status: Statuses, attempts: 0..MaxAttempts, available: Nat,
        owner: Workers \cup {None}, lease: Nat, aged: BOOLEAN]

\* A worker waits for its timer ("idle"), is between two deliveries of its
\* batch ("batch"), looks up the endpoint's host, has a POST in flight, writes
\* the outcome, or sweeps old rows.
TimedPhases == {"resolving", "posting", "settling"}
Phases == {"idle", "batch", "sweeping", "deleting"} \cup TimedPhases

\* What the write settles: a 2xx answer, another answer, an error caught
\* around the request, or a host refused before the request.
Outcomes == {"accepted", "rejected", "caught", "refused"}

Worker == [phase: Phases, batch: SUBSET Deliveries,
           current: Deliveries \cup {None}, lease: Nat, left: Nat,
           outcome: Outcomes]

NoRow == [status |-> "none", attempts |-> 0, available |-> 0,
          owner |-> None, lease |-> 0, aged |-> FALSE]

Idle == [phase |-> "idle", batch |-> {}, current |-> None,
         lease |-> 0, left |-> 0, outcome |-> "refused"]

Init ==
  /\ endpoints = [e \in Endpoints |-> "absent"]
  /\ events = {}
  /\ inserting = {}
  /\ rows = [d \in Deliveries |-> NoRow]
  /\ workers = [w \in Workers |-> Idle]
  /\ doomed = [w \in Workers |-> {}]
  /\ accepted = [d \in Deliveries |-> 0]
  /\ replays = 0
  /\ faults = 0

-----------------------------------------------------------------------------
(* People and the release routes *)

CreateWebhookEndpoint(e) ==
  /\ endpoints[e] = "absent"
  /\ endpoints' = [endpoints EXCEPT ![e] = "enabled"]
  /\ UNCHANGED <<events, inserting, rows, workers, doomed, accepted, replays, faults>>

\* Mutant of DisableWebhookEndpoint: deliveries that are leased die as well.
DisableWithLeased(e) ==
  /\ endpoints[e] = "enabled"
  /\ endpoints' = [endpoints EXCEPT ![e] = "disabled"]
  /\ rows' = [d \in Deliveries |->
       IF d[2] = e /\ rows[d].status \in Unsettled
       THEN [rows[d] EXCEPT !.status = "dead", !.owner = None, !.lease = 0] ELSE rows[d]]
  /\ UNCHANGED <<events, inserting, workers, doomed, accepted, replays, faults>>

\* Only pending deliveries die with their endpoint; leased ones stay leased.
DisableWebhookEndpoint(e) ==
  /\ endpoints[e] = "enabled"
  /\ endpoints' = [endpoints EXCEPT ![e] = "disabled"]
  /\ rows' = [d \in Deliveries |->
       IF d[2] = e /\ rows[d].status = "pending"
       THEN [rows[d] EXCEPT !.status = "dead"] ELSE rows[d]]
  /\ UNCHANGED <<events, inserting, workers, doomed, accepted, replays, faults>>

\* An event is stored once; repeating it finds the stored one.
EnqueueReadsEndpoints(ev) ==
  /\ ev \notin events
  /\ events' = events \cup {ev}
  /\ inserting' = inserting \cup
       {d \in Deliveries : d[1] = ev /\ endpoints[d[2]] = "enabled"}
  /\ UNCHANGED <<endpoints, rows, workers, doomed, accepted, replays, faults>>

EnqueueWebhookEvent(ev) ==
  LET created == {d \in inserting : d[1] = ev}
  IN /\ created # {}
     /\ inserting' = inserting \ created
     /\ rows' = [d \in Deliveries |->
          IF d \in created THEN [NoRow EXCEPT !.status = "pending"] ELSE rows[d]]
     /\ UNCHANGED <<endpoints, events, workers, doomed, accepted, replays, faults>>

ReplayWebhookDelivery(d) ==
  /\ replays < MaxReplays
  /\ rows[d].status = "dead"
  /\ rows' = [rows EXCEPT ![d] = [NoRow EXCEPT !.status = "pending"]]
  /\ accepted' = [accepted EXCEPT ![d] = 0]
  /\ replays' = replays + 1
  /\ UNCHANGED <<endpoints, events, inserting, workers, doomed, faults>>

-----------------------------------------------------------------------------
(* A worker's poll *)

\* Mutant of IsDue: a delivery is leased again before its lease has lapsed.
IsDueDespiteLease(row) ==
  row.available = 0 /\ row.status \in Unsettled

IsDue(row) ==
  /\ row.available = 0
  /\ \/ row.status = "pending"
     \/ row.status = "delivering" /\ row.lease = 0

Leased(row, w) ==
  [row EXCEPT !.status = "delivering",
              !.attempts = IF @ + 1 > MaxAttempts THEN MaxAttempts ELSE @ + 1,
              !.owner = w, !.lease = LeaseTime, !.aged = FALSE]

\* Mutant of Unroutable: rows without an enabled endpoint are passed over.
PassedOver(row) == row

Dead(row) == [row EXCEPT !.status = "dead", !.owner = None, !.lease = 0, !.aged = FALSE]

\* A due row whose endpoint is not enabled any more is finished on the spot.
Unroutable(row) == Dead(row)

\* Rows another lease holds locked are skipped, so any of the due ones may be
\* taken.
LeaseWebhookDeliveries(w) ==
  /\ workers[w].phase = "idle"
  /\ \E taken \in SUBSET {d \in Deliveries : IsDue(rows[d])} :
       LET routable == {d \in taken : endpoints[d[2]] = "enabled"}
       IN /\ Cardinality(taken) <= BatchSize
          /\ taken = {} => \A d \in Deliveries : ~IsDue(rows[d])
          /\ rows' = [d \in Deliveries |->
               IF d \in routable THEN Leased(rows[d], w)
               ELSE IF d \in taken THEN Unroutable(rows[d])
               ELSE rows[d]]
          /\ workers' = [workers EXCEPT ![w] =
               [Idle EXCEPT !.phase = "batch", !.batch = routable, !.lease = LeaseTime]]
  /\ UNCHANGED <<endpoints, events, inserting, doomed, accepted, replays, faults>>

InPhase(w, phase) == workers[w].phase = phase

\* The worker goes on to a phase that the environment ends within `time` ticks.
Enter(w, phase, time, outcome) ==
  workers' = [workers EXCEPT ![w].phase = phase, ![w].left = time, ![w].outcome = outcome]

\* Mutant of StartDelivery: the lease is not compared with the budget.
StartDeliveryOnAnyLease(w, d) ==
  /\ InPhase(w, "batch")
  /\ d \in workers[w].batch
  /\ workers' = [workers EXCEPT ![w].phase = "resolving", ![w].left = LookupTime,
                                ![w].batch = @ \ {d}, ![w].current = d]
  /\ UNCHANGED <<tables, doomed, accepted, replays, faults>>

\* The next delivery of the batch, while the lease still covers one.
StartDelivery(w, d) ==
  /\ InPhase(w, "batch")
  /\ d \in workers[w].batch
  /\ workers[w].lease >= Budget
  /\ workers' = [workers EXCEPT ![w].phase = "resolving", ![w].left = LookupTime,
                                ![w].batch = @ \ {d}, ![w].current = d]
  /\ UNCHANGED <<tables, doomed, accepted, replays, faults>>

FinishBatch(w) ==
  /\ InPhase(w, "batch")
  /\ workers[w].batch = {} \/ workers[w].lease < Budget
  /\ workers' = [workers EXCEPT ![w] = [Idle EXCEPT !.phase = "sweeping"]]
  /\ UNCHANGED <<tables, doomed, accepted, replays, faults>>

\* The name does not resolve, or to an address that must not be contacted.
RefuseEndpoint(w) ==
  /\ InPhase(w, "resolving")
  /\ Enter(w, "settling", WriteTime, "refused")
  /\ UNCHANGED <<tables, doomed, accepted, replays, faults>>

\* The abort timer starts here, after the lookup.
SendRequest(w) ==
  /\ InPhase(w, "resolving")
  /\ Enter(w, "posting", Timeout, workers[w].outcome)
  /\ UNCHANGED <<tables, doomed, accepted, replays, faults>>

AnswerIsSuccess(w) ==
  /\ InPhase(w, "posting")
  /\ Enter(w, "settling", WriteTime, "accepted")
  /\ accepted' = [accepted EXCEPT ![workers[w].current] =
                    IF @ = CountedAnswers THEN @ ELSE @ + 1]
  /\ UNCHANGED <<tables, doomed, replays, faults>>

\* Any other answer, a network error or the abort.
AnswerIsFailure(w) ==
  /\ InPhase(w, "posting")
  /\ \E outcome \in {"rejected", "caught"} : Enter(w, "settling", WriteTime, outcome)
  /\ UNCHANGED <<tables, doomed, accepted, replays, faults>>

-----------------------------------------------------------------------------
(* Settlement *)

OwnsLease(d, w) == rows[d].status = "delivering" /\ rows[d].owner = w

NextDelivery(w) ==
  workers' = [workers EXCEPT ![w].phase = "batch", ![w].current = None, ![w].left = 0]

CompleteWebhookDelivery(w) ==
  /\ InPhase(w, "settling")
  /\ workers[w].outcome = "accepted"
  /\ LET d == workers[w].current
     IN rows' = IF OwnsLease(d, w)
                THEN [rows EXCEPT ![d] = [@ EXCEPT !.status = "succeeded", !.owner = None,
                                                   !.lease = 0, !.aged = FALSE]]
                ELSE rows
  /\ NextDelivery(w)
  /\ UNCHANGED <<endpoints, events, inserting, doomed, accepted, replays, faults>>

\* Mutant of Retried: the last attempt is counted one too early.
RetriedOnceLess(row) ==
  IF row.attempts + 1 >= MaxAttempts THEN Dead(row)
  ELSE [row EXCEPT !.status = "pending", !.owner = None, !.lease = 0, !.aged = FALSE,
                   !.available = RetryDelay[row.attempts]]

Retried(row) ==
  IF row.attempts >= MaxAttempts THEN Dead(row)
  ELSE [row EXCEPT !.status = "pending", !.owner = None, !.lease = 0, !.aged = FALSE,
                   !.available = RetryDelay[row.attempts]]

FailWebhookDelivery(w) ==
  /\ InPhase(w, "settling")
  /\ workers[w].outcome # "accepted"
  /\ LET d == workers[w].current
     IN rows' = IF OwnsLease(d, w) THEN [rows EXCEPT ![d] = Retried(@)] ELSE rows
  /\ NextDelivery(w)
  /\ UNCHANGED <<endpoints, events, inserting, doomed, accepted, replays, faults>>

\* The database fails the settlement.  Inside the try block the error is
\* caught and settled as a network error; otherwise the poll ends with it.
SettlementFails(w) ==
  /\ faults < MaxFaults
  /\ InPhase(w, "settling")
  /\ workers' = [workers EXCEPT ![w] =
       IF @.outcome \in {"accepted", "rejected"} THEN [@ EXCEPT !.outcome = "caught"] ELSE Idle]
  /\ faults' = faults + 1
  /\ UNCHANGED <<tables, doomed, accepted, replays>>

-----------------------------------------------------------------------------
(* Retention *)

\* Mutant of SelectFinishedDeliveries: the last attempt counts as the end.
SelectOldDeliveries(w) ==
  /\ InPhase(w, "sweeping")
  /\ LET old == {d \in Deliveries : rows[d].aged \/ rows[d].attempts = MaxAttempts}
     IN /\ doomed' = [doomed EXCEPT ![w] = old]
        /\ workers' = [workers EXCEPT ![w].phase = IF old = {} THEN "idle" ELSE "deleting"]
  /\ UNCHANGED <<tables, accepted, replays, faults>>

SelectFinishedDeliveries(w) ==
  /\ InPhase(w, "sweeping")
  /\ LET old == {d \in Deliveries : rows[d].status \in Settled /\ rows[d].aged}
     IN /\ doomed' = [doomed EXCEPT ![w] = old]
        /\ workers' = [workers EXCEPT ![w].phase = IF old = {} THEN "idle" ELSE "deleting"]
  /\ UNCHANGED <<tables, accepted, replays, faults>>

PruneWebhookDeliveries(w) ==
  /\ InPhase(w, "deleting")
  /\ rows' = [d \in Deliveries |-> IF d \in doomed[w] THEN NoRow ELSE rows[d]]
  /\ doomed' = [doomed EXCEPT ![w] = {}]
  /\ workers' = [workers EXCEPT ![w] = Idle]
  /\ UNCHANGED <<endpoints, events, inserting, accepted, replays, faults>>

-----------------------------------------------------------------------------
(* Time and crashes *)

Less(n) == IF n = 0 THEN 0 ELSE n - 1

\* Lookups, requests and settlements end before their time is over.
Tick ==
  /\ \A w \in Workers : workers[w].phase \in TimedPhases => workers[w].left > 0
  /\ rows' = [d \in Deliveries |->
       [rows[d] EXCEPT !.available = Less(@), !.lease = Less(@)]]
  /\ workers' = [w \in Workers |->
       [workers[w] EXCEPT !.lease = Less(@), !.left = Less(@)]]
  /\ UNCHANGED <<endpoints, events, inserting, doomed, accepted, replays, faults>>

\* Retention lasts days, so nothing that takes seconds is under way.
RetentionPasses(d) ==
  /\ rows[d].status \in Settled
  /\ \A w \in Workers : workers[w].phase \notin TimedPhases
  /\ rows' = [rows EXCEPT ![d].aged = TRUE]
  /\ UNCHANGED <<endpoints, events, inserting, workers, doomed, accepted, replays, faults>>

\* The process dies; what it leased stays leased.
Crash(w) ==
  /\ faults < MaxFaults
  /\ workers[w].phase # "idle"
  /\ workers' = [workers EXCEPT ![w] = Idle]
  /\ doomed' = [doomed EXCEPT ![w] = {}]
  /\ faults' = faults + 1
  /\ UNCHANGED <<tables, accepted, replays>>

Run(w) ==
  \/ LeaseWebhookDeliveries(w)
  \/ \E d \in Deliveries : StartDelivery(w, d)
  \/ FinishBatch(w)
  \/ RefuseEndpoint(w)
  \/ SendRequest(w)
  \/ AnswerIsSuccess(w)
  \/ AnswerIsFailure(w)
  \/ CompleteWebhookDelivery(w)
  \/ FailWebhookDelivery(w)
  \/ SelectFinishedDeliveries(w)
  \/ PruneWebhookDeliveries(w)

Next ==
  \/ \E e \in Endpoints : CreateWebhookEndpoint(e) \/ DisableWebhookEndpoint(e)
  \/ \E ev \in Events : EnqueueReadsEndpoints(ev) \/ EnqueueWebhookEvent(ev)
  \/ \E d \in Deliveries : ReplayWebhookDelivery(d) \/ RetentionPasses(d)
  \/ \E w \in Workers : Run(w) \/ SettlementFails(w) \/ Crash(w)
  \/ Tick

Spec == Init /\ [][Next]_vars

\* The worker sets its timer again in `finally` whatever a poll did, requests
\* and lookups end, and clocks advance.  Strong fairness of StartDelivery: no
\* process is descheduled for all of its spare time after every lease.
FairSpec ==
  /\ Spec
  /\ WF_vars(Tick)
  /\ \A w \in Workers : WF_vars(Run(w))
  /\ \A w \in Workers : SF_vars(\E d \in Deliveries : StartDelivery(w, d))

-----------------------------------------------------------------------------
(* Properties *)

\* Rows and workers have their types, and the lease check of
\* webhook_deliveries holds: exactly the rows being delivered have an owner.
WebhookTypeOK ==
  /\ endpoints \in [Endpoints -> {"absent", "enabled", "disabled"}]
  /\ events \in SUBSET Events
  /\ inserting \in SUBSET Deliveries
  /\ rows \in [Deliveries -> Row]
  /\ workers \in [Workers -> Worker]
  /\ doomed \in [Workers -> SUBSET Deliveries]
  /\ accepted \in [Deliveries -> 0..CountedAnswers]
  /\ replays \in 0..MaxReplays
  /\ faults \in 0..MaxFaults
  /\ \A d \in Deliveries : rows[d].status = "delivering" <=> rows[d].owner # None
  /\ \A w \in Workers : workers[w].phase \in TimedPhases <=> workers[w].current # None

\* A worker holds the lease of the delivery it works on from before the lookup
\* until the outcome is written, so its settlement is never refused: the lease
\* taken by runOnce covers the whole batch (unless the sweep deleted the row).
WorkerOwnsItsDelivery ==
  \A w \in Workers :
    LET d == workers[w].current
    IN d # None => rows[d].status = "none" \/ OwnsLease(d, w)

\* No two workers have the same delivery in flight to the customer.
OneRequestAtATime ==
  \A w, v \in Workers :
    InPhase(w, "posting") /\ InPhase(v, "posting")
      /\ workers[w].current = workers[v].current => w = v

\* Customers get a delivery at least once; each repetition after an accepted
\* one is owed to a crash or to a settlement the database refused.
RepetitionsAreFaults ==
  \A d \in Deliveries : accepted[d] <= 1 + faults

\* As long as nothing fails, an accepted delivery is recorded as such: it is
\* never marked dead or retried.
AcceptedIsRecorded ==
  faults = 0 =>
    \A d \in Deliveries : accepted[d] > 0 =>
      \/ rows[d].status \in {"succeeded", "none"}
      \/ \E w \in Workers : workers[w].current = d /\ workers[w].outcome = "accepted"

\* A delivery is given up only after its last attempt or because its endpoint
\* was disabled, however workers and leases interleave.
GivesUpForAReason ==
  [][\A d \in Deliveries :
       rows[d].status \in Unsettled /\ rows'[d].status = "dead" =>
         \/ rows[d].attempts = MaxAttempts
         \/ endpoints'[d[2]] = "disabled"]_vars

\* Every delivery is settled in the end, also one whose endpoint was disabled
\* while it was enqueued or leased (the poison row leaseWebhookDeliveries ends);
\* a replayed one may be swept instead.
EveryDeliverySettles ==
  \A d \in Deliveries :
    rows[d].status \in Unsettled ~>
      \/ rows[d].status \in Settled
      \/ rows[d].status = "none" /\ replays > 0

\* Retention never stops a delivery that nobody replays: between the two
\* statements of a sweep a finished row stays finished.  (A dead delivery that
\* is replayed between them is deleted unsent.)
OnlyReplaysAreSweptUnsent ==
  [][\A d \in Deliveries :
       rows[d].status \in Unsettled /\ rows'[d].status = "none" => replays > 0]_vars

=============================================================================
