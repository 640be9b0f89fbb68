------------------------ MODULE WebhookDeliveryProofs ------------------------
(***************************************************************************)
(* Proofs about WebhookDelivery, for any number of workers, events,         *)
(* endpoints, batch sizes and times: the type invariant, and, as long as    *)
(* the name lookup and the settlement fit into the slack of a delivery,     *)
(* that leases exclude each other.                                          *)
(***************************************************************************)
EXTENDS WebhookDelivery, TLAPS

-----------------------------------------------------------------------------
(* What the operators return *)

LEMMA LeaseTimeType == LeaseTime \in Nat
<1>1. BatchSize * Budget \in Nat
  BY WebhookAssumption DEF Budget
<1>2. QED
  BY <1>1, WebhookAssumption DEF LeaseTime

LEMMA NoRowType == NoRow \in Row /\ NoRow.status = "none" /\ NoRow.owner = None
<1>1. 0 \in 0..MaxAttempts
  BY WebhookAssumption
<1>2. QED
  BY <1>1 DEF NoRow, Row, Statuses

LEMMA PendingType ==
  /\ [NoRow EXCEPT !.status = "pending"] \in Row
  /\ [NoRow EXCEPT !.status = "pending"].status = "pending"
  /\ [NoRow EXCEPT !.status = "pending"].owner = None
BY NoRowType DEF Row, Statuses

LEMMA DeadType ==
  ASSUME NEW row \in Row
  PROVE  Dead(row) \in Row /\ Dead(row).status = "dead" /\ Dead(row).owner = None
BY DEF Dead, Row, Statuses

LEMMA LeasedType ==
  ASSUME NEW row \in Row, NEW w \in Workers
  PROVE  /\ Leased(row, w) \in Row /\ Leased(row, w).status = "delivering"
         /\ Leased(row, w).owner = w /\ Leased(row, w).lease = LeaseTime
<1> DEFINE attempts == IF row.attempts + 1 > MaxAttempts THEN MaxAttempts ELSE row.attempts + 1
<1>1. attempts \in 0..MaxAttempts
  BY WebhookAssumption DEF Row
<1>2. Leased(row, w) = [row EXCEPT !.status = "delivering", !.attempts = attempts, !.owner = w,
                                   !.lease = LeaseTime, !.aged = FALSE]
  BY DEF Leased, Row
<1> HIDE DEF attempts
<1>3. QED
  BY <1>1, <1>2, LeaseTimeType DEF Row, Statuses

LEMMA RetriedType ==
  ASSUME NEW row \in Row
  PROVE  /\ Retried(row) \in Row /\ Retried(row).status \in {"dead", "pending"}
         /\ Retried(row).owner = None
<1>1. RetryDelay[row.attempts] \in Nat
  BY WebhookAssumption DEF Row
<1>2. CASE row.attempts >= MaxAttempts
  BY <1>2, DeadType DEF Retried
<1>3. CASE ~(row.attempts >= MaxAttempts)
  BY <1>1, <1>3 DEF Retried, Row, Statuses
<1>4. QED
  BY <1>2, <1>3

LEMMA IdleType ==
  /\ Idle \in Worker /\ Idle.phase = "idle" /\ Idle.current = None
  /\ Idle.batch = {} /\ Idle.lease = 0
BY DEF Idle, Worker, Phases, Outcomes

LEMMA LessType ==
  ASSUME NEW n \in Nat
  PROVE  Less(n) \in Nat /\ Less(n) <= n /\ (n > 0 => Less(n) = n - 1)
BY DEF Less

-----------------------------------------------------------------------------
(* Types *)

\* What every transaction keeps of the rows.
RowsOK ==
  /\ rows \in [Deliveries -> Row]
  /\ \A d \in Deliveries : rows[d].status = "delivering" <=> rows[d].owner # None

\* What every step keeps of the workers.
WorkersOK ==
  /\ workers \in [Workers -> Worker]
  /\ \A w \in Workers : workers[w].phase \in TimedPhases <=> workers[w].current # None

\* The rest of the types.
RestOK ==
  /\ endpoints \in [Endpoints -> {"absent", "enabled", "disabled"}]
  /\ events \in SUBSET Events
  /\ inserting \in SUBSET Deliveries
  /\ doomed \in [Workers -> SUBSET Deliveries]
  /\ accepted \in [Deliveries -> 0..CountedAnswers]
  /\ replays \in 0..MaxReplays
  /\ faults \in 0..MaxFaults

LEMMA TypeParts == WebhookTypeOK <=> RowsOK /\ WorkersOK /\ RestOK
BY DEF WebhookTypeOK, RowsOK, WorkersOK, RestOK

LEMMA InitTypes == ASSUME Init PROVE WebhookTypeOK
<1>1. RowsOK
  BY NoRowType DEF Init, RowsOK
<1>2. WorkersOK
  BY IdleType DEF Init, WorkersOK, TimedPhases
<1>3. RestOK
  BY WebhookAssumption DEF Init, RestOK, CountedAnswers
<1>4. QED
  BY <1>1, <1>2, <1>3, TypeParts

\* One row changes.
LEMMA RowChange ==
  ASSUME RowsOK, NEW d \in Deliveries, NEW row \in Row,
         row.status = "delivering" <=> row.owner # None,
         rows' = [rows EXCEPT ![d] = row]
  PROVE  RowsOK'
BY DEF RowsOK

\* One worker changes.
LEMMA WorkerChange ==
  ASSUME WorkersOK, NEW w \in Workers, NEW worker \in Worker,
         worker.phase \in TimedPhases <=> worker.current # None,
         workers' = [workers EXCEPT ![w] = worker]
  PROVE  WorkersOK'
BY DEF WorkersOK

LEMMA IdleChange ==
  ASSUME WorkersOK, NEW w \in Workers, workers' = [workers EXCEPT ![w] = Idle]
  PROVE  WorkersOK'
BY IdleType, WorkerChange DEF TimedPhases

\* A worker that works on a delivery and enters another timed phase.
LEMMA EnterType ==
  ASSUME WorkersOK, NEW w \in Workers, workers[w].phase \in TimedPhases,
         NEW phase \in TimedPhases, NEW time \in Nat, NEW outcome \in Outcomes,
         Enter(w, phase, time, outcome)
  PROVE  WorkersOK' /\ workers[w].current \in Deliveries
<1> DEFINE worker == [workers[w] EXCEPT !.phase = phase, !.left = time, !.outcome = outcome]
<1>1. workers[w] \in Worker /\ workers[w].current # None
  BY DEF WorkersOK
<1>2. worker \in Worker /\ worker.phase = phase /\ worker.current = workers[w].current
  BY <1>1 DEF Worker, Phases
<1>3. workers' = [workers EXCEPT ![w] = worker]
  BY DEF Enter
<1>4. QED
  BY <1>1, <1>2, <1>3, WorkerChange DEF Worker

LEMMA NextDeliveryType ==
  ASSUME WorkersOK, NEW w \in Workers, NextDelivery(w)
  PROVE  WorkersOK'
<1> DEFINE worker == [workers[w] EXCEPT !.phase = "batch", !.current = None, !.left = 0]
<1>1. workers[w] \in Worker
  BY DEF WorkersOK
<1>2. worker \in Worker /\ worker.phase = "batch" /\ worker.current = None
  BY <1>1 DEF Worker, Phases
<1>3. workers' = [workers EXCEPT ![w] = worker]
  BY DEF NextDelivery
<1>4. QED
  BY <1>2, <1>3, WorkerChange DEF TimedPhases

-----------------------------------------------------------------------------
(* Every action keeps the types *)

LEMMA PeopleKeepTypes ==
  ASSUME RowsOK, WorkersOK, RestOK,
         \/ \E e \in Endpoints : CreateWebhookEndpoint(e) \/ DisableWebhookEndpoint(e)
         \/ \E ev \in Events : EnqueueReadsEndpoints(ev) \/ EnqueueWebhookEvent(ev)
         \/ \E d \in Deliveries : ReplayWebhookDelivery(d) \/ RetentionPasses(d)
  PROVE  RowsOK' /\ WorkersOK' /\ RestOK'
<1>1. ASSUME NEW e \in Endpoints, CreateWebhookEndpoint(e)
      PROVE  RowsOK' /\ WorkersOK' /\ RestOK'
  BY <1>1 DEF CreateWebhookEndpoint, RowsOK, WorkersOK, RestOK, CountedAnswers
<1>2. ASSUME NEW e \in Endpoints, DisableWebhookEndpoint(e)
      PROVE  RowsOK' /\ WorkersOK' /\ RestOK'
  <2>1. \A d \in Deliveries :
          [rows[d] EXCEPT !.status = "dead"] \in Row
    BY DEF RowsOK, Row, Statuses
  <2>2. RowsOK'
    BY <1>2, <2>1 DEF DisableWebhookEndpoint, RowsOK, Row
  <2>3. QED
    BY <1>2, <2>2 DEF DisableWebhookEndpoint, WorkersOK, RestOK, CountedAnswers
<1>3. ASSUME NEW ev \in Events, EnqueueReadsEndpoints(ev)
      PROVE  RowsOK' /\ WorkersOK' /\ RestOK'
  BY <1>3 DEF EnqueueReadsEndpoints, RowsOK, WorkersOK, RestOK, CountedAnswers
<1>4. ASSUME NEW ev \in Events, EnqueueWebhookEvent(ev)
      PROVE  RowsOK' /\ WorkersOK' /\ RestOK'
  <2> DEFINE new == [NoRow EXCEPT !.status = "pending"]
  <2>1. new \in Row /\ new.status = "pending" /\ new.owner = None
    BY PendingType
  <2> DEFINE created == {d \in inserting : d[1] = ev}
  <2>2. rows' = [d \in Deliveries |-> IF d \in created THEN new ELSE rows[d]]
    BY <1>4 DEF EnqueueWebhookEvent
  <2> HIDE DEF new
  <2>3. RowsOK'
    BY <2>1, <2>2 DEF RowsOK
  <2>4. QED
    BY <1>4, <2>3 DEF EnqueueWebhookEvent, WorkersOK, RestOK, CountedAnswers
<1>5. ASSUME NEW d \in Deliveries, ReplayWebhookDelivery(d)
      PROVE  RowsOK' /\ WorkersOK' /\ RestOK'
  <2>1. RowsOK'
    BY <1>5, PendingType, RowChange DEF ReplayWebhookDelivery
  <2>2. accepted' \in [Deliveries -> 0..CountedAnswers] /\ replays' \in 0..MaxReplays
    BY <1>5, WebhookAssumption DEF ReplayWebhookDelivery, RestOK, CountedAnswers
  <2>3. QED
    BY <1>5, <2>1, <2>2 DEF ReplayWebhookDelivery, WorkersOK, RestOK, CountedAnswers
<1>6. ASSUME NEW d \in Deliveries, RetentionPasses(d)
      PROVE  RowsOK' /\ WorkersOK' /\ RestOK'
  <2> DEFINE row == [rows[d] EXCEPT !.aged = TRUE]
  <2>1. RowsOK'
    <3>1. row \in Row /\ row.status = rows[d].status /\ row.owner = rows[d].owner
      BY DEF RowsOK, Row
    <3>2. rows' = [rows EXCEPT ![d] = row]
      BY <1>6 DEF RetentionPasses
    <3>3. QED
      BY <3>1, <3>2, RowChange DEF RowsOK
  <2>2. QED
    BY <1>6, <2>1 DEF RetentionPasses, WorkersOK, RestOK, CountedAnswers
<1>7. QED
  BY <1>1, <1>2, <1>3, <1>4, <1>5, <1>6

LEMMA LeaseKeepsTypes ==
  ASSUME RowsOK, WorkersOK, RestOK, NEW w \in Workers, LeaseWebhookDeliveries(w)
  PROVE  RowsOK' /\ WorkersOK' /\ RestOK'
<1>1. PICK taken \in SUBSET {d \in Deliveries : IsDue(rows[d])} :
        LET routable == {d \in taken : endpoints[d[2]] = "enabled"}
        IN /\ rows' = [d \in Deliveries |->
                 IF d \in routable THEN Leased(rows[d], w)
                 ELSE IF d \in taken THEN Unroutable(rows[d])
                 ELSE rows[d]]
           /\ workers' = [workers EXCEPT ![w] =
                [Idle EXCEPT !.phase = "batch", !.batch = routable, !.lease = LeaseTime]]
  BY DEF LeaseWebhookDeliveries
<1> DEFINE routable == {d \in taken : endpoints[d[2]] = "enabled"}
           worker == [Idle EXCEPT !.phase = "batch", !.batch = routable, !.lease = LeaseTime]
<1>2. RowsOK'
  <2>1. \A d \in Deliveries : rows[d] \in Row
    BY DEF RowsOK
  <2>2. \A d \in Deliveries :
          /\ Leased(rows[d], w) \in Row /\ Leased(rows[d], w).status = "delivering"
          /\ Leased(rows[d], w).owner = w
          /\ Unroutable(rows[d]) \in Row /\ Unroutable(rows[d]).status = "dead"
          /\ Unroutable(rows[d]).owner = None
    BY <2>1, LeasedType, DeadType DEF Unroutable
  <2>3. w # None
    BY WebhookAssumption
  <2>4. QED
    BY <1>1, <2>2, <2>3 DEF RowsOK
<1>3. WorkersOK'
  <2>1. routable \in SUBSET Deliveries
    OBVIOUS
  <2> HIDE DEF routable
  <2>2. worker \in Worker /\ worker.phase = "batch" /\ worker.current = None
    BY <2>1, IdleType, LeaseTimeType DEF Worker, Phases
  <2>3. workers' = [workers EXCEPT ![w] = worker]
    BY <1>1 DEF routable
  <2>4. QED
    BY <2>2, <2>3, WorkerChange DEF TimedPhases
<1>4. RestOK'
  BY DEF LeaseWebhookDeliveries, RestOK, CountedAnswers
<1>5. QED
  BY <1>2, <1>3, <1>4

LEMMA BatchKeepsTypes ==
  ASSUME RowsOK, WorkersOK, RestOK, NEW w \in Workers,
         (\E d \in Deliveries : StartDelivery(w, d)) \/ FinishBatch(w)
  PROVE  RowsOK' /\ WorkersOK' /\ RestOK'
<1>1. workers[w] \in Worker
  BY DEF WorkersOK
<1>2. ASSUME NEW d \in Deliveries, StartDelivery(w, d)
      PROVE  RowsOK' /\ WorkersOK' /\ RestOK'
  <2> DEFINE worker == [workers[w] EXCEPT !.phase = "resolving", !.left = LookupTime,
                                          !.batch = @ \ {d}, !.current = d]
  <2>1. workers[w].batch \ {d} \in SUBSET Deliveries
    BY <1>1 DEF Worker
  <2>2. worker \in Worker /\ worker.phase = "resolving" /\ worker.current = d /\ d # None
    BY <1>1, <2>1, WebhookAssumption DEF Worker, Phases, TimedPhases
  <2>3. workers' = [workers EXCEPT ![w] = worker]
    BY <1>2 DEF StartDelivery
  <2>4. WorkersOK'
    BY <2>2, <2>3, WorkerChange DEF TimedPhases
  <2>5. QED
    BY <1>2, <2>4 DEF StartDelivery, tables, RowsOK, RestOK, CountedAnswers
<1>3. ASSUME FinishBatch(w)
      PROVE  RowsOK' /\ WorkersOK' /\ RestOK'
  <2> DEFINE worker == [Idle EXCEPT !.phase = "sweeping"]
  <2>1. worker \in Worker /\ worker.phase = "sweeping" /\ worker.current = None
    BY IdleType DEF Worker, Phases
  <2>2. workers' = [workers EXCEPT ![w] = worker]
    BY <1>3 DEF FinishBatch
  <2>3. WorkersOK'
    BY <2>1, <2>2, WorkerChange DEF TimedPhases
  <2>4. QED
    BY <1>3, <2>3 DEF FinishBatch, tables, RowsOK, RestOK, CountedAnswers
<1>4. QED
  BY <1>2, <1>3

LEMMA RequestKeepsTypes ==
  ASSUME RowsOK, WorkersOK, RestOK, NEW w \in Workers,
         RefuseEndpoint(w) \/ SendRequest(w) \/ AnswerIsSuccess(w) \/ AnswerIsFailure(w)
  PROVE  RowsOK' /\ WorkersOK' /\ RestOK'
<1>1. workers[w] \in Worker /\ workers[w].outcome \in Outcomes /\ WriteTime \in Nat /\ Timeout \in Nat
  BY WebhookAssumption DEF WorkersOK, Worker
<1>2. workers[w].phase \in TimedPhases
  BY DEF RefuseEndpoint, SendRequest, AnswerIsSuccess, AnswerIsFailure, InPhase, TimedPhases
<1>3. WorkersOK' /\ workers[w].current \in Deliveries
  <2>1. PICK phase \in TimedPhases, time \in Nat, outcome \in Outcomes :
          Enter(w, phase, time, outcome)
    <3>1. CASE RefuseEndpoint(w)
      BY <1>1, <3>1 DEF RefuseEndpoint, TimedPhases, Outcomes
    <3>2. CASE SendRequest(w)
      BY <1>1, <3>2 DEF SendRequest, TimedPhases
    <3>3. CASE AnswerIsSuccess(w)
      BY <1>1, <3>3 DEF AnswerIsSuccess, TimedPhases, Outcomes
    <3>4. CASE AnswerIsFailure(w)
      BY <1>1, <3>4 DEF AnswerIsFailure, TimedPhases, Outcomes
    <3>5. QED
      BY <3>1, <3>2, <3>3, <3>4
  <2>2. QED
    BY <1>2, <2>1, EnterType
<1>4. RestOK'
  <2>1. accepted' \in [Deliveries -> 0..CountedAnswers]
    <3>1. CASE AnswerIsSuccess(w)
      BY <1>3, <3>1, WebhookAssumption DEF AnswerIsSuccess, RestOK, CountedAnswers
    <3>2. CASE UNCHANGED accepted
      BY <3>2 DEF RestOK, CountedAnswers
    <3>3. QED
      BY <3>1, <3>2 DEF RefuseEndpoint, SendRequest, AnswerIsFailure
  <2>2. UNCHANGED <<tables, doomed, replays, faults>>
    BY DEF RefuseEndpoint, SendRequest, AnswerIsSuccess, AnswerIsFailure
  <2>3. QED
    BY <2>1, <2>2 DEF tables, RestOK, CountedAnswers
<1>5. RowsOK'
  BY DEF RefuseEndpoint, SendRequest, AnswerIsSuccess, AnswerIsFailure, tables, RowsOK
<1>6. QED
  BY <1>3, <1>4, <1>5

\* A worker that settles has a delivery.
LEMMA SettlesADelivery ==
  ASSUME WorkersOK, NEW w \in Workers, InPhase(w, "settling")
  PROVE  workers[w].current \in Deliveries
BY DEF WorkersOK, InPhase, TimedPhases, Worker

LEMMA SettlementKeepsTypes ==
  ASSUME RowsOK, WorkersOK, RestOK, NEW w \in Workers,
         CompleteWebhookDelivery(w) \/ FailWebhookDelivery(w)
  PROVE  RowsOK' /\ WorkersOK' /\ RestOK'
<1> DEFINE d == workers[w].current
<1>1. d \in Deliveries /\ rows[d] \in Row
  BY SettlesADelivery DEF CompleteWebhookDelivery, FailWebhookDelivery, RowsOK
<1>2. WorkersOK'
  BY NextDeliveryType DEF CompleteWebhookDelivery, FailWebhookDelivery
<1>3. RestOK'
  BY DEF CompleteWebhookDelivery, FailWebhookDelivery, RestOK, CountedAnswers
<1>4. RowsOK'
  <2>1. CASE CompleteWebhookDelivery(w)
    <3> DEFINE row == [rows[d] EXCEPT !.status = "succeeded", !.owner = None,
                                      !.lease = 0, !.aged = FALSE]
    <3>1. row \in Row /\ row.status = "succeeded" /\ row.owner = None
      BY <1>1 DEF Row, Statuses
    <3>2. rows' = [rows EXCEPT ![d] = row] \/ rows' = rows
      BY <2>1 DEF CompleteWebhookDelivery
    <3> HIDE DEF row, d
    <3>3. QED
      BY <1>1, <3>1, <3>2, RowChange DEF RowsOK
  <2>2. CASE FailWebhookDelivery(w)
    <3>1. rows' = [rows EXCEPT ![d] = Retried(rows[d])] \/ rows' = rows
      BY <2>2 DEF FailWebhookDelivery
    <3> HIDE DEF d
    <3>2. QED
      BY <1>1, <3>1, RetriedType, RowChange DEF RowsOK
  <2>3. QED
    BY <2>1, <2>2
<1>5. QED
  BY <1>2, <1>3, <1>4

LEMMA FaultsKeepTypes ==
  ASSUME RowsOK, WorkersOK, RestOK, NEW w \in Workers, SettlementFails(w) \/ Crash(w)
  PROVE  RowsOK' /\ WorkersOK' /\ RestOK'
<1>1. faults' \in 0..MaxFaults
  BY WebhookAssumption DEF SettlementFails, Crash, RestOK
<1>2. RestOK'
  BY <1>1 DEF SettlementFails, Crash, tables, RestOK, CountedAnswers
<1>3. RowsOK'
  BY DEF SettlementFails, Crash, tables, RowsOK
<1>4. WorkersOK'
  <2>1. CASE workers' = [workers EXCEPT ![w] = Idle]
    BY <2>1, IdleChange
  <2>2. CASE SettlementFails(w) /\ workers' = [workers EXCEPT ![w].outcome = "caught"]
    <3> DEFINE worker == [workers[w] EXCEPT !.outcome = "caught"]
    <3>1. workers[w] \in Worker
      BY DEF WorkersOK
    <3>2. /\ worker \in Worker /\ worker.phase = workers[w].phase
          /\ worker.current = workers[w].current
      BY <3>1 DEF Worker, Outcomes
    <3>3. workers' = [workers EXCEPT ![w] = worker]
      BY <2>2
    <3>4. QED
      BY <3>2, <3>3, WorkerChange DEF WorkersOK
  <2>3. QED
    BY <2>1, <2>2 DEF SettlementFails, Crash
<1>5. QED
  BY <1>2, <1>3, <1>4

LEMMA RetentionKeepsTypes ==
  ASSUME RowsOK, WorkersOK, RestOK, NEW w \in Workers,
         SelectFinishedDeliveries(w) \/ PruneWebhookDeliveries(w)
  PROVE  RowsOK' /\ WorkersOK' /\ RestOK'
<1>1. CASE SelectFinishedDeliveries(w)
  <2>1. PICK phase \in {"idle", "deleting"} : workers' = [workers EXCEPT ![w].phase = phase]
    BY <1>1 DEF SelectFinishedDeliveries
  <2> DEFINE worker == [workers[w] EXCEPT !.phase = phase]
  <2>2. workers[w] \in Worker /\ workers[w].current = None
    BY <1>1 DEF SelectFinishedDeliveries, InPhase, WorkersOK, TimedPhases
  <2>3. worker \in Worker /\ worker.phase = phase /\ worker.current = None
    BY <2>2 DEF Worker, Phases
  <2>4. workers' = [workers EXCEPT ![w] = worker]
    BY <2>1
  <2>5. WorkersOK'
    BY <2>3, <2>4, WorkerChange DEF TimedPhases
  <2>6. doomed' \in [Workers -> SUBSET Deliveries]
    BY <1>1 DEF SelectFinishedDeliveries, RestOK
  <2>7. QED
    BY <1>1, <2>5, <2>6 DEF SelectFinishedDeliveries, tables, RowsOK, RestOK, CountedAnswers
<1>2. CASE PruneWebhookDeliveries(w)
  <2>1. RowsOK'
    BY <1>2, NoRowType DEF PruneWebhookDeliveries, RowsOK
  <2>2. WorkersOK'
    BY <1>2, IdleChange DEF PruneWebhookDeliveries
  <2>3. QED
    BY <1>2, <2>1, <2>2 DEF PruneWebhookDeliveries, RestOK, CountedAnswers
<1>3. QED
  BY <1>1, <1>2

LEMMA TickKeepsTypes ==
  ASSUME RowsOK, WorkersOK, RestOK, Tick
  PROVE  RowsOK' /\ WorkersOK' /\ RestOK'
<1>1. RowsOK'
  <2>1. \A d \in Deliveries : rows[d] \in Row
    BY DEF RowsOK
  <2>2. \A d \in Deliveries :
          LET row == [rows[d] EXCEPT !.available = Less(@), !.lease = Less(@)]
          IN row \in Row /\ row.status = rows[d].status /\ row.owner = rows[d].owner
    BY <2>1, LessType DEF Row
  <2>3. QED
    BY <2>2 DEF Tick, RowsOK
<1>2. WorkersOK'
  <2>1. \A w \in Workers : workers[w] \in Worker
    BY DEF WorkersOK
  <2>2. \A w \in Workers :
          LET worker == [workers[w] EXCEPT !.lease = Less(@), !.left = Less(@)]
          IN /\ worker \in Worker /\ worker.phase = workers[w].phase
             /\ worker.current = workers[w].current
    BY <2>1, LessType DEF Worker
  <2>3. QED
    BY <2>2 DEF Tick, WorkersOK
<1>3. RestOK'
  BY DEF Tick, RestOK, CountedAnswers
<1>4. QED
  BY <1>1, <1>2, <1>3

LEMMA StepKeepsTypes ==
  ASSUME WebhookTypeOK, [Next]_vars
  PROVE  WebhookTypeOK'
<1>1. RowsOK /\ WorkersOK /\ RestOK
  BY TypeParts
<1>2. RowsOK' /\ WorkersOK' /\ RestOK'
  <2>1. ASSUME NEW w \in Workers, Run(w)
        PROVE  RowsOK' /\ WorkersOK' /\ RestOK'
    BY <1>1, <2>1, LeaseKeepsTypes, BatchKeepsTypes, RequestKeepsTypes, SettlementKeepsTypes,
       RetentionKeepsTypes DEF Run
  <2>2. CASE UNCHANGED vars
    BY <1>1, <2>2 DEF vars, RowsOK, WorkersOK, RestOK, CountedAnswers
  <2>3. QED
    BY <1>1, <2>1, <2>2, PeopleKeepTypes, FaultsKeepTypes, TickKeepsTypes DEF Next
<1>3. QED
  BY <1>2, TypeParts DEF WebhookTypeOK, RowsOK, WorkersOK, RestOK

\* Rows and workers have their types, and exactly the deliveries that are
\* delivering have an owner: the lease check of webhook_deliveries never rejects
\* a transaction.
THEOREM WebhookTypes == Spec => []WebhookTypeOK
<1>1. Init => WebhookTypeOK
  BY InitTypes
<1>2. WebhookTypeOK /\ [Next]_vars => WebhookTypeOK'
  BY StepKeepsTypes
<1>3. QED
  BY <1>1, <1>2, PTL DEF Spec

-----------------------------------------------------------------------------
(* Leases exclude each other *)

\* The environment's share of a delivery fits into its slack.
EnvironmentFits == LookupTime + WriteTime < Slack

\* What a worker holds while its lease runs: the rest of its batch and the
\* delivery it works on.
Held(w) == {d \in Deliveries : workers[w].lease > 0
                               /\ (d \in workers[w].batch \/ d = workers[w].current)}

\* A held delivery was enqueued, and its row has this worker's lease, unless
\* retention deleted it.
HeldAreLeased ==
  \A w \in Workers : \A d \in Held(w) :
    /\ d[1] \in events /\ d \notin inserting
    /\ rows[d].status # "none" =>
         /\ rows[d].status = "delivering" /\ rows[d].owner = w
         /\ rows[d].lease = workers[w].lease

HeldOnce ==
  \A w, v \in Workers : w # v => Held(w) \cap Held(v) = {}

\* A delivery about to be inserted has no row yet, and its event is stored.
InsertedOnce ==
  \A d \in inserting : d[1] \in events

\* The lease outlasts what is left of a delivery.
LeaseOutlasts ==
  \A w \in Workers :
    /\ workers[w].current \notin workers[w].batch
    /\ InPhase(w, "resolving") => workers[w].lease > workers[w].left + Timeout + WriteTime
    /\ InPhase(w, "posting") => workers[w].lease > workers[w].left + WriteTime
    /\ InPhase(w, "settling") => workers[w].lease > workers[w].left

\* Rows that exist belong to a stored event.
RowsHaveEvents ==
  \A d \in Deliveries : rows[d].status # "none" => d[1] \in events /\ d \notin inserting

LInv ==
  /\ WebhookTypeOK /\ HeldAreLeased /\ HeldOnce /\ InsertedOnce /\ LeaseOutlasts
  /\ RowsHaveEvents

\* The row of a held delivery keeps its lease or is gone.
SameLease(d) ==
  \/ rows'[d].status = "none"
  \/ /\ rows'[d].status = rows[d].status /\ rows'[d].owner = rows[d].owner
     /\ rows'[d].lease = rows[d].lease

LEMMA LeasesStay ==
  ASSUME LInv, WebhookTypeOK', events \subseteq events',
         \A v \in Workers :
           /\ Held(v)' \subseteq Held(v)
           /\ Held(v)' # {} => workers'[v].lease = workers[v].lease,
         \A v \in Workers : \A d \in Held(v)' : d \notin inserting' /\ SameLease(d),
         InsertedOnce', LeaseOutlasts', RowsHaveEvents'
  PROVE  LInv'
<1>1. HeldAreLeased'
  <2>1. SUFFICES ASSUME NEW v \in Workers, NEW d \in Held(v)'
                 PROVE  /\ d[1] \in events' /\ d \notin inserting'
                        /\ rows'[d].status # "none" =>
                             /\ rows'[d].status = "delivering" /\ rows'[d].owner = v
                             /\ rows'[d].lease = workers'[v].lease
    BY DEF HeldAreLeased
  <2>2. d \in Held(v) /\ workers'[v].lease = workers[v].lease
    OBVIOUS
  <2>3. d \in Deliveries /\ d[1] \in events
        /\ (rows[d].status # "none" =>
              /\ rows[d].status = "delivering" /\ rows[d].owner = v
              /\ rows[d].lease = workers[v].lease)
    BY <2>2 DEF LInv, HeldAreLeased, Held
  <2>4. SameLease(d) /\ d \notin inserting'
    OBVIOUS
  <2>5. QED
    BY <2>2, <2>3, <2>4 DEF SameLease
<1>2. HeldOnce'
  BY DEF LInv, HeldOnce
<1>3. QED
  BY <1>1, <1>2 DEF LInv

\* Steps of people: no worker changes.
LEMMA PeopleKeepLeases ==
  ASSUME LInv, WebhookTypeOK',
         \/ \E e \in Endpoints : CreateWebhookEndpoint(e) \/ DisableWebhookEndpoint(e)
         \/ \E ev \in Events : EnqueueReadsEndpoints(ev) \/ EnqueueWebhookEvent(ev)
         \/ \E d \in Deliveries : ReplayWebhookDelivery(d) \/ RetentionPasses(d)
  PROVE  LInv'
<1>1. workers' = workers
  BY DEF CreateWebhookEndpoint, DisableWebhookEndpoint, EnqueueReadsEndpoints,
     EnqueueWebhookEvent, ReplayWebhookDelivery, RetentionPasses
<1>2. \A v \in Workers : Held(v)' = Held(v)
  BY <1>1 DEF Held
<1>3. LeaseOutlasts'
  BY <1>1 DEF LInv, LeaseOutlasts, InPhase
<1>4. rows \in [Deliveries -> Row] /\ inserting \in SUBSET Deliveries
  BY DEF LInv, WebhookTypeOK
<1>5. \A v \in Workers : \A d \in Held(v) :
        /\ d \in Deliveries /\ d[1] \in events /\ d \notin inserting
        /\ rows[d].status \in {"none", "delivering"}
  BY DEF LInv, HeldAreLeased, Held
<1>6. (\A d \in inserting : d[1] \in events)
      /\ \A d \in Deliveries : rows[d].status # "none" => d[1] \in events /\ d \notin inserting
  BY DEF LInv, InsertedOnce, RowsHaveEvents
<1> DEFINE Kept == /\ events \subseteq events' /\ InsertedOnce' /\ RowsHaveEvents'
                   /\ \A v \in Workers : \A d \in Held(v) : d \notin inserting' /\ SameLease(d)
<1>7. Kept
  <2>1. ASSUME NEW e \in Endpoints, CreateWebhookEndpoint(e)
        PROVE  Kept
    BY <1>4, <1>5, <1>6, <2>1 DEF CreateWebhookEndpoint, InsertedOnce, RowsHaveEvents, SameLease
  <2>2. ASSUME NEW e \in Endpoints, DisableWebhookEndpoint(e)
        PROVE  Kept
    BY <1>4, <1>5, <1>6, <2>2 DEF DisableWebhookEndpoint, InsertedOnce, RowsHaveEvents, SameLease, Row
  <2>3. ASSUME NEW ev \in Events, EnqueueReadsEndpoints(ev)
        PROVE  Kept
    <3>1. events' = events \cup {ev} /\ ev \notin events /\ rows' = rows
      BY <2>3 DEF EnqueueReadsEndpoints
    <3>2. \A d \in inserting' : d \in inserting \/ d[1] = ev
      BY <2>3 DEF EnqueueReadsEndpoints
    <3>3. QED
      BY <1>4, <1>5, <1>6, <3>1, <3>2 DEF InsertedOnce, RowsHaveEvents, SameLease
  <2>4. ASSUME NEW ev \in Events, EnqueueWebhookEvent(ev)
        PROVE  Kept
    <3> DEFINE created == {d \in inserting : d[1] = ev}
               new == [NoRow EXCEPT !.status = "pending"]
    <3>1. /\ inserting' = inserting \ created /\ events' = events
          /\ rows' = [d \in Deliveries |-> IF d \in created THEN new ELSE rows[d]]
      BY <2>4 DEF EnqueueWebhookEvent
    <3>2. created \subseteq inserting
      OBVIOUS
    <3> HIDE DEF created, new
    <3>3. QED
      BY <1>4, <1>5, <1>6, <3>1, <3>2 DEF InsertedOnce, RowsHaveEvents, SameLease
  <2>5. ASSUME NEW x \in Deliveries, ReplayWebhookDelivery(x)
        PROVE  Kept
    <3> DEFINE new == [NoRow EXCEPT !.status = "pending"]
    <3>1. /\ rows' = [rows EXCEPT ![x] = new] /\ rows[x].status = "dead"
          /\ UNCHANGED <<events, inserting>>
      BY <2>5 DEF ReplayWebhookDelivery
    <3> HIDE DEF new
    <3>2. QED
      BY <1>4, <1>5, <1>6, <3>1 DEF InsertedOnce, RowsHaveEvents, SameLease
  <2>6. ASSUME NEW x \in Deliveries, RetentionPasses(x)
        PROVE  Kept
    <3> DEFINE new == [rows[x] EXCEPT !.aged = TRUE]
    <3>1. /\ rows' = [rows EXCEPT ![x] = new] /\ UNCHANGED <<events, inserting>>
      BY <2>6 DEF RetentionPasses
    <3>2. new.status = rows[x].status /\ new.owner = rows[x].owner /\ new.lease = rows[x].lease
      BY <1>4 DEF Row
    <3> HIDE DEF new
    <3>3. QED
      BY <1>4, <1>5, <1>6, <3>1, <3>2 DEF InsertedOnce, RowsHaveEvents, SameLease
  <2>7. QED
    BY <2>1, <2>2, <2>3, <2>4, <2>5, <2>6
<1>8. QED
  BY <1>1, <1>2, <1>3, <1>7, LeasesStay

\* One worker changes and holds no more than before.
LEMMA OneWorkerKeepsLeases ==
  ASSUME LInv, WebhookTypeOK', NEW w \in Workers, NEW worker \in Worker,
         workers' = [workers EXCEPT ![w] = worker],
         UNCHANGED <<events, inserting>>, RowsHaveEvents',
         \/ worker.batch = {} /\ worker.current = None
         \/ /\ worker.lease = workers[w].lease
            /\ worker.batch \subseteq workers[w].batch
            /\ worker.current \in {None, workers[w].current} \cup workers[w].batch,
         \A v \in Workers : \A d \in Held(v)' : SameLease(d),
         worker.current \notin worker.batch,
         worker.phase = "resolving" => worker.lease > worker.left + Timeout + WriteTime,
         worker.phase = "posting" => worker.lease > worker.left + WriteTime,
         worker.phase = "settling" => worker.lease > worker.left
  PROVE  LInv'
<1>1. /\ workers \in [Workers -> Worker] /\ inserting \in SUBSET Deliveries
      /\ workers'[w] = worker /\ \A v \in Workers \ {w} : workers'[v] = workers[v]
  BY DEF LInv, WebhookTypeOK
<1>2. None \notin Deliveries
  BY WebhookAssumption
<1>3. \A v \in Workers :
        /\ Held(v)' \subseteq Held(v)
        /\ Held(v)' # {} => workers'[v].lease = workers[v].lease
  <2>1. SUFFICES ASSUME NEW v \in Workers, NEW d \in Held(v)'
                 PROVE  d \in Held(v) /\ workers'[v].lease = workers[v].lease
    OBVIOUS
  <2>2. /\ d \in Deliveries /\ d # None /\ workers'[v].lease > 0
        /\ d \in workers'[v].batch \/ d = workers'[v].current
    BY <1>2 DEF Held
  <2>3. CASE v = w
    BY <1>1, <2>2, <2>3 DEF Held
  <2>4. CASE v # w
    BY <1>1, <2>2, <2>4 DEF Held
  <2>5. QED
    BY <2>3, <2>4
<1>4. LeaseOutlasts'
  <2>1. \A v \in Workers \ {w} : workers'[v] = workers[v]
    BY <1>1
  <2>2. QED
    BY <1>1, <2>1 DEF LInv, LeaseOutlasts, InPhase
<1>5. InsertedOnce'
  BY DEF LInv, InsertedOnce
<1>6. \A v \in Workers : \A d \in Held(v)' : d \notin inserting'
  BY <1>3 DEF LInv, HeldAreLeased
<1>7. QED
  BY <1>3, <1>4, <1>5, <1>6, LeasesStay

LEMMA BatchKeepsLeases ==
  ASSUME LInv, WebhookTypeOK', EnvironmentFits, NEW w \in Workers,
         (\E d \in Deliveries : StartDelivery(w, d)) \/ FinishBatch(w)
  PROVE  LInv'
<1>1. /\ workers[w] \in Worker /\ rows' = rows /\ UNCHANGED <<events, inserting>>
  BY DEF LInv, WebhookTypeOK, StartDelivery, FinishBatch, tables
<1>2. RowsHaveEvents' /\ \A d \in Deliveries : SameLease(d)
  BY <1>1 DEF LInv, RowsHaveEvents, SameLease
<1>3. \A v \in Workers : \A d \in Held(v)' : SameLease(d)
  BY <1>2 DEF Held
<1>4. ASSUME NEW d \in Deliveries, StartDelivery(w, d)
      PROVE  LInv'
  <2> DEFINE worker == [workers[w] EXCEPT !.phase = "resolving", !.left = LookupTime,
                                          !.batch = workers[w].batch \ {d}, !.current = d]
  <2>1. /\ workers[w].lease >= Timeout + Slack /\ d \in workers[w].batch
        /\ workers' = [workers EXCEPT ![w] = worker]
    BY <1>4 DEF StartDelivery, Budget
  <2>2. workers[w].batch \ {d} \in SUBSET Deliveries /\ workers[w].lease \in Nat
    BY <1>1 DEF Worker
  <2>3. /\ worker \in Worker /\ worker.phase = "resolving" /\ worker.current = d
        /\ worker.batch = workers[w].batch \ {d} /\ worker.lease = workers[w].lease
        /\ worker.left = LookupTime
    BY <1>1, <2>2, WebhookAssumption DEF Worker, Phases, TimedPhases
  <2>4. worker.lease > worker.left + Timeout + WriteTime
    BY <2>1, <2>2, <2>3, WebhookAssumption DEF EnvironmentFits
  <2> HIDE DEF worker
  <2>5. QED
    BY <1>1, <1>2, <1>3, <2>1, <2>3, <2>4, OneWorkerKeepsLeases
<1>5. ASSUME FinishBatch(w)
      PROVE  LInv'
  <2> DEFINE worker == [Idle EXCEPT !.phase = "sweeping"]
  <2>1. /\ worker \in Worker /\ worker.phase = "sweeping" /\ worker.current = None
        /\ worker.batch = {}
    BY IdleType DEF Worker, Phases
  <2>2. workers' = [workers EXCEPT ![w] = worker]
    BY <1>5 DEF FinishBatch
  <2> HIDE DEF worker
  <2>3. QED
    BY <1>1, <1>2, <1>3, <2>1, <2>2, OneWorkerKeepsLeases
<1>6. QED
  BY <1>4, <1>5

LEMMA RequestKeepsLeases ==
  ASSUME LInv, WebhookTypeOK', NEW w \in Workers,
         RefuseEndpoint(w) \/ SendRequest(w) \/ AnswerIsSuccess(w) \/ AnswerIsFailure(w)
  PROVE  LInv'
<1>1. /\ workers[w] \in Worker /\ rows' = rows /\ UNCHANGED <<events, inserting>>
  BY DEF LInv, WebhookTypeOK, RefuseEndpoint, SendRequest, AnswerIsSuccess, AnswerIsFailure, tables
<1>2. RowsHaveEvents' /\ \A d \in Deliveries : SameLease(d)
  BY <1>1 DEF LInv, RowsHaveEvents, SameLease
<1>3. \A v \in Workers : \A d \in Held(v)' : SameLease(d)
  BY <1>2 DEF Held
<1>4. PICK phase \in {"posting", "settling"}, time \in Nat, outcome \in Outcomes :
        /\ Enter(w, phase, time, outcome)
        /\ phase = "posting" => time = Timeout /\ workers[w].phase = "resolving"
        /\ phase = "settling" => time = WriteTime /\ workers[w].phase \in {"resolving", "posting"}
  <2>1. workers[w].outcome \in Outcomes /\ Timeout \in Nat /\ WriteTime \in Nat
    BY <1>1, WebhookAssumption DEF Worker
  <2>2. CASE RefuseEndpoint(w)
    BY <2>1, <2>2 DEF RefuseEndpoint, InPhase, Outcomes
  <2>3. CASE SendRequest(w)
    BY <2>1, <2>3 DEF SendRequest, InPhase
  <2>4. CASE AnswerIsSuccess(w)
    BY <2>1, <2>4 DEF AnswerIsSuccess, InPhase, Outcomes
  <2>5. CASE AnswerIsFailure(w)
    BY <2>1, <2>5 DEF AnswerIsFailure, InPhase, Outcomes
  <2>6. QED
    BY <2>2, <2>3, <2>4, <2>5
<1> DEFINE worker == [workers[w] EXCEPT !.phase = phase, !.left = time, !.outcome = outcome]
<1>5. workers' = [workers EXCEPT ![w] = worker]
  BY <1>4 DEF Enter
<1>6. /\ worker \in Worker /\ worker.phase = phase /\ worker.left = time
      /\ worker.current = workers[w].current /\ worker.batch = workers[w].batch
      /\ worker.lease = workers[w].lease
  BY <1>1 DEF Worker, Phases, TimedPhases
<1>7. /\ workers[w].current \notin workers[w].batch
      /\ workers[w].phase = "resolving" =>
           workers[w].lease > workers[w].left + Timeout + WriteTime
      /\ workers[w].phase = "posting" => workers[w].lease > workers[w].left + WriteTime
      /\ workers[w].lease \in Nat /\ workers[w].left \in Nat
  BY <1>1 DEF LInv, LeaseOutlasts, InPhase, Worker
<1> HIDE DEF worker
<1>8. /\ worker.phase = "posting" => worker.lease > worker.left + WriteTime
      /\ worker.phase = "settling" => worker.lease > worker.left
  BY <1>4, <1>6, <1>7, WebhookAssumption
<1>9. QED
  BY <1>1, <1>2, <1>3, <1>5, <1>6, <1>7, <1>8, OneWorkerKeepsLeases

LEMMA SettlementKeepsLeases ==
  ASSUME LInv, WebhookTypeOK', NEW w \in Workers,
         CompleteWebhookDelivery(w) \/ FailWebhookDelivery(w)
  PROVE  LInv'
<1> DEFINE d == workers[w].current
           worker == [workers[w] EXCEPT !.phase = "batch", !.current = None, !.left = 0]
<1>1. /\ workers[w] \in Worker /\ rows \in [Deliveries -> Row] /\ d \in Deliveries
      /\ UNCHANGED <<events, inserting>>
  BY SettlesADelivery, TypeParts
  DEF LInv, WebhookTypeOK, CompleteWebhookDelivery, FailWebhookDelivery
<1>2. workers' = [workers EXCEPT ![w] = worker]
  BY DEF CompleteWebhookDelivery, FailWebhookDelivery, NextDelivery
<1>3. /\ worker \in Worker /\ worker.phase = "batch" /\ worker.current = None
      /\ worker.batch = workers[w].batch /\ worker.lease = workers[w].lease
  BY <1>1 DEF Worker, Phases
<1>4. \/ rows' = rows
      \/ /\ OwnsLease(d, w)
         /\ \E row : rows' = [rows EXCEPT ![d] = row]
  BY DEF CompleteWebhookDelivery, FailWebhookDelivery
<1>5. workers[w].phase = "settling"
  BY DEF CompleteWebhookDelivery, FailWebhookDelivery, InPhase
<1>6. d \notin workers[w].batch /\ d \in Held(w)
  <2>1. workers[w].lease > workers[w].left /\ workers[w].left \in Nat /\ workers[w].lease \in Nat
    BY <1>1, <1>5 DEF LInv, LeaseOutlasts, InPhase, Worker
  <2>2. QED
    BY <1>1, <2>1 DEF LInv, LeaseOutlasts, Held
<1>7. RowsHaveEvents'
  BY <1>1, <1>4 DEF LInv, RowsHaveEvents, OwnsLease
<1>8. \A v \in Workers : \A x \in Held(v)' : x # d /\ x \in Deliveries
  <2>1. None \notin workers[w].batch /\ d # None
    BY <1>1, WebhookAssumption DEF Worker
  <2>2. \A v \in Workers \ {w} : Held(v)' = Held(v) /\ d \notin Held(v)
    BY <1>1, <1>2, <1>6 DEF Held, LInv, HeldOnce, WebhookTypeOK
  <2>3. d \notin Held(w)'
    <3>1. workers'[w] = worker
      BY <1>2 DEF LInv, WebhookTypeOK
    <3>2. QED
      BY <1>3, <1>6, <2>1, <3>1 DEF Held
  <2>4. QED
    BY <2>2, <2>3 DEF Held
<1>9. \A v \in Workers : \A x \in Held(v)' : SameLease(x)
  BY <1>1, <1>4, <1>8 DEF SameLease
<1>10. worker.current \notin worker.batch
  BY <1>1, <1>3, WebhookAssumption DEF Worker
<1> HIDE DEF worker, d
<1>11. QED
  BY <1>1, <1>2, <1>3, <1>7, <1>9, <1>10, OneWorkerKeepsLeases

LEMMA FaultsKeepLeases ==
  ASSUME LInv, WebhookTypeOK', NEW w \in Workers, SettlementFails(w) \/ Crash(w)
  PROVE  LInv'
<1>1. /\ workers[w] \in Worker /\ rows' = rows /\ UNCHANGED <<events, inserting>>
  BY DEF LInv, WebhookTypeOK, SettlementFails, Crash, tables
<1>2. RowsHaveEvents' /\ \A d \in Deliveries : SameLease(d)
  BY <1>1 DEF LInv, RowsHaveEvents, SameLease
<1>3. \A v \in Workers : \A d \in Held(v)' : SameLease(d)
  BY <1>2 DEF Held
<1>4. CASE workers' = [workers EXCEPT ![w] = Idle]
  BY <1>1, <1>2, <1>3, <1>4, IdleType, OneWorkerKeepsLeases
<1>5. CASE workers' = [workers EXCEPT ![w].outcome = "caught"]
  <2> DEFINE worker == [workers[w] EXCEPT !.outcome = "caught"]
  <2>1. /\ worker \in Worker /\ worker.phase = workers[w].phase /\ worker.left = workers[w].left
        /\ worker.current = workers[w].current /\ worker.batch = workers[w].batch
        /\ worker.lease = workers[w].lease
    BY <1>1 DEF Worker, Outcomes
  <2>2. workers' = [workers EXCEPT ![w] = worker]
    BY <1>5
  <2>3. LeaseOutlasts
    BY DEF LInv
  <2> HIDE DEF worker
  <2>4. QED
    BY <1>1, <1>2, <1>3, <2>1, <2>2, <2>3, OneWorkerKeepsLeases DEF LeaseOutlasts, InPhase
<1>6. QED
  BY <1>4, <1>5 DEF SettlementFails, Crash

LEMMA RetentionKeepsLeases ==
  ASSUME LInv, WebhookTypeOK', NEW w \in Workers,
         SelectFinishedDeliveries(w) \/ PruneWebhookDeliveries(w)
  PROVE  LInv'
<1>1. workers[w] \in Worker /\ UNCHANGED <<events, inserting>>
  BY DEF LInv, WebhookTypeOK, SelectFinishedDeliveries, PruneWebhookDeliveries, tables
<1>2. \A d \in Deliveries : rows'[d] = rows[d] \/ rows'[d].status = "none"
  BY NoRowType DEF SelectFinishedDeliveries, PruneWebhookDeliveries, tables
<1>3. RowsHaveEvents'
  BY <1>1, <1>2 DEF LInv, RowsHaveEvents
<1>4. \A v \in Workers : \A d \in Held(v)' : SameLease(d)
  BY <1>2 DEF Held, SameLease
<1>5. CASE SelectFinishedDeliveries(w)
  <2>1. PICK phase \in {"idle", "deleting"} : workers' = [workers EXCEPT ![w].phase = phase]
    BY <1>5 DEF SelectFinishedDeliveries
  <2> DEFINE worker == [workers[w] EXCEPT !.phase = phase]
  <2>2. /\ worker \in Worker /\ worker.phase = phase /\ worker.current = workers[w].current
        /\ worker.batch = workers[w].batch /\ worker.lease = workers[w].lease
    BY <1>1 DEF Worker, Phases
  <2>3. workers' = [workers EXCEPT ![w] = worker]
    BY <2>1
  <2>4. workers[w].current \notin workers[w].batch
    BY DEF LInv, LeaseOutlasts
  <2> HIDE DEF worker
  <2>5. QED
    BY <1>1, <1>3, <1>4, <2>2, <2>3, <2>4, OneWorkerKeepsLeases
<1>6. CASE PruneWebhookDeliveries(w)
  BY <1>1, <1>3, <1>4, <1>6, IdleType, OneWorkerKeepsLeases DEF PruneWebhookDeliveries
<1>7. QED
  BY <1>5, <1>6

\* The poll: a delivery another worker holds is not due, so it is not taken.
LEMMA LeaseKeepsLeases ==
  ASSUME LInv, WebhookTypeOK', NEW w \in Workers, LeaseWebhookDeliveries(w)
  PROVE  LInv'
<1>1. PICK taken \in SUBSET {d \in Deliveries : IsDue(rows[d])} :
        LET routable == {d \in taken : endpoints[d[2]] = "enabled"}
        IN /\ rows' = [d \in Deliveries |->
                 IF d \in routable THEN Leased(rows[d], w)
                 ELSE IF d \in taken THEN Unroutable(rows[d])
                 ELSE rows[d]]
           /\ workers' = [workers EXCEPT ![w] =
                [Idle EXCEPT !.phase = "batch", !.batch = routable, !.lease = LeaseTime]]
  BY DEF LeaseWebhookDeliveries
<1> DEFINE routable == {d \in taken : endpoints[d[2]] = "enabled"}
           worker == [Idle EXCEPT !.phase = "batch", !.batch = routable, !.lease = LeaseTime]
<1>2. /\ rows \in [Deliveries -> Row] /\ workers \in [Workers -> Worker]
      /\ UNCHANGED <<events, inserting>>
  BY DEF LInv, WebhookTypeOK, LeaseWebhookDeliveries
<1>3. taken \subseteq Deliveries /\ \A d \in taken : IsDue(rows[d])
  OBVIOUS
<1>4. routable \subseteq taken
  OBVIOUS
<1>5. /\ rows' = [d \in Deliveries |-> IF d \in routable THEN Leased(rows[d], w)
                                       ELSE IF d \in taken THEN Unroutable(rows[d])
                                       ELSE rows[d]]
      /\ workers' = [workers EXCEPT ![w] = worker]
  BY <1>1
<1> HIDE DEF routable
<1>6. /\ worker.batch = routable /\ worker.current = None /\ worker.phase = "batch"
      /\ worker.lease = LeaseTime
  BY IdleType DEF Worker
<1>7. /\ workers'[w] = worker /\ \A v \in Workers \ {w} : workers'[v] = workers[v]
  BY <1>2, <1>5
<1> HIDE DEF worker
<1>8. Held(w)' \subseteq routable /\ \A v \in Workers \ {w} : Held(v)' = Held(v)
  BY <1>6, <1>7, WebhookAssumption DEF Held
<1>9. \A v \in Workers : \A d \in Held(v) : d \notin taken /\ d \in Deliveries
  <2>1. SUFFICES ASSUME NEW v \in Workers, NEW d \in Held(v), IsDue(rows[d])
                 PROVE  FALSE
    BY <1>3 DEF Held
  <2>2. workers[v].lease > 0
    BY DEF Held
  <2>3. rows[d].status # "none"
    BY <2>1 DEF IsDue
  <2>4. rows[d].status = "delivering" /\ rows[d].lease = workers[v].lease
    BY <2>3 DEF LInv, HeldAreLeased
  <2>5. QED
    BY <2>1, <2>2, <2>4 DEF IsDue
<1>10. \A d \in routable : /\ rows'[d].status = "delivering" /\ rows'[d].owner = w
                           /\ rows'[d].lease = LeaseTime
  BY <1>2, <1>3, <1>4, <1>5, LeasedType
<1>11. \A d \in taken : rows[d].status # "none"
  BY <1>3 DEF IsDue
<1>12. HeldAreLeased'
  <2>1. ASSUME NEW d \in Held(w)'
        PROVE  /\ d[1] \in events' /\ d \notin inserting'
               /\ rows'[d].status = "delivering" /\ rows'[d].owner = w
               /\ rows'[d].lease = workers'[w].lease
    <3>1. d \in routable /\ d \in taken /\ d \in Deliveries
      BY <1>3, <1>4, <1>8
    <3>2. QED
      BY <1>2, <1>6, <1>7, <1>10, <1>11, <3>1 DEF LInv, RowsHaveEvents
  <2>2. ASSUME NEW v \in Workers \ {w}, NEW d \in Held(v)'
        PROVE  /\ d[1] \in events' /\ d \notin inserting'
               /\ rows'[d].status # "none" =>
                    /\ rows'[d].status = "delivering" /\ rows'[d].owner = v
                    /\ rows'[d].lease = workers'[v].lease
    <3>1. d \in Held(v) /\ d \in Deliveries /\ d \notin taken /\ d \notin routable
      BY <1>4, <1>8, <1>9
    <3>2. rows'[d] = rows[d] /\ workers'[v] = workers[v]
      BY <1>5, <1>7, <3>1
    <3>3. QED
      BY <1>2, <3>1, <3>2 DEF LInv, HeldAreLeased
  <2>3. QED
    BY <2>1, <2>2 DEF HeldAreLeased
<1>13. HeldOnce'
  BY <1>4, <1>8, <1>9 DEF LInv, HeldOnce
<1>14. LeaseOutlasts'
  <2>1. worker.current \notin worker.batch
    BY <1>3, <1>4, <1>6, WebhookAssumption
  <2>2. QED
    BY <1>6, <1>7, <2>1 DEF LInv, LeaseOutlasts, InPhase
<1>15. InsertedOnce' /\ RowsHaveEvents'
  <2>1. \A d \in Deliveries : rows'[d].status # "none" => rows[d].status # "none"
    BY <1>4, <1>5, <1>11
  <2>2. QED
    BY <1>2, <2>1 DEF LInv, InsertedOnce, RowsHaveEvents
<1>16. QED
  BY <1>12, <1>13, <1>14, <1>15 DEF LInv

\* Leases of rows and of workers run off together, and no delivery outlasts
\* its own time.
LEMMA TickKeepsLeases ==
  ASSUME LInv, WebhookTypeOK', Tick
  PROVE  LInv'
<1>1. /\ rows \in [Deliveries -> Row] /\ workers \in [Workers -> Worker]
      /\ UNCHANGED <<events, inserting>>
  BY DEF LInv, WebhookTypeOK, Tick
<1>2. \A d \in Deliveries : /\ rows'[d].status = rows[d].status /\ rows'[d].owner = rows[d].owner
                            /\ rows'[d].lease = Less(rows[d].lease)
  BY <1>1 DEF Tick, Row
<1>3. \A v \in Workers : /\ workers'[v].phase = workers[v].phase
                         /\ workers'[v].batch = workers[v].batch
                         /\ workers'[v].current = workers[v].current
                         /\ workers'[v].lease = Less(workers[v].lease)
                         /\ workers'[v].left = Less(workers[v].left)
                         /\ workers[v].lease \in Nat /\ workers[v].left \in Nat
  BY <1>1 DEF Tick, Worker
<1>4. \A v \in Workers : Held(v)' \subseteq Held(v)
  BY <1>3, LessType DEF Held
<1>5. HeldAreLeased'
  <2>1. SUFFICES ASSUME NEW v \in Workers, NEW d \in Held(v)'
                 PROVE  /\ d[1] \in events' /\ d \notin inserting'
                        /\ rows'[d].status # "none" =>
                             /\ rows'[d].status = "delivering" /\ rows'[d].owner = v
                             /\ rows'[d].lease = workers'[v].lease
    BY DEF HeldAreLeased
  <2>2. d \in Held(v) /\ d \in Deliveries
    BY <1>4 DEF Held
  <2>3. QED
    BY <1>1, <1>2, <1>3, <2>2 DEF LInv, HeldAreLeased
<1>6. HeldOnce'
  BY <1>4 DEF LInv, HeldOnce
<1>7. LeaseOutlasts'
  <2>1. SUFFICES ASSUME NEW v \in Workers
                 PROVE  /\ workers'[v].current \notin workers'[v].batch
                        /\ workers'[v].phase = "resolving" =>
                             workers'[v].lease > workers'[v].left + Timeout + WriteTime
                        /\ workers'[v].phase = "posting" =>
                             workers'[v].lease > workers'[v].left + WriteTime
                        /\ workers'[v].phase = "settling" => workers'[v].lease > workers'[v].left
    BY DEF LeaseOutlasts, InPhase
  <2>2. workers[v].phase \in TimedPhases => workers[v].left > 0
    BY DEF Tick
  <2>3. /\ workers[v].current \notin workers[v].batch
        /\ workers[v].phase = "resolving" =>
             workers[v].lease > workers[v].left + Timeout + WriteTime
        /\ workers[v].phase = "posting" => workers[v].lease > workers[v].left + WriteTime
        /\ workers[v].phase = "settling" => workers[v].lease > workers[v].left
    BY DEF LInv, LeaseOutlasts, InPhase
  <2>4. ASSUME workers[v].phase \in TimedPhases
        PROVE  workers'[v].left = workers[v].left - 1
    BY <1>3, <2>2, <2>4 DEF Less
  <2>5. \A n \in Nat : workers[v].lease > workers[v].left + n /\ workers[v].left > 0 =>
          workers'[v].lease > workers[v].left - 1 + n
    BY <1>3, LessType
  <2>6. Timeout + WriteTime \in Nat /\ WriteTime \in Nat /\ 0 \in Nat
    BY WebhookAssumption
  <2>7. workers'[v].phase = "resolving" =>
          workers'[v].lease > workers'[v].left + Timeout + WriteTime
    <3>1. ASSUME workers[v].phase = "resolving"
          PROVE  workers'[v].lease > workers'[v].left + Timeout + WriteTime
      <4>1. workers[v].left > 0 /\ workers'[v].left = workers[v].left - 1
        BY <2>2, <2>4, <3>1 DEF TimedPhases
      <4>2. workers[v].lease > workers[v].left + (Timeout + WriteTime)
        BY <1>3, <2>3, <3>1, WebhookAssumption
      <4>3. workers'[v].lease > workers[v].left - 1 + (Timeout + WriteTime)
        BY <2>5, <2>6, <4>1, <4>2
      <4>4. QED
        BY <1>3, <4>1, <4>3, WebhookAssumption
    <3>2. QED
      BY <1>3, <3>1
  <2>8. workers'[v].phase = "posting" => workers'[v].lease > workers'[v].left + WriteTime
    BY <1>3, <2>2, <2>3, <2>4, <2>5, <2>6 DEF TimedPhases
  <2>9. workers'[v].phase = "settling" => workers'[v].lease > workers'[v].left
    <3>1. ASSUME workers[v].phase = "settling"
          PROVE  workers'[v].lease > workers'[v].left
      <4>1. workers[v].left > 0 /\ workers'[v].left = workers[v].left - 1
        BY <2>2, <2>4, <3>1 DEF TimedPhases
      <4>2. workers[v].lease > workers[v].left + 0
        BY <1>3, <2>3, <3>1
      <4>3. workers'[v].lease > workers[v].left - 1 + 0
        BY <2>5, <4>1, <4>2
      <4>4. QED
        BY <1>3, <4>1, <4>3
    <3>2. QED
      BY <1>3, <3>1
  <2>10. QED
    BY <1>3, <2>3, <2>7, <2>8, <2>9
<1>8. InsertedOnce' /\ RowsHaveEvents'
  BY <1>1, <1>2 DEF LInv, InsertedOnce, RowsHaveEvents
<1>9. QED
  BY <1>5, <1>6, <1>7, <1>8 DEF LInv

LEMMA InitLeases == ASSUME Init PROVE LInv
<1>1. \A w \in Workers : Held(w) = {}
  BY IdleType DEF Init, Held
<1>2. QED
  BY <1>1, InitTypes, IdleType, NoRowType
  DEF Init, LInv, HeldAreLeased, HeldOnce, InsertedOnce, LeaseOutlasts, RowsHaveEvents, InPhase

LEMMA StepKeepsLeases ==
  ASSUME LInv, EnvironmentFits, [Next]_vars
  PROVE  LInv'
<1>1. WebhookTypeOK'
  BY StepKeepsTypes DEF LInv
<1>2. ASSUME NEW w \in Workers, Run(w)
      PROVE  LInv'
  BY <1>1, <1>2, LeaseKeepsLeases, BatchKeepsLeases, RequestKeepsLeases, SettlementKeepsLeases,
     RetentionKeepsLeases DEF Run
<1>3. CASE UNCHANGED vars
  BY <1>1, <1>3 DEF vars, LInv, HeldAreLeased, HeldOnce, Held, InsertedOnce, LeaseOutlasts,
     RowsHaveEvents, InPhase
<1>4. QED
  BY <1>1, <1>2, <1>3, PeopleKeepLeases, FaultsKeepLeases, TickKeepsLeases DEF Next

LEMMA LeaseInvariance ==
  ASSUME EnvironmentFits
  PROVE  Spec => []LInv
<1>1. Init => LInv
  BY InitLeases
<1>2. LInv /\ [Next]_vars => LInv'
  BY EnvironmentFits, StepKeepsLeases
<1>3. QED
  BY <1>1, <1>2, PTL DEF Spec

\* A worker that has a delivery in hand holds it.
LEMMA CurrentIsHeld ==
  ASSUME LInv, NEW w \in Workers, workers[w].current # None
  PROVE  workers[w].current \in Held(w)
<1>1. workers[w] \in Worker /\ workers[w].phase \in TimedPhases
  BY DEF LInv, WebhookTypeOK
<1>2. workers[w].lease > 0
  BY <1>1, WebhookAssumption DEF LInv, LeaseOutlasts, InPhase, TimedPhases, Worker
<1>3. QED
  BY <1>1, <1>2 DEF Held, Worker

\* When lookup and settlement fit into the slack, the lease of the whole batch
\* covers every delivery of it: no settlement of deliverWebhook finds its lease
\* gone, for any number of workers, batch size and timeout.
THEOREM LeaseCoversTheBatch ==
  ASSUME EnvironmentFits
  PROVE  Spec => []WorkerOwnsItsDelivery
<1>1. LInv => WorkerOwnsItsDelivery
  BY CurrentIsHeld DEF LInv, HeldAreLeased, WorkerOwnsItsDelivery, OwnsLease
<1>2. QED
  BY <1>1, LeaseInvariance, PTL

\* Under the same condition no customer has two workers' requests for one
\* delivery at the same time.
THEOREM NoConcurrentRequests ==
  ASSUME EnvironmentFits
  PROVE  Spec => []OneRequestAtATime
<1>1. LInv => OneRequestAtATime
  <2>1. SUFFICES ASSUME LInv, NEW w \in Workers, NEW v \in Workers,
                        InPhase(w, "posting"), InPhase(v, "posting"),
                        workers[w].current = workers[v].current
                 PROVE  w = v
    BY DEF OneRequestAtATime
  <2>2. workers[w].current # None /\ workers[v].current # None
    BY <2>1 DEF LInv, WebhookTypeOK, InPhase, TimedPhases
  <2>3. workers[w].current \in Held(w) \cap Held(v)
    BY <2>1, <2>2, CurrentIsHeld
  <2>4. QED
    BY <2>1, <2>3 DEF LInv, HeldOnce
<1>2. QED
  BY <1>1, LeaseInvariance, PTL

-----------------------------------------------------------------------------
(* How one step changes a delivery *)

\* What a step may do to the row of d: nothing to its status, insert it, delete
\* it by a sweep, replay it, go on with it, or give it up for a reason.
RowStep(d) ==
  \/ rows'[d].status = rows[d].status
  \/ d \in inserting /\ d \notin inserting'
  \/ rows'[d].status = "none" /\ \E w \in Workers : d \in doomed[w]
  \/ rows[d].status = "dead" /\ replays' = replays + 1
  \/ rows[d].status \in Unsettled /\ rows'[d].status \in Unsettled \cup {"succeeded"}
  \/ /\ rows[d].status \in Unsettled /\ rows'[d].status = "dead"
     /\ (rows[d].attempts = MaxAttempts \/ endpoints'[d[2]] # "enabled")

\* Deliveries are inserted with their event, for endpoints that exist.
InsertStep ==
  /\ events \subseteq events'
  /\ \A d \in inserting' : \/ d \in inserting
                           \/ /\ d[1] \notin events /\ d[1] \in events'
                              /\ endpoints'[d[2]] # "absent"
  /\ \A e \in Endpoints : endpoints'[e] = "absent" => endpoints[e] = "absent"

\* A sweep selects what is settled.
SweepStep ==
  /\ replays <= replays'
  /\ \A w \in Workers : \A d \in doomed'[w] :
       d \in doomed[w] \/ (rows[d].status \in Settled /\ rows' = rows)

\* Only a lease adds to what a worker holds, and only deliveries that were due.
HoldStep ==
  \A w \in Workers : \A d \in Held(w)' : d \in Held(w) \/ rows[d].status \in Unsettled

StepShape == (\A d \in Deliveries : RowStep(d)) /\ InsertStep /\ SweepStep /\ HoldStep

LEMMA KeyTypes ==
  /\ \A d \in Deliveries : d[1] \in Events /\ d[2] \in Endpoints
  /\ \A n \in 0..MaxReplays : n \in Nat
<1>1. Deliveries \subseteq Events \X Endpoints /\ MaxReplays \in Nat
  BY WebhookAssumption DEF Deliveries
<1>2. QED
  BY <1>1

LEMMA SameHolds ==
  ASSUME workers' = workers
  PROVE  HoldStep
BY DEF HoldStep, Held

LEMMA PeopleStep ==
  ASSUME WebhookTypeOK,
         \/ \E e \in Endpoints : CreateWebhookEndpoint(e) \/ DisableWebhookEndpoint(e)
         \/ \E ev \in Events : EnqueueReadsEndpoints(ev) \/ EnqueueWebhookEvent(ev)
         \/ \E d \in Deliveries : ReplayWebhookDelivery(d) \/ RetentionPasses(d)
  PROVE  StepShape
<1>1. HoldStep
  BY SameHolds DEF CreateWebhookEndpoint, DisableWebhookEndpoint, EnqueueReadsEndpoints,
     EnqueueWebhookEvent, ReplayWebhookDelivery, RetentionPasses
<1>2. /\ rows \in [Deliveries -> Row] /\ endpoints \in [Endpoints -> {"absent", "enabled", "disabled"}]
      /\ inserting \in SUBSET Deliveries /\ replays \in Nat
      /\ \A d \in Deliveries : d[2] \in Endpoints
  BY KeyTypes DEF WebhookTypeOK
<1>3. ASSUME NEW e \in Endpoints, CreateWebhookEndpoint(e)
      PROVE  StepShape
  BY <1>1, <1>2, <1>3 DEF CreateWebhookEndpoint, StepShape, RowStep, InsertStep, SweepStep
<1>4. ASSUME NEW e \in Endpoints, DisableWebhookEndpoint(e)
      PROVE  StepShape
  <2>1. ASSUME NEW d \in Deliveries PROVE RowStep(d)
    <3>1. CASE d[2] = e /\ rows[d].status = "pending"
      <4>1. rows'[d].status = "dead" /\ endpoints'[d[2]] = "disabled"
        BY <1>2, <1>4, <3>1 DEF DisableWebhookEndpoint, Row
      <4>2. QED
        BY <3>1, <4>1 DEF RowStep, Unsettled
    <3>2. CASE ~(d[2] = e /\ rows[d].status = "pending")
      BY <1>4, <3>2 DEF DisableWebhookEndpoint, RowStep
    <3>3. QED
      BY <3>1, <3>2
  <2>2. /\ endpoints' = [endpoints EXCEPT ![e] = "disabled"]
        /\ UNCHANGED <<events, inserting, doomed, replays>>
    BY <1>4 DEF DisableWebhookEndpoint
  <2>3. InsertStep
    BY <1>2, <2>2 DEF InsertStep
  <2>4. SweepStep
    BY <1>2, <2>2 DEF SweepStep
  <2>5. QED
    BY <1>1, <2>1, <2>3, <2>4 DEF StepShape
<1>5. ASSUME NEW ev \in Events, EnqueueReadsEndpoints(ev)
      PROVE  StepShape
  <2>1. /\ rows' = rows /\ UNCHANGED <<endpoints, doomed, replays>>
        /\ events' = events \cup {ev} /\ ev \notin events
        /\ \A d \in inserting' : d \in inserting \/ (d[1] = ev /\ endpoints[d[2]] = "enabled")
    BY <1>5 DEF EnqueueReadsEndpoints
  <2>2. InsertStep /\ SweepStep
    BY <1>2, <2>1 DEF InsertStep, SweepStep
  <2>3. QED
    BY <1>1, <2>1, <2>2 DEF StepShape, RowStep
<1>6. ASSUME NEW ev \in Events, EnqueueWebhookEvent(ev)
      PROVE  StepShape
  <2> DEFINE created == {d \in inserting : d[1] = ev}
  <2>1. /\ UNCHANGED <<endpoints, events, doomed, replays>> /\ inserting' = inserting \ created
        /\ \A d \in Deliveries \ created : rows'[d] = rows[d]
    BY <1>6 DEF EnqueueWebhookEvent
  <2>2. \A d \in created : d \in inserting /\ d \notin inserting'
    BY <2>1
  <2> HIDE DEF created
  <2>3. \A d \in Deliveries : RowStep(d)
    BY <2>1, <2>2 DEF RowStep
  <2>4. InsertStep /\ SweepStep
    BY <1>2, <2>1 DEF InsertStep, SweepStep
  <2>5. QED
    BY <1>1, <2>3, <2>4 DEF StepShape
<1>7. ASSUME NEW x \in Deliveries, ReplayWebhookDelivery(x)
      PROVE  StepShape
  <2>1. /\ UNCHANGED <<endpoints, events, inserting, doomed>> /\ replays' = replays + 1
        /\ rows[x].status = "dead" /\ \A d \in Deliveries \ {x} : rows'[d] = rows[d]
    BY <1>2, <1>7 DEF ReplayWebhookDelivery
  <2>2. \A d \in Deliveries : RowStep(d)
    BY <2>1 DEF RowStep
  <2>3. InsertStep /\ SweepStep
    BY <1>2, <2>1 DEF InsertStep, SweepStep
  <2>4. QED
    BY <1>1, <2>2, <2>3 DEF StepShape
<1>8. ASSUME NEW x \in Deliveries, RetentionPasses(x)
      PROVE  StepShape
  <2>1. /\ UNCHANGED <<endpoints, events, inserting, doomed, replays>>
        /\ \A d \in Deliveries : rows'[d].status = rows[d].status
    BY <1>2, <1>8 DEF RetentionPasses, Row
  <2>2. InsertStep /\ SweepStep
    BY <1>2, <2>1 DEF InsertStep, SweepStep
  <2>3. QED
    BY <1>1, <2>1, <2>2 DEF StepShape, RowStep
<1>9. QED
  BY <1>3, <1>4, <1>5, <1>6, <1>7, <1>8

\* A worker that holds no more than before.
LEMMA HoldsNoMore ==
  ASSUME WebhookTypeOK, NEW w \in Workers, NEW worker,
         workers' = [workers EXCEPT ![w] = worker],
         \/ worker.batch = {} /\ worker.current = None
         \/ /\ worker.lease = workers[w].lease
            /\ worker.batch \subseteq workers[w].batch
            /\ worker.current \in {None, workers[w].current} \cup workers[w].batch
  PROVE  HoldStep
<1>1. /\ workers \in [Workers -> Worker]
      /\ workers'[w] = worker /\ \A v \in Workers \ {w} : workers'[v] = workers[v]
  BY DEF WebhookTypeOK
<1>2. None \notin Deliveries
  BY WebhookAssumption
<1>3. SUFFICES ASSUME NEW v \in Workers, NEW d \in Held(v)'
               PROVE  d \in Held(v)
  BY DEF HoldStep
<1>4. /\ d \in Deliveries /\ d # None /\ workers'[v].lease > 0
      /\ d \in workers'[v].batch \/ d = workers'[v].current
  BY <1>2 DEF Held
<1>5. CASE v = w
  BY <1>1, <1>4, <1>5 DEF Held
<1>6. CASE v # w
  BY <1>1, <1>4, <1>6 DEF Held
<1>7. QED
  BY <1>5, <1>6

LEMMA LeaseStep ==
  ASSUME WebhookTypeOK, NEW w \in Workers, LeaseWebhookDeliveries(w)
  PROVE  StepShape
<1>1. PICK taken \in SUBSET {d \in Deliveries : IsDue(rows[d])} :
        LET routable == {d \in taken : endpoints[d[2]] = "enabled"}
        IN /\ rows' = [d \in Deliveries |->
                 IF d \in routable THEN Leased(rows[d], w)
                 ELSE IF d \in taken THEN Unroutable(rows[d])
                 ELSE rows[d]]
           /\ workers' = [workers EXCEPT ![w] =
                [Idle EXCEPT !.phase = "batch", !.batch = routable, !.lease = LeaseTime]]
  BY DEF LeaseWebhookDeliveries
<1> DEFINE routable == {d \in taken : endpoints[d[2]] = "enabled"}
           worker == [Idle EXCEPT !.phase = "batch", !.batch = routable, !.lease = LeaseTime]
<1>2. /\ rows \in [Deliveries -> Row] /\ workers \in [Workers -> Worker] /\ replays \in Nat
      /\ UNCHANGED <<endpoints, events, inserting, doomed, replays>>
  BY KeyTypes DEF WebhookTypeOK, LeaseWebhookDeliveries
<1>3. \A d \in taken : d \in Deliveries /\ rows[d].status \in Unsettled
  BY DEF IsDue, Unsettled
<1>4. routable \subseteq taken /\ \A d \in taken \ routable : endpoints[d[2]] # "enabled"
  OBVIOUS
<1>5. /\ rows' = [d \in Deliveries |-> IF d \in routable THEN Leased(rows[d], w)
                                       ELSE IF d \in taken THEN Unroutable(rows[d])
                                       ELSE rows[d]]
      /\ workers' = [workers EXCEPT ![w] = worker]
  BY <1>1
<1> HIDE DEF routable
<1>6. worker.batch = routable /\ worker.current = None
  BY IdleType DEF Worker
<1>7. workers'[w] = worker /\ \A v \in Workers \ {w} : workers'[v] = workers[v]
  BY <1>2, <1>5
<1> HIDE DEF worker
<1>8. ASSUME NEW d \in Deliveries PROVE RowStep(d)
  <2>1. CASE d \in routable
    <3>1. rows'[d].status = "delivering"
      BY <1>2, <1>5, <2>1, LeasedType
    <3>2. QED
      BY <1>3, <1>4, <2>1, <3>1 DEF RowStep, Unsettled
  <2>2. CASE d \in taken \ routable
    <3>1. rows'[d].status = "dead"
      BY <1>2, <1>5, <2>2, DeadType DEF Unroutable
    <3>2. QED
      BY <1>2, <1>3, <1>4, <2>2, <3>1 DEF RowStep
  <2>3. CASE d \notin taken
    BY <1>4, <1>5, <2>3 DEF RowStep
  <2>4. QED
    BY <2>1, <2>2, <2>3
<1>9. HoldStep
  <2>1. SUFFICES ASSUME NEW v \in Workers, NEW d \in Held(v)'
                 PROVE  d \in Held(v) \/ rows[d].status \in Unsettled
    BY DEF HoldStep
  <2>2. CASE v = w
    <3>1. d \in Deliveries /\ d # None /\ (d \in worker.batch \/ d = worker.current)
      BY <1>7, <2>2, WebhookAssumption DEF Held
    <3>2. QED
      BY <1>3, <1>4, <1>6, <3>1
  <2>3. CASE v # w
    BY <1>7, <2>3 DEF Held
  <2>4. QED
    BY <2>2, <2>3
<1>10. InsertStep /\ SweepStep
  BY <1>2 DEF InsertStep, SweepStep
<1>11. QED
  BY <1>8, <1>9, <1>10 DEF StepShape

\* What leaves the rows, the endpoints and the sweeps alone.
LEMMA QuietStep ==
  ASSUME WebhookTypeOK, UNCHANGED <<tables, doomed, replays>>, HoldStep
  PROVE  StepShape
<1>1. UNCHANGED <<endpoints, events, inserting, rows, doomed, replays>> /\ replays \in Nat
  BY KeyTypes DEF WebhookTypeOK, tables
<1>2. QED
  BY <1>1 DEF StepShape, RowStep, InsertStep, SweepStep

LEMMA BatchStep ==
  ASSUME WebhookTypeOK, NEW w \in Workers,
         (\E d \in Deliveries : StartDelivery(w, d)) \/ FinishBatch(w)
  PROVE  StepShape
<1>1. workers[w] \in Worker
  BY DEF WebhookTypeOK
<1>2. ASSUME NEW d \in Deliveries, StartDelivery(w, d)
      PROVE  HoldStep
  <2> DEFINE worker == [workers[w] EXCEPT !.phase = "resolving", !.left = LookupTime,
                                          !.batch = @ \ {d}, !.current = d]
  <2>1. /\ d \in workers[w].batch /\ workers' = [workers EXCEPT ![w] = worker]
    BY <1>2 DEF StartDelivery
  <2>2. /\ worker.batch = workers[w].batch \ {d} /\ worker.current = d
        /\ worker.lease = workers[w].lease
    BY <1>1 DEF Worker
  <2> HIDE DEF worker
  <2>3. QED
    BY <2>1, <2>2, HoldsNoMore
<1>3. ASSUME FinishBatch(w)
      PROVE  HoldStep
  <2> DEFINE worker == [Idle EXCEPT !.phase = "sweeping"]
  <2>1. worker.batch = {} /\ worker.current = None /\ workers' = [workers EXCEPT ![w] = worker]
    BY <1>3, IdleType DEF FinishBatch, Worker
  <2> HIDE DEF worker
  <2>2. QED
    BY <2>1, HoldsNoMore
<1>4. QED
  BY <1>2, <1>3, QuietStep DEF StartDelivery, FinishBatch

LEMMA RequestStep ==
  ASSUME WebhookTypeOK, NEW w \in Workers,
         RefuseEndpoint(w) \/ SendRequest(w) \/ AnswerIsSuccess(w) \/ AnswerIsFailure(w)
  PROVE  StepShape
<1>1. PICK phase, time, outcome : Enter(w, phase, time, outcome)
  BY DEF RefuseEndpoint, SendRequest, AnswerIsSuccess, AnswerIsFailure
<1> DEFINE worker == [workers[w] EXCEPT !.phase = phase, !.left = time, !.outcome = outcome]
<1>2. workers' = [workers EXCEPT ![w] = worker]
  BY <1>1 DEF Enter
<1>3. /\ worker.batch = workers[w].batch /\ worker.current = workers[w].current
      /\ worker.lease = workers[w].lease
  BY DEF WebhookTypeOK, Worker
<1> HIDE DEF worker
<1>4. HoldStep
  BY <1>2, <1>3, HoldsNoMore
<1>5. QED
  BY <1>4, QuietStep DEF RefuseEndpoint, SendRequest, AnswerIsSuccess, AnswerIsFailure

LEMMA SettlementStep ==
  ASSUME WebhookTypeOK, NEW w \in Workers,
         CompleteWebhookDelivery(w) \/ FailWebhookDelivery(w)
  PROVE  StepShape
<1> DEFINE c == workers[w].current
           worker == [workers[w] EXCEPT !.phase = "batch", !.current = None, !.left = 0]
<1>1. /\ c \in Deliveries /\ rows \in [Deliveries -> Row] /\ replays \in Nat
      /\ UNCHANGED <<endpoints, events, inserting, doomed, replays>>
  BY SettlesADelivery, TypeParts, KeyTypes
  DEF WebhookTypeOK, CompleteWebhookDelivery, FailWebhookDelivery
<1>2. HoldStep
  <2>1. workers' = [workers EXCEPT ![w] = worker]
    BY DEF CompleteWebhookDelivery, FailWebhookDelivery, NextDelivery
  <2>2. /\ worker.batch = workers[w].batch /\ worker.current = None
        /\ worker.lease = workers[w].lease
    BY DEF WebhookTypeOK, Worker
  <2> HIDE DEF worker
  <2>3. QED
    BY <2>1, <2>2, HoldsNoMore
<1> HIDE DEF c
<1>3. CASE rows' = rows
  BY <1>1, <1>2, <1>3 DEF StepShape, RowStep, InsertStep, SweepStep
<1>4. CASE rows' # rows
  <2>1. /\ rows[c].status = "delivering" /\ \A d \in Deliveries \ {c} : rows'[d] = rows[d]
        /\ \/ rows'[c].status = "succeeded"
           \/ rows'[c] = Retried(rows[c])
    BY <1>1, <1>4 DEF CompleteWebhookDelivery, FailWebhookDelivery, OwnsLease, Row, c
  <2>2. rows[c].attempts >= MaxAttempts => rows[c].attempts = MaxAttempts
    BY <1>1, WebhookAssumption DEF Row
  <2>3. rows'[c].status = "dead" /\ rows'[c] = Retried(rows[c]) =>
          rows[c].attempts = MaxAttempts
    BY <1>1, <2>2 DEF Retried, Row
  <2>4. rows'[c] = Retried(rows[c]) => rows'[c].status \in {"dead", "pending"}
    BY <1>1, RetriedType
  <2>5. \A d \in Deliveries : RowStep(d)
    BY <2>1, <2>3, <2>4 DEF RowStep, Unsettled
  <2>6. InsertStep /\ SweepStep
    BY <1>1 DEF InsertStep, SweepStep
  <2>7. QED
    BY <1>2, <2>5, <2>6 DEF StepShape
<1>5. QED
  BY <1>3, <1>4

LEMMA RetentionStep ==
  ASSUME WebhookTypeOK, NEW w \in Workers,
         SelectFinishedDeliveries(w) \/ PruneWebhookDeliveries(w)
  PROVE  StepShape
<1>1. /\ doomed \in [Workers -> SUBSET Deliveries] /\ replays \in Nat
      /\ UNCHANGED <<endpoints, events, inserting, replays>>
  BY KeyTypes DEF WebhookTypeOK, SelectFinishedDeliveries, PruneWebhookDeliveries, tables
<1>2. InsertStep
  BY <1>1 DEF InsertStep
<1>3. CASE SelectFinishedDeliveries(w)
  <2> DEFINE old == {d \in Deliveries : rows[d].status \in Settled /\ rows[d].aged}
  <2>1. PICK phase : workers' = [workers EXCEPT ![w].phase = phase]
    BY <1>3 DEF SelectFinishedDeliveries
  <2> DEFINE worker == [workers[w] EXCEPT !.phase = phase]
  <2>2. workers' = [workers EXCEPT ![w] = worker]
    BY <2>1
  <2>3. /\ worker.batch = workers[w].batch /\ worker.current = workers[w].current
        /\ worker.lease = workers[w].lease
    BY DEF WebhookTypeOK, Worker
  <2> HIDE DEF worker
  <2>4. HoldStep
    BY <2>2, <2>3, HoldsNoMore
  <2>5. doomed' = [doomed EXCEPT ![w] = old] /\ rows' = rows
    BY <1>3 DEF SelectFinishedDeliveries, tables
  <2>6. SweepStep
    BY <1>1, <2>5 DEF SweepStep
  <2>7. QED
    BY <1>2, <2>4, <2>5, <2>6 DEF StepShape, RowStep
<1>4. CASE PruneWebhookDeliveries(w)
  <2>1. /\ workers' = [workers EXCEPT ![w] = Idle] /\ doomed' = [doomed EXCEPT ![w] = {}]
        /\ \A d \in Deliveries : rows'[d] = rows[d] \/ (d \in doomed[w] /\ rows'[d] = NoRow)
    BY <1>4 DEF PruneWebhookDeliveries
  <2>2. HoldStep
    BY <2>1, IdleType, HoldsNoMore
  <2>3. \A d \in Deliveries : RowStep(d)
    BY <2>1, NoRowType DEF RowStep
  <2>4. SweepStep
    BY <1>1, <2>1 DEF SweepStep
  <2>5. QED
    BY <1>2, <2>2, <2>3, <2>4 DEF StepShape
<1>5. QED
  BY <1>3, <1>4

LEMMA FaultStep ==
  ASSUME WebhookTypeOK, NEW w \in Workers, SettlementFails(w) \/ Crash(w)
  PROVE  StepShape
<1>1. /\ doomed \in [Workers -> SUBSET Deliveries] /\ replays \in Nat
      /\ UNCHANGED <<endpoints, events, inserting, rows, replays>>
      /\ doomed' = doomed \/ doomed' = [doomed EXCEPT ![w] = {}]
  BY KeyTypes DEF WebhookTypeOK, SettlementFails, Crash, tables
<1>2. HoldStep
  <2>1. CASE workers' = [workers EXCEPT ![w] = Idle]
    BY <2>1, IdleType, HoldsNoMore
  <2>2. CASE workers' = [workers EXCEPT ![w].outcome = "caught"]
    <3> DEFINE worker == [workers[w] EXCEPT !.outcome = "caught"]
    <3>1. workers' = [workers EXCEPT ![w] = worker]
      BY <2>2
    <3>2. /\ worker.batch = workers[w].batch /\ worker.current = workers[w].current
          /\ worker.lease = workers[w].lease
      BY DEF WebhookTypeOK, Worker
    <3> HIDE DEF worker
    <3>3. QED
      BY <3>1, <3>2, HoldsNoMore
  <2>3. QED
    BY <2>1, <2>2 DEF SettlementFails, Crash
<1>3. SweepStep
  BY <1>1 DEF SweepStep
<1>4. QED
  BY <1>1, <1>2, <1>3 DEF StepShape, RowStep, InsertStep

LEMMA TickStep ==
  ASSUME WebhookTypeOK, Tick
  PROVE  StepShape
<1>1. /\ rows \in [Deliveries -> Row] /\ workers \in [Workers -> Worker] /\ replays \in Nat
      /\ UNCHANGED <<endpoints, events, inserting, doomed, replays>>
  BY KeyTypes DEF WebhookTypeOK, Tick
<1>2. \A d \in Deliveries : rows'[d].status = rows[d].status
  BY <1>1 DEF Tick, Row
<1>3. \A v \in Workers : /\ workers'[v].batch = workers[v].batch
                         /\ workers'[v].current = workers[v].current
                         /\ workers'[v].lease = Less(workers[v].lease)
                         /\ workers[v].lease \in Nat
  BY <1>1 DEF Tick, Worker
<1>4. HoldStep
  BY <1>3, LessType DEF HoldStep, Held
<1>5. QED
  BY <1>1, <1>2, <1>4 DEF StepShape, RowStep, InsertStep, SweepStep

LEMMA NextShape ==
  ASSUME WebhookTypeOK, [Next]_vars
  PROVE  StepShape
<1>1. ASSUME NEW w \in Workers, Run(w)
      PROVE  StepShape
  BY <1>1, LeaseStep, BatchStep, RequestStep, SettlementStep, RetentionStep DEF Run
<1>2. CASE UNCHANGED vars
  BY <1>2, QuietStep, SameHolds DEF vars, tables
<1>3. QED
  BY <1>1, <1>2, PeopleStep, FaultStep, TickStep DEF Next

-----------------------------------------------------------------------------
(* Why a delivery ends *)

\* Rows, also those about to be inserted, have an endpoint.
RowsHaveEndpoints ==
  \A d \in Deliveries : rows[d].status # "none" \/ d \in inserting => endpoints[d[2]] # "absent"

\* What a sweep has selected was inserted long ago and is over, unless somebody
\* has replayed a delivery since.
DoomedAreOver ==
  \A w \in Workers : \A d \in doomed[w] :
    /\ d[1] \in events /\ d \notin inserting
    /\ replays = 0 => rows[d].status \in Settled \cup {"none"}

EInv ==
  /\ WebhookTypeOK /\ RowsHaveEndpoints /\ InsertedOnce /\ RowsHaveEvents /\ DoomedAreOver

LEMMA InitEnds == ASSUME Init PROVE EInv
BY InitTypes, NoRowType
DEF Init, EInv, RowsHaveEndpoints, InsertedOnce, RowsHaveEvents, DoomedAreOver

LEMMA StepKeepsEnds ==
  ASSUME EInv, [Next]_vars
  PROVE  EInv'
<1>1. WebhookTypeOK' /\ StepShape
  BY StepKeepsTypes, NextShape DEF EInv
<1>2. /\ inserting \subseteq Deliveries /\ inserting' \subseteq Deliveries
      /\ doomed \in [Workers -> SUBSET Deliveries] /\ doomed' \in [Workers -> SUBSET Deliveries]
      /\ replays \in Nat /\ replays' \in Nat
      /\ \A d \in Deliveries : d[2] \in Endpoints
  BY <1>1, KeyTypes DEF EInv, WebhookTypeOK
<1>3. \A d \in Deliveries : rows'[d].status # "none" => rows[d].status # "none" \/ d \in inserting
  BY <1>1 DEF StepShape, RowStep, Unsettled
<1>4. RowsHaveEndpoints'
  BY <1>1, <1>2, <1>3 DEF EInv, RowsHaveEndpoints, StepShape, InsertStep
<1>5. InsertedOnce'
  BY <1>1 DEF EInv, InsertedOnce, StepShape, InsertStep
<1>6. RowsHaveEvents'
  <2>1. SUFFICES ASSUME NEW d \in Deliveries, rows'[d].status # "none"
                 PROVE  d[1] \in events' /\ d \notin inserting'
    BY DEF RowsHaveEvents
  <2>2. CASE rows[d].status # "none"
    BY <1>1, <2>2 DEF EInv, RowsHaveEvents, StepShape, InsertStep
  <2>3. CASE rows[d].status = "none"
    <3>1. d \in inserting /\ d \notin inserting'
      BY <1>1, <2>1, <2>3 DEF StepShape, RowStep, Unsettled
    <3>2. QED
      BY <1>1, <3>1 DEF EInv, InsertedOnce, StepShape, InsertStep
  <2>4. QED
    BY <2>2, <2>3
<1>7. DoomedAreOver'
  <2>1. SUFFICES ASSUME NEW w \in Workers, NEW d \in doomed'[w]
                 PROVE  /\ d[1] \in events' /\ d \notin inserting'
                        /\ replays' = 0 => rows'[d].status \in Settled \cup {"none"}
    BY DEF DoomedAreOver
  <2>2. d \in Deliveries
    BY <1>2
  <2>3. CASE d \in doomed[w]
    <3>1. d[1] \in events' /\ d \notin inserting'
      BY <1>1, <2>3 DEF EInv, DoomedAreOver, StepShape, InsertStep
    <3>2. ASSUME replays' = 0
          PROVE  rows'[d].status \in Settled \cup {"none"}
      <4>1. replays = 0 /\ replays' # replays + 1
        BY <1>1, <1>2, <3>2 DEF StepShape, SweepStep
      <4>2. rows[d].status \in Settled \cup {"none"} /\ d \notin inserting
        BY <2>3, <4>1 DEF EInv, DoomedAreOver
      <4>3. QED
        BY <1>1, <2>2, <4>1, <4>2 DEF StepShape, RowStep, Settled, Unsettled
    <3>3. QED
      BY <3>1, <3>2
  <2>4. CASE d \notin doomed[w]
    <3>1. rows[d].status \in Settled /\ rows' = rows
      BY <1>1, <2>4 DEF StepShape, SweepStep
    <3>2. d[1] \in events /\ d \notin inserting
      BY <2>2, <3>1 DEF EInv, RowsHaveEvents, Settled
    <3>3. QED
      BY <1>1, <3>1, <3>2 DEF StepShape, InsertStep
  <2>5. QED
    BY <2>3, <2>4
<1>8. QED
  BY <1>1, <1>4, <1>5, <1>6, <1>7 DEF EInv

LEMMA EndsInvariance == Spec => []EInv
<1>1. Init => EInv
  BY InitEnds
<1>2. EInv /\ [Next]_vars => EInv'
  BY StepKeepsEnds
<1>3. QED
  BY <1>1, <1>2, PTL DEF Spec

\* Whatever workers, leases, crashes and sweeps do to each other, a delivery
\* dies only after its last attempt or with its endpoint: a row always has an
\* endpoint, so what leaseWebhookDeliveries finds unroutable was disabled.
THEOREM DeathsHaveReasons == Spec => GivesUpForAReason
<1> DEFINE Reasons == \A d \in Deliveries :
             rows[d].status \in Unsettled /\ rows'[d].status = "dead" =>
               \/ rows[d].attempts = MaxAttempts
               \/ endpoints'[d[2]] = "disabled"
<1>1. EInv /\ EInv' /\ [Next]_vars => [Reasons]_vars
  <2>1. SUFFICES ASSUME EInv, EInv', [Next]_vars, NEW d \in Deliveries,
                        rows[d].status \in Unsettled, rows'[d].status = "dead",
                        rows[d].attempts # MaxAttempts
                 PROVE  endpoints'[d[2]] = "disabled"
    OBVIOUS
  <2>2. StepShape
    BY <2>1, NextShape DEF EInv
  <2>3. d \notin inserting
    BY <2>1 DEF EInv, RowsHaveEvents, Unsettled
  <2>4. endpoints'[d[2]] # "enabled"
    BY <2>1, <2>2, <2>3 DEF StepShape, RowStep, Unsettled
  <2>5. endpoints'[d[2]] # "absent"
    BY <2>1 DEF EInv, RowsHaveEndpoints
  <2>6. endpoints'[d[2]] \in {"absent", "enabled", "disabled"}
    BY <2>1, KeyTypes DEF EInv, WebhookTypeOK
  <2>7. QED
    BY <2>4, <2>5, <2>6
<1>2. QED
  BY <1>1, EndsInvariance, PTL DEF Spec, GivesUpForAReason

\* Between the two statements of a retention sweep nothing that was finished is
\* delivered again, unless somebody replays it.
THEOREM SweepsSpareTheUnsent == Spec => OnlyReplaysAreSweptUnsent
<1> DEFINE Spared == \A d \in Deliveries :
             rows[d].status \in Unsettled /\ rows'[d].status = "none" => replays > 0
<1>1. EInv /\ [Next]_vars => [Spared]_vars
  <2>1. SUFFICES ASSUME EInv, [Next]_vars, NEW d \in Deliveries,
                        rows[d].status \in Unsettled, rows'[d].status = "none"
                 PROVE  replays > 0
    OBVIOUS
  <2>2. StepShape /\ replays \in Nat
    BY <2>1, NextShape, KeyTypes DEF EInv, WebhookTypeOK
  <2>3. d \notin inserting
    BY <2>1 DEF EInv, RowsHaveEvents, Unsettled
  <2>4. PICK w \in Workers : d \in doomed[w]
    BY <2>1, <2>2, <2>3 DEF StepShape, RowStep, Unsettled
  <2>5. replays # 0
    BY <2>1, <2>4 DEF EInv, DoomedAreOver, Settled, Unsettled
  <2>6. QED
    BY <2>2, <2>5
<1>2. QED
  BY <1>1, EndsInvariance, PTL DEF Spec, OnlyReplaysAreSweptUnsent

-----------------------------------------------------------------------------
(* How often a delivery is accepted *)

\* The worker is about to record that d was accepted.
Records(w, d) ==
  /\ InPhase(w, "settling") /\ workers[w].outcome = "accepted" /\ workers[w].current = d

\* d will not be sent again, as far as leases go.
Done(d) ==
  \/ \E w \in Workers : Records(w, d)
  \/ /\ rows[d].status \in {"succeeded", "none"}
     /\ \A w \in Workers : d \notin Held(w)

\* A delivery that was accepted once more often than there were faults is done.
Counted(d) ==
  /\ accepted[d] <= 1 + faults
  /\ accepted[d] > faults => Done(d)
  /\ accepted[d] > 0 => d[1] \in events /\ d \notin inserting

CInv == LInv /\ \A d \in Deliveries : Counted(d)

\* Only its settlement, or a fault, takes a worker from what it records.
LEMMA RecorderStays ==
  ASSUME WebhookTypeOK, [Next]_vars, NEW w \in Workers, NEW d \in Deliveries, Records(w, d)
  PROVE  \/ Records(w, d)' \/ CompleteWebhookDelivery(w)
         \/ faults' = faults + 1 /\ accepted' = accepted
<1>1. workers \in [Workers -> Worker]
  BY DEF WebhookTypeOK
<1>2. workers'[w] = workers[w] => Records(w, d)'
  BY DEF Records, InPhase
<1>3. ASSUME NEW v \in Workers, Run(v)
      PROVE  Records(w, d)' \/ CompleteWebhookDelivery(w)
  <2>1. CASE v # w
    <3>1. workers'[w] = workers[w]
      BY <1>1, <1>3, <2>1
      DEF Run, LeaseWebhookDeliveries, StartDelivery, FinishBatch, RefuseEndpoint, SendRequest,
          AnswerIsSuccess, AnswerIsFailure, CompleteWebhookDelivery, FailWebhookDelivery,
          SelectFinishedDeliveries, PruneWebhookDeliveries, Enter, NextDelivery
    <3>2. QED
      BY <1>2, <3>1
  <2>2. CASE v = w
    BY <1>3, <2>2
    DEF Run, LeaseWebhookDeliveries, StartDelivery, FinishBatch, RefuseEndpoint, SendRequest,
        AnswerIsSuccess, AnswerIsFailure, FailWebhookDelivery, SelectFinishedDeliveries,
        PruneWebhookDeliveries, Records, InPhase
  <2>3. QED
    BY <2>1, <2>2
<1>4. CASE Tick
  BY <1>1, <1>4 DEF Tick, Records, InPhase, Worker
<1>5. CASE UNCHANGED vars
  BY <1>2, <1>5 DEF vars
<1>6. ASSUME NEW v \in Workers, SettlementFails(v) \/ Crash(v)
      PROVE  faults' = faults + 1 /\ accepted' = accepted
  BY <1>6 DEF SettlementFails, Crash
<1>7. ASSUME \/ \E e \in Endpoints : CreateWebhookEndpoint(e) \/ DisableWebhookEndpoint(e)
             \/ \E ev \in Events : EnqueueReadsEndpoints(ev) \/ EnqueueWebhookEvent(ev)
             \/ \E x \in Deliveries : ReplayWebhookDelivery(x) \/ RetentionPasses(x)
      PROVE  Records(w, d)'
  <2>1. workers' = workers
    BY <1>7 DEF CreateWebhookEndpoint, DisableWebhookEndpoint, EnqueueReadsEndpoints,
       EnqueueWebhookEvent, ReplayWebhookDelivery, RetentionPasses
  <2>2. QED
    BY <1>2, <2>1
<1>8. QED
  BY <1>3, <1>4, <1>5, <1>6, <1>7 DEF Next

\* The settlement of an accepted delivery finds its lease or no row at all, and
\* nobody else holds the delivery.
LEMMA RecordedIsDone ==
  ASSUME LInv, NEW w \in Workers, NEW d \in Deliveries, Records(w, d),
         CompleteWebhookDelivery(w)
  PROVE  Done(d)'
<1>1. /\ rows \in [Deliveries -> Row] /\ workers \in [Workers -> Worker] /\ d # None
  BY WebhookAssumption DEF LInv, WebhookTypeOK
<1>2. d \in Held(w) /\ workers[w].current = d
  BY <1>1, CurrentIsHeld DEF Records
<1>3. rows[d].status = "none" \/ OwnsLease(d, w)
  BY <1>2 DEF LInv, HeldAreLeased, OwnsLease
<1>4. rows'[d].status \in {"succeeded", "none"}
  <2>1. CASE OwnsLease(d, w)
    BY <1>1, <1>2, <2>1 DEF CompleteWebhookDelivery, Row
  <2>2. CASE ~OwnsLease(d, w)
    BY <1>2, <1>3, <2>2 DEF CompleteWebhookDelivery
  <2>3. QED
    BY <2>1, <2>2
<1>5. \A v \in Workers : d \notin Held(v)'
  <2>1. /\ \A v \in Workers \ {w} : workers'[v] = workers[v]
        /\ workers'[w].batch = workers[w].batch /\ workers'[w].current = None
    BY <1>1 DEF CompleteWebhookDelivery, NextDelivery, Worker
  <2>2. d \notin workers[w].batch
    BY <1>2 DEF LInv, LeaseOutlasts
  <2>3. \A v \in Workers \ {w} : d \notin Held(v)
    BY <1>2 DEF LInv, HeldOnce
  <2>4. d \notin Held(w)'
    BY <1>1, <2>1, <2>2 DEF Held
  <2>5. QED
    BY <2>1, <2>3, <2>4 DEF Held
<1>6. QED
  BY <1>4, <1>5 DEF Done

LEMMA DoneStays ==
  ASSUME LInv, [Next]_vars, NEW d \in Deliveries, Done(d), d \notin inserting
  PROVE  Done(d)' \/ (faults' = faults + 1 /\ accepted' = accepted)
<1>1. WebhookTypeOK /\ StepShape
  BY NextShape DEF LInv
<1>2. ASSUME NEW w \in Workers, Records(w, d)
      PROVE  Done(d)' \/ (faults' = faults + 1 /\ accepted' = accepted)
  BY <1>1, <1>2, RecorderStays, RecordedIsDone DEF Done
<1>3. ASSUME rows[d].status \in {"succeeded", "none"}, \A w \in Workers : d \notin Held(w)
      PROVE  Done(d)'
  <2>1. rows'[d].status \in {"succeeded", "none"}
    BY <1>1, <1>3 DEF StepShape, RowStep, Unsettled
  <2>2. \A w \in Workers : d \notin Held(w)'
    BY <1>1, <1>3 DEF StepShape, HoldStep, Unsettled
  <2>3. QED
    BY <2>1, <2>2 DEF Done
<1>4. QED
  BY <1>2, <1>3 DEF Done

\* What a customer accepts was not done.
LEMMA AnswersCount ==
  ASSUME CInv, NEW w \in Workers, AnswerIsSuccess(w)
  PROVE  LET c == workers[w].current
         IN /\ c \in Deliveries /\ accepted[c] <= faults
            /\ c[1] \in events /\ c \notin inserting
<1> DEFINE c == workers[w].current
<1>1. LInv /\ workers[w] \in Worker /\ InPhase(w, "posting") /\ c # None /\ c \in Deliveries
  BY DEF CInv, LInv, WebhookTypeOK, AnswerIsSuccess, InPhase, TimedPhases, Worker
<1>2. c \in Held(w)
  BY <1>1, CurrentIsHeld
<1>3. \A v \in Workers : ~Records(v, c)
  <2>1. SUFFICES ASSUME NEW v \in Workers, Records(v, c)
                 PROVE  FALSE
    OBVIOUS
  <2>2. c \in Held(v)
    BY <1>1, <2>1, CurrentIsHeld DEF Records
  <2>3. v = w
    BY <1>1, <1>2, <2>2 DEF LInv, HeldOnce
  <2>4. QED
    BY <1>1, <2>1, <2>3 DEF Records, InPhase
<1>4. ~Done(c)
  BY <1>2, <1>3 DEF Done
<1>5. accepted[c] \in Nat /\ faults \in Nat
  BY <1>1, WebhookAssumption DEF LInv, WebhookTypeOK, CountedAnswers
<1>6. accepted[c] <= faults
  BY <1>1, <1>4, <1>5 DEF CInv, Counted
<1>7. QED
  BY <1>1, <1>2, <1>6 DEF LInv, HeldAreLeased

LEMMA StepKeepsCounts ==
  ASSUME CInv, EnvironmentFits, [Next]_vars
  PROVE  CInv'
<1>1. LInv /\ LInv' /\ StepShape
  BY StepKeepsLeases, NextShape DEF CInv, LInv
<1>2. /\ accepted \in [Deliveries -> 0..CountedAnswers] /\ faults \in Nat
      /\ CountedAnswers \in Nat
      /\ \A d \in Deliveries : accepted[d] \in Nat
  BY <1>1, WebhookAssumption DEF LInv, WebhookTypeOK, CountedAnswers
<1>3. SUFFICES ASSUME NEW d \in Deliveries
               PROVE  Counted(d)'
  BY <1>1 DEF CInv
<1>4. Counted(d)
  BY DEF CInv
<1>5. d[1] \in events /\ d \notin inserting => d[1] \in events' /\ d \notin inserting'
  BY <1>1 DEF StepShape, InsertStep
<1>6. CASE accepted'[d] = accepted[d] /\ faults' = faults
  <2>1. accepted[d] > faults => Done(d)'
    BY <1>1, <1>2, <1>4, <1>6, DoneStays DEF Counted
  <2>2. QED
    BY <1>4, <1>5, <1>6, <2>1 DEF Counted
<1>7. CASE accepted' = accepted /\ faults' = faults + 1
  BY <1>2, <1>4, <1>5, <1>7 DEF Counted
<1>8. ASSUME NEW w \in Workers, AnswerIsSuccess(w)
      PROVE  Counted(d)'
  <2> DEFINE c == workers[w].current
  <2>1. /\ c \in Deliveries /\ accepted[c] <= faults /\ c[1] \in events /\ c \notin inserting
    BY <1>8, AnswersCount
  <2>2. faults' = faults
    BY <1>8 DEF AnswerIsSuccess
  <2>3. CASE d # c
    BY <1>2, <1>6, <1>8, <2>2, <2>3 DEF AnswerIsSuccess
  <2>4. CASE d = c
    <3>1. accepted'[d] <= 1 + faults
      BY <1>2, <1>8, <2>1, <2>4 DEF AnswerIsSuccess
    <3>2. Records(w, d)'
      BY <1>1, <1>8, <2>4 DEF AnswerIsSuccess, Enter, Records, InPhase, LInv, WebhookTypeOK, Worker
    <3>3. QED
      BY <1>5, <2>1, <2>2, <2>4, <3>1, <3>2 DEF Counted, Done
  <2>5. QED
    BY <2>3, <2>4
<1>9. ASSUME NEW x \in Deliveries, ReplayWebhookDelivery(x)
      PROVE  Counted(d)'
  <2>1. CASE d = x
    BY <1>2, <1>9, <2>1 DEF ReplayWebhookDelivery, Counted
  <2>2. CASE d # x
    BY <1>2, <1>6, <1>9, <2>2 DEF ReplayWebhookDelivery
  <2>3. QED
    BY <2>1, <2>2
<1>10. \/ UNCHANGED <<accepted, faults>>
       \/ accepted' = accepted /\ faults' = faults + 1
       \/ \E w \in Workers : AnswerIsSuccess(w)
       \/ \E x \in Deliveries : ReplayWebhookDelivery(x)
  <2>1. ASSUME NEW w \in Workers, Run(w)
        PROVE  UNCHANGED <<accepted, faults>> \/ AnswerIsSuccess(w)
    BY <2>1
    DEF Run, LeaseWebhookDeliveries, StartDelivery, FinishBatch, RefuseEndpoint, SendRequest,
        AnswerIsFailure, CompleteWebhookDelivery, FailWebhookDelivery,
        SelectFinishedDeliveries, PruneWebhookDeliveries
  <2>2. ASSUME NEW w \in Workers, SettlementFails(w) \/ Crash(w)
        PROVE  accepted' = accepted /\ faults' = faults + 1
    BY <2>2 DEF SettlementFails, Crash
  <2>3. CASE Tick \/ UNCHANGED vars
    BY <2>3 DEF Tick, vars
  <2>4. ASSUME \/ \E e \in Endpoints : CreateWebhookEndpoint(e) \/ DisableWebhookEndpoint(e)
               \/ \E ev \in Events : EnqueueReadsEndpoints(ev) \/ EnqueueWebhookEvent(ev)
               \/ \E x \in Deliveries : RetentionPasses(x)
        PROVE  UNCHANGED <<accepted, faults>>
    BY <2>4 DEF CreateWebhookEndpoint, DisableWebhookEndpoint, EnqueueReadsEndpoints,
       EnqueueWebhookEvent, RetentionPasses
  <2>5. QED
    BY <2>1, <2>2, <2>3, <2>4 DEF Next
<1>11. QED
  BY <1>6, <1>7, <1>8, <1>9, <1>10

LEMMA CountInvariance ==
  ASSUME EnvironmentFits
  PROVE  Spec => []CInv
<1>1. Init => CInv
  BY InitLeases, WebhookAssumption DEF Init, CInv, Counted
<1>2. CInv /\ [Next]_vars => CInv'
  BY EnvironmentFits, StepKeepsCounts
<1>3. QED
  BY <1>1, <1>2, PTL DEF Spec

\* When lookup and settlement fit into the slack, a customer accepts a delivery
\* once more than there were crashes and failed settlements, at most: leases
\* alone never cause a repetition.
THEOREM RepetitionsNeedFaults ==
  ASSUME EnvironmentFits
  PROVE  Spec => []RepetitionsAreFaults
<1>1. CInv => RepetitionsAreFaults
  BY DEF CInv, Counted, RepetitionsAreFaults
<1>2. QED
  BY <1>1, CountInvariance, PTL

\* Under the same condition and without faults, what a customer accepted is
\* recorded, and not retried or given up.
THEOREM AcceptedStaysRecorded ==
  ASSUME EnvironmentFits
  PROVE  Spec => []AcceptedIsRecorded
<1>1. CInv => AcceptedIsRecorded
  BY DEF CInv, Counted, Done, Records, AcceptedIsRecorded
<1>2. QED
  BY <1>1, CountInvariance, PTL

=============================================================================
