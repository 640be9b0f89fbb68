--------------------------- MODULE DeliverySchedule ---------------------------
(***************************************************************************)
(* Scheduled activation and deactivation of the document of                *)
(* DocumentRelease, and the workers that carry it out.                     *)
(*                                                                         *)
(* A worker claims all due jobs in one transaction, keeps the claims in    *)
(* memory and settles them one by one, each in a transaction of its own;   *)
(* a claim is a lease, named by the job's leaseVersion.  Between any two   *)
(* of these transactions other workers, cancellations, releases and        *)
(* recoveries may run, the lease may expire and the process may die.       *)
(*                                                                         *)
(* Clocks are left out: a job becomes available, and a lease expires, at   *)
(* any moment.  A schedule's revision changes exactly when its status      *)
(* does, and leaseVersion alone tells two claims of a job apart, so the    *)
(* revision and the lease owner are left out.  A request that changes no   *)
(* row (a repeated idempotency key, a refusal) is a stuttering step.       *)
(***************************************************************************)
EXTENDS DocumentRelease, SequencesExt

CONSTANTS
    Workers,        \* worker processes
    MaxAttempts,    \* maxAttempts of a job: 8 in the code
    MaxSchedules,   \* bound: schedules created
    MaxCrashes      \* bound: batches lost by a worker

ASSUME ScheduleConstantsAssumption ==
    /\ MaxAttempts \in Nat \ {0}
    /\ MaxSchedules \in Nat
    /\ MaxCrashes \in Nat

Unknown == -1       \* an end job's generation until its start has run

Schedule == [environment : Environments,
             publication : Nat,
             expectedGeneration : Nat,
             createdUnderApproval : BOOLEAN,
             status : {"scheduled", "active", "completed", "cancelled", "failed"}]

Job == [schedule : Nat,
        transition : {"start", "end"},
        expectedGeneration : Nat \union {Unknown},
        available : BOOLEAN,
        status : {"pending", "leased", "completed", "failed", "cancelled"},
        expired : BOOLEAN,
        attempts : 0..MaxAttempts,
        leaseVersion : Nat,
        resultGeneration : Nat]

\* What a worker remembers of a job it claimed.
Claim == [job : Nat, leaseVersion : Nat, attempts : Nat]

VARIABLES
    schedules,  \* deployment_schedules, in insertion order
    jobs,       \* delivery_schedule_jobs, in insertion order
    batches,    \* by worker: the claims it has yet to settle, first one first
    errors,     \* by worker: what processing the first of them threw
    crashes     \* batches lost so far

tableVars == <<schedules, jobs>>
workerVars == <<batches, errors, crashes>>
scheduleVars == <<tableVars, workerVars>>
allVars == <<vars, scheduleVars>>

ScheduleTypeOK ==
    /\ TypeOK
    /\ schedules \in Seq(Schedule)
    /\ jobs \in Seq(Job)
    /\ batches \in [Workers -> Seq(Claim)]
    /\ errors \in [Workers -> {"none", "transient", "entitlement"}]
    /\ crashes \in Nat

ScheduleInit ==
    /\ Init
    /\ schedules = <<>>
    /\ jobs = <<>>
    /\ batches = [w \in Workers |-> <<>>]
    /\ errors = [w \in Workers |-> "none"]
    /\ crashes = 0

-----------------------------------------------------------------------------
(* Creating and cancelling a schedule. *)

JobIds == DOMAIN jobs
ScheduleIds == DOMAIN schedules

NewJob(transition, g) ==
    [schedule |-> Len(schedules) + 1, transition |-> transition, expectedGeneration |-> g,
     available |-> FALSE, status |-> "pending", expired |-> FALSE, attempts |-> 0,
     leaseVersion |-> 0, resultGeneration |-> 0]

\* A publication of another environment is promoted by the schedule: only if
\* the target asks for no approval, and some verification of it has passed.
MayPinPromotion(e, source) ==
    /\ policies[e].requiredApprovals = 0
    /\ source \in everVerified

CreateDeploymentSchedule(u, e, source, hasEnd) ==
    LET g == deployments[e].generation
        promotes == publications[source].environment # e
    IN  /\ Len(schedules) < MaxSchedules
        /\ "scheduling" \in plan
        /\ roles[u] \in policies[e].publishers
        /\ promotes => MayPinPromotion(e, source)
        /\ publications' =
              IF promotes
              THEN Append(publications,
                     [environment |-> e, artifact |-> publications[source].artifact,
                      action |-> "promote", source |-> source,
                      previous |-> deployments[e].active, operation |-> None])
              ELSE publications
        /\ schedules' = Append(schedules,
              [environment |-> e,
               publication |-> IF promotes THEN NextPublication ELSE source,
               expectedGeneration |-> g,
               createdUnderApproval |-> policies[e].requiredApprovals > 0,
               status |-> "scheduled"])
        /\ jobs' = jobs \o IF hasEnd THEN <<NewJob("start", g), NewJob("end", Unknown)>>
                                     ELSE <<NewJob("start", g)>>
        /\ UNCHANGED <<deployments, operations, approvals, verificationVars, governanceVars,
                       workerVars>>

\* Only jobs still pending are cancelled with it: a leased one is left to its
\* worker.
CancelDeploymentSchedule(u, s) ==
    /\ roles[u] \in policies[schedules[s].environment].publishers
    /\ schedules[s].status = "scheduled"
    /\ schedules' = [schedules EXCEPT ![s].status = "cancelled"]
    /\ jobs' = [j \in JobIds |->
                  IF jobs[j].schedule = s /\ jobs[j].status = "pending"
                  THEN [jobs[j] EXCEPT !.status = "cancelled"]
                  ELSE jobs[j]]
    /\ UNCHANGED <<vars, workerVars>>

-----------------------------------------------------------------------------
(* Time: availableAt is reached, leasedUntil has passed. *)

TimeReaches(j) ==
    /\ jobs[j].status = "pending"
    /\ ~jobs[j].available
    /\ jobs' = [jobs EXCEPT ![j].available = TRUE]
    /\ UNCHANGED <<vars, schedules, workerVars>>

LeaseExpires(j) ==
    /\ jobs[j].status = "leased"
    /\ ~jobs[j].expired
    /\ jobs' = [jobs EXCEPT ![j].expired = TRUE]
    /\ UNCHANGED <<vars, schedules, workerVars>>

-----------------------------------------------------------------------------
(* A worker: runDueDeliveryScheduleJobs. *)

Due == {j \in JobIds :
          /\ jobs[j].expectedGeneration # Unknown
          /\ jobs[j].available
          /\ jobs[j].status = "pending" \/ (jobs[j].status = "leased" /\ jobs[j].expired)}

\* delivery_schedule_jobs_attempts_check: a claim that would count past
\* maxAttempts is an error that undoes the whole claiming transaction.
ClaimIsAccepted(taken) == \A j \in taken : jobs[j].attempts < MaxAttempts

Leased(job) == [job EXCEPT !.status = "leased", !.expired = FALSE,
                           !.attempts = @ + 1, !.leaseVersion = @ + 1]

\* Rows that another transaction has locked are skipped, so any due jobs may
\* be taken; their order is that of availableAt, hence any.
ClaimDueJobs(w) ==
    \E taken \in (SUBSET Due) \ {{}} :
        /\ batches[w] = <<>>
        /\ ClaimIsAccepted(taken)
        /\ jobs' = [j \in JobIds |-> IF j \in taken THEN Leased(jobs[j]) ELSE jobs[j]]
        /\ \E order \in SetToSeqs(taken) :
              batches' = [batches EXCEPT ![w] =
                  [i \in DOMAIN order |->
                      [job |-> order[i], leaseVersion |-> jobs[order[i]].leaseVersion + 1,
                       attempts |-> jobs[order[i]].attempts + 1]]]
        /\ UNCHANGED <<vars, schedules, errors, crashes>>

\* Mutant of HoldsLease: any claim the row ever gave out.
HeldLeaseOnce(claim) == claim.leaseVersion <= jobs[claim.job].leaseVersion

\* The row is still leased under the version this worker was given.
HoldsLease(claim) ==
    /\ jobs[claim.job].status = "leased"
    /\ jobs[claim.job].leaseVersion = claim.leaseVersion

\* Mutant of FailClaimedJob: the job is left leased.
FailScheduleOnly(j) ==
    /\ schedules' = [schedules EXCEPT ![jobs[j].schedule].status = "failed"]
    /\ UNCHANGED <<vars, jobs>>

\* Mutant of FailClaimedJob: the schedule is not told.
FailJobOnly(j) ==
    /\ jobs' = [jobs EXCEPT ![j].status = "failed"]
    /\ UNCHANGED <<vars, schedules>>

NextClaim(w) ==
    /\ batches' = [batches EXCEPT ![w] = Tail(@)]
    /\ errors' = [errors EXCEPT ![w] = "none"]
    /\ UNCHANGED crashes

FailClaimedJob(j) ==
    /\ jobs' = [jobs EXCEPT ![j].status = "failed"]
    /\ schedules' = [schedules EXCEPT ![jobs[j].schedule].status = "failed"]
    /\ UNCHANGED vars

\* completeClaimedJob, and the generation handed to the pending end job.
CompleteClaimedJob(j, g) ==
    LET s == jobs[j].schedule
        isStart == jobs[j].transition = "start"
        ends == {i \in JobIds : jobs[i].schedule = s /\ jobs[i].transition = "end"}
    IN  /\ jobs' = [i \in JobIds |->
                      IF i = j
                      THEN [jobs[i] EXCEPT !.status = "completed", !.resultGeneration = g]
                      ELSE IF isStart /\ i \in ends /\ jobs[i].status = "pending"
                           THEN [jobs[i] EXCEPT !.expectedGeneration = g]
                           ELSE jobs[i]]
        /\ schedules' = [schedules EXCEPT ![s].status =
                            IF isStart /\ ends # {} THEN "active" ELSE "completed"]

\* Mutant of MovePointer: the row goes on naming the promotion it awaits.
MovePointerKeepingPending(e, publication) ==
    /\ deployments' = [Move(e, publication) EXCEPT ![e].pending = deployments[e].pending]
    /\ UNCHANGED <<publications, operations, approvals, verificationVars, governanceVars>>

MovePointer(e, publication) ==
    /\ deployments' = Move(e, publication)
    /\ UNCHANGED <<publications, operations, approvals, verificationVars, governanceVars>>

\* Mutants of Conflicts: one of its tests is missing.
ConflictsIgnoringGeneration(job) ==
    LET schedule == schedules[job.schedule]
    IN  \/ schedule.status \in {"cancelled", "failed"}
        \/ /\ job.transition = "end"
           /\ deployments[schedule.environment].active # schedule.publication
ConflictsIgnoringStatus(job) ==
    LET schedule == schedules[job.schedule]
    IN  deployments[schedule.environment].generation # job.expectedGeneration

\* Every reason to refuse a job whose lease is still held.
Conflicts(job) ==
    LET schedule == schedules[job.schedule]
        current == deployments[schedule.environment]
    IN  \/ schedule.status \in {"cancelled", "failed"}
        \/ current.generation # job.expectedGeneration
        \/ job.transition = "end" /\ current.active # schedule.publication

\* assertLiveStockAvailable never refuses a document that is already live
\* somewhere; the other documents of the workspace may use up the stock of
\* any other.
DocumentIsLive == \E e \in Environments : deployments[e].active # None

ProcessClaimedJob(w) ==
    LET claim == Head(batches[w])
        job == jobs[claim.job]
        schedule == schedules[job.schedule]
        e == schedule.environment
        g == deployments[e].generation + 1
    IN  /\ batches[w] # <<>>
        /\ errors[w] = "none"
        /\ \/ /\ ~HoldsLease(claim)
              /\ NextClaim(w)
              /\ UNCHANGED <<vars, tableVars>>
           \/ /\ HoldsLease(claim)
              /\ Conflicts(job)
              /\ FailClaimedJob(claim.job)
              /\ NextClaim(w)
           \/ /\ HoldsLease(claim)
              /\ ~Conflicts(job)
              /\ job.transition = "start"
              /\ ~DocumentIsLive
              /\ errors' = [errors EXCEPT ![w] = "entitlement"]
              /\ UNCHANGED <<vars, tableVars, batches, crashes>>
           \/ /\ HoldsLease(claim)
              /\ ~Conflicts(job)
              /\ MovePointer(e, IF job.transition = "start" THEN schedule.publication ELSE None)
              /\ CompleteClaimedJob(claim.job, g)
              /\ NextClaim(w)

\* Any database error rolls the processing transaction back.
ProcessingFails(w) ==
    /\ batches[w] # <<>>
    /\ errors[w] = "none"
    /\ errors' = [errors EXCEPT ![w] = "transient"]
    /\ UNCHANGED <<vars, tableVars, batches, crashes>>

RetryClaimedJob(w) ==
    LET claim == Head(batches[w])
        givesUp == errors[w] = "entitlement" \/ claim.attempts >= MaxAttempts
    IN  /\ batches[w] # <<>>
        /\ errors[w] # "none"
        /\ NextClaim(w)
        /\ \/ /\ ~HoldsLease(claim)
              /\ UNCHANGED <<vars, tableVars>>
           \/ /\ HoldsLease(claim)
              /\ givesUp
              /\ FailClaimedJob(claim.job)
           \/ /\ HoldsLease(claim)
              /\ ~givesUp
              /\ jobs' = [jobs EXCEPT ![claim.job].status = "pending",
                                      ![claim.job].available = FALSE]
              /\ UNCHANGED <<vars, schedules>>

\* The process dies, or retryClaimedJob itself throws: the claims in memory
\* are gone and their jobs stay leased.
LoseBatch(w) ==
    /\ batches[w] # <<>>
    /\ crashes < MaxCrashes
    /\ batches' = [batches EXCEPT ![w] = <<>>]
    /\ errors' = [errors EXCEPT ![w] = "none"]
    /\ crashes' = crashes + 1
    /\ UNCHANGED <<vars, tableVars>>

-----------------------------------------------------------------------------
WorkerStep(w) == ClaimDueJobs(w) \/ ProcessClaimedJob(w) \/ RetryClaimedJob(w)

ScheduleNext ==
    \/ \E u \in Users, e \in Environments, p \in PublicationIds, hasEnd \in BOOLEAN :
           CreateDeploymentSchedule(u, e, p, hasEnd)
    \/ \E u \in Users, s \in ScheduleIds : CancelDeploymentSchedule(u, s)
    \/ \E j \in JobIds : TimeReaches(j) \/ LeaseExpires(j)
    \/ \E w \in Workers : WorkerStep(w) \/ ProcessingFails(w) \/ LoseBatch(w)

AllNext == ScheduleNext \/ (Next /\ UNCHANGED scheduleVars)

ScheduleSpec == ScheduleInit /\ [][AllNext]_allVars

\* Each worker polls on a timer that is set again whatever the last poll did,
\* and clocks advance; nothing obliges anyone to create, cancel or release.
Fairness ==
    /\ \A w \in Workers : WF_allVars(WorkerStep(w))
    /\ \A j \in 1..(2 * MaxSchedules) :
          /\ WF_allVars(j \in JobIds /\ TimeReaches(j))
          /\ WF_allVars(j \in JobIds /\ LeaseExpires(j))

FairScheduleSpec == ScheduleSpec /\ Fairness

-----------------------------------------------------------------------------
(* Properties. *)

AppliedTo(e, g) == {j \in JobIds : /\ schedules[jobs[j].schedule].environment = e
                                   /\ jobs[j].status = "completed"
                                   /\ jobs[j].resultGeneration = g}

\* With people and workers moving one pointer, each generation was still made
\* once: by one completed operation or by one completed job, and by the one
\* that expected the generation before it (the update on generation in
\* processClaimedJob against that of the release transactions).
EveryMoveHasOneCause ==
    \A e \in Environments : \A g \in 1..deployments[e].generation :
        /\ Cardinality(MovedTo(e, g)) + Cardinality(AppliedTo(e, g)) = 1
        /\ \A o \in MovedTo(e, g) : operations[o].expectedGeneration = g - 1
        /\ \A j \in AppliedTo(e, g) : jobs[j].expectedGeneration = g - 1

\* A promotion that awaits approval is the one production's row names, or a
\* scheduled job has overtaken it: the pointer is past the generation it
\* expects, so that no approval can complete it any more.  And what the row
\* names always awaits approval for the generation in force, so that neither
\* recovery nor later promotions wait for an operation nobody can finish
\* (pendingReleaseOperationId, which processClaimedJob sets to null).
AwaitedIsPendingOrOvertaken ==
    LET production == deployments["production"]
    IN  /\ deployments["staging"].pending = None
        /\ production.pending # None => Awaits(production.pending)
        /\ \A o \in OperationIds : Awaits(o) =>
              /\ operations[o].environment = "production"
              /\ operations[o].action = "promote"
              /\ IF production.pending = o
                 THEN operations[o].expectedGeneration = production.generation
                 ELSE operations[o].expectedGeneration < production.generation

\* A scheduled end only ever takes down what its own start put up: the start
\* was applied, and nothing moved the pointer between the two.
EndUndoesItsOwnStart ==
    \A j \in JobIds : jobs[j].transition = "end" /\ jobs[j].status = "completed" =>
        \E i \in JobIds :
            /\ jobs[i].schedule = jobs[j].schedule
            /\ jobs[i].transition = "start"
            /\ jobs[i].status = "completed"
            /\ jobs[i].resultGeneration + 1 = jobs[j].resultGeneration

\* A job is settled once, whatever a worker whose lease is gone still does
\* with its claim.  A completed schedule never changes again; a cancelled or
\* failed one is never revived by a job that was already leased, though such a
\* job may turn it from cancelled into failed.
SettledIsFinal ==
    [][/\ \A j \in JobIds :
             jobs[j].status \in {"completed", "failed", "cancelled"} => jobs'[j] = jobs[j]
       /\ \A s \in ScheduleIds :
             /\ schedules[s].status = "completed" => schedules'[s] = schedules[s]
             /\ schedules[s].status \in {"cancelled", "failed"} =>
                    schedules'[s].status \in {"cancelled", "failed"}
      ]_allVars

\* Every job whose generation is known is settled in the end: retries, expired
\* leases and lost batches never leave one behind.
DueJobsSettle ==
    \A j \in 1..(2 * MaxSchedules) :
        /\ j \in JobIds
        /\ jobs[j].expectedGeneration # Unknown
        /\ jobs[j].status \in {"pending", "leased"}
        ~> j \in JobIds /\ jobs[j].status \in {"completed", "failed", "cancelled"}

\* The same as long as no worker dies: whoever holds a lease or lost it.
UndisturbedJobsSettle == [](crashes = 0) => DueJobsSettle

\* As long as no worker dies, a schedule ends as completed, failed or cancelled.
\* When its start fails (failClaimedJob) its end job keeps an unknown generation
\* and stays pending for good, so the schedule must no longer wait for it.
SchedulesSettle ==
    [](crashes = 0) =>
        \A s \in 1..MaxSchedules :
            s \in ScheduleIds /\ schedules[s].status \in {"scheduled", "active"}
            ~> s \in ScheduleIds /\ schedules[s].status \in {"completed", "failed", "cancelled"}

\* What is live can be taken offline by whoever the policy lets: with nothing
\* pending and the current generation, recoverDocumentRelease refuses no
\* unpublish.
LiveCanBeTakenOffline ==
    \A e \in Environments, u \in Users :
        LET current == deployments[e]
        IN  /\ current.active # None
            /\ current.pending = None
            /\ policies[e].enabled
            /\ roles[u] \in policies[e].recoverers \cap {"owner", "admin"}
            => RecoveryRefusal(u, e, "unpublish", None, current.generation) = ""

\* A schedule created while its environment asks for approvals pins only a
\* publication that some release, under that policy, has made.
SchedulingHonoursApproval ==
    \A s \in ScheduleIds : schedules[s].createdUnderApproval =>
        publications[schedules[s].publication].operation # None

=============================================================================
