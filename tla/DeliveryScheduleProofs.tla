----------------------- MODULE DeliveryScheduleProofs -----------------------
(***************************************************************************)
(* Proofs about DeliverySchedule, for any number of workers, attempts,     *)
(* schedules, crashes and releases beside them: the rows keep their types  *)
(* and their foreign keys, what is settled is not taken up again, every    *)
(* move has one cause and an end undoes its own start; what the releases   *)
(* promise of history, rejections, four eyes and provenance survives the   *)
(* workers, and an awaited promotion is pending or overtaken.              *)
(***************************************************************************)
EXTENDS DeliverySchedule, ReleaseHistoryProofs, FiniteSetTheorems

-----------------------------------------------------------------------------
(* Types and foreign keys. *)

\* The rows a job, a schedule and a claim refer to exist.
KeysOK ==
    /\ \A j \in JobIds : jobs[j].schedule \in ScheduleIds
    /\ \A s \in ScheduleIds : schedules[s].publication \in PublicationIds
    /\ \A w \in Workers : \A i \in DOMAIN batches[w] : batches[w][i].job \in JobIds

TInv == ScheduleTypeOK /\ KeysOK

LEMMA FunctionIsSeq ==
    ASSUME NEW S, NEW n \in Nat, NEW f \in [1..n -> S]
    PROVE  f \in Seq(S) /\ Len(f) = n /\ DOMAIN f = 1..n
    OBVIOUS

\* What the invariant says of one row.
LEMMA Rows ==
    ASSUME TInv
    PROVE  /\ JobIds = 1..Len(jobs) /\ Len(jobs) \in Nat
           /\ ScheduleIds = 1..Len(schedules) /\ Len(schedules) \in Nat
           /\ PublicationIds = 1..Len(publications) /\ Len(publications) \in Nat
           /\ \A j \in JobIds : jobs[j] \in Job /\ jobs[j].schedule \in ScheduleIds
           /\ \A s \in ScheduleIds : /\ schedules[s] \in Schedule
                                     /\ schedules[s].publication \in PublicationIds
<1>1. /\ jobs \in Seq(Job) /\ schedules \in Seq(Schedule)
      /\ publications \in Seq(Publication)
    BY DEF TInv, ScheduleTypeOK, TypeOK
<1>2. /\ JobIds = 1..Len(jobs) /\ Len(jobs) \in Nat
      /\ \A j \in JobIds : jobs[j] \in Job
    BY <1>1, LenProperties, ElementOfSeq DEF JobIds
<1>3. /\ ScheduleIds = 1..Len(schedules) /\ Len(schedules) \in Nat
      /\ \A s \in ScheduleIds : schedules[s] \in Schedule
    BY <1>1, LenProperties, ElementOfSeq DEF ScheduleIds
<1>4. PublicationIds = 1..Len(publications) /\ Len(publications) \in Nat
    BY <1>1, LenProperties DEF PublicationIds
<1> QED
    BY <1>2, <1>3, <1>4 DEF TInv, KeysOK

\* Rows of jobs rewritten in place.
LEMMA JobsRewritten ==
    ASSUME TInv, jobs' \in [JobIds -> Job]
    PROVE  jobs' \in Seq(Job) /\ JobIds' = JobIds
<1>1. JobIds = 1..Len(jobs) /\ Len(jobs) \in Nat
    BY Rows
<1> QED
    BY <1>1, FunctionIsSeq DEF JobIds

LEMMA SchedulesRewritten ==
    ASSUME TInv, schedules' \in [ScheduleIds -> Schedule]
    PROVE  schedules' \in Seq(Schedule) /\ ScheduleIds' = ScheduleIds
<1>1. ScheduleIds = 1..Len(schedules) /\ Len(schedules) \in Nat
    BY Rows
<1> QED
    BY <1>1, FunctionIsSeq DEF ScheduleIds

\* The status of a schedule changes.
LEMMA StatusSet ==
    ASSUME TInv, NEW s \in ScheduleIds,
           NEW status \in {"scheduled", "active", "completed", "cancelled", "failed"},
           schedules' = [schedules EXCEPT ![s].status = status]
    PROVE  /\ schedules' \in Seq(Schedule) /\ ScheduleIds' = ScheduleIds
           /\ schedules'[s] = [schedules[s] EXCEPT !.status = status]
           /\ schedules'[s].status = status
           /\ \A x \in ScheduleIds \ {s} : schedules'[x] = schedules[x]
           /\ \A x \in ScheduleIds : /\ schedules'[x].publication = schedules[x].publication
                                     /\ schedules'[x].environment = schedules[x].environment
<1>1. schedules[s] \in Schedule
    BY Rows
<1>2. [schedules[s] EXCEPT !.status = status] \in Schedule
    BY <1>1 DEF Schedule
<1>3. /\ schedules \in [ScheduleIds -> Schedule]
      /\ schedules' = [schedules EXCEPT ![s] = [schedules[s] EXCEPT !.status = status]]
    BY Rows, LenProperties DEF TInv, ScheduleTypeOK, ScheduleIds
<1>4. schedules' \in [ScheduleIds -> Schedule]
    BY <1>2, <1>3
<1>5. /\ schedules'[s] = [schedules[s] EXCEPT !.status = status]
      /\ \A x \in ScheduleIds \ {s} : schedules'[x] = schedules[x]
    BY <1>3
<1>6. /\ schedules'[s].status = status
      /\ schedules'[s].publication = schedules[s].publication
      /\ schedules'[s].environment = schedules[s].environment
    BY <1>1, <1>5 DEF Schedule
<1> QED
    BY <1>4, <1>5, <1>6, SchedulesRewritten

\* A row of jobs is rewritten.
LEMMA JobSet ==
    ASSUME TInv, NEW j \in JobIds, NEW row \in Job, jobs' = [jobs EXCEPT ![j] = row]
    PROVE  /\ jobs' \in Seq(Job) /\ JobIds' = JobIds
           /\ jobs'[j] = row
           /\ \A i \in JobIds \ {j} : jobs'[i] = jobs[i]
<1>1. jobs \in [JobIds -> Job]
    BY LenProperties DEF TInv, ScheduleTypeOK, JobIds
<1> QED
    BY <1>1, JobsRewritten

-----------------------------------------------------------------------------
(* What each step does to the rows. *)

LEMMA NewJobType ==
    ASSUME TInv, NEW transition \in {"start", "end"}, NEW g \in Nat \union {Unknown}
    PROVE  /\ NewJob(transition, g) \in Job
           /\ NewJob(transition, g).schedule = Len(schedules) + 1
           /\ NewJob(transition, g).transition = transition
           /\ NewJob(transition, g).expectedGeneration = g
           /\ NewJob(transition, g).status = "pending"
<1>1. Len(schedules) + 1 \in Nat /\ 0 \in 0..MaxAttempts
    BY Rows, ScheduleConstantsAssumption
<1> QED
    BY <1>1 DEF NewJob, Job

\* One or two rows are appended to jobs.
LEMMA JobsAppended ==
    ASSUME TInv, NEW new \in Seq(Job), jobs' = jobs \o new
    PROVE  /\ jobs' \in Seq(Job)
           /\ JobIds' = JobIds \union {Len(jobs) + i : i \in 1..Len(new)}
           /\ \A j \in JobIds : jobs'[j] = jobs[j]
           /\ \A i \in 1..Len(new) : /\ Len(jobs) + i \notin JobIds
                                     /\ jobs'[Len(jobs) + i] = new[i]
<1>1. /\ jobs \in Seq(Job) /\ JobIds = 1..Len(jobs) /\ Len(jobs) \in Nat
    BY Rows DEF TInv, ScheduleTypeOK
<1>2. Len(new) \in Nat
    BY LenProperties
<1>3. /\ jobs' \in Seq(Job) /\ Len(jobs') = Len(jobs) + Len(new)
      /\ \A i \in 1..(Len(jobs) + Len(new)) :
            jobs'[i] = IF i <= Len(jobs) THEN jobs[i] ELSE new[i - Len(jobs)]
    BY <1>1, ConcatProperties
<1>4. JobIds' = 1..(Len(jobs) + Len(new))
    BY <1>3, LenProperties DEF JobIds
<1>5. ASSUME NEW i \in 1..Len(new)
      PROVE  /\ Len(jobs) + i \notin JobIds
             /\ Len(jobs) + i \in 1..(Len(jobs) + Len(new))
             /\ jobs'[Len(jobs) + i] = new[i]
    <2>1. /\ Len(jobs) + i \in 1..(Len(jobs) + Len(new)) /\ ~(Len(jobs) + i <= Len(jobs))
          /\ Len(jobs) + i \notin 1..Len(jobs)
          /\ Len(jobs) + i - Len(jobs) = i
        BY <1>1, <1>2
    <2> QED
        BY <1>1, <1>3, <2>1
<1>6. ASSUME NEW j \in JobIds
      PROVE  j \in 1..(Len(jobs) + Len(new)) /\ jobs'[j] = jobs[j]
    <2>1. j \in 1..(Len(jobs) + Len(new)) /\ j <= Len(jobs)
        BY <1>1, <1>2
    <2> QED
        BY <1>3, <2>1
<1>7. ASSUME NEW j \in 1..(Len(jobs) + Len(new)), j \notin JobIds
      PROVE  \E i \in 1..Len(new) : j = Len(jobs) + i
    <2>1. j - Len(jobs) \in 1..Len(new) /\ j = Len(jobs) + (j - Len(jobs))
        BY <1>1, <1>2, <1>7
    <2> QED
        BY <2>1
<1> QED
    BY <1>3, <1>4, <1>5, <1>6, <1>7

\* A new schedule and its jobs are added; no other row of theirs changes.
LEMMA CreateEffect ==
    ASSUME TInv, NEW u \in Users, NEW e \in Environments, NEW source \in PublicationIds,
           NEW hasEnd \in BOOLEAN, CreateDeploymentSchedule(u, e, source, hasEnd)
    PROVE  /\ TypeOK'
           /\ PublicationIds \subseteq PublicationIds'
           /\ schedules' \in Seq(Schedule)
           /\ ScheduleIds' = ScheduleIds \union {Len(schedules) + 1}
           /\ Len(schedules) + 1 \notin ScheduleIds
           /\ \A s \in ScheduleIds : schedules'[s] = schedules[s]
           /\ schedules'[Len(schedules) + 1].status = "scheduled"
           /\ schedules'[Len(schedules) + 1].publication \in PublicationIds'
           /\ jobs' \in Seq(Job)
           /\ JobIds \subseteq JobIds'
           /\ \A j \in JobIds : jobs'[j] = jobs[j]
           /\ \A j \in JobIds' \ JobIds :
                 jobs'[j] \in {NewJob("start", deployments[e].generation),
                               NewJob("end", Unknown)}
           /\ \A i, j \in JobIds' \ JobIds :
                 jobs'[i].transition = jobs'[j].transition => i = j
           /\ \E i \in JobIds' \ JobIds :
                 jobs'[i] = NewJob("start", deployments[e].generation)
<1> DEFINE g == deployments[e].generation
           n == Len(schedules) + 1
           promotes == publications[source].environment # e
           row == [environment |-> e, artifact |-> publications[source].artifact,
                   action |-> "promote", source |-> source,
                   previous |-> deployments[e].active, operation |-> None]
           new == IF hasEnd THEN <<NewJob("start", g), NewJob("end", Unknown)>>
                            ELSE <<NewJob("start", g)>>
           schedule == [environment |-> e,
                        publication |-> IF promotes THEN NextPublication ELSE source,
                        expectedGeneration |-> g,
                        createdUnderApproval |-> policies[e].requiredApprovals > 0,
                        status |-> "scheduled"]
<1>1. /\ TypeOK /\ g \in Nat /\ publications \in Seq(Publication)
      /\ publications[source] \in Publication
      /\ source \in Nat /\ deployments[e].active \in Nat
      /\ PublicationIds = 1..Len(publications) /\ Len(publications) \in Nat
    BY Rows, ElementOfSeq DEF TInv, ScheduleTypeOK, TypeOK, Deployment
<1>2. row \in Publication
    BY <1>1 DEF Publication, None
<1>3. /\ publications' = IF promotes THEN Append(publications, row) ELSE publications
      /\ schedules' = Append(schedules, schedule)
      /\ jobs' = jobs \o new
      /\ UNCHANGED <<deployments, operations, approvals, verified, everVerified,
                     policies, roles, plan>>
    BY DEF CreateDeploymentSchedule, verificationVars, governanceVars
<1>4. /\ publications' \in Seq(Publication)
      /\ Len(publications') \in {Len(publications), Len(publications) + 1}
      /\ promotes => Len(publications') = Len(publications) + 1
    <2>1. CASE promotes
        <3>1. publications' = Append(publications, row)
            BY <1>3, <2>1
        <3> HIDE DEF row
        <3> QED
            BY <1>1, <1>2, <3>1, AppendProperties
    <2>2. CASE ~promotes
        BY <1>1, <1>3, <2>2
    <2> QED
        BY <2>1, <2>2
<1>5. PublicationIds' = 1..Len(publications')
    BY <1>4, LenProperties DEF PublicationIds
<1>6. PublicationIds \subseteq PublicationIds'
    BY <1>1, <1>4, <1>5
<1>7. TypeOK'
    <2>1. /\ deployments' = deployments /\ operations' = operations /\ approvals' = approvals
          /\ verified' = verified /\ everVerified' = everVerified
          /\ policies' = policies /\ roles' = roles /\ plan' = plan
        BY <1>3
    <2>2. 1..Len(publications) \subseteq 1..Len(publications')
          /\ 0..Len(publications) \subseteq 0..Len(publications')
        BY <1>1, <1>4
    <2> HIDE DEF row, new, schedule, promotes
    <2> QED
        BY <1>1, <1>4, <2>1, <2>2 DEF TypeOK
<1>8. schedule \in Schedule /\ schedule.publication \in PublicationIds'
    <2>1. NextPublication \in Nat /\ (promotes => NextPublication \in PublicationIds')
        BY <1>1, <1>4, <1>5 DEF NextPublication
    <2>2. schedule.publication \in PublicationIds' /\ schedule.publication \in Nat
        BY <1>1, <1>6, <2>1
    <2>3. (policies[e].requiredApprovals > 0) \in BOOLEAN
        OBVIOUS
    <2> QED
        BY <1>1, <2>2, <2>3 DEF Schedule
<1>9. /\ schedules' \in Seq(Schedule) /\ ScheduleIds' = ScheduleIds \union {n}
      /\ n \notin ScheduleIds
      /\ \A s \in ScheduleIds : schedules'[s] = schedules[s]
      /\ schedules'[n] = schedule
    <2> HIDE DEF schedule
    <2>1. /\ schedules \in Seq(Schedule) /\ ScheduleIds = 1..Len(schedules)
          /\ Len(schedules) \in Nat
        BY Rows DEF TInv, ScheduleTypeOK
    <2>2. /\ schedules' \in Seq(Schedule) /\ Len(schedules') = Len(schedules) + 1
          /\ \A s \in 1..Len(schedules) : schedules'[s] = schedules[s]
          /\ schedules'[Len(schedules) + 1] = schedule
        BY <1>3, <1>8, <2>1, AppendProperties
    <2>3. ScheduleIds' = 1..(Len(schedules) + 1)
        BY <2>2, LenProperties DEF ScheduleIds
    <2> QED
        BY <2>1, <2>2, <2>3
<1>10. /\ new \in Seq(Job) /\ Len(new) \in {1, 2}
       /\ new[1] = NewJob("start", g)
       /\ Len(new) = 2 => new[2] = NewJob("end", Unknown)
    <2>1. NewJob("start", g) \in Job /\ NewJob("end", Unknown) \in Job
        BY <1>1, NewJobType
    <2> QED
        BY <2>1
<1>11. /\ jobs' \in Seq(Job)
       /\ JobIds' = JobIds \union {Len(jobs) + i : i \in 1..Len(new)}
       /\ \A j \in JobIds : jobs'[j] = jobs[j]
       /\ \A i \in 1..Len(new) : /\ Len(jobs) + i \notin JobIds
                                 /\ jobs'[Len(jobs) + i] = new[i]
    <2> HIDE DEF new
    <2> QED
        BY <1>3, <1>10, JobsAppended
<1>12. ASSUME NEW j \in JobIds' \ JobIds
       PROVE  \/ j = Len(jobs) + 1 /\ jobs'[j] = NewJob("start", g)
              \/ j = Len(jobs) + 2 /\ jobs'[j] = NewJob("end", Unknown)
    <2> HIDE DEF new
    <2>1. PICK i \in 1..Len(new) : j = Len(jobs) + i
        BY <1>11
    <2>2. i \in 1..2 /\ jobs'[j] = new[i]
        BY <1>10, <1>11, <2>1
    <2> QED
        BY <1>10, <2>1, <2>2
<1>13. ASSUME NEW i \in JobIds' \ JobIds, NEW j \in JobIds' \ JobIds,
              jobs'[i].transition = jobs'[j].transition
       PROVE  i = j
    <2>1. /\ NewJob("start", g).transition = "start"
          /\ NewJob("end", Unknown).transition = "end"
        BY <1>1, NewJobType
    <2> QED
        BY <1>12, <1>13, <2>1
<1>14. \E i \in JobIds' \ JobIds : jobs'[i] = NewJob("start", g)
    <2> HIDE DEF new
    <2>1. 1 \in 1..Len(new)
        BY <1>10
    <2> QED
        BY <1>10, <1>11, <2>1
<1> HIDE DEF new, row, promotes
<1> QED
    BY <1>6, <1>7, <1>8, <1>9, <1>11, <1>12, <1>13, <1>14

\* What the workers remember is typed and names jobs that exist.
MemoryOK ==
    /\ batches \in [Workers -> Seq(Claim)]
    /\ errors \in [Workers -> {"none", "transient", "entitlement"}]
    /\ crashes \in Nat
    /\ \A w \in Workers : \A i \in DOMAIN batches[w] : batches[w][i].job \in JobIds

\* Rows rewritten in place keep the invariant.
LEMMA KeepsTInv ==
    ASSUME TInv, TypeOK', PublicationIds \subseteq PublicationIds',
           schedules' \in Seq(Schedule), ScheduleIds' = ScheduleIds,
           \A s \in ScheduleIds : schedules'[s].publication = schedules[s].publication,
           jobs' \in Seq(Job), JobIds' = JobIds,
           \A j \in JobIds : jobs'[j].schedule = jobs[j].schedule,
           MemoryOK'
    PROVE  TInv'
    BY DEF TInv, KeysOK, ScheduleTypeOK, MemoryOK

LEMMA MemoryKept ==
    ASSUME TInv, UNCHANGED workerVars, JobIds \subseteq JobIds'
    PROVE  MemoryOK'
    BY DEF TInv, KeysOK, ScheduleTypeOK, MemoryOK, workerVars

LEMMA ReleasesKept ==
    ASSUME TInv, UNCHANGED vars
    PROVE  TypeOK' /\ PublicationIds' = PublicationIds
    BY DEF TInv, ScheduleTypeOK, TypeOK, vars, releaseVars, verificationVars, governanceVars,
           PublicationIds

\* The first claim of a batch, and the memory once it is dropped.
LEMMA FirstClaim ==
    ASSUME TInv, NEW w \in Workers, batches[w] # <<>>
    PROVE  /\ Head(batches[w]) \in Claim
           /\ Head(batches[w]).job \in JobIds
<1>1. batches[w] \in Seq(Claim)
    BY DEF TInv, ScheduleTypeOK
<1>2. Head(batches[w]) \in Claim /\ Len(batches[w]) \in Nat \ {0}
    BY <1>1, HeadTailProperties, EmptySeq
<1>3. Head(batches[w]) = batches[w][1] /\ 1 \in DOMAIN batches[w]
    BY <1>1, <1>2
<1> QED
    BY <1>2, <1>3 DEF TInv, KeysOK

LEMMA ClaimDropped ==
    ASSUME TInv, NEW w \in Workers, batches[w] # <<>>, NextClaim(w), JobIds' = JobIds
    PROVE  MemoryOK'
<1>1. batches \in [Workers -> Seq(Claim)] /\ batches[w] \in Seq(Claim)
    BY DEF TInv, ScheduleTypeOK
<1>2. /\ Tail(batches[w]) \in Seq(Claim)
      /\ Len(Tail(batches[w])) = Len(batches[w]) - 1 /\ Len(batches[w]) \in Nat
      /\ \A i \in 1..Len(Tail(batches[w])) : Tail(batches[w])[i] = batches[w][i + 1]
    BY <1>1, HeadTailProperties, LenProperties
<1>3. batches' = [batches EXCEPT ![w] = Tail(batches[w])]
    BY DEF NextClaim
<1>4. batches' \in [Workers -> Seq(Claim)]
    BY <1>1, <1>2, <1>3
<1>5. ASSUME NEW i \in DOMAIN Tail(batches[w])
      PROVE  Tail(batches[w])[i].job \in JobIds
    <2>1. i \in 1..Len(Tail(batches[w]))
        BY <1>2, LenProperties
    <2>2. i + 1 \in DOMAIN batches[w] /\ Tail(batches[w])[i] = batches[w][i + 1]
        BY <1>1, <1>2, <2>1, LenProperties
    <2> QED
        BY <2>2 DEF TInv, KeysOK
<1>6. \A x \in Workers : \A i \in DOMAIN batches'[x] : batches'[x][i].job \in JobIds
    BY <1>1, <1>3, <1>5 DEF TInv, KeysOK
<1>7. errors' \in [Workers -> {"none", "transient", "entitlement"}] /\ crashes' \in Nat
    BY DEF TInv, ScheduleTypeOK, NextClaim
<1> QED
    BY <1>4, <1>6, <1>7 DEF MemoryOK

\* A batch of claims of jobs that exist.
LEMMA BatchClaimed ==
    ASSUME TInv, NEW w \in Workers, NEW taken \in SUBSET JobIds, NEW order \in SetToSeqs(taken),
           batches' = [batches EXCEPT ![w] =
                  [i \in DOMAIN order |->
                      [job |-> order[i], leaseVersion |-> jobs[order[i]].leaseVersion + 1,
                       attempts |-> jobs[order[i]].attempts + 1]]],
           UNCHANGED <<errors, crashes>>, JobIds' = JobIds
    PROVE  MemoryOK'
<1> DEFINE n == Cardinality(taken)
           claim(i) == [job |-> order[i], leaseVersion |-> jobs[order[i]].leaseVersion + 1,
                        attempts |-> jobs[order[i]].attempts + 1]
           batch == [i \in DOMAIN order |-> claim(i)]
<1>1. n \in Nat
    <2>1. JobIds = 1..Len(jobs) /\ Len(jobs) \in Nat
        BY Rows
    <2>2. IsFiniteSet(JobIds)
        BY <2>1, FS_Interval
    <2> QED
        BY <2>2, FS_Subset, FS_CardinalityType
<1>2. order \in [1..n -> taken]
    BY DEF SetToSeqs
<1>3. \A i \in 1..n : order[i] \in JobIds /\ claim(i) \in Claim
    <2> TAKE i \in 1..n
    <2>1. order[i] \in JobIds
        BY <1>2
    <2>2. jobs[order[i]].leaseVersion \in Nat /\ jobs[order[i]].attempts \in Nat
        BY <2>1, Rows, ScheduleConstantsAssumption DEF Job
    <2>3. order[i] \in Nat
        BY <2>1, Rows
    <2> QED
        BY <2>1, <2>2, <2>3 DEF Claim
<1>4. DOMAIN order = 1..n /\ batch \in [1..n -> Claim]
    BY <1>2, <1>3
<1>5. batch \in Seq(Claim) /\ DOMAIN batch = 1..n
    <2> HIDE DEF batch, n
    <2> QED
        BY <1>1, <1>4, FunctionIsSeq
<1>6. \A i \in DOMAIN batch : batch[i].job \in JobIds
    <2> TAKE i \in DOMAIN batch
    <2>1. i \in 1..n /\ batch[i] = claim(i) /\ claim(i).job = order[i]
        BY <1>4, <1>5
    <2> QED
        BY <1>3, <2>1
<1>7. batches' = [batches EXCEPT ![w] = batch]
    OBVIOUS
<1> HIDE DEF batch, claim, n
<1>8. batches \in [Workers -> Seq(Claim)]
    BY DEF TInv, ScheduleTypeOK
<1>9. batches' \in [Workers -> Seq(Claim)]
    BY <1>5, <1>7, <1>8
<1>10. \A x \in Workers : \A i \in DOMAIN batches'[x] : batches'[x][i].job \in JobIds
    BY <1>6, <1>7, <1>8 DEF TInv, KeysOK
<1> QED
    BY <1>9, <1>10 DEF MemoryOK, TInv, ScheduleTypeOK

-----------------------------------------------------------------------------
(* A schedule and its jobs.  A schedule has one job to start it and at     *)
(* most one to end it; the end cannot be claimed before the start is       *)
(* applied, since only that tells it its generation; and a completed       *)
(* schedule has no job left, so that nothing can fail it afterwards.       *)

Settled == {"completed", "failed", "cancelled"}

OneJobPerTransition ==
    \A i, j \in JobIds : /\ jobs[i].schedule = jobs[j].schedule
                         /\ jobs[i].transition = jobs[j].transition
                         => i = j

LeasedIsKnown ==
    \A j \in JobIds : jobs[j].status = "leased" => jobs[j].expectedGeneration # Unknown

EndKnowsItsStart ==
    \A i, j \in JobIds : /\ jobs[i].schedule = jobs[j].schedule
                         /\ jobs[i].transition = "start"
                         /\ jobs[j].transition = "end"
                         /\ jobs[j].expectedGeneration # Unknown
                         => /\ jobs[i].status = "completed"
                            /\ jobs[i].resultGeneration = jobs[j].expectedGeneration

EndHasItsStart ==
    \A j \in JobIds : jobs[j].transition = "end" =>
        \E i \in JobIds : jobs[i].schedule = jobs[j].schedule /\ jobs[i].transition = "start"

CompletedHasNoJobLeft ==
    \A j \in JobIds : schedules[jobs[j].schedule].status = "completed" =>
        jobs[j].status \in Settled

SInv ==
    /\ OneJobPerTransition
    /\ LeasedIsKnown
    /\ EndKnowsItsStart
    /\ EndHasItsStart
    /\ CompletedHasNoJobLeft

\* The two halves of SettledIsFinal, of one step.
JobsStaySettled ==
    \A j \in JobIds :
        jobs[j].status \in {"completed", "failed", "cancelled"} => jobs'[j] = jobs[j]

SchedulesStaySettled ==
    \A s \in ScheduleIds :
        /\ schedules[s].status = "completed" => schedules'[s] = schedules[s]
        /\ schedules[s].status \in {"cancelled", "failed"} =>
               schedules'[s].status \in {"cancelled", "failed"}

Good ==
    /\ SInv'
    /\ JobsStaySettled
    /\ SchedulesStaySettled
    /\ JobIds \subseteq JobIds'
    /\ \A s \in ScheduleIds : schedules'[s].environment = schedules[s].environment

\* A step after which no other job is completed.
Quiet ==
    /\ Good
    /\ \A j \in JobIds' : jobs'[j].status = "completed" =>
          j \in JobIds /\ jobs[j].status = "completed"

LEMMA TablesKept ==
    ASSUME SInv, UNCHANGED tableVars
    PROVE  Quiet
    BY DEF Quiet, Good, SInv, OneJobPerTransition, LeasedIsKnown, EndKnowsItsStart,
           EndHasItsStart, CompletedHasNoJobLeft, JobsStaySettled, SchedulesStaySettled, tableVars,
           JobIds, ScheduleIds

\* Open jobs change, and remain open; the schedules do not.
LEMMA OpenJobsChange ==
    ASSUME TInv, SInv, schedules' = schedules, JobIds' = JobIds,
           \A j \in JobIds :
              \/ jobs'[j] = jobs[j]
              \/ /\ jobs[j].status \in {"pending", "leased"}
                 /\ jobs'[j].status \in {"pending", "leased"}
                 /\ jobs'[j].schedule = jobs[j].schedule
                 /\ jobs'[j].transition = jobs[j].transition
                 /\ jobs'[j].expectedGeneration = jobs[j].expectedGeneration
                 /\ jobs'[j].status = "leased" => jobs[j].expectedGeneration # Unknown
    PROVE  Quiet
<1>1. \A j \in JobIds : /\ jobs'[j].schedule = jobs[j].schedule
                        /\ jobs'[j].transition = jobs[j].transition
                        /\ jobs'[j].expectedGeneration = jobs[j].expectedGeneration
    OBVIOUS
<1>2. \A j \in JobIds : jobs[j].status \in Settled => jobs'[j] = jobs[j]
    BY DEF Settled
<1>3. JobsStaySettled /\ SchedulesStaySettled
    BY <1>2 DEF JobsStaySettled, SchedulesStaySettled, Settled
<1>4. OneJobPerTransition'
    BY <1>1 DEF SInv, OneJobPerTransition
<1>5. LeasedIsKnown'
    BY <1>1 DEF SInv, LeasedIsKnown
<1>6. EndKnowsItsStart'
    <2>1. \A j \in JobIds : jobs[j].status = "completed" => jobs'[j] = jobs[j]
        BY <1>2 DEF Settled
    <2> QED
        BY <1>1, <2>1 DEF SInv, EndKnowsItsStart
<1>7. CompletedHasNoJobLeft'
    <2>1. \A j \in JobIds : jobs[j].status \in Settled => jobs'[j].status \in Settled
        BY <1>2
    <2> QED
        BY <1>1, <2>1 DEF SInv, CompletedHasNoJobLeft
<1>8. EndHasItsStart'
    BY <1>1 DEF SInv, EndHasItsStart
<1>9. \A j \in JobIds : jobs'[j].status = "completed" => jobs[j].status = "completed"
    OBVIOUS
<1> QED
    BY <1>3, <1>4, <1>5, <1>6, <1>7, <1>8, <1>9 DEF Good, Quiet, SInv

\* Some open jobs of s are cancelled or fail, and s with them.
LEMMA ScheduleEnds ==
    ASSUME TInv, SInv, NEW s \in ScheduleIds, schedules[s].status # "completed",
           NEW status \in {"cancelled", "failed"},
           schedules' = [schedules EXCEPT ![s].status = status], JobIds' = JobIds,
           \A j \in JobIds :
              \/ jobs'[j] = jobs[j]
              \/ /\ jobs[j].status \in {"pending", "leased"}
                 /\ jobs'[j].status \in {"cancelled", "failed"}
                 /\ jobs'[j].schedule = jobs[j].schedule
                 /\ jobs'[j].transition = jobs[j].transition
                 /\ jobs'[j].expectedGeneration = jobs[j].expectedGeneration
    PROVE  Quiet
<1>1. \A j \in JobIds : /\ jobs'[j].schedule = jobs[j].schedule
                        /\ jobs'[j].transition = jobs[j].transition
                        /\ jobs'[j].expectedGeneration = jobs[j].expectedGeneration
    OBVIOUS
<1>2. \A j \in JobIds : jobs[j].status \in Settled => jobs'[j] = jobs[j]
    BY DEF Settled
<1>3. /\ schedules'[s].status = status
      /\ \A x \in ScheduleIds \ {s} : schedules'[x] = schedules[x]
    BY StatusSet
<1>4. JobsStaySettled /\ SchedulesStaySettled
    BY <1>2, <1>3 DEF JobsStaySettled, SchedulesStaySettled, Settled
<1>5. OneJobPerTransition'
    BY <1>1 DEF SInv, OneJobPerTransition
<1>6. LeasedIsKnown'
    BY <1>1 DEF SInv, LeasedIsKnown
<1>7. EndKnowsItsStart'
    <2>1. \A j \in JobIds : jobs[j].status = "completed" => jobs'[j] = jobs[j]
        BY <1>2 DEF Settled
    <2> QED
        BY <1>1, <2>1 DEF SInv, EndKnowsItsStart
<1>8. CompletedHasNoJobLeft'
    <2>1. \A j \in JobIds : jobs[j].status \in Settled => jobs'[j].status \in Settled
        BY <1>2
    <2>2. \A x \in ScheduleIds : schedules'[x].status = "completed" =>
              schedules[x].status = "completed"
        BY <1>3
    <2>3. \A j \in JobIds : jobs[j].schedule \in ScheduleIds
        BY Rows
    <2> QED
        BY <1>1, <2>1, <2>2, <2>3 DEF SInv, CompletedHasNoJobLeft
<1>9. EndHasItsStart'
    BY <1>1 DEF SInv, EndHasItsStart
<1>10. \A j \in JobIds : jobs'[j].status = "completed" => jobs[j].status = "completed"
    OBVIOUS
<1>11. \A x \in ScheduleIds : schedules'[x].environment = schedules[x].environment
    BY StatusSet
<1> QED
    BY <1>4, <1>5, <1>6, <1>7, <1>8, <1>9, <1>10, <1>11 DEF Good, Quiet, SInv

\* A job with a lease still held does not belong to a completed schedule.
LEMMA LeasedIsOpen ==
    ASSUME TInv, SInv, NEW j \in JobIds, jobs[j].status = "leased"
    PROVE  schedules[jobs[j].schedule].status # "completed"
    BY DEF SInv, CompletedHasNoJobLeft, Settled

LEMMA CompleteStep ==
    ASSUME TInv, SInv, NEW j \in JobIds, jobs[j].status = "leased", ~Conflicts(jobs[j]),
           NEW g \in Nat, CompleteClaimedJob(j, g)
    PROVE  /\ Good
           /\ jobs' \in Seq(Job) /\ JobIds' = JobIds
           /\ schedules' \in Seq(Schedule) /\ ScheduleIds' = ScheduleIds
           /\ \A i \in JobIds : jobs'[i].schedule = jobs[i].schedule
           /\ \A x \in ScheduleIds : schedules'[x].publication = schedules[x].publication
           /\ jobs'[j].status = "completed"
           /\ jobs'[j].resultGeneration = g
           /\ jobs'[j].expectedGeneration = jobs[j].expectedGeneration
           /\ \A i \in JobIds \ {j} : jobs'[i].status = jobs[i].status
<1> DEFINE s == jobs[j].schedule
           isStart == jobs[j].transition = "start"
           ends == {i \in JobIds : jobs[i].schedule = s /\ jobs[i].transition = "end"}
           status == IF isStart /\ ends # {} THEN "active" ELSE "completed"
           done == [jobs[j] EXCEPT !.status = "completed", !.resultGeneration = g]
           told(i) == [jobs[i] EXCEPT !.expectedGeneration = g]
<1>1. /\ jobs' = [i \in JobIds |->
                    IF i = j THEN done
                    ELSE IF isStart /\ i \in ends /\ jobs[i].status = "pending"
                         THEN told(i)
                         ELSE jobs[i]]
      /\ schedules' = [schedules EXCEPT ![s].status = status]
    BY DEF CompleteClaimedJob
<1>2. s \in ScheduleIds /\ \A i \in JobIds : jobs[i] \in Job
    BY Rows
<1>3. done \in Job /\ done.status = "completed" /\ done.schedule = s
      /\ done.transition = jobs[j].transition
      /\ done.expectedGeneration = jobs[j].expectedGeneration
      /\ done.resultGeneration = g
    BY <1>2 DEF Job
<1>4. ASSUME NEW i \in JobIds
      PROVE  /\ told(i) \in Job
             /\ told(i).schedule = jobs[i].schedule
             /\ told(i).transition = jobs[i].transition
             /\ told(i).status = jobs[i].status
             /\ told(i).expectedGeneration = g
    BY <1>2 DEF Job
<1> HIDE DEF done, told
<1>5. jobs' \in [JobIds -> Job] /\ jobs'[j] = done
    BY <1>1, <1>2, <1>3, <1>4
<1>6. jobs' \in Seq(Job) /\ JobIds' = JobIds
    BY <1>5, JobsRewritten
<1>7. ASSUME NEW i \in JobIds
      PROVE  /\ jobs'[i].schedule = jobs[i].schedule
             /\ jobs'[i].transition = jobs[i].transition
             /\ i # j => jobs'[i].status = jobs[i].status
             /\ \/ jobs'[i].expectedGeneration = jobs[i].expectedGeneration
                \/ /\ isStart /\ i \in ends /\ jobs[i].status = "pending"
                   /\ jobs'[i].expectedGeneration = g
             /\ i # j /\ jobs[i].status # "pending" => jobs'[i] = jobs[i]
    BY <1>1, <1>3, <1>4
<1>8. /\ jobs'[j].status = "completed" /\ jobs'[j].resultGeneration = g
      /\ jobs'[j].expectedGeneration = jobs[j].expectedGeneration
    BY <1>3, <1>5
<1>9. status \in {"scheduled", "active", "completed", "cancelled", "failed"}
    OBVIOUS
<1>10. /\ schedules' \in Seq(Schedule) /\ ScheduleIds' = ScheduleIds
       /\ schedules'[s].status = status
       /\ \A x \in ScheduleIds \ {s} : schedules'[x] = schedules[x]
       /\ \A x \in ScheduleIds : schedules'[x].publication = schedules[x].publication
    <2> HIDE DEF status, s
    <2> QED
        BY <1>1, <1>2, <1>9, StatusSet
<1>11. OneJobPerTransition'
    BY <1>6, <1>7 DEF SInv, OneJobPerTransition
<1>12. LeasedIsKnown'
    <2> SUFFICES ASSUME NEW i \in JobIds, jobs'[i].status = "leased"
                 PROVE  jobs'[i].expectedGeneration # Unknown
        BY <1>6 DEF LeasedIsKnown
    <2>1. i # j /\ jobs[i].status = "leased" /\ jobs'[i] = jobs[i]
        BY <1>7, <1>8
    <2> QED
        BY <2>1 DEF SInv, LeasedIsKnown
<1>13. EndKnowsItsStart'
    <2> SUFFICES ASSUME NEW i \in JobIds, NEW k \in JobIds,
                        jobs[i].schedule = jobs[k].schedule,
                        jobs[i].transition = "start", jobs[k].transition = "end",
                        jobs'[k].expectedGeneration # Unknown
                 PROVE  /\ jobs'[i].status = "completed"
                        /\ jobs'[i].resultGeneration = jobs'[k].expectedGeneration
        BY <1>6, <1>7 DEF EndKnowsItsStart
    <2>1. CASE jobs'[k].expectedGeneration # jobs[k].expectedGeneration
        <3>1. i = j
            BY <1>7, <2>1 DEF SInv, OneJobPerTransition
        <3> QED
            BY <1>7, <1>8, <2>1, <3>1
    <2>2. CASE jobs'[k].expectedGeneration = jobs[k].expectedGeneration
        <3>1. /\ jobs[i].status = "completed"
              /\ jobs[i].resultGeneration = jobs[k].expectedGeneration
            BY <2>2 DEF SInv, EndKnowsItsStart
        <3>2. i # j
            BY <3>1
        <3> QED
            BY <1>7, <2>2, <3>1, <3>2
    <2> QED
        BY <2>1, <2>2
<1>14. CompletedHasNoJobLeft'
    <2> SUFFICES ASSUME NEW k \in JobIds, schedules'[jobs[k].schedule].status = "completed",
                        k # j
                 PROVE  jobs[k].status \in Settled
        BY <1>6, <1>7, <1>8 DEF CompletedHasNoJobLeft, Settled
    <2>1. CASE jobs[k].schedule # s
        <3>1. jobs[k].schedule \in ScheduleIds \ {s}
            BY <2>1, Rows
        <3> QED
            BY <1>10, <3>1 DEF SInv, CompletedHasNoJobLeft
    <2>2. CASE jobs[k].schedule = s
        <3>1. ~(isStart /\ ends # {})
            BY <1>10, <2>2
        <3>2. jobs[k].transition \in {"start", "end"} /\ jobs[j].transition \in {"start", "end"}
            BY <1>2 DEF Job
        <3>3. jobs[k].transition # jobs[j].transition
            BY <2>2 DEF SInv, OneJobPerTransition
        <3>4. jobs[k].transition = "start" /\ jobs[j].transition = "end"
            BY <2>2, <3>1, <3>2, <3>3
        <3>5. jobs[j].expectedGeneration # Unknown
            BY DEF SInv, LeasedIsKnown
        <3> QED
            BY <2>2, <3>4, <3>5 DEF SInv, EndKnowsItsStart, Settled
    <2> QED
        BY <2>1, <2>2
<1>15. JobsStaySettled
    BY <1>7 DEF JobsStaySettled
<1>16. SchedulesStaySettled
    <2>1. schedules[s].status \notin {"completed", "cancelled", "failed"}
        BY LeasedIsOpen DEF Conflicts
    <2> QED
        BY <1>10, <2>1 DEF SchedulesStaySettled
<1>17. EndHasItsStart'
    BY <1>6, <1>7 DEF SInv, EndHasItsStart
<1>18. \A x \in ScheduleIds : schedules'[x].environment = schedules[x].environment
    <2> HIDE DEF status, s
    <2> QED
        BY <1>1, <1>2, <1>9, StatusSet
<1> QED
    BY <1>6, <1>7, <1>8, <1>10, <1>11, <1>12, <1>13, <1>14, <1>15, <1>16, <1>17, <1>18
    DEF Good, SInv

LEMMA CreateStep ==
    ASSUME TInv, SInv, NEW u \in Users, NEW e \in Environments, NEW source \in PublicationIds,
           NEW hasEnd \in BOOLEAN, CreateDeploymentSchedule(u, e, source, hasEnd)
    PROVE  TInv' /\ Quiet
<1> DEFINE n == Len(schedules) + 1
           g == deployments[e].generation
<1>1. /\ TypeOK'
      /\ PublicationIds \subseteq PublicationIds'
      /\ schedules' \in Seq(Schedule)
      /\ ScheduleIds' = ScheduleIds \union {n}
      /\ n \notin ScheduleIds
      /\ \A s \in ScheduleIds : schedules'[s] = schedules[s]
      /\ schedules'[n].status = "scheduled"
      /\ schedules'[n].publication \in PublicationIds'
      /\ jobs' \in Seq(Job)
      /\ JobIds \subseteq JobIds'
      /\ \A j \in JobIds : jobs'[j] = jobs[j]
      /\ \A j \in JobIds' \ JobIds : jobs'[j] \in {NewJob("start", g), NewJob("end", Unknown)}
      /\ \A i, j \in JobIds' \ JobIds : jobs'[i].transition = jobs'[j].transition => i = j
      /\ \E i \in JobIds' \ JobIds : jobs'[i] = NewJob("start", g)
    BY CreateEffect
<1>2. g \in Nat
    BY DEF TInv, ScheduleTypeOK, TypeOK, Deployment
<1>3. \A j \in JobIds' \ JobIds :
          /\ jobs'[j].schedule = n
          /\ jobs'[j].status = "pending"
          /\ jobs'[j].transition = "end" => jobs'[j].expectedGeneration = Unknown
          /\ \E i \in JobIds' \ JobIds : jobs'[i].transition = "start"
    <2>1. /\ NewJob("start", g).schedule = n /\ NewJob("end", Unknown).schedule = n
          /\ NewJob("start", g).status = "pending" /\ NewJob("end", Unknown).status = "pending"
          /\ NewJob("start", g).transition = "start"
          /\ NewJob("end", Unknown).expectedGeneration = Unknown
        BY <1>2, NewJobType
    <2> QED
        BY <1>1, <2>1
<1>4. \A j \in JobIds : jobs[j].schedule \in ScheduleIds
    BY Rows
<1> HIDE DEF n, g
<1>5. UNCHANGED workerVars
    BY DEF CreateDeploymentSchedule
<1>6. TInv'
    <2>1. MemoryOK'
        BY <1>1, <1>5, MemoryKept
    <2>2. \A s \in ScheduleIds : schedules'[s].publication \in PublicationIds'
        BY <1>1, Rows
    <2>3. \A j \in JobIds' : jobs'[j].schedule \in ScheduleIds'
        BY <1>1, <1>3, <1>4
    <2> QED
        BY <1>1, <2>1, <2>2, <2>3 DEF TInv, KeysOK, ScheduleTypeOK, MemoryOK
<1>7. ASSUME NEW j \in JobIds'
      PROVE  \/ j \in JobIds /\ jobs'[j] = jobs[j] /\ jobs'[j].schedule \in ScheduleIds
             \/ j \notin JobIds /\ jobs'[j].schedule = n
    BY <1>1, <1>3, <1>4
<1>8. OneJobPerTransition'
    BY <1>1, <1>7 DEF SInv, OneJobPerTransition
<1>9. LeasedIsKnown'
    BY <1>1, <1>3, <1>7 DEF SInv, LeasedIsKnown
<1>10. EndKnowsItsStart'
    BY <1>1, <1>3, <1>7 DEF SInv, EndKnowsItsStart
<1>11. CompletedHasNoJobLeft'
    BY <1>1, <1>3, <1>7 DEF SInv, CompletedHasNoJobLeft
<1>12. JobsStaySettled /\ SchedulesStaySettled
    BY <1>1 DEF JobsStaySettled, SchedulesStaySettled
<1>13. EndHasItsStart'
    <2> SUFFICES ASSUME NEW j \in JobIds', jobs'[j].transition = "end"
                 PROVE  \E i \in JobIds' : /\ jobs'[i].schedule = jobs'[j].schedule
                                            /\ jobs'[i].transition = "start"
        BY DEF EndHasItsStart
    <2>1. CASE j \in JobIds
        BY <1>1, <2>1 DEF SInv, EndHasItsStart
    <2>2. CASE j \notin JobIds
        BY <1>3, <2>2
    <2> QED
        BY <2>1, <2>2
<1>14. \A j \in JobIds' : jobs'[j].status = "completed" =>
          j \in JobIds /\ jobs[j].status = "completed"
    BY <1>1, <1>3
<1> QED
    BY <1>1, <1>13, <1>14, <1>6, <1>8, <1>9, <1>10, <1>11, <1>12 DEF Good, Quiet, SInv

-----------------------------------------------------------------------------
(* The other steps. *)

LEMMA CancelStep ==
    ASSUME TInv, SInv, NEW u \in Users, NEW s \in ScheduleIds, CancelDeploymentSchedule(u, s)
    PROVE  TInv' /\ Quiet
<1> DEFINE cancels(j) == jobs[j].schedule = s /\ jobs[j].status = "pending"
<1>1. /\ schedules[s].status = "scheduled"
      /\ schedules' = [schedules EXCEPT ![s].status = "cancelled"]
      /\ jobs' = [j \in JobIds |-> IF cancels(j) THEN [jobs[j] EXCEPT !.status = "cancelled"]
                                                 ELSE jobs[j]]
      /\ UNCHANGED vars /\ UNCHANGED workerVars
    BY DEF CancelDeploymentSchedule
<1>2. \A j \in JobIds : jobs[j] \in Job
    BY Rows
<1>3. ASSUME NEW j \in JobIds
      PROVE  /\ jobs'[j] \in Job
             /\ \/ jobs'[j] = jobs[j]
                \/ /\ jobs[j].status = "pending"
                   /\ jobs'[j].status = "cancelled"
                   /\ jobs'[j].schedule = jobs[j].schedule
                   /\ jobs'[j].transition = jobs[j].transition
                   /\ jobs'[j].expectedGeneration = jobs[j].expectedGeneration
    BY <1>1, <1>2 DEF Job
<1>4. jobs' \in [JobIds -> Job]
    BY <1>1, <1>3
<1>5. jobs' \in Seq(Job) /\ JobIds' = JobIds
    BY <1>4, JobsRewritten
<1>6. Quiet
    BY <1>1, <1>3, <1>5, ScheduleEnds
<1>7. /\ schedules' \in Seq(Schedule) /\ ScheduleIds' = ScheduleIds
      /\ \A x \in ScheduleIds : schedules'[x].publication = schedules[x].publication
    BY <1>1, StatusSet
<1>8. MemoryOK' /\ TypeOK' /\ PublicationIds' = PublicationIds
    BY <1>1, <1>5, MemoryKept, ReleasesKept
<1>9. TInv'
    BY <1>3, <1>5, <1>7, <1>8, KeepsTInv
<1> QED
    BY <1>6, <1>9

\* One job's row changes and the schedules and releases do not.
LEMMA OneJobChanges ==
    ASSUME TInv, SInv, MemoryOK', UNCHANGED <<vars, schedules>>,
           NEW j \in JobIds, NEW row \in Job, jobs' = [jobs EXCEPT ![j] = row],
           jobs[j].status \in {"pending", "leased"},
           row.status = jobs[j].status \/ row.status = "pending",
           row.schedule = jobs[j].schedule,
           row.transition = jobs[j].transition,
           row.expectedGeneration = jobs[j].expectedGeneration
    PROVE  TInv' /\ Quiet
<1>1. /\ jobs' \in Seq(Job) /\ JobIds' = JobIds
      /\ jobs'[j] = row
      /\ \A i \in JobIds \ {j} : jobs'[i] = jobs[i]
    BY JobSet
<1>2. row.status = "leased" => jobs[j].expectedGeneration # Unknown
    BY DEF SInv, LeasedIsKnown
<1>3. Quiet
    BY <1>1, <1>2, OpenJobsChange
<1>4. TypeOK' /\ PublicationIds' = PublicationIds
    BY ReleasesKept
<1>5. /\ schedules' \in Seq(Schedule) /\ ScheduleIds' = ScheduleIds
      /\ \A x \in ScheduleIds : schedules'[x].publication = schedules[x].publication
    BY DEF TInv, ScheduleTypeOK, ScheduleIds
<1>6. TInv'
    BY <1>1, <1>4, <1>5, KeepsTInv
<1> QED
    BY <1>3, <1>6

LEMMA TimeStep ==
    ASSUME TInv, SInv, NEW j \in JobIds, TimeReaches(j) \/ LeaseExpires(j)
    PROVE  TInv' /\ Quiet
<1> DEFINE due == [jobs[j] EXCEPT !.available = TRUE]
           late == [jobs[j] EXCEPT !.expired = TRUE]
<1>1. jobs[j] \in Job
    BY Rows
<1>2. /\ due \in Job /\ due.status = jobs[j].status /\ due.schedule = jobs[j].schedule
      /\ due.transition = jobs[j].transition
      /\ due.expectedGeneration = jobs[j].expectedGeneration
    BY <1>1 DEF Job
<1>3. /\ late \in Job /\ late.status = jobs[j].status /\ late.schedule = jobs[j].schedule
      /\ late.transition = jobs[j].transition
      /\ late.expectedGeneration = jobs[j].expectedGeneration
    BY <1>1 DEF Job
<1>4. /\ UNCHANGED workerVars /\ UNCHANGED <<vars, schedules>>
      /\ jobs[j].status \in {"pending", "leased"}
      /\ jobs' = [jobs EXCEPT ![j] = due] \/ jobs' = [jobs EXCEPT ![j] = late]
    BY DEF TimeReaches, LeaseExpires
<1> HIDE DEF due, late
<1>5. JobIds' = JobIds
    BY <1>2, <1>3, <1>4, JobSet
<1>6. MemoryOK'
    BY <1>4, <1>5, MemoryKept
<1> QED
    BY <1>2, <1>3, <1>4, <1>6, OneJobChanges

LEMMA ClaimStep ==
    ASSUME TInv, SInv, NEW w \in Workers, ClaimDueJobs(w)
    PROVE  TInv' /\ Quiet
<1>1. PICK taken \in SUBSET Due :
          /\ ClaimIsAccepted(taken)
          /\ jobs' = [j \in JobIds |-> IF j \in taken THEN Leased(jobs[j]) ELSE jobs[j]]
          /\ \E order \in SetToSeqs(taken) :
                batches' = [batches EXCEPT ![w] =
                    [i \in DOMAIN order |->
                        [job |-> order[i], leaseVersion |-> jobs[order[i]].leaseVersion + 1,
                         attempts |-> jobs[order[i]].attempts + 1]]]
          /\ UNCHANGED <<vars, schedules, errors, crashes>>
    BY DEF ClaimDueJobs
<1>2. \A j \in JobIds : jobs[j] \in Job
    BY Rows
<1>3. ASSUME NEW j \in taken
      PROVE  /\ Leased(jobs[j]) \in Job
             /\ jobs[j].status \in {"pending", "leased"}
             /\ Leased(jobs[j]).status = "leased"
             /\ Leased(jobs[j]).schedule = jobs[j].schedule
             /\ Leased(jobs[j]).transition = jobs[j].transition
             /\ Leased(jobs[j]).expectedGeneration = jobs[j].expectedGeneration
             /\ jobs[j].expectedGeneration # Unknown
    <2>1. jobs[j] \in Job /\ jobs[j].attempts < MaxAttempts
        BY <1>1, <1>2 DEF Due, ClaimIsAccepted
    <2>2. jobs[j].attempts + 1 \in 0..MaxAttempts /\ jobs[j].leaseVersion + 1 \in Nat
        BY <2>1, ScheduleConstantsAssumption DEF Job
    <2> QED
        BY <2>1, <2>2 DEF Leased, Job, Due
<1>4. jobs' \in [JobIds -> Job]
    BY <1>1, <1>2, <1>3
<1>5. jobs' \in Seq(Job) /\ JobIds' = JobIds
    BY <1>4, JobsRewritten
<1>6. \A j \in JobIds : \/ jobs'[j] = jobs[j]
                        \/ j \in taken /\ jobs'[j] = Leased(jobs[j])
    BY <1>1
<1>7. Quiet
    BY <1>1, <1>3, <1>5, <1>6, OpenJobsChange
<1>8. MemoryOK'
    <2>1. taken \in SUBSET JobIds
        BY DEF Due
    <2> QED
        BY <1>1, <1>5, <2>1, BatchClaimed
<1>9. TypeOK' /\ PublicationIds' = PublicationIds
    BY <1>1, ReleasesKept
<1>10. /\ schedules' \in Seq(Schedule) /\ ScheduleIds' = ScheduleIds
       /\ \A x \in ScheduleIds : schedules'[x].publication = schedules[x].publication
    BY <1>1 DEF TInv, ScheduleTypeOK, ScheduleIds
<1>11. \A j \in JobIds : jobs'[j].schedule = jobs[j].schedule
    BY <1>3, <1>6
<1>12. TInv'
    BY <1>5, <1>8, <1>9, <1>10, <1>11, KeepsTInv
<1> QED
    BY <1>7, <1>12

\* No table changes.
LEMMA OnlyMemoryChanges ==
    ASSUME TInv, SInv, MemoryOK', UNCHANGED <<vars, tableVars>>
    PROVE  TInv' /\ Quiet
<1>1. TypeOK' /\ PublicationIds' = PublicationIds
    BY ReleasesKept
<1>2. TInv'
    BY <1>1 DEF TInv, ScheduleTypeOK, KeysOK, MemoryOK, tableVars, JobIds, ScheduleIds
<1> QED
    BY <1>2, TablesKept

LEMMA FailStep ==
    ASSUME TInv, SInv, NEW w \in Workers, batches[w] # <<>>, NextClaim(w),
           HoldsLease(Head(batches[w])), FailClaimedJob(Head(batches[w]).job)
    PROVE  TInv' /\ Quiet
<1> DEFINE j == Head(batches[w]).job
           s == jobs[j].schedule
           row == [jobs[j] EXCEPT !.status = "failed"]
<1>1. j \in JobIds /\ jobs[j] \in Job /\ s \in ScheduleIds /\ jobs[j].status = "leased"
    BY FirstClaim, Rows DEF HoldsLease
<1>2. /\ row \in Job /\ row.status = "failed" /\ row.schedule = s
      /\ row.transition = jobs[j].transition
      /\ row.expectedGeneration = jobs[j].expectedGeneration
    BY <1>1 DEF Job
<1>3. /\ jobs' = [jobs EXCEPT ![j] = row]
      /\ schedules' = [schedules EXCEPT ![s].status = "failed"]
      /\ UNCHANGED vars
    BY DEF FailClaimedJob
<1> HIDE DEF row, j
<1>4. /\ jobs' \in Seq(Job) /\ JobIds' = JobIds
      /\ jobs'[j] = row
      /\ \A i \in JobIds \ {j} : jobs'[i] = jobs[i]
    BY <1>1, <1>2, <1>3, JobSet
<1>5. schedules[s].status # "completed"
    BY <1>1, LeasedIsOpen
<1>6. \A i \in JobIds :
          \/ jobs'[i] = jobs[i]
          \/ /\ jobs[i].status \in {"pending", "leased"}
             /\ jobs'[i].status \in {"cancelled", "failed"}
             /\ jobs'[i].schedule = jobs[i].schedule
             /\ jobs'[i].transition = jobs[i].transition
             /\ jobs'[i].expectedGeneration = jobs[i].expectedGeneration
    BY <1>1, <1>2, <1>4
<1> HIDE DEF s
<1>7. Quiet
    BY <1>1, <1>3, <1>4, <1>5, <1>6, ScheduleEnds
<1>8. /\ schedules' \in Seq(Schedule) /\ ScheduleIds' = ScheduleIds
      /\ \A x \in ScheduleIds : schedules'[x].publication = schedules[x].publication
    BY <1>1, <1>3, StatusSet
<1>9. MemoryOK' /\ TypeOK' /\ PublicationIds' = PublicationIds
    BY <1>3, <1>4, ClaimDropped, ReleasesKept
<1>10. TInv'
    BY <1>4, <1>6, <1>8, <1>9, KeepsTInv
<1> QED
    BY <1>7, <1>10

\* A worker moves the pointer to a publication that exists, or to nothing.
LEMMA MovedType ==
    ASSUME TInv, NEW e \in Environments, NEW p \in PublicationIds \union {None},
           MovePointer(e, p)
    PROVE  TypeOK' /\ PublicationIds' = PublicationIds
<1>1. /\ TypeOK /\ deployments \in [Environments -> Deployment]
      /\ p \in 0..Len(publications) /\ p \in Nat
    BY Rows DEF TInv, ScheduleTypeOK, TypeOK, None
<1>2. deployments' = Move(e, p) /\ operations' = operations /\ publications' = publications
      /\ UNCHANGED <<approvals, verified, everVerified, policies, roles, plan>>
    BY DEF MovePointer, verificationVars, governanceVars
<1>3. /\ deployments' \in [Environments -> Deployment]
      /\ \A x \in Environments :
            deployments'[x] = IF x = e THEN [active |-> p, pending |-> None,
                                             generation |-> deployments[e].generation + 1]
                                       ELSE deployments[x]
    BY <1>1, <1>2, MoveType DEF Move
<1>4. Len(operations) \in Nat /\ operations \in Seq(Operation)
    BY <1>1, LenProperties DEF TypeOK
<1>5. \A x \in Environments : /\ deployments'[x].active \in 0..Len(publications)
                              /\ deployments'[x].pending \in 0..Len(operations')
    BY <1>1, <1>2, <1>3, <1>4 DEF TypeOK, None
<1>6. Len(operations') >= Len(operations)
    BY <1>2, <1>4
<1>7. TypeOK'
    BY <1>1, <1>2, <1>3, <1>4, <1>5, <1>6, UnpublishedType
<1> QED
    BY <1>2, <1>7 DEF PublicationIds

\* Job j is applied: it moves the pointer of its environment from the
\* generation it expected.
AppliedBy(j) ==
    LET e == schedules[jobs[j].schedule].environment
        g == deployments[e].generation
    IN  /\ e \in Environments
        /\ jobs[j].status # "completed"
        /\ jobs[j].expectedGeneration = g
        /\ jobs'[j].status = "completed"
        /\ jobs'[j].expectedGeneration = g
        /\ jobs'[j].resultGeneration = g + 1
        /\ deployments'[e].generation = g + 1
        /\ \A x \in Environments \ {e} : deployments'[x] = deployments[x]
        /\ UNCHANGED operations
        /\ JobIds' = JobIds
        /\ \A i \in JobIds \ {j} : jobs'[i].status = jobs[i].status
        /\ \A i \in JobIds : jobs'[i].schedule = jobs[i].schedule

LEMMA ProcessStep ==
    ASSUME TInv, SInv, NEW w \in Workers, ProcessClaimedJob(w)
    PROVE  /\ TInv' /\ Good
           /\ \/ Quiet /\ UNCHANGED <<deployments, operations>>
              \/ \E j \in JobIds : AppliedBy(j)
<1> DEFINE claim == Head(batches[w])
           job == jobs[claim.job]
           schedule == schedules[job.schedule]
           e == schedule.environment
           g == deployments[e].generation + 1
           p == IF job.transition = "start" THEN schedule.publication ELSE None
<1>1. batches[w] # <<>> /\ claim.job \in JobIds
    BY FirstClaim DEF ProcessClaimedJob
<1>2. CASE NextClaim(w) /\ UNCHANGED <<vars, tableVars>>
    <2>1. MemoryOK'
        BY <1>1, <1>2, ClaimDropped DEF tableVars, JobIds
    <2> QED
        BY <1>2, <2>1, OnlyMemoryChanges DEF Quiet, vars, releaseVars
<1>3. CASE HoldsLease(claim) /\ FailClaimedJob(claim.job) /\ NextClaim(w)
    BY <1>1, <1>3, FailStep DEF Quiet, FailClaimedJob, vars, releaseVars
<1>4. CASE /\ errors' = [errors EXCEPT ![w] = "entitlement"]
           /\ UNCHANGED <<vars, tableVars, batches, crashes>>
    <2>1. MemoryOK'
        BY <1>4 DEF MemoryOK, TInv, ScheduleTypeOK, KeysOK, tableVars, JobIds
    <2> QED
        BY <1>4, <2>1, OnlyMemoryChanges DEF Quiet, vars, releaseVars
<1>5. CASE /\ HoldsLease(claim)
           /\ ~Conflicts(job)
           /\ MovePointer(e, p)
           /\ CompleteClaimedJob(claim.job, g)
           /\ NextClaim(w)
    <2>1. /\ job.status = "leased" /\ job.schedule \in ScheduleIds
          /\ schedule \in Schedule /\ schedule.publication \in PublicationIds
        BY <1>1, <1>5, Rows DEF HoldsLease
    <2>2. e \in Environments /\ p \in PublicationIds \union {None}
        BY <2>1 DEF Schedule
    <2>8. /\ deployments[e].generation = job.expectedGeneration
          /\ e = schedules[jobs[claim.job].schedule].environment
        BY <1>5 DEF Conflicts
    <2>9. p \in Nat
        BY <2>2, Rows DEF None
    <2> HIDE DEF e, p, schedule
    <2>3. g \in Nat
        BY <2>2 DEF TInv, ScheduleTypeOK, TypeOK, Deployment
    <2>10. g = deployments[e].generation + 1
        OBVIOUS
    <2> HIDE DEF g
    <2>4. TypeOK' /\ PublicationIds' = PublicationIds
        BY <1>5, <2>2, MovedType
    <2>5. /\ Good
          /\ jobs' \in Seq(Job) /\ JobIds' = JobIds
          /\ schedules' \in Seq(Schedule) /\ ScheduleIds' = ScheduleIds
          /\ \A i \in JobIds : jobs'[i].schedule = jobs[i].schedule
          /\ \A x \in ScheduleIds : schedules'[x].publication = schedules[x].publication
          /\ jobs'[claim.job].status = "completed"
          /\ jobs'[claim.job].resultGeneration = g
          /\ jobs'[claim.job].expectedGeneration = job.expectedGeneration
          /\ \A i \in JobIds \ {claim.job} : jobs'[i].status = jobs[i].status
        BY <1>1, <1>5, <2>1, <2>3, CompleteStep
    <2>6. MemoryOK'
        BY <1>1, <1>5, <2>5, ClaimDropped
    <2>7. TInv'
        BY <2>4, <2>5, <2>6, KeepsTInv
    <2>11. /\ deployments'[e].generation = g
           /\ \A x \in Environments \ {e} : deployments'[x] = deployments[x]
           /\ UNCHANGED operations
        BY <1>5, <2>2, <2>9, <2>10, PointerMoved DEF TInv, ScheduleTypeOK, MovePointer
    <2>12. AppliedBy(claim.job)
        BY <1>1, <2>1, <2>2, <2>5, <2>8, <2>10, <2>11 DEF AppliedBy
    <2> QED
        BY <1>1, <2>5, <2>7, <2>12
<1> QED
    BY <1>2, <1>3, <1>4, <1>5 DEF ProcessClaimedJob

LEMMA RetryStep ==
    ASSUME TInv, SInv, NEW w \in Workers, RetryClaimedJob(w)
    PROVE  TInv' /\ Quiet
<1> DEFINE claim == Head(batches[w])
           j == claim.job
           row == [jobs[j] EXCEPT !.status = "pending", !.available = FALSE]
<1>1. batches[w] # <<>> /\ j \in JobIds /\ NextClaim(w) /\ jobs[j] \in Job
    BY FirstClaim, Rows DEF RetryClaimedJob
<1>2. CASE UNCHANGED <<vars, tableVars>>
    <2>1. MemoryOK'
        BY <1>1, <1>2, ClaimDropped DEF tableVars, JobIds
    <2> QED
        BY <1>2, <2>1, OnlyMemoryChanges
<1>3. CASE HoldsLease(claim) /\ FailClaimedJob(j)
    BY <1>1, <1>3, FailStep
<1>4. CASE /\ HoldsLease(claim)
           /\ jobs' = [jobs EXCEPT ![j].status = "pending", ![j].available = FALSE]
           /\ UNCHANGED <<vars, schedules>>
    <2>1. /\ row \in Job /\ row.status = "pending" /\ row.schedule = jobs[j].schedule
          /\ row.transition = jobs[j].transition
          /\ row.expectedGeneration = jobs[j].expectedGeneration
        BY <1>1 DEF Job
    <2>2. jobs' = [jobs EXCEPT ![j] = row]
        <3>1. jobs \in [JobIds -> Job]
            BY LenProperties DEF TInv, ScheduleTypeOK, JobIds
        <3> QED
            BY <1>1, <1>4, <3>1 DEF Job
    <2> HIDE DEF row
    <2>3. jobs[j].status = "leased"
        BY <1>4 DEF HoldsLease
    <2>4. MemoryOK'
        <3>1. JobIds' = JobIds
            BY <1>1, <2>1, <2>2, JobSet
        <3> QED
            BY <1>1, <3>1, ClaimDropped
    <2> QED
        BY <1>1, <1>4, <2>1, <2>2, <2>3, <2>4, OneJobChanges
<1> QED
    BY <1>2, <1>3, <1>4 DEF RetryClaimedJob

LEMMA WorkerFailureStep ==
    ASSUME TInv, SInv, NEW w \in Workers, ProcessingFails(w) \/ LoseBatch(w)
    PROVE  TInv' /\ Quiet
<1>1. UNCHANGED <<vars, tableVars>>
    BY DEF ProcessingFails, LoseBatch
<1>2. CASE ProcessingFails(w)
    <2>1. MemoryOK'
        BY <1>2 DEF ProcessingFails, MemoryOK, TInv, ScheduleTypeOK, KeysOK, tableVars, JobIds
    <2> QED
        BY <1>1, <2>1, OnlyMemoryChanges
<1>3. CASE LoseBatch(w)
    <2>1. <<>> \in Seq(Claim) /\ DOMAIN <<>> = {}
        OBVIOUS
    <2>2. /\ batches \in [Workers -> Seq(Claim)]
          /\ errors \in [Workers -> {"none", "transient", "entitlement"}] /\ crashes \in Nat
          /\ \A x \in Workers : \A i \in DOMAIN batches[x] : batches[x][i].job \in JobIds
        BY DEF TInv, ScheduleTypeOK, KeysOK
    <2>3. /\ batches' = [batches EXCEPT ![w] = <<>>]
          /\ errors' = [errors EXCEPT ![w] = "none"] /\ crashes' = crashes + 1
          /\ JobIds' = JobIds
        BY <1>1, <1>3 DEF LoseBatch, tableVars, JobIds
    <2>4. batches' \in [Workers -> Seq(Claim)]
        BY <2>1, <2>2, <2>3
    <2>5. \A x \in Workers : batches'[x] = IF x = w THEN <<>> ELSE batches[x]
        BY <2>2, <2>3
    <2>6. \A x \in Workers : \A i \in DOMAIN batches'[x] : batches'[x][i].job \in JobIds'
        BY <2>1, <2>2, <2>3, <2>5
    <2>7. MemoryOK'
        BY <2>2, <2>3, <2>4, <2>6 DEF MemoryOK
    <2> QED
        BY <1>1, <2>7, OnlyMemoryChanges
<1> QED
    BY <1>2, <1>3

\* Releases and governance leave the rows of schedules alone and remove no
\* publication.
LEMMA ReleaseStep ==
    ASSUME TInv, SInv, [Next]_vars, UNCHANGED scheduleVars
    PROVE  TInv' /\ Quiet
<1>1. TypeOK
    BY DEF TInv, ScheduleTypeOK
<1>2. TypeOK' /\ PublicationsKept
    BY <1>1, NextType, StepKeepsHistory
<1>3. PublicationIds \subseteq PublicationIds'
    BY <1>2 DEF PublicationsKept, PublicationIds
<1>4. UNCHANGED <<schedules, jobs, batches, errors, crashes>>
    BY DEF scheduleVars, tableVars, workerVars
<1>5. TInv'
    BY <1>2, <1>3, <1>4 DEF TInv, ScheduleTypeOK, KeysOK, JobIds, ScheduleIds
<1> QED
    BY <1>4, <1>5, TablesKept DEF tableVars

\* What a step does to the pointers and their history: nothing, one job is
\* applied, or a release runs.
PointersStep ==
    \/ Quiet /\ UNCHANGED <<deployments, operations>>
    \/ \E j \in JobIds : AppliedBy(j)
    \/ Quiet /\ [Next]_vars /\ UNCHANGED tableVars

LEMMA AllNextOK == TInv /\ SInv /\ [AllNext]_allVars => TInv' /\ Good /\ PointersStep
<1> SUFFICES ASSUME TInv, SInv, [AllNext]_allVars
             PROVE  TInv' /\ Good /\ PointersStep
    OBVIOUS
<1>1. CASE Next /\ UNCHANGED scheduleVars
    BY <1>1, ReleaseStep DEF Quiet, PointersStep, scheduleVars
<1>2. CASE UNCHANGED allVars
    BY <1>2, ReleaseStep DEF allVars, Quiet, PointersStep, scheduleVars
<1>3. ASSUME NEW w \in Workers, ProcessClaimedJob(w)
      PROVE  TInv' /\ Good /\ PointersStep
    BY <1>3, ProcessStep DEF PointersStep
<1>4. ASSUME TInv', Quiet, UNCHANGED <<deployments, operations>>
      PROVE  TInv' /\ Good /\ PointersStep
    BY <1>4 DEF Quiet, PointersStep
<1>5. ASSUME NEW u \in Users, NEW e \in Environments, NEW p \in PublicationIds,
             NEW hasEnd \in BOOLEAN, CreateDeploymentSchedule(u, e, p, hasEnd)
      PROVE  TInv' /\ Good /\ PointersStep
    BY <1>4, <1>5, CreateStep DEF CreateDeploymentSchedule
<1>6. ASSUME NEW u \in Users, NEW s \in ScheduleIds, CancelDeploymentSchedule(u, s)
      PROVE  TInv' /\ Good /\ PointersStep
    BY <1>4, <1>6, CancelStep DEF CancelDeploymentSchedule, vars, releaseVars
<1>7. ASSUME NEW j \in JobIds, TimeReaches(j) \/ LeaseExpires(j)
      PROVE  TInv' /\ Good /\ PointersStep
    BY <1>4, <1>7, TimeStep DEF TimeReaches, LeaseExpires, vars, releaseVars
<1>8. ASSUME NEW w \in Workers, ClaimDueJobs(w)
      PROVE  TInv' /\ Good /\ PointersStep
    BY <1>4, <1>8, ClaimStep DEF ClaimDueJobs, vars, releaseVars
<1>9. ASSUME NEW w \in Workers, RetryClaimedJob(w)
      PROVE  TInv' /\ Good /\ PointersStep
    <2>1. UNCHANGED <<deployments, operations>>
        BY <1>9 DEF RetryClaimedJob, FailClaimedJob, vars, releaseVars
    <2> QED
        BY <1>4, <1>9, <2>1, RetryStep
<1>10. ASSUME NEW w \in Workers, ProcessingFails(w) \/ LoseBatch(w)
       PROVE  TInv' /\ Good /\ PointersStep
    BY <1>4, <1>10, WorkerFailureStep DEF ProcessingFails, LoseBatch, vars, releaseVars
<1>11. CASE ScheduleNext
    BY <1>3, <1>5, <1>6, <1>7, <1>8, <1>9, <1>10, <1>11 DEF ScheduleNext, WorkerStep
<1> QED
    BY <1>1, <1>2, <1>11 DEF AllNext

LEMMA ScheduleInitOK == ScheduleInit => TInv /\ SInv
<1> SUFFICES ASSUME ScheduleInit
             PROVE  TInv /\ SInv
    OBVIOUS
<1>1. TypeOK
    BY InitType DEF ScheduleInit
<1>2. /\ schedules = <<>> /\ jobs = <<>> /\ batches = [w \in Workers |-> <<>>]
      /\ errors = [w \in Workers |-> "none"] /\ crashes = 0
    BY DEF ScheduleInit
<1>3. /\ schedules \in Seq(Schedule) /\ jobs \in Seq(Job)
      /\ ScheduleIds = {} /\ JobIds = {}
    BY <1>2 DEF ScheduleIds, JobIds
<1>4. /\ batches \in [Workers -> Seq(Claim)]
      /\ \A w \in Workers : batches[w] = <<>>
    BY <1>2
<1>5. errors \in [Workers -> {"none", "transient", "entitlement"}] /\ crashes \in Nat
    BY <1>2
<1> QED
    BY <1>1, <1>3, <1>4, <1>5
    DEF TInv, ScheduleTypeOK, KeysOK, SInv, OneJobPerTransition, LeasedIsKnown,
        EndKnowsItsStart, EndHasItsStart, CompletedHasNoJobLeft

\* The invariant of schedules, jobs and claims beside releases of any kind.
LEMMA ScheduleInvariant == ScheduleSpec => [](TInv /\ SInv)
<1>1. ScheduleInit => TInv /\ SInv
    BY ScheduleInitOK
<1>2. TInv /\ SInv /\ [AllNext]_allVars => (TInv /\ SInv)'
    BY AllNextOK DEF Good
<1> QED
    BY <1>1, <1>2, PTL DEF ScheduleSpec

\* Schedules, jobs and the workers' claims keep their types whatever releases,
\* recoveries, other workers and crashes run between their transactions; the
\* attempts of a job never pass the limit its row checks.
THEOREM ScheduleTypes == ScheduleSpec => []ScheduleTypeOK
<1>1. TInv => ScheduleTypeOK
    BY DEF TInv
<1> QED
    BY <1>1, ScheduleInvariant, PTL

\* A settled job and a completed schedule never change again, and a cancelled
\* or failed schedule is never revived (the leases of processClaimedJob,
\* failClaimedJob and retryClaimedJob).  failClaimedJob does turn a cancelled
\* schedule into a failed one, when its job was leased as it was cancelled.
THEOREM SettledForGood == ScheduleSpec => SettledIsFinal
<1> DEFINE stays == JobsStaySettled /\ SchedulesStaySettled
<1>1. TInv /\ SInv /\ [AllNext]_allVars => [stays]_allVars
    BY AllNextOK DEF Good
<1> QED
    BY <1>1, ScheduleInvariant, PTL
    DEF ScheduleSpec, SettledIsFinal, JobsStaySettled, SchedulesStaySettled

-----------------------------------------------------------------------------
(* One cause for every move, people and workers together. *)

AppliedIn(e) == {j \in JobIds : /\ schedules[jobs[j].schedule].environment = e
                                /\ jobs[j].status = "completed"}

\* An applied job moved the pointer from the generation it expected.
JobsFit(e) ==
    \A j \in AppliedIn(e) :
        /\ jobs[j].resultGeneration \in 1..deployments[e].generation
        /\ jobs[j].resultGeneration = jobs[j].expectedGeneration + 1

NoTwoJobsAlike(e) ==
    \A i, j \in AppliedIn(e) :
        jobs[i].resultGeneration = jobs[j].resultGeneration => i = j

NoJobLikeARelease(e) ==
    \A o \in CompletedIn(e), j \in AppliedIn(e) :
        operations[o].resultGeneration # jobs[j].resultGeneration

EveryGenerationHasACause(e) ==
    \A g \in 1..deployments[e].generation :
        \/ \E o \in CompletedIn(e) : operations[o].resultGeneration = g
        \/ \E j \in AppliedIn(e) : jobs[j].resultGeneration = g

CausesFit(e) ==
    /\ CompletionsFit(e)
    /\ NoTwoMoveAlike(e)
    /\ JobsFit(e)
    /\ NoTwoJobsAlike(e)
    /\ NoJobLikeARelease(e)
    /\ EveryGenerationHasACause(e)

MInv == PromotionsToProduction /\ \A e \in Environments : CausesFit(e)

LEMMA QuietApplied ==
    ASSUME TInv, Quiet, NEW e
    PROVE  /\ AppliedIn(e)' = AppliedIn(e)
           /\ \A j \in AppliedIn(e) : jobs'[j] = jobs[j]
<1>1. \A j \in JobIds : jobs[j].status = "completed" => j \in JobIds' /\ jobs'[j] = jobs[j]
    BY DEF Quiet, Good, JobsStaySettled
<1>2. \A j \in JobIds :
          schedules'[jobs[j].schedule].environment = schedules[jobs[j].schedule].environment
    BY Rows DEF Quiet, Good
<1>3. \A j \in AppliedIn(e) : j \in AppliedIn(e)' /\ jobs'[j] = jobs[j]
    BY <1>1, <1>2 DEF AppliedIn
<1>4. \A j \in AppliedIn(e)' : j \in AppliedIn(e)
    BY <1>1, <1>2 DEF AppliedIn, Quiet
<1> QED
    BY <1>3, <1>4

LEMMA AppliedElsewhere ==
    ASSUME TInv, Good, NEW j \in JobIds, AppliedBy(j), NEW e
    PROVE  /\ schedules[jobs[j].schedule].environment # e => AppliedIn(e)' = AppliedIn(e)
           /\ schedules[jobs[j].schedule].environment = e =>
                 AppliedIn(e)' = AppliedIn(e) \union {j}
           /\ j \notin AppliedIn(e)
           /\ \A i \in AppliedIn(e) : jobs'[i] = jobs[i]
<1>1. \A i \in JobIds : jobs[i].status = "completed" => jobs'[i] = jobs[i]
    BY DEF Good, JobsStaySettled
<1>2. \A i \in JobIds :
          /\ schedules'[jobs'[i].schedule].environment = schedules[jobs[i].schedule].environment
          /\ i # j => jobs'[i].status = jobs[i].status
    BY Rows DEF Good, AppliedBy
<1>3. JobIds' = JobIds /\ jobs[j].status # "completed" /\ jobs'[j].status = "completed"
    BY DEF AppliedBy
<1> QED
    BY <1>1, <1>2, <1>3 DEF AppliedIn

\* The pointer of e stays, and nothing is added to its history.
LEMMA CausesStay ==
    ASSUME NEW e, CausesFit(e),
           deployments'[e].generation = deployments[e].generation,
           CompletedIn(e)' = CompletedIn(e),
           \A o \in CompletedIn(e) : operations'[o] = operations[o],
           AppliedIn(e)' = AppliedIn(e),
           \A j \in AppliedIn(e) : jobs'[j] = jobs[j]
    PROVE  CausesFit(e)'
<1>1. CompletionsFit(e)' /\ NoTwoMoveAlike(e)'
    BY DEF CausesFit, CompletionsFit, NoTwoMoveAlike
<1>2. JobsFit(e)' /\ NoTwoJobsAlike(e)'
    BY DEF CausesFit, JobsFit, NoTwoJobsAlike
<1>3. NoJobLikeARelease(e)' /\ EveryGenerationHasACause(e)'
    BY DEF CausesFit, NoJobLikeARelease, EveryGenerationHasACause
<1> QED
    BY <1>1, <1>2, <1>3 DEF CausesFit

\* The results in the history of e are those of its generations so far.
LEMMA ResultsSoFar ==
    ASSUME NEW e, CausesFit(e), deployments[e].generation \in Nat
    PROVE  /\ \A o \in CompletedIn(e) :
                 operations[o].resultGeneration # deployments[e].generation + 1
           /\ \A j \in AppliedIn(e) :
                 jobs[j].resultGeneration # deployments[e].generation + 1
           /\ 1..deployments[e].generation \subseteq 1..(deployments[e].generation + 1)
           /\ \A g \in 1..(deployments[e].generation + 1) :
                 g = deployments[e].generation + 1 \/ g \in 1..deployments[e].generation
    BY DEF CausesFit, CompletionsFit, JobsFit

LEMMA ReleaseIsTheCause ==
    ASSUME NEW e, CausesFit(e), deployments[e].generation \in Nat,
           NEW o, CompletedIn(e)' = CompletedIn(e) \union {o}, o \notin CompletedIn(e),
           \A x \in CompletedIn(e) : operations'[x] = operations[x],
           operations'[o].expectedGeneration = deployments[e].generation,
           operations'[o].resultGeneration = deployments[e].generation + 1,
           deployments'[e].generation = deployments[e].generation + 1,
           AppliedIn(e)' = AppliedIn(e),
           \A j \in AppliedIn(e) : jobs'[j] = jobs[j]
    PROVE  CausesFit(e)'
<1> DEFINE g == deployments[e].generation
<1>1. /\ \A x \in CompletedIn(e) : operations[x].resultGeneration # g + 1
      /\ \A j \in AppliedIn(e) : jobs[j].resultGeneration # g + 1
      /\ 1..g \subseteq 1..(g + 1)
      /\ \A h \in 1..(g + 1) : h = g + 1 \/ h \in 1..g
      /\ g + 1 \in 1..(g + 1)
    BY ResultsSoFar
<1>2. CompletionsFit(e)'
    BY <1>1 DEF CausesFit, CompletionsFit
<1>3. NoTwoMoveAlike(e)'
    BY <1>1 DEF CausesFit, NoTwoMoveAlike
<1>4. JobsFit(e)'
    BY <1>1 DEF CausesFit, JobsFit
<1>5. NoTwoJobsAlike(e)'
    BY DEF CausesFit, NoTwoJobsAlike
<1>6. NoJobLikeARelease(e)'
    BY <1>1 DEF CausesFit, NoJobLikeARelease
<1>7. EveryGenerationHasACause(e)'
    BY <1>1 DEF CausesFit, EveryGenerationHasACause
<1> QED
    BY <1>2, <1>3, <1>4, <1>5, <1>6, <1>7 DEF CausesFit

LEMMA JobIsTheCause ==
    ASSUME NEW e, CausesFit(e), deployments[e].generation \in Nat,
           NEW j, AppliedIn(e)' = AppliedIn(e) \union {j}, j \notin AppliedIn(e),
           \A i \in AppliedIn(e) : jobs'[i] = jobs[i],
           jobs'[j].expectedGeneration = deployments[e].generation,
           jobs'[j].resultGeneration = deployments[e].generation + 1,
           deployments'[e].generation = deployments[e].generation + 1,
           CompletedIn(e)' = CompletedIn(e),
           \A o \in CompletedIn(e) : operations'[o] = operations[o]
    PROVE  CausesFit(e)'
<1> DEFINE g == deployments[e].generation
<1>1. /\ \A x \in CompletedIn(e) : operations[x].resultGeneration # g + 1
      /\ \A i \in AppliedIn(e) : jobs[i].resultGeneration # g + 1
      /\ 1..g \subseteq 1..(g + 1)
      /\ \A h \in 1..(g + 1) : h = g + 1 \/ h \in 1..g
      /\ g + 1 \in 1..(g + 1)
    BY ResultsSoFar
<1>2. JobsFit(e)'
    BY <1>1 DEF CausesFit, JobsFit
<1>3. NoTwoJobsAlike(e)'
    BY <1>1 DEF CausesFit, NoTwoJobsAlike
<1>4. CompletionsFit(e)'
    BY <1>1 DEF CausesFit, CompletionsFit
<1>5. NoTwoMoveAlike(e)'
    BY DEF CausesFit, NoTwoMoveAlike
<1>6. NoJobLikeARelease(e)'
    BY <1>1 DEF CausesFit, NoJobLikeARelease
<1>7. EveryGenerationHasACause(e)'
    BY <1>1 DEF CausesFit, EveryGenerationHasACause
<1> QED
    BY <1>2, <1>3, <1>4, <1>5, <1>6, <1>7 DEF CausesFit

LEMMA CausesStep == TInv /\ SInv /\ MInv /\ [AllNext]_allVars => MInv'
<1> SUFFICES ASSUME TInv, SInv, MInv, [AllNext]_allVars
             PROVE  MInv'
    OBVIOUS
<1>1. Good /\ PointersStep
    BY AllNextOK
<1>2. TypeOK /\ \A e \in Environments : CausesFit(e) /\ deployments[e].generation \in Nat
    BY DEF TInv, ScheduleTypeOK, TypeOK, Deployment, MInv
<1>3. ASSUME UNCHANGED operations
      PROVE  /\ PromotionsToProduction'
             /\ \A e : CompletedIn(e)' = CompletedIn(e)
             /\ \A e : \A o \in CompletedIn(e) : operations'[o] = operations[o]
    BY <1>3 DEF MInv, PromotionsToProduction, CompletedIn, OperationIds
<1>4. CASE Quiet /\ UNCHANGED <<deployments, operations>>
    <2>1. ASSUME NEW e \in Environments
          PROVE  CausesFit(e)'
        BY <1>2, <1>3, <1>4, QuietApplied, CausesStay
    <2> QED
        BY <1>3, <1>4, <2>1 DEF MInv
<1>5. ASSUME NEW j \in JobIds, AppliedBy(j)
      PROVE  MInv'
    <2>1. PICK moved \in Environments :
          /\ moved = schedules[jobs[j].schedule].environment
          /\ jobs'[j].expectedGeneration = deployments[moved].generation
          /\ jobs'[j].resultGeneration = deployments[moved].generation + 1
          /\ deployments'[moved].generation = deployments[moved].generation + 1
          /\ \A x \in Environments \ {moved} : deployments'[x] = deployments[x]
          /\ UNCHANGED operations
        BY <1>5 DEF AppliedBy
    <2>2. ASSUME NEW e \in Environments \ {moved}
          PROVE  CausesFit(e)'
        <3>1. AppliedIn(e)' = AppliedIn(e) /\ \A i \in AppliedIn(e) : jobs'[i] = jobs[i]
            BY <1>1, <1>5, <2>1, AppliedElsewhere
        <3> QED
            BY <1>2, <1>3, <2>1, <3>1, CausesStay
    <2>3. CausesFit(moved)'
        <3>1. /\ AppliedIn(moved)' = AppliedIn(moved) \union {j} /\ j \notin AppliedIn(moved)
              /\ \A i \in AppliedIn(moved) : jobs'[i] = jobs[i]
            BY <1>1, <1>5, <2>1, AppliedElsewhere
        <3> QED
            BY <1>2, <1>3, <2>1, <3>1, JobIsTheCause
    <2> QED
        BY <1>3, <2>1, <2>2, <2>3 DEF MInv
<1>6. CASE Quiet /\ [Next]_vars /\ UNCHANGED tableVars
    <2>1. StepCaused /\ FinishedKept
        BY <1>2, <1>6, NextCaused, StepKeepsHistory DEF MInv
    <2>2. ASSUME NEW e \in Environments
          PROVE  CausesFit(e)'
        <3>1. AppliedIn(e)' = AppliedIn(e) /\ \A i \in AppliedIn(e) : jobs'[i] = jobs[i]
            BY <1>6, QuietApplied
        <3>2. CASE NothingMoves(e)
            <4>1. /\ CompletedIn(e)' = CompletedIn(e)
                  /\ \A o \in CompletedIn(e) : operations'[o] = operations[o]
                BY <2>1, <3>2, StillHistory
            <4> QED
                BY <1>2, <3>1, <3>2, <4>1, CausesStay DEF NothingMoves
        <3>3. ASSUME NEW o \in OperationIds', MovedBy(e, o)
              PROVE  CausesFit(e)'
            <4>1. /\ CompletedIn(e)' = CompletedIn(e) \union {o}
                  /\ o \notin CompletedIn(e)
                  /\ \A x \in CompletedIn(e) : operations'[x] = operations[x]
                BY <2>1, <3>3, MovedHistory
            <4>2. /\ operations'[o].expectedGeneration = deployments[e].generation
                  /\ operations'[o].resultGeneration = deployments[e].generation + 1
                  /\ deployments'[e].generation = deployments[e].generation + 1
                BY <3>3 DEF MovedBy
            <4> QED
                BY <1>2, <3>1, <4>1, <4>2, ReleaseIsTheCause
        <3> QED
            BY <2>1, <3>2, <3>3 DEF StepCaused
    <2> QED
        BY <2>1, <2>2 DEF MInv, StepCaused
<1> QED
    BY <1>1, <1>4, <1>5, <1>6 DEF PointersStep

LEMMA CausesInvariant == ScheduleSpec => []MInv
<1>1. ScheduleInit => MInv
    BY DEF ScheduleInit, Init, MInv, PromotionsToProduction, CausesFit, CompletionsFit,
           NoTwoMoveAlike, JobsFit, NoTwoJobsAlike, NoJobLikeARelease,
           EveryGenerationHasACause, CompletedIn, AppliedIn, OperationIds, JobIds
<1> QED
    BY <1>1, CausesStep, ScheduleInvariant, PTL DEF ScheduleSpec

\* Each generation of a pointer that people and workers move was made once, by
\* one completed operation or by one applied job, and by one that expected the
\* generation before it.
THEOREM OneCausePerMove == ScheduleSpec => []EveryMoveHasOneCause
<1>1. TInv /\ MInv => EveryMoveHasOneCause
    <2> SUFFICES ASSUME TInv, MInv, NEW e \in Environments,
                        NEW g \in 1..deployments[e].generation
                 PROVE  /\ Cardinality(MovedTo(e, g)) + Cardinality(AppliedTo(e, g)) = 1
                        /\ \A o \in MovedTo(e, g) : operations[o].expectedGeneration = g - 1
                        /\ \A j \in AppliedTo(e, g) : jobs[j].expectedGeneration = g - 1
        BY DEF EveryMoveHasOneCause
    <2>1. CausesFit(e)
        BY DEF MInv
    <2>2. /\ MovedTo(e, g) = {o \in CompletedIn(e) : operations[o].resultGeneration = g}
          /\ AppliedTo(e, g) = {j \in AppliedIn(e) : jobs[j].resultGeneration = g}
        BY DEF MovedTo, CompletedIn, AppliedTo, AppliedIn
    <2>3. \A o \in MovedTo(e, g) : operations[o].expectedGeneration = g - 1
        <3> SUFFICES ASSUME NEW o \in MovedTo(e, g)
                     PROVE  operations[o].expectedGeneration = g - 1
            OBVIOUS
        <3>1. operations[o] \in Operation
            BY ElementOfSeq DEF MovedTo, OperationIds, TInv, ScheduleTypeOK, TypeOK
        <3>2. operations[o].expectedGeneration \in Nat
            BY <3>1 DEF Operation
        <3> QED
            BY <2>1, <2>2, <3>2 DEF CausesFit, CompletionsFit
    <2>4. \A j \in AppliedTo(e, g) : jobs[j].expectedGeneration = g - 1
        <3> SUFFICES ASSUME NEW j \in AppliedTo(e, g)
                     PROVE  jobs[j].expectedGeneration = g - 1
            OBVIOUS
        <3>1. jobs[j] \in Job
            BY Rows DEF AppliedTo
        <3>2. jobs[j].expectedGeneration \in Int
            BY <3>1 DEF Job, Unknown
        <3> QED
            BY <2>1, <2>2, <3>2 DEF CausesFit, JobsFit
    <2>5. \/ \E o : MovedTo(e, g) = {o} /\ AppliedTo(e, g) = {}
          \/ \E j : AppliedTo(e, g) = {j} /\ MovedTo(e, g) = {}
        <3>1. CASE \E o \in CompletedIn(e) : operations[o].resultGeneration = g
            <4>1. PICK o \in CompletedIn(e) : operations[o].resultGeneration = g
                BY <3>1
            <4>2. MovedTo(e, g) = {o} /\ AppliedTo(e, g) = {}
                BY <2>1, <2>2, <4>1 DEF CausesFit, NoTwoMoveAlike, NoJobLikeARelease
            <4> QED
                BY <4>2
        <3>2. CASE \E j \in AppliedIn(e) : jobs[j].resultGeneration = g
            <4>1. PICK j \in AppliedIn(e) : jobs[j].resultGeneration = g
                BY <3>2
            <4>2. AppliedTo(e, g) = {j} /\ MovedTo(e, g) = {}
                BY <2>1, <2>2, <4>1 DEF CausesFit, NoTwoJobsAlike, NoJobLikeARelease
            <4> QED
                BY <4>2
        <3> QED
            BY <2>1, <3>1, <3>2 DEF CausesFit, EveryGenerationHasACause
    <2>6. Cardinality(MovedTo(e, g)) + Cardinality(AppliedTo(e, g)) = 1
        <3>1. Cardinality({}) = 0 /\ \A x : Cardinality({x}) = 1
            BY FS_EmptySet, FS_Singleton
        <3>2. CASE \E o : MovedTo(e, g) = {o} /\ AppliedTo(e, g) = {}
            <4>1. Cardinality(MovedTo(e, g)) = 1 /\ Cardinality(AppliedTo(e, g)) = 0
                BY <3>1, <3>2
            <4> QED
                BY <4>1
        <3>3. CASE \E j : AppliedTo(e, g) = {j} /\ MovedTo(e, g) = {}
            <4>1. Cardinality(MovedTo(e, g)) = 0 /\ Cardinality(AppliedTo(e, g)) = 1
                BY <3>1, <3>3
            <4> QED
                BY <4>1
        <3> QED
            BY <2>5, <3>2, <3>3
    <2> QED
        BY <2>3, <2>4, <2>6
<1> QED
    BY <1>1, ScheduleInvariant, CausesInvariant, PTL

\* A scheduled end takes down what its own start put up, with nothing between
\* the two: it is only told its generation by its start (completeClaimedJob).
THEOREM EndsUndoTheirStarts == ScheduleSpec => []EndUndoesItsOwnStart
<1>1. TInv /\ SInv /\ MInv => EndUndoesItsOwnStart
    <2> SUFFICES ASSUME TInv, SInv, MInv, NEW j \in JobIds,
                        jobs[j].transition = "end", jobs[j].status = "completed"
                 PROVE  \E i \in JobIds :
                            /\ jobs[i].schedule = jobs[j].schedule
                            /\ jobs[i].transition = "start"
                            /\ jobs[i].status = "completed"
                            /\ jobs[i].resultGeneration + 1 = jobs[j].resultGeneration
        BY DEF EndUndoesItsOwnStart
    <2> DEFINE e == schedules[jobs[j].schedule].environment
    <2>1. e \in Environments /\ j \in AppliedIn(e) /\ deployments[e].generation \in Nat
        BY Rows DEF Schedule, AppliedIn, TInv, ScheduleTypeOK, TypeOK, Deployment
    <2>2. /\ jobs[j].resultGeneration = jobs[j].expectedGeneration + 1
          /\ jobs[j].resultGeneration >= 1
        BY <2>1 DEF MInv, CausesFit, JobsFit
    <2>3. jobs[j].expectedGeneration # Unknown
        BY <2>2 DEF Unknown
    <2>4. PICK i \in JobIds : /\ jobs[i].schedule = jobs[j].schedule
                              /\ jobs[i].transition = "start"
        BY DEF SInv, EndHasItsStart
    <2>5. /\ jobs[i].status = "completed"
          /\ jobs[i].resultGeneration = jobs[j].expectedGeneration
        BY <2>3, <2>4 DEF SInv, EndKnowsItsStart
    <2> QED
        BY <2>2, <2>4, <2>5
<1> QED
    BY <1>1, ScheduleInvariant, CausesInvariant, PTL

-----------------------------------------------------------------------------
(* What is promised of releases holds beside schedules and workers too.    *)
(* Of the release tables they write only publications pinned for a         *)
(* scheduled promotion and the pointers; operations, approvals,            *)
(* verifications and policies are not theirs.                              *)

\* A schedule pins what another environment has verified.
PinsPromotion ==
    \E row : \E source \in everVerified :
        /\ publications' = Append(publications, row)
        /\ row.environment \in Environments
        /\ publications[source].environment # row.environment
        /\ row.artifact = publications[source].artifact

AppliesSchedule ==
    \E s \in ScheduleIds : \E p \in {None, schedules[s].publication} :
        deployments' = Move(schedules[s].environment, p)

SchedulesWrite ==
    /\ UNCHANGED <<operations, approvals, verified, everVerified, policies, roles, plan>>
    /\ UNCHANGED publications \/ PinsPromotion
    /\ UNCHANGED deployments \/ AppliesSchedule

\* Schedules keep what they pin, and a new one pins a publication of its own
\* environment.
SchedulesPin ==
    /\ \A s \in ScheduleIds : /\ schedules'[s].publication = schedules[s].publication
                              /\ schedules'[s].environment = schedules[s].environment
    /\ \A s \in ScheduleIds' \ ScheduleIds :
          publications'[schedules'[s].publication].environment = schedules'[s].environment

LEMMA PinsUntouched ==
    ASSUME UNCHANGED schedules
    PROVE  SchedulesPin
    BY DEF SchedulesPin, ScheduleIds

LEMMA TablesUntouched ==
    ASSUME UNCHANGED vars
    PROVE  SchedulesWrite
    BY DEF SchedulesWrite, vars, releaseVars, verificationVars, governanceVars

LEMMA StatusPins ==
    ASSUME TInv, NEW s \in ScheduleIds,
           NEW status \in {"scheduled", "active", "completed", "cancelled", "failed"},
           schedules' = [schedules EXCEPT ![s].status = status]
    PROVE  SchedulesPin
    BY StatusSet DEF SchedulesPin

LEMMA CreatePins ==
    ASSUME TInv, NEW u \in Users, NEW e \in Environments, NEW source \in PublicationIds,
           NEW hasEnd \in BOOLEAN, CreateDeploymentSchedule(u, e, source, hasEnd)
    PROVE  SchedulesWrite /\ SchedulesPin
<1> DEFINE promotes == publications[source].environment # e
           row == [environment |-> e, artifact |-> publications[source].artifact,
                   action |-> "promote", source |-> source,
                   previous |-> deployments[e].active, operation |-> None]
           schedule == [environment |-> e,
                        publication |-> IF promotes THEN NextPublication ELSE source,
                        expectedGeneration |-> deployments[e].generation,
                        createdUnderApproval |-> policies[e].requiredApprovals > 0,
                        status |-> "scheduled"]
           n == Len(schedules) + 1
<1>1. /\ publications' = IF promotes THEN Append(publications, row) ELSE publications
      /\ schedules' = Append(schedules, schedule)
      /\ promotes => source \in everVerified
      /\ UNCHANGED <<deployments, operations, approvals, verified, everVerified,
                     policies, roles, plan>>
    BY DEF CreateDeploymentSchedule, MayPinPromotion, verificationVars, governanceVars
<1>2. /\ row.environment = e /\ row.artifact = publications[source].artifact
      /\ schedule.environment = e
      /\ schedule.publication = IF promotes THEN NextPublication ELSE source
    OBVIOUS
<1> HIDE DEF row
<1>3. SchedulesWrite
    <2>1. CASE promotes
        <3>1. PinsPromotion
            BY <1>1, <1>2, <2>1 DEF PinsPromotion
        <3> QED
            BY <1>1, <3>1 DEF SchedulesWrite
    <2>2. CASE ~promotes
        BY <1>1, <2>2 DEF SchedulesWrite
    <2> QED
        BY <2>1, <2>2
<1>4. /\ ScheduleIds' = ScheduleIds \union {n}
      /\ \A s \in ScheduleIds : schedules'[s] = schedules[s]
    BY CreateEffect
<1>5. schedules'[n] = schedule
    BY <1>1 DEF TInv, ScheduleTypeOK
<1>6. publications'[schedule.publication].environment = e
    <2>1. CASE promotes
        <3>1. publications'[NextPublication] = row
            BY <1>1, <2>1, PublicationAppended DEF TInv, ScheduleTypeOK, TypeOK
        <3> QED
            BY <1>2, <2>1, <3>1
    <2>2. CASE ~promotes
        BY <1>1, <1>2, <2>2
    <2> QED
        BY <2>1, <2>2
<1> HIDE DEF schedule
<1> QED
    BY <1>2, <1>3, <1>4, <1>5, <1>6 DEF SchedulesPin

LEMMA ProcessWrites ==
    ASSUME TInv, NEW w \in Workers, ProcessClaimedJob(w)
    PROVE  SchedulesWrite /\ SchedulesPin
<1> DEFINE claim == Head(batches[w])
           job == jobs[claim.job]
           schedule == schedules[job.schedule]
           p == IF job.transition = "start" THEN schedule.publication ELSE None
<1>1. job.schedule \in ScheduleIds
    BY FirstClaim, Rows DEF ProcessClaimedJob
<1>2. CASE UNCHANGED <<vars, schedules>>
    BY <1>2, PinsUntouched, TablesUntouched
<1>3. CASE FailClaimedJob(claim.job)
    BY <1>1, <1>3, StatusPins, TablesUntouched DEF FailClaimedJob
<1>4. CASE /\ MovePointer(schedule.environment, p)
           /\ CompleteClaimedJob(claim.job, deployments[schedule.environment].generation + 1)
    <2>1. AppliesSchedule
        BY <1>1, <1>4 DEF AppliesSchedule, MovePointer
    <2>2. SchedulesWrite
        BY <1>4, <2>1 DEF SchedulesWrite, MovePointer, verificationVars, governanceVars
    <2>3. SchedulesPin
        <3>1. PICK status \in {"active", "completed"} :
                  schedules' = [schedules EXCEPT ![job.schedule].status = status]
            BY <1>4 DEF CompleteClaimedJob
        <3> QED
            BY <1>1, <3>1, StatusPins
    <2> QED
        BY <2>2, <2>3
<1> QED
    BY <1>2, <1>3, <1>4 DEF ProcessClaimedJob, tableVars

LEMMA StepWrites ==
    ASSUME TInv, [AllNext]_allVars
    PROVE  SchedulesPin /\ (SchedulesWrite \/ [Next]_vars)
<1>1. CASE Next /\ UNCHANGED scheduleVars
    BY <1>1, PinsUntouched DEF scheduleVars, tableVars
<1>2. CASE UNCHANGED allVars
    BY <1>2, PinsUntouched DEF allVars, scheduleVars, tableVars
<1>3. ASSUME NEW s \in ScheduleIds, NEW u \in Users, CancelDeploymentSchedule(u, s)
      PROVE  SchedulesPin /\ SchedulesWrite
    BY <1>3, StatusPins, TablesUntouched DEF CancelDeploymentSchedule
<1>4. ASSUME NEW w \in Workers, RetryClaimedJob(w)
      PROVE  SchedulesPin /\ SchedulesWrite
    <2> DEFINE j == Head(batches[w]).job
    <2>1. jobs[j].schedule \in ScheduleIds
        BY <1>4, FirstClaim, Rows DEF RetryClaimedJob
    <2>2. CASE UNCHANGED <<vars, schedules>>
        BY <2>2, PinsUntouched, TablesUntouched
    <2>3. CASE FailClaimedJob(j)
        BY <2>1, <2>3, StatusPins, TablesUntouched DEF FailClaimedJob
    <2> QED
        BY <1>4, <2>2, <2>3 DEF RetryClaimedJob, tableVars
<1>5. ASSUME NEW j \in JobIds, TimeReaches(j) \/ LeaseExpires(j)
      PROVE  SchedulesPin /\ SchedulesWrite
    BY <1>5, PinsUntouched, TablesUntouched DEF TimeReaches, LeaseExpires
<1>6. ASSUME NEW w \in Workers, ClaimDueJobs(w) \/ ProcessingFails(w) \/ LoseBatch(w)
      PROVE  SchedulesPin /\ SchedulesWrite
    BY <1>6, PinsUntouched, TablesUntouched
    DEF ClaimDueJobs, ProcessingFails, LoseBatch, tableVars
<1>7. CASE ScheduleNext
    BY <1>3, <1>4, <1>5, <1>6, <1>7, CreatePins, ProcessWrites
    DEF ScheduleNext, WorkerStep
<1> QED
    BY <1>1, <1>2, <1>7 DEF AllNext

\* None of these writes changes a row that exists.
LEMMA WritesKeepHistory ==
    ASSUME TInv, SchedulesWrite
    PROVE  PublicationsKept /\ FinishedKept
<1>1. publications \in Seq(Publication) /\ operations \in Seq(Operation)
    BY DEF TInv, ScheduleTypeOK, TypeOK
<1>2. PublicationsKept
    BY <1>1, PublicationsGrow DEF SchedulesWrite, PinsPromotion, PublicationsKept, PublicationIds
<1> QED
    BY <1>2 DEF SchedulesWrite, FinishedKept, OperationIds

LEMMA AllKeepsHistory ==
    TInv /\ [AllNext]_allVars => PublicationsKept /\ FinishedKept
    BY StepWrites, WritesKeepHistory, StepKeepsHistory DEF TInv, ScheduleTypeOK

\* Publications are only ever added, and a finished operation never changes,
\* also when schedules pin publications and workers move the pointers.
THEOREM HistoryAppendOnlyBesideWorkers == ScheduleSpec => HistoryIsAppendOnly
<1> DEFINE kept == PublicationsKept /\ FinishedKept
<1>1. TInv /\ [AllNext]_allVars => [kept]_vars
    BY AllKeepsHistory
<1> QED
    BY <1>1, ScheduleInvariant, PTL
    DEF ScheduleSpec, HistoryIsAppendOnly, PublicationsKept, FinishedKept

\* A rejection stays final: no job completes the operation it names, and none
\* is tried again.
THEOREM RejectionFinalBesideWorkers == ScheduleSpec => []RejectionIsFinal
<1>1. ScheduleInit => RejectionIsFinal
    BY DEF ScheduleInit, Init, RejectionIsFinal
<1>2. TInv /\ RejectionIsFinal /\ [AllNext]_allVars => RejectionIsFinal'
    <2> SUFFICES ASSUME TInv, RejectionIsFinal, [AllNext]_allVars
                 PROVE  RejectionIsFinal'
        OBVIOUS
    <2>1. CASE SchedulesWrite
        BY <2>1 DEF SchedulesWrite, RejectionIsFinal
    <2>2. CASE [Next]_vars
        BY <2>2, RejectionStays DEF TInv, ScheduleTypeOK
    <2> QED
        BY <2>1, <2>2, StepWrites
<1> QED
    BY <1>1, <1>2, ScheduleInvariant, PTL DEF ScheduleSpec

LEMMA EyesBesideWorkers == ScheduleSpec => []EyesInv
<1>1. ScheduleInit => EyesInv
    BY DEF ScheduleInit, Init, EyesInv, SignedByOthers, ValidPolicies
<1>2. TInv /\ MInv /\ EyesInv /\ [AllNext]_allVars => EyesInv'
    <2> SUFFICES ASSUME TInv, MInv, EyesInv, [AllNext]_allVars
                 PROVE  EyesInv'
        OBVIOUS
    <2>1. CASE SchedulesWrite
        BY <2>1 DEF SchedulesWrite, EyesInv, SignedByOthers
    <2>2. CASE [Next]_vars
        BY <2>2, SignedStep DEF TInv, ScheduleTypeOK, MInv
    <2> QED
        BY <2>1, <2>2, StepWrites
<1> QED
    BY <1>1, <1>2, ScheduleInvariant, CausesInvariant, PTL DEF ScheduleSpec

\* A promotion still completes only with the approvals of others that the
\* policy asks for: a scheduled promotion is no operation, and completes none.
THEOREM FourEyesBesideWorkers == ScheduleSpec => FourEyes
<1>1. TInv /\ MInv /\ EyesInv /\ [AllNext]_allVars => [CompletionsAreSigned]_vars
    <2> SUFFICES ASSUME TInv, MInv, EyesInv, [AllNext]_allVars
                 PROVE  CompletionsAreSigned
        OBVIOUS
    <2>1. CASE SchedulesWrite
        BY <2>1 DEF SchedulesWrite, CompletionsAreSigned, OperationIds
    <2>2. CASE [Next]_vars
        BY <2>2, StepIsSigned DEF TInv, ScheduleTypeOK, MInv
    <2> QED
        BY <2>1, <2>2, StepWrites
<1>2. ScheduleSpec => [][CompletionsAreSigned]_vars
    BY <1>1, EyesBesideWorkers, ScheduleInvariant, CausesInvariant, PTL DEF ScheduleSpec
<1> QED
    BY <1>2 DEF FourEyes, CompletionsAreSigned, SeparateApprovers

\* What an environment shows, and what its schedules pin, is its own.
PinsAreOwn ==
    \A s \in ScheduleIds :
        publications[schedules[s].publication].environment = schedules[s].environment

LEMMA PinsStayOwn ==
    ASSUME TInv, PinsAreOwn, [AllNext]_allVars
    PROVE  PinsAreOwn'
<1>1. \A p \in PublicationIds : publications'[p] = publications[p]
    BY AllKeepsHistory DEF PublicationsKept
<1> QED
    BY <1>1, Rows, StepWrites DEF SchedulesPin, PinsAreOwn

LEMMA LiveStaysOwn ==
    ASSUME TInv, MInv, LiveIsOwn, PinsAreOwn, [AllNext]_allVars
    PROVE  LiveIsOwn'
<1>1. \A p \in PublicationIds : p \in PublicationIds' /\ publications'[p] = publications[p]
    BY AllKeepsHistory DEF PublicationsKept, PublicationIds
<1>2. ASSUME NEW e \in Environments, deployments'[e].active = deployments[e].active
      PROVE  deployments'[e].active # None =>
                 /\ deployments'[e].active \in PublicationIds'
                 /\ publications'[deployments'[e].active].environment = e
    BY <1>1, <1>2 DEF LiveIsOwn
<1>3. CASE [Next]_vars
    <2>1. StepCaused
        BY <1>3, NextCaused DEF TInv, ScheduleTypeOK, MInv
    <2>2. ASSUME NEW e \in Environments, NEW o, MovedBy(e, o), deployments'[e].active # None
          PROVE  /\ deployments'[e].active \in PublicationIds'
                 /\ publications'[deployments'[e].active].environment = e
        BY <2>2 DEF MovedBy, Backed
    <2> QED
        BY <1>2, <2>1, <2>2 DEF StepCaused, NothingMoves, LiveIsOwn
<1>4. CASE UNCHANGED deployments
    BY <1>2, <1>4 DEF LiveIsOwn
<1>5. ASSUME NEW s \in ScheduleIds, NEW p \in {None, schedules[s].publication},
             deployments' = Move(schedules[s].environment, p)
      PROVE  LiveIsOwn'
    <2> DEFINE moved == schedules[s].environment
    <2>1. /\ moved \in Environments /\ p \in Nat
          /\ deployments \in [Environments -> Deployment]
        BY Rows DEF Schedule, None, TInv, ScheduleTypeOK, TypeOK
    <2>2. /\ deployments'[moved].active = p
          /\ \A e \in Environments \ {moved} : deployments'[e] = deployments[e]
        BY <1>5, <2>1 DEF Move
    <2>3. p # None => p \in PublicationIds /\ publications[p].environment = moved
        BY Rows DEF PinsAreOwn
    <2> QED
        BY <1>1, <1>2, <2>2, <2>3 DEF LiveIsOwn
<1> QED
    BY <1>3, <1>4, <1>5, StepWrites DEF SchedulesWrite, AppliesSchedule

LEMMA OwnBesideWorkers == ScheduleSpec => [](LiveIsOwn /\ PinsAreOwn)
<1>1. ScheduleInit => LiveIsOwn /\ PinsAreOwn
    BY DEF ScheduleInit, Init, LiveIsOwn, PinsAreOwn, ScheduleIds
<1>2. TInv /\ MInv /\ LiveIsOwn /\ PinsAreOwn /\ [AllNext]_allVars => (LiveIsOwn /\ PinsAreOwn)'
    BY LiveStaysOwn, PinsStayOwn
<1> QED
    BY <1>1, <1>2, ScheduleInvariant, CausesInvariant, PTL DEF ScheduleSpec

\* What is pinned for a promotion to production was verified on staging.
LEMMA PinsAreVerified ==
    ASSUME TInv, VInv, SchedulesWrite
    PROVE  VInv'
<1>1. /\ verified' = verified /\ everVerified' = everVerified
      /\ verified \subseteq everVerified
      /\ publications \in Seq(Publication)
    BY DEF SchedulesWrite, VInv, TInv, ScheduleTypeOK, TypeOK
<1>2. \A p \in PublicationIds : p \in PublicationIds' /\ publications'[p] = publications[p]
    BY WritesKeepHistory DEF PublicationsKept, PublicationIds
<1>3. everVerified \subseteq PublicationIds
    BY <1>1, LenProperties DEF TInv, ScheduleTypeOK, TypeOK, PublicationIds
<1> DEFINE Shown(artifact) == \E s \in everVerified : /\ publications[s].environment = "staging"
                                                      /\ publications[s].artifact = artifact
<1>4. \A p \in PublicationIds :
          publications[p].environment = "production" => Shown(publications[p].artifact)
    BY DEF VInv, ProductionWasVerifiedOnStaging
<1>5. ASSUME NEW p \in PublicationIds' \ PublicationIds, publications'[p].environment = "production"
      PROVE  Shown(publications'[p].artifact)
    <2>1. PICK row, source :
              /\ source \in everVerified
              /\ publications' = Append(publications, row)
              /\ publications[source].environment # row.environment
              /\ row.artifact = publications[source].artifact
        BY <1>5 DEF SchedulesWrite, PinsPromotion, PublicationIds
    <2>2. publications'[p] = row
        <3>1. TypeOK
            BY DEF TInv, ScheduleTypeOK
        <3>2. p = NextPublication
            BY <1>5, <2>1, <3>1, AppendedDomain
        <3> QED
            BY <2>1, <3>1, <3>2, PublicationAppended
    <2>3. publications[source].environment = "staging"
        <3>1. source \in 1..Len(publications)
            BY <1>1, <1>3, <2>1, LenProperties DEF PublicationIds
        <3>2. publications[source] \in Publication
            BY <1>1, <3>1, ElementOfSeq
        <3>3. publications[source].environment \in Environments
            BY <3>2 DEF Publication
        <3> QED
            BY <1>5, <2>1, <2>2, <3>3 DEF Environments
    <2> QED
        BY <2>1, <2>2, <2>3
<1>6. \A p \in PublicationIds' :
          publications'[p].environment = "production" => Shown(publications'[p].artifact)
    BY <1>2, <1>4, <1>5
<1>7. ASSUME NEW artifact, Shown(artifact)
      PROVE  \E s \in everVerified' : /\ publications'[s].environment = "staging"
                                      /\ publications'[s].artifact = artifact
    BY <1>1, <1>2, <1>3, <1>7
<1> HIDE DEF Shown
<1> QED
    BY <1>1, <1>6, <1>7 DEF VInv, ProductionWasVerifiedOnStaging

\* Nothing reaches production that was not verified on staging, neither by
\* releases nor by schedules, which ask for some verification that has passed
\* (createDeploymentSchedule) and apply what they pinned whatever has been
\* verified since.
THEOREM VerifiedBesideWorkers == ScheduleSpec => []ProductionWasVerifiedOnStaging
<1>1. ScheduleInit => VInv
    BY DEF ScheduleInit, Init, VInv, ProductionWasVerifiedOnStaging, PublicationIds
<1>2. TInv /\ LiveIsOwn /\ VInv /\ [AllNext]_allVars => VInv'
    BY StepWrites, PinsAreVerified, VerifiedStep DEF TInv, ScheduleTypeOK
<1>3. VInv => ProductionWasVerifiedOnStaging
    BY DEF VInv
<1> QED
    BY <1>1, <1>2, <1>3, OwnBesideWorkers, ScheduleInvariant, PTL DEF ScheduleSpec

-----------------------------------------------------------------------------
(* A promotion that awaits approval while workers move the pointer.  With  *)
(* the types this is inductive as it stands: who moves production leaves   *)
(* nothing pending there and every promotion that awaits approval behind.  *)

LEMMA AwaitedRow ==
    ASSUME TypeOK
    PROVE  /\ deployments \in [Environments -> Deployment] /\ operations \in Seq(Operation)
           /\ "production" \in Environments /\ "staging" \in Environments
           /\ deployments["production"].generation \in Nat
           /\ deployments["production"].pending \in OperationIds \union {None}
           /\ None \notin OperationIds
           /\ \A o \in OperationIds : /\ operations[o] \in Operation
                                      /\ operations[o].expectedGeneration \in Nat
<1>1. /\ deployments \in [Environments -> Deployment] /\ operations \in Seq(Operation)
      /\ "production" \in Environments /\ "staging" \in Environments
    BY DEF TypeOK, Environments
<1>2. OperationIds = 1..Len(operations) /\ Len(operations) \in Nat
    BY <1>1, LenProperties DEF OperationIds
<1>3. deployments["production"].pending \in 0..Len(operations)
    BY <1>1 DEF TypeOK
<1>4. \A o \in OperationIds : operations[o] \in Operation
    BY <1>1, <1>2, ElementOfSeq
<1>5. \A o \in OperationIds : operations[o].expectedGeneration \in Nat
    BY <1>4 DEF Operation
<1>6. deployments["production"].generation \in Nat
    BY <1>1 DEF Deployment
<1>7. deployments["production"].pending \in OperationIds \union {None} /\ None \notin OperationIds
    BY <1>2, <1>3 DEF None
<1> QED
    BY <1>1, <1>4, <1>5, <1>6, <1>7

\* No operation begins to await approval, or is changed while it does.
NobodyBeginsToAwait ==
    \A o \in OperationIds' : operations'[o].status = "awaiting_approval" =>
        o \in OperationIds /\ operations'[o] = operations[o]

LEMMA PointerPasses ==
    ASSUME TypeOK, TypeOK', AwaitedIsPendingOrOvertaken, NobodyBeginsToAwait,
           deployments'["staging"].pending = None,
           deployments'["production"].pending = None,
           deployments'["production"].generation = deployments["production"].generation + 1
    PROVE  AwaitedIsPendingOrOvertaken'
<1>1. /\ deployments["production"].generation \in Nat
      /\ \A o \in OperationIds : operations[o].expectedGeneration \in Nat
    BY AwaitedRow
<1>2. None \notin OperationIds'
    BY LenProperties DEF TypeOK, OperationIds, None
<1>3. ASSUME NEW o \in OperationIds', operations'[o].status = "awaiting_approval"
      PROVE  /\ operations'[o].environment = "production"
             /\ operations'[o].action = "promote"
             /\ operations'[o].expectedGeneration < deployments'["production"].generation
             /\ o # None
    <2>1. /\ o \in OperationIds /\ operations'[o] = operations[o]
          /\ operations[o].status = "awaiting_approval"
        BY <1>3 DEF NobodyBeginsToAwait
    <2>2. /\ operations[o].environment = "production" /\ operations[o].action = "promote"
          /\ operations[o].expectedGeneration <= deployments["production"].generation
        BY <1>1, <2>1 DEF AwaitedIsPendingOrOvertaken, Awaits
    <2> QED
        BY <1>1, <1>2, <2>1, <2>2
<1> QED
    BY <1>3 DEF AwaitedIsPendingOrOvertaken, Awaits

LEMMA PointerStays ==
    ASSUME TypeOK, TypeOK', AwaitedIsPendingOrOvertaken, NobodyBeginsToAwait,
           deployments'["staging"].pending = None,
           deployments'["production"].generation = deployments["production"].generation,
           \/ /\ deployments'["production"].pending = deployments["production"].pending
              /\ deployments["production"].pending \in OperationIds =>
                    /\ deployments["production"].pending \in OperationIds'
                    /\ operations'[deployments["production"].pending]
                          = operations[deployments["production"].pending]
           \/ /\ deployments'["production"].pending = None
              /\ deployments["production"].pending \in OperationIds' =>
                    operations'[deployments["production"].pending].status
                        # "awaiting_approval"
    PROVE  AwaitedIsPendingOrOvertaken'
<1> DEFINE pending == deployments["production"].pending
<1>1. pending \in OperationIds \union {None} /\ None \notin OperationIds
    BY AwaitedRow
<1>2. deployments'["production"].pending # None =>
          operations'[deployments'["production"].pending].status = "awaiting_approval"
    BY <1>1 DEF AwaitedIsPendingOrOvertaken, Awaits
<1>3. ASSUME NEW o \in OperationIds', operations'[o].status = "awaiting_approval"
      PROVE  /\ operations'[o].environment = "production"
             /\ operations'[o].action = "promote"
             /\ IF deployments'["production"].pending = o
                THEN operations'[o].expectedGeneration = deployments'["production"].generation
                ELSE operations'[o].expectedGeneration < deployments'["production"].generation
    <2>1. /\ o \in OperationIds /\ operations'[o] = operations[o]
          /\ operations[o].status = "awaiting_approval"
        BY <1>3 DEF NobodyBeginsToAwait
    <2>2. deployments'["production"].pending = o <=> pending = o
        BY <1>1, <1>3, <2>1
    <2> QED
        BY <2>1, <2>2 DEF AwaitedIsPendingOrOvertaken, Awaits
<1> QED
    BY <1>2, <1>3 DEF AwaitedIsPendingOrOvertaken, Awaits

\* A row that does not await approval is appended.
LEMMA AppendedBesideAwaited ==
    ASSUME TypeOK, TypeOK', AwaitedIsPendingOrOvertaken, NEW row \in Operation,
           row.status # "awaiting_approval",
           operations' = Append(operations, row),
           deployments'["staging"].pending = None,
           \/ /\ deployments'["production"].pending = deployments["production"].pending
              /\ deployments'["production"].generation = deployments["production"].generation
           \/ /\ deployments'["production"].pending = None
              /\ deployments'["production"].generation
                    = deployments["production"].generation + 1
    PROVE  AwaitedIsPendingOrOvertaken'
<1>1. /\ OperationIds' = OperationIds \union {NextOperation}
      /\ operations'[NextOperation] = row
      /\ \A x \in OperationIds : operations'[x] = operations[x]
    BY AppendedRow DEF TypeOK
<1>2. NobodyBeginsToAwait
    BY <1>1 DEF NobodyBeginsToAwait
<1> QED
    BY <1>1, <1>2, PointerPasses, PointerStays

LEMMA ActivateBesideAwaited ==
    ASSUME TypeOK, TypeOK', AwaitedIsPendingOrOvertaken,
           NEW u \in Users, NEW k \in Keys, NEW artifact \in Artifacts,
           NEW g \in ReadGenerations("staging"),
           ActivateCompiledArtifact(u, k, artifact, g)
    PROVE  AwaitedIsPendingOrOvertaken'
<1> DEFINE e == "staging"
           actual == deployments[e].generation
           request == NewOperation(e, "publish", k, u, g, None)
<1>1. request \in Operation /\ actual \in Nat
    BY RequestInOperation DEF Environments, None
<1>2. /\ actual + 1 \in Nat /\ NextPublication \in Nat
      /\ deployments \in [Environments -> Deployment]
      /\ e \in Environments /\ "production" \in Environments \ {e}
    BY <1>1 DEF TypeOK, NextPublication, Environments
<1>3. deployments[e].pending = None
    BY DEF AwaitedIsPendingOrOvertaken
<1> HIDE DEF request
<1>4. CASE /\ operations' = Append(operations, Failed(request, actual, "deployment_changed"))
           /\ UNCHANGED deployments
    <2>1. /\ Failed(request, actual, "deployment_changed") \in Operation
          /\ Failed(request, actual, "deployment_changed").status = "failed"
        BY <1>1, FailedType
    <2> QED
        BY <1>3, <1>4, <2>1, AppendedBesideAwaited
<1>5. CASE /\ operations' = Append(operations, Completed(request, actual + 1, NextPublication))
           /\ deployments' = Move(e, NextPublication)
    <2>1. /\ Completed(request, actual + 1, NextPublication) \in Operation
          /\ Completed(request, actual + 1, NextPublication).status = "completed"
        BY <1>1, <1>2, CompletedType
    <2>2. /\ deployments'[e].pending = None
          /\ deployments'["production"] = deployments["production"]
        BY <1>2, <1>5, MoveType
    <2> QED
        BY <1>5, <2>1, <2>2, AppendedBesideAwaited
<1> QED
    BY <1>4, <1>5 DEF ActivateCompiledArtifact, request

LEMMA RecoverBesideAwaited ==
    ASSUME TypeOK, TypeOK', AwaitedIsPendingOrOvertaken,
           NEW u \in Users, NEW e \in Environments, NEW k \in Keys,
           NEW action \in {"rollback", "unpublish"},
           NEW target, action = "rollback" => target \in PublicationIds,
           NEW g \in ReadGenerations(e),
           RecoverDocumentRelease(u, e, k, action, target, g)
    PROVE  AwaitedIsPendingOrOvertaken'
<1> DEFINE refusal == RecoveryRefusal(u, e, action, target, g)
           request == NewOperation(e, action, k, u, g, None)
           actual == deployments[e].generation
<1>1. request \in Operation /\ actual \in Nat
    BY RequestInOperation DEF None
<1>2. /\ NextPublication \in Nat /\ None \in Nat
      /\ deployments \in [Environments -> Deployment] /\ publications \in Seq(Publication)
      /\ deployments["staging"].pending = None
    BY DEF TypeOK, NextPublication, None, AwaitedIsPendingOrOvertaken
<1>3. refusal \in {"", "policy", "already_inactive", "release_operation_in_progress",
                   "deployment_changed", "internal_error", "rollback_target_invalid",
                   "artifact_incompatible"}
    BY RefusalType
<1> HIDE DEF request, refusal
<1>4. CASE /\ refusal # ""
           /\ operations' = Append(operations, Failed(request, actual, refusal))
           /\ UNCHANGED deployments
    <2>1. refusal \in {"deployment_changed", "policy", "already_inactive", "internal_error",
                       "release_operation_in_progress", "rollback_target_invalid",
                       "artifact_incompatible"}
        BY <1>3, <1>4
    <2>2. Failed(request, actual, refusal) \in Operation
        BY <1>1, <2>1, FailedType
    <2>3. Failed(request, actual, refusal).status = "failed"
        BY <1>1, FailedStatus
    <2> QED
        BY <1>2, <1>4, <2>2, <2>3, AppendedBesideAwaited
<1>5. ASSUME NEW p \in Nat, NEW source \in Nat,
             operations' = Append(operations, Recovered(request, e, p, source)),
             deployments' = Move(e, p)
      PROVE  AwaitedIsPendingOrOvertaken'
    <2>1. /\ Recovered(request, e, p, source) \in Operation
          /\ Recovered(request, e, p, source).status = "completed"
        BY <1>1, <1>2, <1>5, RecoveredType
    <2>2. /\ deployments'[e].pending = None /\ deployments'[e].generation = actual + 1
          /\ \A x \in Environments \ {e} : deployments'[x] = deployments[x]
        BY <1>2, <1>5, PointerMoved
    <2>3. CASE e = "staging"
        <3>1. deployments'["production"] = deployments["production"]
            BY <2>2, <2>3 DEF Environments
        <3> QED
            BY <1>5, <2>1, <2>2, <2>3, <3>1, AppendedBesideAwaited
    <2>4. CASE e = "production"
        <3>1. deployments'["staging"] = deployments["staging"]
            BY <2>2, <2>4 DEF Environments
        <3> QED
            BY <1>2, <1>5, <2>1, <2>2, <2>4, <3>1, AppendedBesideAwaited
    <2> QED
        BY <2>3, <2>4 DEF Environments
<1>6. CASE /\ action = "rollback"
           /\ operations' = Append(operations, Recovered(request, e, NextPublication, target))
           /\ deployments' = Move(e, NextPublication)
    <2>1. target \in Nat
        <3>1. PublicationIds \subseteq Nat
            BY <1>2, LenProperties DEF PublicationIds
        <3> QED
            BY <1>6, <3>1
    <2> QED
        BY <1>2, <1>5, <1>6, <2>1
<1>7. CASE /\ operations' = Append(operations, Recovered(request, e, None, None))
           /\ deployments' = Move(e, None)
    BY <1>2, <1>5, <1>7
<1> QED
    BY <1>4, <1>6, <1>7 DEF RecoverDocumentRelease, request, refusal

\* Once a first promotion request has failed the stale operation, what still
\* awaits approval has been overtaken.
LEMMA StaleIsCleared ==
    ASSUME TypeOK, AwaitedIsPendingOrOvertaken, NEW source, PendingIsReplaceable(source)
    PROVE  /\ \A e \in Environments : WithoutStalePending.deployments[e].pending = None
           /\ WithoutStalePending.deployments["production"].generation =
                 deployments["production"].generation
           /\ \A o \in OperationIds :
                 WithoutStalePending.operations[o].status = "awaiting_approval" =>
                    /\ WithoutStalePending.operations[o] = operations[o]
                    /\ o # deployments["production"].pending
<1> DEFINE pending == deployments["production"].pending
<1>1. /\ deployments \in [Environments -> Deployment] /\ operations \in Seq(Operation)
      /\ "production" \in Environments
      /\ deployments["staging"].pending = None
      /\ pending \in OperationIds \union {None} /\ None \notin OperationIds
    BY AwaitedRow DEF AwaitedIsPendingOrOvertaken
<1>2. CASE pending = None
    BY <1>1, <1>2 DEF WithoutStalePending, Environments
<1>3. CASE pending # None
    <2> DEFINE rows == FailedOperations(pending, "active_publication_changed")
    <2>1. pending \in OperationIds
        BY <1>1, <1>3
    <2>2. /\ rows[pending] = [operations[pending] EXCEPT !.status = "failed",
                                               !.error = "active_publication_changed"]
          /\ \A x \in OperationIds \ {pending} : rows[x] = operations[x]
        BY <1>1, <2>1, FailedOperationsType
    <2>3. rows[pending].status = "failed"
        <3>1. operations[pending] \in Operation
            BY <2>1, AwaitedRow
        <3> QED
            BY <2>2, <3>1 DEF Operation
    <2>4. \A o \in OperationIds : rows[o].status = "awaiting_approval" =>
              rows[o] = operations[o] /\ o # pending
        BY <2>2, <2>3
    <2>5. /\ \A e \in Environments : ClearPending(pending)[e].pending = None
          /\ ClearPending(pending)["production"].generation =
                deployments["production"].generation
        BY <1>1, ClearPendingType DEF Environments
    <2> HIDE DEF rows
    <2> QED
        BY <1>3, <2>4, <2>5 DEF WithoutStalePending, rows
<1> QED
    BY <1>2, <1>3

LEMMA RequestBesideAwaited ==
    ASSUME TypeOK, TypeOK', AwaitedIsPendingOrOvertaken,
           NEW u \in Users, NEW k \in Keys, NEW g \in ReadGenerations("production"),
           RequestPromotion(u, k, g)
    PROVE  AwaitedIsPendingOrOvertaken'
<1> DEFINE e == "production"
           source == deployments["staging"].active
           actual == deployments[e].generation
           base == WithoutStalePending
           request == NewOperation(e, "promote", k, u, g, source)
<1>1. /\ source \in 1..Len(publications) /\ source \in Nat
      /\ e \in Environments /\ "staging" \in Environments
      /\ deployments \in [Environments -> Deployment] /\ operations \in Seq(Operation)
      /\ NextPublication \in Nat /\ NextOperation \in Nat
    BY DEF TypeOK, RequestPromotion, SourceIsVerified, Environments, NextPublication, NextOperation
<1>2. request \in Operation /\ actual \in Nat
    BY <1>1, RequestInOperation
<1>3. /\ request.environment = e /\ request.action = "promote" /\ request.expectedGeneration = g
    BY DEF NewOperation
<1>4. /\ base.deployments \in [Environments -> Deployment]
      /\ base.operations \in Seq(Operation)
      /\ Len(base.operations) = Len(operations)
    BY WithoutStalePendingType
<1>5. /\ \A x \in Environments : base.deployments[x].pending = None
      /\ base.deployments[e].generation = actual
      /\ \A o \in OperationIds : base.operations[o].status = "awaiting_approval" =>
            base.operations[o] = operations[o] /\ o # deployments[e].pending
    BY StaleIsCleared DEF RequestPromotion
<1> HIDE DEF base, request
<1>6. ASSUME NEW row \in Operation, operations' = Append(base.operations, row)
      PROVE  /\ OperationIds' = OperationIds \union {NextOperation}
             /\ NextOperation \notin OperationIds /\ NextOperation # None
             /\ operations'[NextOperation] = row
             /\ \A x \in OperationIds : operations'[x] = base.operations[x]
    BY <1>1, <1>4, <1>6, AppendedRow
<1>7. ASSUME NEW row \in Operation, row.status # "awaiting_approval",
             operations' = Append(base.operations, row)
      PROVE  /\ NobodyBeginsToAwait
             /\ deployments[e].pending \in OperationIds' =>
                   operations'[deployments[e].pending].status # "awaiting_approval"
    BY <1>5, <1>6, <1>7 DEF NobodyBeginsToAwait
<1>8. CASE /\ operations' = Append(base.operations, Failed(request, actual, "deployment_changed"))
           /\ deployments' = base.deployments
    <2>1. Failed(request, actual, "deployment_changed") \in Operation
        BY <1>2, FailedType
    <2>2. Failed(request, actual, "deployment_changed").status = "failed"
        BY <1>2, FailedStatus
    <2>3. /\ NobodyBeginsToAwait
          /\ deployments[e].pending \in OperationIds' =>
                operations'[deployments[e].pending].status # "awaiting_approval"
        BY <1>7, <1>8, <2>1, <2>2
    <2> QED
        BY <1>1, <1>5, <1>8, <2>3, PointerStays
<1>9. CASE /\ operations' = Append(base.operations, CompletedPromotion(request))
           /\ deployments' = Move(e, NextPublication)
    <2>1. /\ CompletedPromotion(request) \in Operation
          /\ CompletedPromotion(request).status = "completed"
        BY <1>1, <1>2, CompletedPromotionType DEF TypeOK
    <2>2. NobodyBeginsToAwait
        BY <1>7, <1>9, <2>1
    <2>3. /\ deployments'[e].generation = deployments[e].generation + 1
          /\ deployments'[e].pending = None
          /\ deployments'["staging"] = deployments["staging"]
        BY <1>1, <1>9, PointerMoved
    <2> QED
        BY <2>2, <2>3, PointerPasses DEF AwaitedIsPendingOrOvertaken
<1>10. CASE /\ operations' = Append(base.operations, Awaiting(request))
            /\ deployments' = Pend(base.deployments, NextOperation)
            /\ IsCurrent(e, g)
    <2>1. /\ Awaiting(request) \in Operation
          /\ Awaiting(request).status = "awaiting_approval"
          /\ Awaiting(request).environment = e /\ Awaiting(request).action = "promote"
          /\ Awaiting(request).expectedGeneration = g
        BY <1>2, <1>3, AwaitingType
    <2>2. /\ OperationIds' = OperationIds \union {NextOperation}
          /\ NextOperation \notin OperationIds
          /\ operations'[NextOperation] = Awaiting(request)
          /\ \A x \in OperationIds : operations'[x] = base.operations[x]
        BY <1>6, <1>10, <2>1
    <2>3. /\ deployments'["staging"].pending = None
          /\ deployments'[e].pending = NextOperation
          /\ deployments'[e].generation = actual /\ g = actual
        BY <1>1, <1>4, <1>5, <1>10, PendType DEF IsCurrent
    <2>4. ASSUME NEW o \in OperationIds, operations'[o].status = "awaiting_approval"
          PROVE  /\ o # NextOperation
                 /\ operations'[o].environment = e
                 /\ operations'[o].action = "promote"
                 /\ operations'[o].expectedGeneration < actual
        <3>1. operations'[o] = operations[o] /\ o # deployments[e].pending
            BY <1>5, <2>2, <2>4
        <3> QED
            BY <2>2, <2>4, <3>1 DEF AwaitedIsPendingOrOvertaken, Awaits
    <2> QED
        BY <2>1, <2>2, <2>3, <2>4 DEF AwaitedIsPendingOrOvertaken, Awaits
<1> QED
    BY <1>8, <1>9, <1>10 DEF RequestPromotion, base, request

\* FailedOperations and ClearPending, of an operation that awaits approval.
LEMMA FailureBesideAwaited ==
    ASSUME TypeOK, TypeOK', AwaitedIsPendingOrOvertaken, NEW o \in OperationIds,
           NEW code \in {"active_publication_changed", "release_approval_rejected"},
           operations' = FailedOperations(o, code),
           deployments' = ClearPending(o)
    PROVE  AwaitedIsPendingOrOvertaken'
<1> DEFINE e == "production"
           failed == FailedOperations(o, code)
<1>1. /\ deployments \in [Environments -> Deployment] /\ operations \in Seq(Operation)
      /\ e \in Environments /\ "staging" \in Environments
      /\ operations[o] \in Operation /\ None \notin OperationIds
      /\ deployments["staging"].pending = None
    BY AwaitedRow DEF AwaitedIsPendingOrOvertaken
<1>2. /\ failed \in Seq(Operation) /\ Len(failed) = Len(operations)
      /\ failed[o] = [operations[o] EXCEPT !.status = "failed", !.error = code]
      /\ \A x \in OperationIds \ {o} : failed[x] = operations[x]
    BY <1>1, FailedOperationsType
<1>3. operations' = failed
    OBVIOUS
<1> HIDE DEF failed
<1>4. OperationIds' = OperationIds
    BY <1>1, <1>2, <1>3, LenProperties DEF OperationIds
<1>5. operations'[o].status = "failed"
    BY <1>1, <1>2, <1>3 DEF Operation
<1>6. NobodyBeginsToAwait
    BY <1>2, <1>3, <1>4, <1>5 DEF NobodyBeginsToAwait
<1>7. /\ deployments'["staging"].pending = None
      /\ deployments'[e].generation = deployments[e].generation
      /\ deployments'[e].pending = IF deployments[e].pending = o
                                   THEN None ELSE deployments[e].pending
    BY <1>1, ClearPendingType
<1>8. \A x \in OperationIds \ {o} : operations'[x] = operations[x]
    BY <1>2, <1>3
<1>9. CASE deployments[e].pending = o
    BY <1>5, <1>6, <1>7, <1>9, PointerStays
<1>10. CASE deployments[e].pending # o
    BY <1>4, <1>6, <1>7, <1>8, <1>10, PointerStays
<1> QED
    BY <1>9, <1>10

LEMMA ResumeBesideAwaited ==
    ASSUME TypeOK, TypeOK', AwaitedIsPendingOrOvertaken,
           NEW u \in Users, NEW o \in OperationIds, ResumePromotion(u, o)
    PROVE  AwaitedIsPendingOrOvertaken'
<1> DEFINE e == "production"
           actual == deployments[e].generation
<1>1. /\ deployments \in [Environments -> Deployment] /\ operations \in Seq(Operation)
      /\ e \in Environments /\ "staging" \in Environments
      /\ operations[o] \in Operation /\ None \notin OperationIds
      /\ deployments["staging"].pending = None /\ actual \in Nat
    BY AwaitedRow DEF AwaitedIsPendingOrOvertaken
<1>2. /\ operations[o].status = "awaiting_approval"
      /\ operations[o].environment = e /\ operations[o].action = "promote"
      /\ deployments[e].pending = o => operations[o].expectedGeneration = actual
    BY DEF ResumePromotion, Awaits, AwaitedIsPendingOrOvertaken
<1>3. /\ NextPublication \in Nat /\ publications \in Seq(Publication)
      /\ o \in 1..Len(operations) /\ o \in Nat
    BY <1>1, LenProperties DEF TypeOK, NextPublication, OperationIds
<1>4. ASSUME NEW row \in Operation, row.status # "awaiting_approval",
             operations' = [operations EXCEPT ![o] = row]
      PROVE  /\ NobodyBeginsToAwait
             /\ OperationIds' = OperationIds
             /\ \A x \in OperationIds \ {o} : operations'[x] = operations[x]
    <2>1. /\ operations' \in Seq(Operation) /\ Len(operations') = Len(operations)
          /\ \A x \in 1..Len(operations) :
                operations'[x] = IF x = o THEN row ELSE operations[x]
        BY <1>1, <1>3, <1>4, ExceptSeq
    <2>2. OperationIds = 1..Len(operations) /\ OperationIds' = OperationIds
        BY <1>1, <2>1, LenProperties DEF OperationIds
    <2> QED
        BY <1>4, <2>1, <2>2 DEF NobodyBeginsToAwait
<1>5. CASE /\ operations' = FailedOperations(o, "active_publication_changed")
           /\ deployments' = ClearPending(o)
    BY <1>5, FailureBesideAwaited
<1>6. CASE /\ deployments' = Pend(deployments, o) /\ UNCHANGED operations
           /\ IsCurrent(e, operations[o].expectedGeneration)
           /\ deployments[e].pending \in {None, o}
    <2>1. /\ deployments'["staging"].pending = None
          /\ deployments'[e].pending = o
          /\ deployments'[e].generation = actual
        BY <1>1, <1>3, <1>6, PendType
    <2>2. ASSUME NEW x \in OperationIds, operations[x].status = "awaiting_approval", x # o
          PROVE  /\ operations[x].environment = e /\ operations[x].action = "promote"
                 /\ operations[x].expectedGeneration < actual
        <3>1. x # deployments[e].pending
            BY <1>1, <1>6, <2>2
        <3> QED
            BY <2>2, <3>1 DEF AwaitedIsPendingOrOvertaken, Awaits
    <2> QED
        BY <1>2, <1>6, <2>1, <2>2
        DEF AwaitedIsPendingOrOvertaken, Awaits, OperationIds, IsCurrent
<1>7. CASE /\ operations' = [operations EXCEPT ![o] = Failed(@, actual, "deployment_changed")]
           /\ ~IsCurrent(e, operations[o].expectedGeneration)
           /\ UNCHANGED deployments
    <2>1. /\ Failed(operations[o], actual, "deployment_changed") \in Operation
          /\ Failed(operations[o], actual, "deployment_changed").status = "failed"
        BY <1>1, FailedType
    <2>2. /\ NobodyBeginsToAwait
          /\ OperationIds' = OperationIds
          /\ \A x \in OperationIds \ {o} : operations'[x] = operations[x]
        BY <1>4, <1>7, <2>1
    <2>3. deployments[e].pending # o
        BY <1>2, <1>7 DEF IsCurrent
    <2> QED
        BY <1>1, <1>7, <2>2, <2>3, PointerStays
<1>8. CASE /\ operations' = [operations EXCEPT ![o] = CompletedPromotion(@)]
           /\ deployments' = Move(e, NextPublication)
    <2>1. /\ CompletedPromotion(operations[o]) \in Operation
          /\ CompletedPromotion(operations[o]).status = "completed"
        BY <1>1, <1>3, CompletedPromotionType
    <2>2. NobodyBeginsToAwait
        BY <1>4, <1>8, <2>1
    <2>3. /\ deployments'[e].generation = deployments[e].generation + 1
          /\ deployments'[e].pending = None
          /\ deployments'["staging"] = deployments["staging"]
        BY <1>1, <1>3, <1>8, PointerMoved
    <2> QED
        BY <1>1, <2>2, <2>3, PointerPasses
<1> QED
    BY <1>5, <1>6, <1>7, <1>8 DEF ResumePromotion

LEMMA WorkersBesideAwaited ==
    ASSUME TInv, TypeOK', AwaitedIsPendingOrOvertaken, SchedulesWrite
    PROVE  AwaitedIsPendingOrOvertaken'
<1>1. TypeOK /\ NobodyBeginsToAwait /\ OperationIds' = OperationIds /\ operations' = operations
    BY DEF TInv, ScheduleTypeOK, SchedulesWrite, NobodyBeginsToAwait, OperationIds
<1>2. CASE UNCHANGED deployments
    BY <1>1, <1>2 DEF AwaitedIsPendingOrOvertaken, Awaits
<1>3. CASE AppliesSchedule
    <2> PICK s \in ScheduleIds : \E p \in {None, schedules[s].publication} :
                  deployments' = Move(schedules[s].environment, p)
        BY <1>3 DEF AppliesSchedule
    <2> PICK p \in {None, schedules[s].publication} :
                  deployments' = Move(schedules[s].environment, p)
        OBVIOUS
    <2> DEFINE e == schedules[s].environment
    <2>1. e \in Environments /\ p \in Nat
        BY Rows DEF Schedule, None
    <2>2. /\ deployments'[e].generation = deployments[e].generation + 1
          /\ deployments'[e].pending = None
          /\ \A x \in Environments \ {e} : deployments'[x] = deployments[x]
        BY <1>1, <2>1, PointerMoved
    <2> HIDE DEF e
    <2>3. CASE e = "production"
        <3>1. deployments'["staging"].pending = None
            BY <2>2, <2>3 DEF AwaitedIsPendingOrOvertaken, Environments
        <3> QED
            BY <1>1, <2>2, <2>3, <3>1, PointerPasses
    <2>4. CASE e = "staging"
        <3>1. deployments'["production"] = deployments["production"]
            BY <2>2, <2>4 DEF Environments
        <3> QED
            BY <1>1, <2>2, <2>4, <3>1, PointerStays
    <2> QED
        BY <2>1, <2>3, <2>4 DEF Environments
<1> QED
    BY <1>2, <1>3 DEF SchedulesWrite

\* While workers move the pointer, a promotion that awaits approval is still
\* the one production's row names, or it can only fail; and what that row names
\* is never an operation nobody can finish any more.
THEOREM AwaitedOrOvertaken == ScheduleSpec => []AwaitedIsPendingOrOvertaken
<1>1. ScheduleInit => AwaitedIsPendingOrOvertaken
    BY DEF ScheduleInit, Init, AwaitedIsPendingOrOvertaken, Environments, OperationIds, None
<1>2. TInv /\ TInv' /\ AwaitedIsPendingOrOvertaken /\ [AllNext]_allVars
          => AwaitedIsPendingOrOvertaken'
    <2> SUFFICES ASSUME TInv, TInv', AwaitedIsPendingOrOvertaken, [AllNext]_allVars
                 PROVE  AwaitedIsPendingOrOvertaken'
        OBVIOUS
    <2>1. TypeOK /\ TypeOK'
        BY DEF TInv, ScheduleTypeOK
    <2>2. CASE SchedulesWrite
        BY <2>1, <2>2, WorkersBesideAwaited
    <2>3. CASE UNCHANGED releaseVars
        BY <2>3 DEF releaseVars, AwaitedIsPendingOrOvertaken, Awaits, OperationIds
    <2>4. ASSUME NEW u \in Users, NEW o \in OperationIds, RejectRelease(u, o)
          PROVE  AwaitedIsPendingOrOvertaken'
        BY <2>1, <2>4, FailureBesideAwaited DEF RejectRelease
    <2>5. ASSUME NEW u \in Users, NEW o \in OperationIds, ApproveRelease(u, o)
          PROVE  AwaitedIsPendingOrOvertaken'
        BY <2>5 DEF ApproveRelease, AwaitedIsPendingOrOvertaken, Awaits, OperationIds
    <2>6. ASSUME NEW u \in Users, NEW passed \in BOOLEAN,
                 CreatePublicationVerification(u, passed)
          PROVE  UNCHANGED releaseVars
        BY <2>6 DEF CreatePublicationVerification
    <2>7. CASE ReleaseNext
        BY <2>1, <2>3, <2>4, <2>5, <2>6, <2>7, ActivateBesideAwaited, RequestBesideAwaited,
           ResumeBesideAwaited, RecoverBesideAwaited DEF ReleaseNext
    <2>8. CASE GovernanceNext
        BY <2>3, <2>8
        DEF GovernanceNext, UpdateEnvironmentPolicy, UpdateMemberRole, ChangePlan
    <2>9. CASE UNCHANGED vars
        BY <2>3, <2>9 DEF vars
    <2> QED
        BY <2>2, <2>7, <2>8, <2>9, StepWrites DEF Next
<1> QED
    BY <1>1, <1>2, ScheduleInvariant, PTL DEF ScheduleSpec

=============================================================================
