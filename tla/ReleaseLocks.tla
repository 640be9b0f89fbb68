---------------------------- MODULE ReleaseLocks ----------------------------
(***************************************************************************)
(* The PostgreSQL locks that the release transactions of one workspace     *)
(* take, in the order in which packages/database/src/drizzle takes them,   *)
(* and the number of live documents that they protect.                     *)
(*                                                                         *)
(* A transaction is a kind of operation, the document and environment it   *)
(* is about, and the statements it has still to run: each takes a row or   *)
(* advisory lock, or reads what later statements rely on.  Writes become   *)
(* visible, and locks are released, when it commits or rolls back.  What   *)
(* the operations decide is in DocumentRelease and DeliverySchedule: here  *)
(* any of their refusals, and the victim PostgreSQL picks in a deadlock,   *)
(* is a rollback.                                                          *)
(***************************************************************************)
EXTENDS FiniteSets, Naturals, Sequences

CONSTANTS
    Transactions,     \* database connections that may be in a transaction
    Documents,        \* the documents of the workspace
    Kinds,            \* the operations that are called
    EnvironmentIds,   \* environment ids in the order sort() gives them
    Limits            \* live-experience limits of the plans

Staging == "staging"
Production == "production"
Environments == {Staging, Production}

(***************************************************************************)
(* Promotions and approvals lock the two environments of the pipeline; the *)
(* ids of a workspace's environments may be in either order.               *)
(***************************************************************************)
ASSUME PipelineOfTwo == /\ EnvironmentIds \in [1..2 -> Environments]
                        /\ EnvironmentIds[1] # EnvironmentIds[2]
ASSUME LimitsAreCounts == Limits \subseteq Nat /\ Limits # {}

VARIABLES
    active,           \* committed deployments in state 'active'
    limit,            \* the plan's live-experience limit
    running,          \* what each transaction is doing, or Idle
    overtaken,        \* those whose deployment moved since they began
    todo,             \* the statements it has still to run
    held              \* the locks it holds

vars == <<active, limit, running, overtaken, todo, held>>

-----------------------------------------------------------------------------
(***************************************************************************)
(* Locks and statements.                                                   *)
(***************************************************************************)
Subscription == <<"subscription">>                \* workspace_subscriptions row
Members == <<"members">>                          \* the membership rows
LiveStock == <<"live stock">>                     \* advisory, per workspace
EnvironmentRow(e) == <<"environment", e>>
DocumentLock(d, e) == <<"document", d, e>>        \* advisory

DocumentLocks == {DocumentLock(d, e) : d \in Documents, e \in Environments}
Locks == {Subscription, Members, LiveStock}
         \union {EnvironmentRow(e) : e \in Environments}
         \union DocumentLocks

Share(l) == [lock |-> l, mode |-> "share"]
Exclusive(l) == [lock |-> l, mode |-> "exclusive"]
CountStock == [lock |-> LiveStock, mode |-> "count"]
ReadActive(d, e) == [lock |-> DocumentLock(d, e), mode |-> "active"]
CompareGeneration(d, e) == [lock |-> DocumentLock(d, e), mode |-> "generation"]

LockModes == {"share", "exclusive"}
ReadModes == {"count", "active", "generation"}
Statement == [lock : Locks, mode : LockModes \union ReadModes]
TakesLock(s) == s.mode \in LockModes
Conflict(s, h) == s.lock = h.lock /\ "exclusive" \in {s.mode, h.mode}

Idle == [kind |-> "idle"]
Call == [kind : Kinds, document : Documents, environment : Environments]

(***************************************************************************)
(* lockSortedReleaseDocumentEnvironments with the two environments of a    *)
(* pipeline: their ids are sorted before the locks are taken.              *)
(***************************************************************************)
LockDocument(d, e) == Exclusive(DocumentLock(d, e))

\* Mutant of SortedDocumentLocks: the ids in the order the caller gave them.
DocumentLocksAsGiven(d, e1, e2) == << LockDocument(d, e1), LockDocument(d, e2) >>

SortedDocumentLocks(d, e1, e2) ==
    IF e1 = EnvironmentIds[1]
    THEN << LockDocument(d, e1), LockDocument(d, e2) >>
    ELSE << LockDocument(d, e2), LockDocument(d, e1) >>

(***************************************************************************)
(* A SELECT ... FOR SHARE of two rows locks them in the order of its scan. *)
(***************************************************************************)
ScanOrders == {<<Staging, Production>>, <<Production, Staging>>}

-----------------------------------------------------------------------------
(***************************************************************************)
(* The statements of each operation.  A publish names the generation its   *)
(* caller saw: the deployment may not have moved since.  The operations    *)
(* that read the generation under their document lock need no such step.   *)
(***************************************************************************)
\* Mutant of PublishStatements: the generation is compared before it is locked.
PublishComparingFirst(d, e) ==
    << Share(EnvironmentRow(e)), Exclusive(Subscription), Share(Members),
       Exclusive(LiveStock), CountStock, CompareGeneration(d, e),
       LockDocument(d, e) >>

PublishStatements(d, e) ==
    << Share(EnvironmentRow(e)), Exclusive(Subscription), Share(Members),
       Exclusive(LiveStock), CountStock, LockDocument(d, e),
       CompareGeneration(d, e) >>

PromoteStatements(d, scan) ==
    LET locks == SortedDocumentLocks(d, Staging, Production)
    IN  << Share(EnvironmentRow(scan[1])), Share(EnvironmentRow(scan[2])),
           locks[1], locks[2], Exclusive(Subscription), Share(Members),
           ReadActive(d, Staging) >>

ApproveStatements(d, scan) ==
    LET locks == SortedDocumentLocks(d, Production, Staging)
    IN  << Share(Members), Share(EnvironmentRow(scan[1])), Share(EnvironmentRow(scan[2])),
           locks[1], locks[2], Exclusive(Subscription), Share(Members) >>

VerifyStatements(d) ==
    << Share(EnvironmentRow(Staging)), Share(Members),
       LockDocument(d, Staging) >>

\* Mutant of UnpublishStatements: the plan is locked first, as a publish does.
UnpublishPlanFirst(d, e) ==
    << Exclusive(Subscription), LockDocument(d, e), Share(EnvironmentRow(e)),
       Share(Members), ReadActive(d, e) >>

UnpublishStatements(d, e) ==
    << LockDocument(d, e), Share(EnvironmentRow(e)), Share(Members),
       Exclusive(Subscription), ReadActive(d, e) >>

ScheduleStatements(d, e) ==
    << Exclusive(Subscription), Share(EnvironmentRow(e)), Share(Members),
       LockDocument(d, e) >>

\* Mutant of StartStatements: the stock is counted before it is locked.
StartCountingFirst(d, e) ==
    << LockDocument(d, e), CountStock, Exclusive(LiveStock), Exclusive(Subscription) >>

StartStatements(d, e) ==
    << LockDocument(d, e), Exclusive(LiveStock), Exclusive(Subscription), CountStock >>

EndStatements(d, e) ==
    << LockDocument(d, e), ReadActive(d, e) >>

ApprovalCountStatements(e) ==
    << Exclusive(Subscription), Exclusive(EnvironmentRow(e)) >>

EnvironmentPolicyStatements ==
    << Exclusive(EnvironmentRow(Production)), Exclusive(EnvironmentRow(Staging)),
       Exclusive(Subscription) >>

MemberRoleStatements == << Exclusive(Members), Exclusive(Subscription) >>

ChangePlanStatements == << Exclusive(Subscription) >>

-----------------------------------------------------------------------------
LiveDocuments(deployments) == {p[1] : p \in deployments}
LiveStockOf(deployments) == Cardinality(LiveDocuments(deployments))

(***************************************************************************)
(* What a committing call changes.                                         *)
(***************************************************************************)
Served(c) ==
    IF c.kind \in {"publish", "promote", "start"}
    THEN {<<c.document, c.environment>>} ELSE {}

Withdrawn(c) ==
    IF c.kind \in {"unpublish", "end"}
    THEN {<<c.document, c.environment>>} ELSE {}

\* Those that are about a deployment a committing call moves.
Overtakes(c) ==
    {u \in Transactions :
        /\ running[u] # Idle
        /\ <<running[u].document, running[u].environment>> \in Served(c) \union Withdrawn(c)}

LocksTypeOK ==
    /\ active \subseteq Documents \X Environments
    /\ limit \in Limits
    /\ running \in [Transactions -> Call \union {Idle}]
    /\ overtaken \subseteq Transactions
    /\ todo \in [Transactions -> Seq(Statement)]
    /\ held \in [Transactions -> SUBSET Statement]

Init ==
    /\ active = {}
    /\ limit \in Limits
    /\ running = [t \in Transactions |-> Idle]
    /\ overtaken = {}
    /\ todo = [t \in Transactions |-> <<>>]
    /\ held = [t \in Transactions |-> {}]

Begin(t, kind, d, e, statements) ==
    /\ kind \in Kinds
    /\ running[t] = Idle
    /\ running' = [running EXCEPT ![t] = [kind |-> kind, document |-> d,
                                          environment |-> e]]
    /\ todo' = [todo EXCEPT ![t] = statements]
    /\ UNCHANGED <<active, limit, overtaken, held>>

ActivateCompiledArtifact(t) ==
    \E d \in Documents, e \in Environments :
        Begin(t, "publish", d, e, PublishStatements(d, e))

PromoteVerifiedPublication(t) ==
    \E d \in Documents, scan \in ScanOrders :
        Begin(t, "promote", d, Production, PromoteStatements(d, scan))

CreateReleaseApproval(t) ==
    \E d \in Documents, scan \in ScanOrders :
        Begin(t, "approve", d, Production, ApproveStatements(d, scan))

CreatePublicationVerification(t) ==
    \E d \in Documents : Begin(t, "verify", d, Staging, VerifyStatements(d))

RecoverDocumentRelease(t) ==
    \E d \in Documents, e \in Environments :
        Begin(t, "unpublish", d, e, UnpublishStatements(d, e))

CreateDeploymentSchedule(t) ==
    \E d \in Documents, e \in Environments :
        Begin(t, "schedule", d, e, ScheduleStatements(d, e))

ProcessStartJob(t) ==
    \E d \in Documents, e \in Environments :
        Begin(t, "start", d, e, StartStatements(d, e))

ProcessEndJob(t) ==
    \E d \in Documents, e \in Environments :
        Begin(t, "end", d, e, EndStatements(d, e))

UpdateEnvironmentReleasePolicy(t) ==
    \E d \in Documents, e \in Environments :
        Begin(t, "approvalCount", d, e, ApprovalCountStatements(e))

UpdateWorkspaceEnvironmentPolicy(t) ==
    \E d \in Documents, e \in Environments :
        Begin(t, "environmentPolicy", d, e, EnvironmentPolicyStatements)

UpdateWorkspaceMemberRole(t) ==
    \E d \in Documents :
        Begin(t, "memberRole", d, Staging, MemberRoleStatements)

ChangeWorkspaceSubscription(t) ==
    \E d \in Documents : Begin(t, "changePlan", d, Staging, ChangePlanStatements)

-----------------------------------------------------------------------------
(***************************************************************************)
(* PostgreSQL runs the statements of a transaction one at a time.          *)
(***************************************************************************)
WaitsFor(t, u) ==
    /\ t # u
    /\ todo[t] # <<>>
    /\ TakesLock(Head(todo[t]))
    /\ \E h \in held[u] : Conflict(Head(todo[t]), h)

Advance(t) == todo' = [todo EXCEPT ![t] = Tail(@)]

AcquireLock(t) ==
    /\ todo[t] # <<>>
    /\ TakesLock(Head(todo[t]))
    /\ \A u \in Transactions : ~WaitsFor(t, u)
    /\ held' = [held EXCEPT ![t] = @ \union {Head(todo[t])}]
    /\ Advance(t)
    /\ UNCHANGED <<active, limit, running, overtaken>>

CountLiveStock(t) ==
    /\ todo[t] # <<>>
    /\ Head(todo[t]) = CountStock
    /\ \/ running[t].document \in LiveDocuments(active)
       \/ LiveStockOf(active) + 1 <= limit
    /\ Advance(t)
    /\ UNCHANGED <<active, limit, running, overtaken, held>>

FindDocumentDeployment(t) ==
    /\ todo[t] # <<>>
    /\ \/ Head(todo[t]).mode = "generation" /\ t \notin overtaken
       \/ \E p \in active : Head(todo[t]) = ReadActive(p[1], p[2])
    /\ Advance(t)
    /\ UNCHANGED <<active, limit, running, overtaken, held>>

Release(t) ==
    /\ running' = [running EXCEPT ![t] = Idle]
    /\ todo' = [todo EXCEPT ![t] = <<>>]
    /\ held' = [held EXCEPT ![t] = {}]

Commit(t) ==
    /\ running[t] # Idle
    /\ todo[t] = <<>>
    /\ active' = (active \ Withdrawn(running[t])) \union Served(running[t])
    /\ IF running[t].kind = "changePlan" THEN limit' \in Limits ELSE UNCHANGED limit
    /\ overtaken' = (overtaken \union Overtakes(running[t])) \ {t}
    /\ Release(t)

Rollback(t) ==
    /\ running[t] # Idle
    /\ Release(t)
    /\ overtaken' = overtaken \ {t}
    /\ UNCHANGED <<active, limit>>

Next ==
    \E t \in Transactions :
        \/ ActivateCompiledArtifact(t)
        \/ PromoteVerifiedPublication(t)
        \/ CreateReleaseApproval(t)
        \/ CreatePublicationVerification(t)
        \/ RecoverDocumentRelease(t)
        \/ CreateDeploymentSchedule(t)
        \/ ProcessStartJob(t)
        \/ ProcessEndJob(t)
        \/ UpdateEnvironmentReleasePolicy(t)
        \/ UpdateWorkspaceEnvironmentPolicy(t)
        \/ UpdateWorkspaceMemberRole(t)
        \/ ChangeWorkspaceSubscription(t)
        \/ AcquireLock(t)
        \/ CountLiveStock(t)
        \/ FindDocumentDeployment(t)
        \/ Commit(t)
        \/ Rollback(t)

Spec == Init /\ [][Next]_vars

-----------------------------------------------------------------------------
(***************************************************************************)
(* Every transaction of the set waits for another of the set: only a       *)
(* rollback of one of them lets the others go on.                          *)
(***************************************************************************)
Deadlocked(S) == S # {} /\ \A t \in S : \E u \in S : WaitsFor(t, u)

(***************************************************************************)
(* Transactions that wait for document locks never wait for each other in  *)
(* a circle, whichever pair of environments each of them names first: what *)
(* the sorting in lockSortedReleaseDocumentEnvironments is for.            *)
(***************************************************************************)
DocumentLocksNeverCycle ==
    \A S \in SUBSET Transactions :
        Deadlocked(S) => \E t \in S : Head(todo[t]).lock \notin DocumentLocks

(***************************************************************************)
(* The operations that take their document locks before anything exclusive *)
(* never deadlock among themselves.  A deadlock always involves a publish, *)
(* a schedule, a start or a change of settings; publish and start do have  *)
(* one: a publish takes the subscription row and the live stock before its *)
(* document lock, and a scheduled start takes them after.                  *)
(***************************************************************************)
DocumentFirst == {"promote", "approve", "verify", "unpublish", "end"}

DocumentFirstNeverDeadlocks ==
    \A S \in SUBSET Transactions :
        Deadlocked(S) => \E t \in S : running[t].kind \notin DocumentFirst

(***************************************************************************)
(* While the plan's limit stays as it is, the workspace never serves more  *)
(* documents than the plan allows, although promotions and recoveries do   *)
(* not count and a publish counts before it has its document's lock.       *)
(***************************************************************************)
LiveStockWithinLimit == LiveStockOf(active) <= limit

Serial == INSTANCE SerialReleases WITH Calls <- Call, NoCall <- Idle

(***************************************************************************)
(* The locks make each operation one step: what a publish or start has     *)
(* counted, the generation a publish has compared, the publication a       *)
(* promotion has read and the deployment a recovery or an end has found    *)
(* are still so when it commits, while the plan's limit stays as it is.    *)
(***************************************************************************)
ImplementsSerialReleases == Serial!Spec
=============================================================================
