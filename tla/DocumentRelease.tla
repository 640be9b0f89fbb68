--------------------------- MODULE DocumentRelease ---------------------------
(***************************************************************************)
(* The release pointer of one document of one workspace, in its staging    *)
(* and its production environment, as the Postgres repository keeps it.    *)
(*                                                                         *)
(* Every mutation of the release tables is one database transaction that   *)
(* takes the advisory lock of (workspace, environment, document) before it *)
(* reads the deployment row, so a transaction is one action here.  A       *)
(* request that changes no row (a replay of a finished operation, a key    *)
(* reused for another request, a refusal that throws) is a stuttering      *)
(* step and has no action.                                                 *)
(*                                                                         *)
(* Row ids are positions: a publication is an index of `publications`, an  *)
(* operation an index of `operations`, and None is SQL's null.  Reasons,   *)
(* hashes, correlation ids and clocks are left out.  The policy's          *)
(* updatedAt snapshot test is left out too: a request whose snapshot is    *)
(* stale throws, and what remains are the requests whose snapshot is the   *)
(* policy in force.                                                        *)
(***************************************************************************)
EXTENDS Integers, Sequences, FiniteSets

CONSTANTS
    Users,              \* workspace members
    Artifacts,          \* compiled artifacts of the document
    Deployable,         \* those today's compiler and renderer still accept
    Keys,               \* idempotency keys
    StagingPolicies,    \* the policies an administrator may give staging
    ProductionPolicies, \* ... and production
    InitialRoles,       \* Users -> Roles
    RoleChoices,        \* roles a member may be given later
    Offline,            \* what a log shows when nothing is live
    Plans,              \* commercial plans, as the features they include
    MaxOperations,      \* bound: release operations of the document
    MaxRefusals         \* bound: failed ones, for one more to be recorded as refused

Environments == {"staging", "production"}
Roles == {"owner", "admin", "member", "viewer"}
Features == {"release-management", "review-approval", "recovery", "scheduling"}
None == 0

\* One environment row's release policy.  `recoverers` are the roles that may
\* roll back or unpublish: empty when the environment lacks the capability.
Policy == [enabled : BOOLEAN,
           directPublish : BOOLEAN,
           promotesFromStaging : BOOLEAN,
           publishers : SUBSET Roles,
           recoverers : SUBSET Roles,
           requiredApprovals : {0, 1},
           separateApprover : BOOLEAN]

Publication == [environment : Environments,
                artifact : Artifacts,
                action : {"publish", "promote", "rollback"},
                source : Nat,
                previous : Nat,
                operation : Nat]

\* `activating` is a status no transaction commits.
Operation == [environment : Environments,
              action : {"publish", "promote", "rollback", "unpublish"},
              key : Keys,
              requester : Users,
              expectedGeneration : Nat,
              status : {"awaiting_approval", "completed", "failed"},
              resultGeneration : Nat,
              resultPublication : Nat,
              source : Nat,
              replaced : Nat,
              error : {"", "deployment_changed", "active_publication_changed",
                       "release_approval_rejected", "policy", "already_inactive",
                       "release_operation_in_progress", "internal_error",
                       "rollback_target_invalid", "artifact_incompatible"}]

\* active = None is the inactive state; a missing row reads as generation 0.
Deployment == [active : Nat, pending : Nat, generation : Nat]

Approval == [operation : Nat, user : Users, decision : {"approved", "rejected"}]

ASSUME ConstantsAssumption ==
    /\ Deployable \subseteq Artifacts
    /\ Offline \notin Artifacts
    /\ StagingPolicies \subseteq Policy
    /\ ProductionPolicies \subseteq Policy
    /\ InitialRoles \in [Users -> Roles]
    /\ RoleChoices \subseteq Roles
    /\ Plans \subseteq SUBSET Features
    /\ MaxOperations \in Nat
    /\ MaxRefusals \in Nat

VARIABLES
    deployments,    \* document_deployments, by environment
    publications,   \* publications, in insertion order
    operations,     \* release_operations, in insertion order
    approvals,      \* release_approvals
    verified,       \* publications whose latest verification passed
    everVerified,   \* publications with some passed verification
    policies,       \* environments
    roles,          \* workspace_memberships
    plan            \* the entitlements in force

releaseVars == <<deployments, publications, operations, approvals>>
verificationVars == <<verified, everVerified>>
governanceVars == <<policies, roles, plan>>
vars == <<releaseVars, verificationVars, governanceVars>>

\* Types, and the foreign keys between the tables.
TypeOK ==
    /\ deployments \in [Environments -> Deployment]
    /\ publications \in Seq(Publication)
    /\ operations \in Seq(Operation)
    /\ approvals \subseteq Approval
    /\ \A e \in Environments : /\ deployments[e].active \in 0..Len(publications)
                              /\ deployments[e].pending \in 0..Len(operations)
    /\ \A a \in approvals : a.operation \in 1..Len(operations)
    /\ verified \subseteq 1..Len(publications)
    /\ everVerified \subseteq 1..Len(publications)
    /\ policies \in [Environments -> Policy]
    /\ roles \in [Users -> Roles]
    /\ plan \subseteq Features

\* validateWorkspaceEnvironmentPolicy: an enabled production row must not
\* promote from a disabled staging row, and members never publish there.
ValidPolicies(p) ==
    /\ p["staging"] \in StagingPolicies
    /\ p["production"] \in ProductionPolicies
    /\ "member" \notin p["production"].publishers
    /\ p["production"].enabled /\ p["production"].promotesFromStaging => p["staging"].enabled

Init ==
    /\ deployments = [e \in Environments |->
                        [active |-> None, pending |-> None, generation |-> 0]]
    /\ publications = <<>>
    /\ operations = <<>>
    /\ approvals = {}
    /\ verified = {}
    /\ everVerified = {}
    /\ policies \in {p \in [Environments -> StagingPolicies \union ProductionPolicies] :
                        ValidPolicies(p)}
    /\ roles = InitialRoles
    /\ plan \in Plans

-----------------------------------------------------------------------------
(* The rows a transaction reads and writes. *)

PublicationIds == DOMAIN publications
OperationIds == DOMAIN operations
NextPublication == Len(publications) + 1
NextOperation == Len(operations) + 1

\* The unique index on (workspace, environment, document, idempotency key)
\* holds no row of this key yet, and the bound leaves room for one.
FreshRequest(e, k) ==
    /\ NextOperation <= MaxOperations
    /\ \A o \in OperationIds : ~(operations[o].environment = e /\ operations[o].key = k)

\* The bound on requests recorded as refused.
RoomForRefusal == Cardinality({o \in OperationIds : operations[o].status = "failed"}) < MaxRefusals

\* The generation a caller last read: the current one, or an older one.
ReadGenerations(e) == 0..deployments[e].generation

\* Mutant of IsCurrent: the pointer is set without comparing.
SetsWithoutComparing(e, g) == g <= deployments[e].generation

\* The compare of every compare-and-set on the pointer.
IsCurrent(e, g) == deployments[e].generation = g

\* Mutant of Awaits: a failed operation may be resumed.
AwaitsOrFailed(o) == operations[o].status # "completed"

\* Mutant of Awaits: a promotion that was completed runs again when repeated.
AwaitsOrCompleted(o) == operations[o].status # "failed"

Awaits(o) == operations[o].status = "awaiting_approval"

\* A new operation row, of which a transaction changes what it decides.
NewOperation(e, action, k, u, g, source) ==
    [environment |-> e, action |-> action, key |-> k, requester |-> u,
     expectedGeneration |-> g, status |-> "completed", resultGeneration |-> 0,
     resultPublication |-> None, source |-> source, replaced |-> None, error |-> ""]

Completed(operation, g, publication) ==
    [operation EXCEPT !.status = "completed", !.resultGeneration = g,
                      !.resultPublication = publication]

Awaiting(operation) == [operation EXCEPT !.status = "awaiting_approval"]

Failed(operation, g, code) ==
    [operation EXCEPT !.status = "failed", !.resultGeneration = g, !.error = code]

\* Mutant of Move: the generation is left alone.
MoveKeepingGeneration(e, publication) ==
    [deployments EXCEPT ![e].active = publication, ![e].pending = None]

\* The pointer moves: the generation advances and nothing is pending any more.
Move(e, publication) ==
    [deployments EXCEPT ![e] = [active |-> publication, pending |-> None,
                                generation |-> deployments[e].generation + 1]]

\* Mutant of ClearPending: production keeps naming the operation.
KeepPending(o) == deployments

ClearPending(o) ==
    [e \in Environments |->
        IF deployments[e].pending = o
        THEN [deployments[e] EXCEPT !.pending = None]
        ELSE deployments[e]]

\* Production's row names o as the operation under way.
Pend(rows, o) == [rows EXCEPT !["production"].pending = o]

\* failPendingPromotionOperation leaves the result generation unset.
FailedOperations(o, code) ==
    [operations EXCEPT ![o] = [@ EXCEPT !.status = "failed", !.error = code]]

-----------------------------------------------------------------------------
(* Publishing to staging: activateCompiledArtifact, as the API calls it. *)

MayPublish(u, e) ==
    /\ "release-management" \in plan
    /\ policies[e].enabled
    /\ policies[e].directPublish
    /\ roles[u] \in policies[e].publishers

ActivateCompiledArtifact(u, k, artifact, g) ==
    LET e == "staging"
        actual == deployments[e].generation
        request == NewOperation(e, "publish", k, u, g, None)
    IN  /\ FreshRequest(e, k)
        /\ MayPublish(u, e)
        /\ \/ /\ ~IsCurrent(e, g)
              /\ RoomForRefusal
              /\ operations' = Append(operations, Failed(request, actual, "deployment_changed"))
              /\ UNCHANGED <<deployments, publications>>
           \/ /\ IsCurrent(e, g)
              /\ publications' = Append(publications,
                    [environment |-> e, artifact |-> artifact, action |-> "publish",
                     source |-> None, previous |-> deployments[e].active,
                     operation |-> NextOperation])
              /\ deployments' = Move(e, NextPublication)
              /\ operations' = Append(operations,
                                      Completed(request, actual + 1, NextPublication))
        /\ UNCHANGED <<approvals, verificationVars, governanceVars>>

\* createPublicationVerification: the report on the active staging publication.
CreatePublicationVerification(u, passed) ==
    LET p == deployments["staging"].active
    IN  /\ policies["staging"].enabled
        /\ roles[u] # "viewer"
        /\ p # None
        /\ verified' = IF passed THEN verified \union {p} ELSE verified \ {p}
        /\ everVerified' = IF passed THEN everVerified \union {p} ELSE everVerified
        /\ UNCHANGED <<releaseVars, governanceVars>>

-----------------------------------------------------------------------------
(* Promotion of the active staging publication: promoteVerifiedPublication. *)

\* The policies of both environments allow u to have a promotion.
PolicyPermits(u) ==
    /\ policies["staging"].enabled
    /\ policies["production"].enabled
    /\ policies["production"].promotesFromStaging
    /\ roles[u] \in policies["production"].publishers

MayPromote(u) == "release-management" \in plan /\ PolicyPermits(u)

\* Mutant of SourceIsVerified: one passed report is enough, whatever came later.
SourceWasVerified(source) == source \in everVerified

\* Mutant of SourceIsVerified: a failed report counts as well.
SourceNeedsNoReport(source) == source \in PublicationIds

\* Of the verifications of the source publication, the latest decides.
SourceIsVerified(source) == source \in verified

Approvers(o) == {a.user : a \in {b \in approvals : b.operation = o /\ b.decision = "approved"}}

PromotionOf(source, o) ==
    [environment |-> "production", artifact |-> publications[source].artifact,
     action |-> "promote", source |-> source,
     previous |-> deployments["production"].active, operation |-> o]

\* Mutant of CompletedPromotion: the generation before the move.
PromotionAtOldGeneration(operation) ==
    Completed(operation, deployments["production"].generation, NextPublication)

CompletedPromotion(operation) ==
    Completed(operation, deployments["production"].generation + 1, NextPublication)

\* What the first request with a key finds pending on production: nothing, or
\* an operation for another source, which it fails.  Any other pending
\* operation makes it answer in_progress and change nothing.
StalePromotion(o, source) ==
    /\ Awaits(o)
    /\ operations[o].source # source

PendingIsReplaceable(source) ==
    LET pending == deployments["production"].pending
    IN  pending # None => StalePromotion(pending, source)

\* The deployments and operations after the stale pending operation has failed.
WithoutStalePending ==
    LET pending == deployments["production"].pending
    IN  IF pending = None
        THEN [deployments |-> deployments, operations |-> operations]
        ELSE [deployments |-> ClearPending(pending),
              operations |-> FailedOperations(pending, "active_publication_changed")]

RequestPromotion(u, k, g) ==
    LET source == deployments["staging"].active
        actual == deployments["production"].generation
        base == WithoutStalePending
        request == NewOperation("production", "promote", k, u, g, source)
    IN  /\ FreshRequest("production", k)
        /\ MayPromote(u)
        /\ source # None
        /\ SourceIsVerified(source)
        /\ PendingIsReplaceable(source)
        /\ \/ /\ ~IsCurrent("production", g)
              /\ RoomForRefusal
              /\ operations' = Append(base.operations,
                                      Failed(request, actual, "deployment_changed"))
              /\ deployments' = base.deployments
              /\ UNCHANGED publications
           \/ /\ IsCurrent("production", g)
              /\ policies["production"].requiredApprovals > 0
              /\ operations' = Append(base.operations, Awaiting(request))
              /\ deployments' = Pend(base.deployments, NextOperation)
              /\ UNCHANGED publications
           \/ /\ IsCurrent("production", g)
              /\ policies["production"].requiredApprovals = 0
              /\ publications' = Append(publications, PromotionOf(source, NextOperation))
              /\ operations' = Append(base.operations, CompletedPromotion(request))
              /\ deployments' = Move("production", NextPublication)
        /\ UNCHANGED <<approvals, verificationVars, governanceVars>>

\* The same request again while its operation awaits approval.  An operation
\* with a rejection has already failed, and the pinned artifact is the source
\* publication's, which no transaction updates: neither branch of the code is
\* reachable.
ResumePromotion(u, o) ==
    LET operation == operations[o]
        source == operation.source
        actual == deployments["production"].generation
        approved == Cardinality(Approvers(o)) >= policies["production"].requiredApprovals
        sourceIsActive == deployments["staging"].active = source
    IN  /\ operation.action = "promote"
        /\ Awaits(o)
        /\ MayPromote(u)
        /\ \/ /\ ~sourceIsActive
              /\ operations' = FailedOperations(o, "active_publication_changed")
              /\ deployments' = ClearPending(o)
              /\ UNCHANGED publications
           \/ /\ sourceIsActive
              /\ SourceIsVerified(source)
              /\ ~approved
              /\ IsCurrent("production", operation.expectedGeneration)
              /\ deployments["production"].pending \in {None, o}
              /\ deployments' = Pend(deployments, o)
              /\ UNCHANGED <<operations, publications>>
           \/ /\ sourceIsActive
              /\ SourceIsVerified(source)
              /\ approved
              /\ ~IsCurrent("production", operation.expectedGeneration)
              /\ operations' = [operations EXCEPT
                                   ![o] = Failed(@, actual, "deployment_changed")]
              /\ UNCHANGED <<deployments, publications>>
           \/ /\ sourceIsActive
              /\ SourceIsVerified(source)
              /\ approved
              /\ IsCurrent("production", operation.expectedGeneration)
              /\ publications' = Append(publications, PromotionOf(source, o))
              /\ operations' = [operations EXCEPT ![o] = CompletedPromotion(@)]
              /\ deployments' = Move("production", NextPublication)
        /\ UNCHANGED <<approvals, verificationVars, governanceVars>>

-----------------------------------------------------------------------------
(* Decisions on a promotion: createReleaseApproval. *)

MayDecide(u, o) ==
    /\ roles[u] \in {"owner", "admin"}
    /\ "review-approval" \in plan
    /\ operations[o].action = "promote"
    /\ Awaits(o)
    /\ \A a \in approvals : ~(a.operation = o /\ a.user = u)

\* Mutant of MaySignOff: the requester may sign off.
AnyAdminSignsOff(u, o) == roles[u] \in {"owner", "admin"}

MaySignOff(u, o) ==
    policies["production"].separateApprover => u # operations[o].requester

ApproveRelease(u, o) ==
    /\ MayDecide(u, o)
    /\ PolicyPermits(operations[o].requester)
    /\ MaySignOff(u, o)
    /\ approvals' = approvals \union {[operation |-> o, user |-> u, decision |-> "approved"]}
    /\ UNCHANGED <<deployments, publications, operations, verificationVars, governanceVars>>

RejectRelease(u, o) ==
    /\ MayDecide(u, o)
    /\ approvals' = approvals \union {[operation |-> o, user |-> u, decision |-> "rejected"]}
    /\ operations' = FailedOperations(o, "release_approval_rejected")
    /\ deployments' = ClearPending(o)
    /\ UNCHANGED <<publications, verificationVars, governanceVars>>

-----------------------------------------------------------------------------
(* Rollback and unpublish: recoverDocumentRelease and evaluateReleaseRecovery. *)

\* The operations recovery can name a publication by, and the one that made p.
Releases(e) == {o \in OperationIds : /\ operations[o].environment = e
                                     /\ operations[o].status = "completed"
                                     /\ operations[o].action # "unpublish"}
ReleaseOf(e, p) == {o \in Releases(e) : operations[o].resultPublication = p}

\* loadReleaseRecoveryPublicationMaterials and the snapshots of unpublish
\* operations throw unless every completed operation agrees with its rows.
RecoveryHistoryIntact(e) ==
    \A o \in OperationIds :
        LET operation == operations[o]
            p == operation.resultPublication
        IN  operation.environment = e /\ operation.status = "completed" =>
            IF operation.action = "unpublish"
            THEN /\ operation.replaced \in PublicationIds
                 /\ publications[operation.replaced].environment = e
            ELSE /\ operation.resultGeneration >= 1
                 /\ p \in PublicationIds
                 /\ publications[p].environment = e
                 /\ publications[p].operation = o
                 /\ publications[p].action = operation.action
                 /\ operation.action \in {"promote", "rollback"} =>
                        publications[p].source = operation.source /\ operation.source # None
                 /\ operation.action = "rollback" =>
                        publications[p].previous = operation.replaced /\ operation.replaced # None

RollbackRefusal(e, target) ==
    LET current == deployments[e]
    IN  IF \/ target = current.active
           \/ \A o \in ReleaseOf(e, target) : operations[o].resultGeneration >= current.generation
        THEN "rollback_target_invalid"
        ELSE IF publications[target].artifact \notin Deployable
             THEN "artifact_incompatible"
             ELSE ""

\* The first check that fails, in the code's order, or "".
RecoveryRefusal(u, e, action, target, g) ==
    LET current == deployments[e]
    IN  IF ~(policies[e].enabled /\ roles[u] \in policies[e].recoverers \cap {"owner", "admin"})
        THEN "policy"
        ELSE IF current.active = None THEN "already_inactive"
        ELSE IF current.pending # None THEN "release_operation_in_progress"
        ELSE IF ~IsCurrent(e, g) THEN "deployment_changed"
        ELSE IF \A o \in ReleaseOf(e, current.active) :
                    operations[o].resultGeneration # current.generation
             THEN "internal_error"
        ELSE IF action = "rollback" THEN RollbackRefusal(e, target) ELSE ""

\* The operation of a recovery that went through.
Recovered(operation, e, publication, source) ==
    [Completed(operation, deployments[e].generation + 1, publication)
        EXCEPT !.replaced = deployments[e].active, !.source = source]

\* Every refusal is recorded as a failed operation of its own.
RecoverDocumentRelease(u, e, k, action, target, g) ==
    LET current == deployments[e]
        refusal == RecoveryRefusal(u, e, action, target, g)
        request == NewOperation(e, action, k, u, g, None)
    IN  /\ FreshRequest(e, k)
        /\ "recovery" \in plan
        /\ refusal # "policy" => RecoveryHistoryIntact(e)
        /\ \/ /\ refusal # ""
              /\ operations' = Append(operations, Failed(request, current.generation, refusal))
              /\ UNCHANGED <<deployments, publications>>
           \/ /\ refusal = ""
              /\ action = "rollback"
              /\ publications' = Append(publications,
                    [environment |-> e, artifact |-> publications[target].artifact,
                     action |-> "rollback", source |-> target,
                     previous |-> current.active, operation |-> NextOperation])
              /\ operations' = Append(operations, Recovered(request, e, NextPublication, target))
              /\ deployments' = Move(e, NextPublication)
           \/ /\ refusal = ""
              /\ action = "unpublish"
              /\ operations' = Append(operations, Recovered(request, e, None, None))
              /\ deployments' = Move(e, None)
              /\ UNCHANGED publications
        /\ UNCHANGED <<approvals, verificationVars, governanceVars>>

-----------------------------------------------------------------------------
(* Governance changes while releases are under way. *)

UpdateEnvironmentPolicy(e, policy) ==
    /\ policy # policies[e]
    /\ ValidPolicies([policies EXCEPT ![e] = policy])
    /\ policies' = [policies EXCEPT ![e] = policy]
    /\ UNCHANGED <<releaseVars, verificationVars, roles, plan>>

UpdateMemberRole(u, role) ==
    /\ role # roles[u]
    /\ roles' = [roles EXCEPT ![u] = role]
    /\ UNCHANGED <<releaseVars, verificationVars, policies, plan>>

ChangePlan(p) ==
    /\ p # plan
    /\ plan' = p
    /\ UNCHANGED <<releaseVars, verificationVars, policies, roles>>

-----------------------------------------------------------------------------
ReleaseNext ==
    \/ \E u \in Users, k \in Keys, a \in Artifacts, g \in ReadGenerations("staging") :
           ActivateCompiledArtifact(u, k, a, g)
    \/ \E u \in Users, passed \in BOOLEAN : CreatePublicationVerification(u, passed)
    \/ \E u \in Users, k \in Keys, g \in ReadGenerations("production") : RequestPromotion(u, k, g)
    \/ \E u \in Users, o \in OperationIds :
           \/ ResumePromotion(u, o)
           \/ ApproveRelease(u, o)
           \/ RejectRelease(u, o)
    \/ \E u \in Users, e \in Environments, k \in Keys : \E g \in ReadGenerations(e) :
           \/ \E target \in PublicationIds :
                  RecoverDocumentRelease(u, e, k, "rollback", target, g)
           \/ RecoverDocumentRelease(u, e, k, "unpublish", None, g)

GovernanceNext ==
    \/ \E e \in Environments, p \in StagingPolicies \union ProductionPolicies :
           UpdateEnvironmentPolicy(e, p)
    \/ \E u \in Users, r \in RoleChoices : UpdateMemberRole(u, r)
    \/ \E p \in Plans : ChangePlan(p)

Next == ReleaseNext \/ GovernanceNext

Spec == Init /\ [][Next]_vars

-----------------------------------------------------------------------------
(* Properties. *)

\* A promotion awaits approval exactly while production's row names it as
\* pending, so that recovery and later promotions see it, and it was computed
\* against the generation that is still current: an approval can always be
\* acted on (setPendingPromotionDeployment, clearPendingReleaseOperation).
PendingIsTheAwaitedPromotion ==
    /\ deployments["staging"].pending = None
    /\ \A o \in OperationIds :
          operations[o].status = "awaiting_approval" <=> deployments["production"].pending = o
    /\ \A o \in OperationIds : operations[o].status = "awaiting_approval" =>
          /\ operations[o].environment = "production"
          /\ operations[o].action = "promote"
          /\ operations[o].source \in PublicationIds
          /\ operations[o].expectedGeneration = deployments["production"].generation

\* The operation that moved the pointer of e to generation g.
MovedTo(e, g) == {o \in OperationIds : /\ operations[o].environment = e
                                       /\ operations[o].status = "completed"
                                       /\ operations[o].resultGeneration = g}

\* The release history accounts for the pointer: every generation was made by
\* exactly one completed operation, computed against the one before it, and
\* the last of them named what is live now (compare-and-set on generation in
\* advanceExistingDeployment and recoverDocumentRelease).
HistoryAccountsForPointer ==
    \A e \in Environments :
        /\ \A g \in 1..deployments[e].generation :
              \E o \in MovedTo(e, g) : MovedTo(e, g) = {o} /\ operations[o].expectedGeneration = g - 1
        /\ \A o \in OperationIds :
              /\ operations[o].environment = e
              /\ operations[o].status = "completed"
              => operations[o].resultGeneration \in 1..deployments[e].generation
        /\ \A o \in MovedTo(e, deployments[e].generation) :
              deployments[e].active = operations[o].resultPublication
        /\ deployments[e].generation = 0 => deployments[e].active = None

\* Recovery never reports internal_error and its integrity checks never throw:
\* what is live is always the result of a completed operation of the current
\* generation (evaluateReleaseRecovery, loadReleaseRecoveryPublicationMaterials).
RecoveryIsNeverStuck ==
    /\ \A e \in Environments : RecoveryHistoryIntact(e)
    /\ \A o \in OperationIds : operations[o].error # "internal_error"

\* Nothing reaches production, through any sequence of promotions and
\* rollbacks, whose artifact was not published to staging and verified there.
ProductionWasVerifiedOnStaging ==
    \A p \in PublicationIds : publications[p].environment = "production" =>
        \E s \in everVerified : /\ publications[s].environment = "staging"
                                /\ publications[s].artifact = publications[p].artifact

\* A rejection is final: the operation it names has failed and stays failed,
\* whatever other approvals were recorded and whoever resubmits the request.
RejectionIsFinal ==
    \A a \in approvals : a.decision = "rejected" =>
        /\ operations[a.operation].status = "failed"
        /\ operations[a.operation].error = "release_approval_rejected"

\* Four eyes: where approvals are never the requester's to give, a promotion
\* completes only with as many approvals by others as the policy asks for at
\* that moment, however requests, resubmissions, decisions, roles and policies
\* change before it.
FourEyes ==
    [][(\A p \in ProductionPolicies : p.separateApprover) =>
         \A o \in DOMAIN operations' :
             /\ operations'[o].action = "promote"
             /\ operations'[o].status = "completed"
             /\ o \in OperationIds => operations[o].status # "completed"
             => Cardinality(Approvers(o) \ {operations'[o].requester})
                  >= policies["production"].requiredApprovals
      ]_vars

\* History is append-only and a finished operation never changes again: a
\* replay answers what the first request was told.
HistoryIsAppendOnly ==
    [][/\ \A p \in PublicationIds : p \in DOMAIN publications' /\ publications'[p] = publications[p]
       /\ \A o \in OperationIds :
             /\ o \in DOMAIN operations'
             /\ operations[o].status # "awaiting_approval" => operations'[o] = operations[o]
      ]_vars

\* The pointer of an environment moves only when one operation completes: the
\* generation then advances by one, and from the generation that operation
\* expected.  A rollback brings back an artifact that was live before.
PointerMovesByOneOperation ==
    [][\A e \in Environments :
         LET before == deployments[e]
             after == deployments'[e]
         IN  <<before.active, before.generation>> # <<after.active, after.generation>> =>
             /\ after.generation = before.generation + 1
             /\ \E o \in DOMAIN operations' :
                  /\ operations'[o].status = "completed"
                  /\ operations'[o].environment = e
                  /\ operations'[o].resultGeneration = after.generation
                  /\ operations'[o].expectedGeneration = before.generation
                  /\ o \in OperationIds => operations[o].status = "awaiting_approval"
                  /\ operations'[o].action = "rollback" =>
                       \E p \in PublicationIds :
                          /\ p # before.active
                          /\ publications[p].environment = e
                          /\ publications[p].artifact = publications'[after.active].artifact
      ]_vars

\* The log a reader of the pointer sees: what each generation made live.
LiveAt(e, g) ==
    LET o == CHOOSE x \in MovedTo(e, g) : TRUE
    IN  IF operations[o].action = "unpublish"
        THEN Offline
        ELSE publications[operations[o].resultPublication].artifact

Promise == INSTANCE ReleaseLog
    WITH log <- [e \in Environments |-> [g \in 1..deployments[e].generation |-> LiveAt(e, g)]],
         vouched <- deployments["staging"].active \in verified

\* The release tables implement the release log: staging takes new artifacts,
\* production only ever takes what staging is showing at that moment and the latest
\* report on it vouches for, however long the promotion awaited approval, and
\* rollback only returns to an entry of the environment's own log.
ImplementsReleaseLog == Promise!Spec

=============================================================================
