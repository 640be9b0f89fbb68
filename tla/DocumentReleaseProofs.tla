------------------------ MODULE DocumentReleaseProofs ------------------------
(***************************************************************************)
(* Theorems of DocumentRelease, for every value of its constants.          *)
(***************************************************************************)
EXTENDS DocumentRelease, SequenceTheorems, TLAPS

-----------------------------------------------------------------------------
(* What the operators the transactions are built from return. *)

LEMMA NewOperationType ==
    ASSUME NEW e \in Environments,
           NEW action \in {"publish", "promote", "rollback", "unpublish"},
           NEW k \in Keys, NEW u \in Users, NEW g \in Nat, NEW source \in Nat
    PROVE  NewOperation(e, action, k, u, g, source) \in Operation
    BY DEF NewOperation, Operation, None, Environments

LEMMA CompletedType ==
    ASSUME NEW operation \in Operation, NEW g \in Nat, NEW p \in Nat
    PROVE  /\ Completed(operation, g, p) \in Operation
           /\ Completed(operation, g, p).status = "completed"
    BY DEF Completed, Operation

LEMMA AwaitingType ==
    ASSUME NEW operation \in Operation
    PROVE  /\ Awaiting(operation) \in Operation
           /\ Awaiting(operation).status = "awaiting_approval"
           /\ Awaiting(operation).environment = operation.environment
           /\ Awaiting(operation).action = operation.action
           /\ Awaiting(operation).source = operation.source
           /\ Awaiting(operation).expectedGeneration = operation.expectedGeneration
    BY DEF Awaiting, Operation

LEMMA RecoveredType ==
    ASSUME deployments \in [Environments -> Deployment], NEW operation \in Operation,
           NEW e \in Environments, NEW p \in Nat, NEW source \in Nat
    PROVE  /\ Recovered(operation, e, p, source) \in Operation
           /\ Recovered(operation, e, p, source).status = "completed"
<1> DEFINE done == Completed(operation, deployments[e].generation + 1, p)
<1>1. deployments[e].generation + 1 \in Nat /\ deployments[e].active \in Nat
    BY DEF Deployment
<1>2. done \in Operation /\ done.status = "completed"
    BY <1>1, CompletedType
<1> HIDE DEF done
<1>3. /\ [done EXCEPT !.replaced = deployments[e].active, !.source = source] \in Operation
      /\ [done EXCEPT !.replaced = deployments[e].active, !.source = source].status = "completed"
    BY <1>1, <1>2 DEF Operation
<1> QED
    BY <1>3 DEF Recovered, done

LEMMA FailedType ==
    ASSUME NEW operation \in Operation, NEW g \in Nat,
           NEW code \in {"deployment_changed", "active_publication_changed",
                         "policy", "already_inactive", "release_operation_in_progress",
                         "internal_error", "rollback_target_invalid",
                         "artifact_incompatible"}
    PROVE  /\ Failed(operation, g, code) \in Operation
           /\ Failed(operation, g, code).status = "failed"
    BY DEF Failed, Operation

LEMMA FailedStatus ==
    ASSUME NEW operation \in Operation, NEW g, NEW code
    PROVE  Failed(operation, g, code).status = "failed"
    BY DEF Failed, Operation

\* A failed pending operation changes that row alone.
LEMMA FailedOperationsType ==
    ASSUME operations \in Seq(Operation), NEW o \in OperationIds,
           NEW code \in {"active_publication_changed", "release_approval_rejected"}
    PROVE  /\ FailedOperations(o, code) \in Seq(Operation)
           /\ Len(FailedOperations(o, code)) = Len(operations)
           /\ FailedOperations(o, code)[o] =
                 [operations[o] EXCEPT !.status = "failed", !.error = code]
           /\ \A x \in OperationIds \ {o} : FailedOperations(o, code)[x] = operations[x]
<1> DEFINE row == [operations[o] EXCEPT !.status = "failed", !.error = code]
<1>1. o \in 1..Len(operations) /\ operations[o] \in Operation
    BY DEF OperationIds
<1>2. row \in Operation
    BY <1>1 DEF Operation
<1>3. FailedOperations(o, code) = [operations EXCEPT ![o] = row]
    BY DEF FailedOperations
<1> HIDE DEF row
<1>4. /\ FailedOperations(o, code) \in Seq(Operation)
      /\ Len(FailedOperations(o, code)) = Len(operations)
      /\ \A x \in 1..Len(operations) :
            FailedOperations(o, code)[x] = IF x = o THEN row ELSE operations[x]
    BY <1>1, <1>2, <1>3, ExceptSeq
<1> QED
    BY <1>1, <1>4 DEF row, OperationIds

LEMMA ClearPendingType ==
    ASSUME deployments \in [Environments -> Deployment], NEW o
    PROVE  /\ ClearPending(o) \in [Environments -> Deployment]
           /\ \A e \in Environments :
                 /\ ClearPending(o)[e].active = deployments[e].active
                 /\ ClearPending(o)[e].generation = deployments[e].generation
                 /\ ClearPending(o)[e].pending =
                       IF deployments[e].pending = o THEN None ELSE deployments[e].pending
    BY DEF ClearPending, Deployment, None

LEMMA MoveType ==
    ASSUME deployments \in [Environments -> Deployment],
           NEW e \in Environments, NEW p \in Nat
    PROVE  /\ Move(e, p) \in [Environments -> Deployment]
           /\ Move(e, p)[e].pending = None
           /\ Move(e, p)[e] = [active |-> p, pending |-> None,
                               generation |-> deployments[e].generation + 1]
           /\ \A x \in Environments \ {e} : Move(e, p)[x] = deployments[x]
    BY DEF Move, Deployment, None

LEMMA PendType ==
    ASSUME NEW rows \in [Environments -> Deployment], NEW o \in Nat
    PROVE  /\ Pend(rows, o) \in [Environments -> Deployment]
           /\ Pend(rows, o)["staging"] = rows["staging"]
           /\ Pend(rows, o)["production"].active = rows["production"].active
           /\ Pend(rows, o)["production"].generation = rows["production"].generation
           /\ Pend(rows, o)["production"].pending = o
    BY DEF Pend, Deployment, Environments

\* The rows a first promotion request leaves once the stale one has failed.
LEMMA WithoutStalePendingType ==
    ASSUME TypeOK
    PROVE  /\ WithoutStalePending.deployments \in [Environments -> Deployment]
           /\ WithoutStalePending.operations \in Seq(Operation)
           /\ Len(WithoutStalePending.operations) = Len(operations)
           /\ \A e \in Environments :
                 /\ WithoutStalePending.deployments[e].active \in 0..Len(publications)
                 /\ WithoutStalePending.deployments[e].pending \in 0..Len(operations)
<1> DEFINE pending == deployments["production"].pending
<1>0. /\ deployments \in [Environments -> Deployment] /\ operations \in Seq(Operation)
      /\ Len(operations) \in Nat /\ "production" \in Environments
      /\ \A e \in Environments : /\ deployments[e].active \in 0..Len(publications)
                                /\ deployments[e].pending \in 0..Len(operations)
    BY DEF TypeOK, Environments
<1>1. CASE pending = None
    BY <1>0, <1>1 DEF WithoutStalePending
<1>2. CASE pending # None
    <2>1. pending \in OperationIds
        BY <1>0, <1>2 DEF OperationIds, None
    <2>2. /\ FailedOperations(pending, "active_publication_changed") \in Seq(Operation)
          /\ Len(FailedOperations(pending, "active_publication_changed")) = Len(operations)
        BY <1>0, <2>1, FailedOperationsType
    <2>3. /\ ClearPending(pending) \in [Environments -> Deployment]
          /\ \A e \in Environments :
                /\ ClearPending(pending)[e].active \in 0..Len(publications)
                /\ ClearPending(pending)[e].pending \in 0..Len(operations)
        BY <1>0, ClearPendingType DEF None
    <2> QED
        BY <1>2, <2>2, <2>3 DEF WithoutStalePending
<1> QED
    BY <1>1, <1>2

-----------------------------------------------------------------------------
(* The type invariant: one lemma per action. *)

LEMMA CompletedPromotionType ==
    ASSUME deployments \in [Environments -> Deployment], publications \in Seq(Publication),
           NEW operation \in Operation
    PROVE  /\ CompletedPromotion(operation) \in Operation
           /\ CompletedPromotion(operation).status = "completed"
<1>1. deployments["production"].generation + 1 \in Nat /\ NextPublication \in Nat
    BY DEF Deployment, Environments, NextPublication
<1> QED
    BY <1>1, CompletedType DEF CompletedPromotion

LEMMA PromotionOfType ==
    ASSUME deployments \in [Environments -> Deployment], publications \in Seq(Publication),
           NEW source \in 1..Len(publications), NEW o \in Nat
    PROVE  PromotionOf(source, o) \in Publication
<1>1. publications[source] \in Publication
    BY ElementOfSeq
<1>2. publications[source].artifact \in Artifacts
    BY <1>1 DEF Publication
<1>3. deployments["production"].active \in Nat
    BY DEF Deployment, Environments
<1> QED
    BY <1>2, <1>3 DEF PromotionOf, Publication, Environments

\* What every transaction that publishes leaves: one row more in publications,
\* which the moved pointer names, and no fewer operations.
LEMMA PublishedType ==
    ASSUME TypeOK, NEW e \in Environments, NEW row \in Publication,
           publications' = Append(publications, row),
           deployments' = Move(e, NextPublication),
           operations' \in Seq(Operation), Len(operations') >= Len(operations),
           UNCHANGED <<approvals, verified, everVerified, policies, roles, plan>>
    PROVE  TypeOK'
<1>1. /\ publications' \in Seq(Publication)
      /\ Len(publications') = Len(publications) + 1
    BY AppendProperties DEF TypeOK
<1>2. /\ Len(operations) \in Nat /\ Len(operations') \in Nat /\ Len(publications) \in Nat
      /\ NextPublication = Len(publications) + 1
    BY DEF TypeOK, NextPublication
<1>3. /\ deployments' \in [Environments -> Deployment]
      /\ deployments'[e] = [active |-> NextPublication, pending |-> None,
                            generation |-> deployments[e].generation + 1]
      /\ \A x \in Environments \ {e} : deployments'[x] = deployments[x]
    BY <1>2, MoveType DEF TypeOK
<1> HIDE DEF NextPublication
<1>4. ASSUME NEW x \in Environments
      PROVE  /\ deployments'[x].active \in 0..Len(publications')
             /\ deployments'[x].pending \in 0..Len(operations')
    <2>1. CASE x = e
        BY <1>1, <1>2, <1>3, <2>1 DEF None
    <2>2. CASE x # e
        <3>1. deployments'[x] = deployments[x]
            BY <1>3, <2>2
        <3>2. /\ deployments[x].active \in 0..Len(publications)
              /\ deployments[x].pending \in 0..Len(operations)
            BY DEF TypeOK
        <3> QED
            BY <1>1, <1>2, <3>1, <3>2
    <2> QED
        BY <2>1, <2>2
<1>5. \A a \in approvals' : a.operation \in 1..Len(operations')
    BY <1>2 DEF TypeOK
<1> QED
    BY <1>1, <1>2, <1>3, <1>4, <1>5 DEF TypeOK

\* ... and every one that publishes nothing and decides nothing.
LEMMA UnpublishedType ==
    ASSUME TypeOK, UNCHANGED publications,
           operations' \in Seq(Operation), Len(operations') >= Len(operations),
           deployments' \in [Environments -> Deployment],
           \A x \in Environments : /\ deployments'[x].active \in 0..Len(publications)
                                   /\ deployments'[x].pending \in 0..Len(operations'),
           UNCHANGED <<approvals, verified, everVerified, policies, roles, plan>>
    PROVE  TypeOK'
<1>1. Len(operations) \in Nat /\ Len(operations') \in Nat
    BY DEF TypeOK
<1>2. \A a \in approvals' : a.operation \in 1..Len(operations')
    BY <1>1 DEF TypeOK
<1> QED
    BY <1>2 DEF TypeOK

LEMMA InitType == Init => TypeOK
    BY ConstantsAssumption, EmptySeq
    DEF Init, TypeOK, Deployment, Environments, None

LEMMA ActivateType ==
    ASSUME TypeOK, NEW u \in Users, NEW k \in Keys, NEW artifact \in Artifacts,
           NEW g \in ReadGenerations("staging"),
           ActivateCompiledArtifact(u, k, artifact, g)
    PROVE  TypeOK'
<1> DEFINE e == "staging"
           actual == deployments[e].generation
           request == NewOperation(e, "publish", k, u, g, None)
           row == [environment |-> e, artifact |-> artifact, action |-> "publish",
                   source |-> None, previous |-> deployments[e].active,
                   operation |-> NextOperation]
<1>1. /\ actual \in Nat /\ g \in Nat /\ deployments[e].active \in Nat
      /\ Len(operations) \in Nat /\ Len(publications) \in Nat
      /\ actual + 1 \in Nat /\ NextPublication \in Nat
    BY DEF TypeOK, Deployment, Environments, ReadGenerations, NextPublication
<1>2. request \in Operation
    BY <1>1, NewOperationType DEF Environments, None
<1>3. UNCHANGED <<approvals, verified, everVerified, policies, roles, plan>>
    BY DEF ActivateCompiledArtifact, verificationVars, governanceVars
<1>4. CASE ~IsCurrent(e, g)
    <2>1. /\ operations' = Append(operations, Failed(request, actual, "deployment_changed"))
          /\ UNCHANGED <<deployments, publications>>
        BY <1>4 DEF ActivateCompiledArtifact
    <2>2. Failed(request, actual, "deployment_changed") \in Operation
        BY <1>1, <1>2, FailedType
    <2>3. operations' \in Seq(Operation) /\ Len(operations') = Len(operations) + 1
        BY <2>1, <2>2, AppendProperties DEF TypeOK
    <2> QED
        BY <1>1, <1>3, <2>1, <2>3 DEF TypeOK
<1>5. CASE IsCurrent(e, g)
    <2>1. /\ publications' = Append(publications, row)
          /\ deployments' = Move(e, NextPublication)
          /\ operations' = Append(operations, Completed(request, actual + 1, NextPublication))
        BY <1>5 DEF ActivateCompiledArtifact
    <2>2. row \in Publication
        BY <1>1 DEF Publication, Environments, NextOperation, None
    <2>3. Completed(request, actual + 1, NextPublication) \in Operation
        BY <1>1, <1>2, CompletedType
    <2>4. operations' \in Seq(Operation) /\ Len(operations') = Len(operations) + 1
        BY <2>1, <2>3, AppendProperties DEF TypeOK
    <2> QED
        BY <1>1, <1>3, <2>1, <2>2, <2>4, PublishedType DEF Environments
<1> QED
    BY <1>4, <1>5

LEMMA VerificationType ==
    ASSUME TypeOK, NEW u \in Users, NEW passed \in BOOLEAN,
           CreatePublicationVerification(u, passed)
    PROVE  TypeOK'
<1>1. deployments["staging"].active \in 1..Len(publications)
    BY DEF TypeOK, CreatePublicationVerification, Environments, None
<1>2. UNCHANGED <<deployments, publications, operations, approvals, policies, roles, plan>>
    BY DEF CreatePublicationVerification, releaseVars, governanceVars
<1>3. verified' \subseteq 1..Len(publications) /\ everVerified' \subseteq 1..Len(publications)
    BY <1>1 DEF TypeOK, CreatePublicationVerification
<1> QED
    BY <1>2, <1>3 DEF TypeOK

LEMMA RequestPromotionType ==
    ASSUME TypeOK, NEW u \in Users, NEW k \in Keys, NEW g \in ReadGenerations("production"),
           RequestPromotion(u, k, g)
    PROVE  TypeOK'
<1> DEFINE e == "production"
           source == deployments["staging"].active
           actual == deployments[e].generation
           base == WithoutStalePending
           request == NewOperation(e, "promote", k, u, g, source)
<1>1. /\ actual \in Nat /\ g \in Nat /\ source \in Nat /\ deployments[e].active \in Nat
      /\ Len(operations) \in Nat /\ Len(publications) \in Nat
      /\ NextPublication \in Nat /\ NextOperation \in Nat
      /\ e \in Environments /\ "staging" \in Environments
    BY DEF TypeOK, Deployment, Environments, ReadGenerations, NextPublication, NextOperation
<1>2. request \in Operation
    BY <1>1, NewOperationType
<1>3. UNCHANGED <<approvals, verified, everVerified, policies, roles, plan>>
    BY DEF RequestPromotion, verificationVars, governanceVars
<1>4. /\ base.deployments \in [Environments -> Deployment]
      /\ base.operations \in Seq(Operation)
      /\ Len(base.operations) = Len(operations)
      /\ \A x \in Environments :
            /\ base.deployments[x].active \in 0..Len(publications)
            /\ base.deployments[x].pending \in 0..Len(operations)
    BY WithoutStalePendingType
<1>5. source \in 1..Len(publications)
    BY DEF TypeOK, RequestPromotion, SourceIsVerified
<1> HIDE DEF base, request
<1>6. CASE /\ operations' = Append(base.operations, Failed(request, actual, "deployment_changed"))
           /\ deployments' = base.deployments
           /\ UNCHANGED publications
    <2>1. Failed(request, actual, "deployment_changed") \in Operation
        BY <1>1, <1>2, FailedType
    <2>2. operations' \in Seq(Operation) /\ Len(operations') = Len(operations) + 1
        BY <1>4, <1>6, <2>1, AppendProperties
    <2>3. /\ deployments' \in [Environments -> Deployment]
          /\ \A x \in Environments : /\ deployments'[x].active \in 0..Len(publications)
                                     /\ deployments'[x].pending \in 0..Len(operations)
        BY <1>4, <1>6
    <2> QED
        BY <1>1, <1>3, <1>6, <2>2, <2>3 DEF TypeOK
<1>7. CASE /\ operations' = Append(base.operations, Awaiting(request))
           /\ deployments' = Pend(base.deployments, NextOperation)
           /\ UNCHANGED publications
    <2>1. Awaiting(request) \in Operation
        BY <1>2, AwaitingType
    <2>2. operations' \in Seq(Operation) /\ Len(operations') = Len(operations) + 1
        BY <1>4, <1>7, <2>1, AppendProperties
    <2>3. /\ deployments' \in [Environments -> Deployment]
          /\ deployments'["staging"] = base.deployments["staging"]
          /\ deployments'[e].active = base.deployments[e].active
          /\ deployments'[e].pending = NextOperation
        BY <1>1, <1>4, <1>7, PendType
    <2>4. \A x \in Environments : /\ deployments'[x].active \in 0..Len(publications)
                                  /\ deployments'[x].pending \in 0..Len(operations')
        BY <1>1, <1>4, <2>2, <2>3 DEF TypeOK, Environments, NextOperation
    <2> QED
        BY <1>1, <1>3, <1>7, <2>2, <2>3, <2>4 DEF TypeOK
<1>8. CASE /\ publications' = Append(publications, PromotionOf(source, NextOperation))
           /\ operations' = Append(base.operations, CompletedPromotion(request))
           /\ deployments' = Move(e, NextPublication)
    <2>1. CompletedPromotion(request) \in Operation
        BY <1>1, <1>2, CompletedPromotionType DEF TypeOK
    <2>2. operations' \in Seq(Operation) /\ Len(operations') = Len(operations) + 1
        BY <1>4, <1>8, <2>1, AppendProperties
    <2>3. PromotionOf(source, NextOperation) \in Publication
        BY <1>1, <1>5, PromotionOfType DEF TypeOK
    <2> QED
        BY <1>1, <1>3, <1>8, <2>2, <2>3, PublishedType
<1> QED
    BY <1>6, <1>7, <1>8 DEF RequestPromotion, base, request

LEMMA ResumePromotionType ==
    ASSUME TypeOK, NEW u \in Users, NEW o \in OperationIds, ResumePromotion(u, o)
    PROVE  TypeOK'
<1> DEFINE e == "production"
           operation == operations[o]
           source == operation.source
           actual == deployments[e].generation
<1>1. /\ deployments \in [Environments -> Deployment]
      /\ operations \in Seq(Operation) /\ publications \in Seq(Publication)
      /\ Len(operations) \in Nat /\ Len(publications) \in Nat
      /\ e \in Environments /\ actual \in Nat
      /\ \A x \in Environments : /\ deployments[x].active \in 0..Len(publications)
                                 /\ deployments[x].pending \in 0..Len(operations)
    BY DEF TypeOK, Deployment, Environments
<1>2. o \in 1..Len(operations) /\ operation \in Operation
    BY <1>1, ElementOfSeq DEF OperationIds
<1>3. UNCHANGED <<approvals, verified, everVerified, policies, roles, plan>>
    BY DEF ResumePromotion, verificationVars, governanceVars
<1> HIDE DEF operation
<1>4. CASE /\ operations' = FailedOperations(o, "active_publication_changed")
           /\ deployments' = ClearPending(o)
           /\ UNCHANGED publications
    <2>1. operations' \in Seq(Operation) /\ Len(operations') = Len(operations)
        BY <1>1, <1>4, FailedOperationsType
    <2>2. /\ deployments' \in [Environments -> Deployment]
          /\ \A x \in Environments : /\ deployments'[x].active \in 0..Len(publications)
                                     /\ deployments'[x].pending \in 0..Len(operations)
        BY <1>1, <1>4, ClearPendingType DEF None
    <2> QED
        BY <1>3, <1>4, <2>1, <2>2 DEF TypeOK
<1>5. CASE deployments' = Pend(deployments, o) /\ UNCHANGED <<operations, publications>>
    <2>1. /\ deployments' \in [Environments -> Deployment]
          /\ deployments'["staging"] = deployments["staging"]
          /\ deployments'[e].active = deployments[e].active
          /\ deployments'[e].pending = o
        BY <1>1, <1>2, <1>5, PendType
    <2>2. \A x \in Environments : /\ deployments'[x].active \in 0..Len(publications)
                                  /\ deployments'[x].pending \in 0..Len(operations)
        BY <1>1, <1>2, <2>1 DEF Environments
    <2> QED
        BY <1>3, <1>5, <2>1, <2>2 DEF TypeOK
<1>6. CASE /\ operations' = [operations EXCEPT ![o] = Failed(@, actual, "deployment_changed")]
           /\ UNCHANGED <<deployments, publications>>
    <2>1. Failed(operations[o], actual, "deployment_changed") \in Operation
        BY <1>1, <1>2, FailedType DEF operation
    <2>2. operations' \in Seq(Operation) /\ Len(operations') = Len(operations)
        BY <1>1, <1>2, <1>6, <2>1, ExceptSeq
    <2> QED
        BY <1>3, <1>6, <2>2 DEF TypeOK
<1>7. CASE /\ SourceIsVerified(source)
           /\ publications' = Append(publications, PromotionOf(source, o))
           /\ operations' = [operations EXCEPT ![o] = CompletedPromotion(@)]
           /\ deployments' = Move(e, NextPublication)
    <2>1. CompletedPromotion(operations[o]) \in Operation
        BY <1>1, <1>2, CompletedPromotionType DEF operation
    <2>2. operations' \in Seq(Operation) /\ Len(operations') = Len(operations)
        BY <1>1, <1>2, <1>7, <2>1, ExceptSeq
    <2>3. source \in 1..Len(publications)
        BY <1>7 DEF TypeOK, SourceIsVerified
    <2>4. o \in Nat
        BY <1>1, <1>2
    <2>5. PromotionOf(source, o) \in Publication
        BY <1>1, <2>3, <2>4, PromotionOfType
    <2> QED
        BY <1>1, <1>3, <1>7, <2>2, <2>5, PublishedType
<1> QED
    BY <1>4, <1>5, <1>6, <1>7 DEF ResumePromotion, operation

LEMMA DecisionType ==
    ASSUME TypeOK, NEW u \in Users, NEW o \in OperationIds,
           ApproveRelease(u, o) \/ RejectRelease(u, o)
    PROVE  TypeOK'
<1>1. /\ deployments \in [Environments -> Deployment] /\ operations \in Seq(Operation)
      /\ Len(operations) \in Nat /\ o \in 1..Len(operations)
      /\ \A x \in Environments : /\ deployments[x].active \in 0..Len(publications)
                                 /\ deployments[x].pending \in 0..Len(operations)
    BY DEF TypeOK, OperationIds
<1>2. UNCHANGED <<publications, verified, everVerified, policies, roles, plan>>
    BY DEF ApproveRelease, RejectRelease, verificationVars, governanceVars
<1>3. \E decision \in {"approved", "rejected"} :
          approvals' = approvals \union {[operation |-> o, user |-> u, decision |-> decision]}
    BY DEF ApproveRelease, RejectRelease
<1>4. approvals' \subseteq Approval /\ \A a \in approvals' : a.operation \in 1..Len(operations)
    BY <1>1, <1>3 DEF TypeOK, Approval
<1>5. CASE ApproveRelease(u, o)
    BY <1>2, <1>4, <1>5 DEF TypeOK, ApproveRelease
<1>6. CASE RejectRelease(u, o)
    <2>1. operations' \in Seq(Operation) /\ Len(operations') = Len(operations)
        BY <1>1, <1>6, FailedOperationsType DEF RejectRelease
    <2>2. /\ deployments' \in [Environments -> Deployment]
          /\ \A x \in Environments : /\ deployments'[x].active \in 0..Len(publications)
                                     /\ deployments'[x].pending \in 0..Len(operations)
        BY <1>1, <1>6, ClearPendingType DEF RejectRelease, None
    <2> QED
        BY <1>2, <1>4, <2>1, <2>2 DEF TypeOK
<1> QED
    BY <1>5, <1>6

LEMMA RefusalType ==
    ASSUME NEW u, NEW e, NEW action, NEW target, NEW g
    PROVE  RecoveryRefusal(u, e, action, target, g) \in
               {"", "policy", "already_inactive", "release_operation_in_progress",
                "deployment_changed", "internal_error", "rollback_target_invalid",
                "artifact_incompatible"}
    BY DEF RecoveryRefusal, RollbackRefusal

LEMMA RecoverType ==
    ASSUME TypeOK, NEW u \in Users, NEW e \in Environments, NEW k \in Keys,
           NEW action \in {"rollback", "unpublish"},
           NEW target, action = "rollback" => target \in PublicationIds,
           NEW g \in ReadGenerations(e),
           RecoverDocumentRelease(u, e, k, action, target, g)
    PROVE  TypeOK'
<1> DEFINE refusal == RecoveryRefusal(u, e, action, target, g)
           request == NewOperation(e, action, k, u, g, None)
           actual == deployments[e].generation
           row == [environment |-> e, artifact |-> publications[target].artifact,
                   action |-> "rollback", source |-> target,
                   previous |-> deployments[e].active, operation |-> NextOperation]
<1>1. /\ deployments \in [Environments -> Deployment]
      /\ operations \in Seq(Operation) /\ publications \in Seq(Publication)
      /\ Len(operations) \in Nat /\ Len(publications) \in Nat
      /\ NextPublication \in Nat /\ NextOperation \in Nat /\ None \in Nat
      /\ actual \in Nat /\ g \in Nat /\ deployments[e].active \in Nat
      /\ \A x \in Environments : /\ deployments[x].active \in 0..Len(publications)
                                 /\ deployments[x].pending \in 0..Len(operations)
    BY DEF TypeOK, Deployment, ReadGenerations, NextPublication, NextOperation, None
<1>2. request \in Operation
    BY <1>1, NewOperationType
<1>3. UNCHANGED <<approvals, verified, everVerified, policies, roles, plan>>
    BY DEF RecoverDocumentRelease, verificationVars, governanceVars
<1> HIDE DEF request, refusal
<1>4. CASE /\ refusal # ""
           /\ operations' = Append(operations, Failed(request, actual, refusal))
           /\ UNCHANGED <<deployments, publications>>
    <2>0. refusal \in {"deployment_changed", "policy", "already_inactive", "internal_error",
                       "release_operation_in_progress", "rollback_target_invalid",
                       "artifact_incompatible"}
        BY <1>4, RefusalType DEF refusal
    <2>1. Failed(request, actual, refusal) \in Operation
        BY <1>1, <1>2, <2>0, FailedType
    <2>2. operations' \in Seq(Operation) /\ Len(operations') = Len(operations) + 1
        BY <1>1, <1>4, <2>1, AppendProperties
    <2>3. deployments' = deployments /\ publications' = publications
        BY <1>4
    <2>4. ASSUME NEW x \in Environments
          PROVE  /\ deployments'[x].active \in 0..Len(publications)
                 /\ deployments'[x].pending \in 0..Len(operations')
        BY <1>1, <2>2, <2>3
    <2>5. operations' \in Seq(Operation) /\ Len(operations') >= Len(operations)
        BY <1>1, <2>2
    <2> QED
        BY <1>1, <1>3, <2>3, <2>4, <2>5, UnpublishedType
<1>5. CASE /\ action = "rollback"
           /\ publications' = Append(publications, row)
           /\ operations' = Append(operations, Recovered(request, e, NextPublication, target))
           /\ deployments' = Move(e, NextPublication)
    <2>1. target \in 1..Len(publications)
        BY <1>1, <1>5 DEF PublicationIds
    <2>2. publications[target] \in Publication /\ publications[target].artifact \in Artifacts
        <3>1. publications[target] \in Publication
            BY <1>1, <2>1, ElementOfSeq
        <3> QED
            BY <3>1 DEF Publication
    <2>3. row \in Publication
        BY <1>1, <2>1, <2>2 DEF Publication
    <2>4. Recovered(request, e, NextPublication, target) \in Operation
        BY <1>1, <1>2, <2>1, RecoveredType
    <2>5. operations' \in Seq(Operation) /\ Len(operations') = Len(operations) + 1
        BY <1>1, <1>5, <2>4, AppendProperties
    <2> QED
        BY <1>1, <1>3, <1>5, <2>3, <2>5, PublishedType
<1>6. CASE /\ operations' = Append(operations, Recovered(request, e, None, None))
           /\ deployments' = Move(e, None)
           /\ UNCHANGED publications
    <2>1. Recovered(request, e, None, None) \in Operation
        BY <1>1, <1>2, RecoveredType
    <2>2. operations' \in Seq(Operation) /\ Len(operations') = Len(operations) + 1
        BY <1>1, <1>6, <2>1, AppendProperties
    <2>3. /\ deployments' \in [Environments -> Deployment]
          /\ deployments'[e] = [active |-> None, pending |-> None, generation |-> actual + 1]
          /\ \A x \in Environments \ {e} : deployments'[x] = deployments[x]
        BY <1>1, <1>6, MoveType
    <2>4. ASSUME NEW x \in Environments
          PROVE  /\ deployments'[x].active \in 0..Len(publications)
                 /\ deployments'[x].pending \in 0..Len(operations)
        <3>1. CASE x = e
            BY <1>1, <2>3, <3>1 DEF None
        <3>2. CASE x # e
            BY <1>1, <2>3, <3>2
        <3> QED
            BY <3>1, <3>2
    <2> QED
        BY <1>1, <1>3, <1>6, <2>2, <2>3, <2>4 DEF TypeOK
<1> QED
    BY <1>4, <1>5, <1>6 DEF RecoverDocumentRelease, request, refusal

LEMMA GovernanceType == TypeOK /\ GovernanceNext => TypeOK'
<1> SUFFICES ASSUME TypeOK, GovernanceNext
             PROVE  TypeOK'
    OBVIOUS
<1>1. ASSUME NEW e \in Environments, NEW p \in StagingPolicies \union ProductionPolicies,
             UpdateEnvironmentPolicy(e, p)
      PROVE  TypeOK'
    <2>1. policies' \in [Environments -> Policy]
        BY <1>1, ConstantsAssumption DEF UpdateEnvironmentPolicy, TypeOK
    <2> QED
        BY <1>1, <2>1
        DEF UpdateEnvironmentPolicy, TypeOK, releaseVars, verificationVars
<1>2. ASSUME NEW u \in Users, NEW role \in RoleChoices, UpdateMemberRole(u, role)
      PROVE  TypeOK'
    <2>1. roles' \in [Users -> Roles]
        BY <1>2, ConstantsAssumption DEF UpdateMemberRole, TypeOK
    <2> QED
        BY <1>2, <2>1 DEF UpdateMemberRole, TypeOK, releaseVars, verificationVars
<1>3. ASSUME NEW p \in Plans, ChangePlan(p)
      PROVE  TypeOK'
    BY <1>3, ConstantsAssumption DEF ChangePlan, TypeOK, releaseVars, verificationVars
<1> QED
    BY <1>1, <1>2, <1>3 DEF GovernanceNext

LEMMA NextType == TypeOK /\ [Next]_vars => TypeOK'
<1> SUFFICES ASSUME TypeOK, [Next]_vars
             PROVE  TypeOK'
    OBVIOUS
<1>1. CASE ReleaseNext
    BY <1>1, ActivateType, VerificationType, RequestPromotionType, ResumePromotionType,
       DecisionType, RecoverType DEF ReleaseNext
<1>2. CASE GovernanceNext
    BY <1>2, GovernanceType
<1>3. CASE UNCHANGED vars
    BY <1>3 DEF vars, releaseVars, verificationVars, governanceVars, TypeOK
<1> QED
    BY <1>1, <1>2, <1>3 DEF Next

\* The release tables, policies and roles keep their types, and every
\* reference between them names a row that exists.
THEOREM TypeCorrect == Spec => []TypeOK
<1>1. Init => TypeOK
    BY InitType
<1> QED
    BY <1>1, NextType, PTL DEF Spec

-----------------------------------------------------------------------------
(* A promotion awaits approval exactly while production's row names it.    *)
(* With the types this is inductive as it stands.                          *)

LEMMA AppendedRow ==
    ASSUME operations \in Seq(Operation), NEW rows \in Seq(Operation),
           Len(rows) = Len(operations), NEW row \in Operation,
           operations' = Append(rows, row)
    PROVE  /\ OperationIds' = OperationIds \union {NextOperation}
           /\ NextOperation \notin OperationIds /\ NextOperation # None
           /\ operations'[NextOperation] = row
           /\ \A x \in OperationIds : operations'[x] = rows[x]
<1>1. Len(operations) \in Nat /\ OperationIds = 1..Len(operations)
    BY DEF OperationIds
<1>2. /\ operations' \in Seq(Operation) /\ Len(operations') = Len(operations) + 1
      /\ \A x \in 1..Len(operations) : operations'[x] = rows[x]
      /\ operations'[Len(operations) + 1] = row
    BY AppendProperties
<1>3. OperationIds' = 1..(Len(operations) + 1)
    BY <1>2 DEF OperationIds
<1> QED
    BY <1>1, <1>2, <1>3 DEF NextOperation, None

LEMMA NothingAwaits ==
    ASSUME TypeOK',
           \A e \in Environments : deployments'[e].pending = None,
           \A o \in OperationIds' : operations'[o].status # "awaiting_approval"
    PROVE  PendingIsTheAwaitedPromotion'
<1>1. None \notin OperationIds'
    BY DEF TypeOK, OperationIds, None
<1> QED
    BY <1>1 DEF PendingIsTheAwaitedPromotion, Environments

\* A row that does not await approval is appended: the pointer of production
\* may move as long as nothing is pending there.
LEMMA AppendedToHistory ==
    ASSUME TypeOK, TypeOK', PendingIsTheAwaitedPromotion, NEW row \in Operation,
           row.status # "awaiting_approval",
           operations' = Append(operations, row),
           \A p \in PublicationIds : p \in PublicationIds',
           deployments'["staging"].pending = None,
           deployments'["production"].pending = deployments["production"].pending,
           \/ deployments'["production"].generation = deployments["production"].generation
           \/ deployments["production"].pending = None
    PROVE  PendingIsTheAwaitedPromotion'
<1>1. /\ OperationIds' = OperationIds \union {NextOperation}
      /\ NextOperation \notin OperationIds /\ NextOperation # None
      /\ operations'[NextOperation] = row
      /\ \A x \in OperationIds : operations'[x] = operations[x]
    BY AppendedRow DEF TypeOK
<1>2. deployments["production"].pending # NextOperation
    BY DEF TypeOK, NextOperation, Environments
<1>3. None \notin OperationIds
    BY DEF TypeOK, OperationIds, None
<1> QED
    BY <1>1, <1>2, <1>3 DEF PendingIsTheAwaitedPromotion

LEMMA RequestInOperation ==
    ASSUME TypeOK, NEW e \in Environments,
           NEW action \in {"publish", "promote", "rollback", "unpublish"},
           NEW k \in Keys, NEW u \in Users, NEW g \in ReadGenerations(e), NEW source \in Nat
    PROVE  /\ NewOperation(e, action, k, u, g, source) \in Operation
           /\ deployments[e].generation \in Nat /\ g \in Nat
<1>1. deployments[e].generation \in Nat /\ g \in Nat
    BY DEF TypeOK, Deployment, ReadGenerations
<1> QED
    BY <1>1, NewOperationType

LEMMA PublicationsGrow ==
    ASSUME publications \in Seq(Publication), NEW row, publications' = Append(publications, row)
    PROVE  \A p \in PublicationIds : p \in PublicationIds' /\ publications'[p] = publications[p]
<1> DEFINE S == Publication \union {row}
<1>1. publications \in Seq(S) /\ row \in S
    BY SeqMonotonic
<1> HIDE DEF S
<1>2. /\ Len(publications) \in Nat
      /\ publications' \in Seq(S) /\ Len(publications') = Len(publications) + 1
      /\ \A p \in 1..Len(publications) : publications'[p] = publications[p]
    BY <1>1, AppendProperties
<1>3. PublicationIds = 1..Len(publications) /\ PublicationIds' = 1..(Len(publications) + 1)
    BY <1>1, <1>2 DEF PublicationIds
<1> QED
    BY <1>2, <1>3

LEMMA ActivatePending ==
    ASSUME TypeOK, TypeOK', PendingIsTheAwaitedPromotion,
           NEW u \in Users, NEW k \in Keys, NEW artifact \in Artifacts,
           NEW g \in ReadGenerations("staging"),
           ActivateCompiledArtifact(u, k, artifact, g)
    PROVE  PendingIsTheAwaitedPromotion'
<1> DEFINE e == "staging"
           actual == deployments[e].generation
           request == NewOperation(e, "publish", k, u, g, None)
<1>1. request \in Operation /\ actual \in Nat
    BY RequestInOperation DEF Environments, None
<1>2. /\ actual + 1 \in Nat /\ NextPublication \in Nat
      /\ deployments \in [Environments -> Deployment] /\ publications \in Seq(Publication)
      /\ e \in Environments /\ "production" \in Environments \ {e}
    BY <1>1 DEF TypeOK, NextPublication, Environments
<1> HIDE DEF request
<1>3. CASE /\ operations' = Append(operations, Failed(request, actual, "deployment_changed"))
           /\ UNCHANGED <<deployments, publications>>
    <2>1. /\ Failed(request, actual, "deployment_changed") \in Operation
          /\ Failed(request, actual, "deployment_changed").status = "failed"
        BY <1>1, FailedType
    <2> QED
        BY <1>3, <2>1, AppendedToHistory DEF PendingIsTheAwaitedPromotion, PublicationIds
<1>4. CASE /\ \E row : publications' = Append(publications, row)
           /\ operations' = Append(operations, Completed(request, actual + 1, NextPublication))
           /\ deployments' = Move(e, NextPublication)
    <2>1. /\ Completed(request, actual + 1, NextPublication) \in Operation
          /\ Completed(request, actual + 1, NextPublication).status = "completed"
        BY <1>1, <1>2, CompletedType
    <2>2. /\ deployments'[e].pending = None
          /\ deployments'["production"] = deployments["production"]
        BY <1>2, <1>4, MoveType
    <2>3. \A p \in PublicationIds : p \in PublicationIds'
        BY <1>2, <1>4, PublicationsGrow
    <2> QED
        BY <1>4, <2>1, <2>2, <2>3, AppendedToHistory DEF PendingIsTheAwaitedPromotion
<1> QED
    BY <1>3, <1>4 DEF ActivateCompiledArtifact, request

LEMMA RecoverPending ==
    ASSUME TypeOK, TypeOK', PendingIsTheAwaitedPromotion,
           NEW u \in Users, NEW e \in Environments, NEW k \in Keys,
           NEW action \in {"rollback", "unpublish"},
           NEW target, action = "rollback" => target \in PublicationIds,
           NEW g \in ReadGenerations(e),
           RecoverDocumentRelease(u, e, k, action, target, g)
    PROVE  PendingIsTheAwaitedPromotion'
<1> DEFINE refusal == RecoveryRefusal(u, e, action, target, g)
           request == NewOperation(e, action, k, u, g, None)
           actual == deployments[e].generation
<1>1. request \in Operation /\ actual \in Nat
    BY RequestInOperation DEF None
<1>2. /\ NextPublication \in Nat /\ None \in Nat
      /\ deployments \in [Environments -> Deployment] /\ publications \in Seq(Publication)
    BY DEF TypeOK, NextPublication, None
<1>3. refusal = "" => deployments[e].pending = None
    BY DEF RecoveryRefusal
<1>4. refusal \in {"", "policy", "already_inactive", "release_operation_in_progress",
                   "deployment_changed", "internal_error", "rollback_target_invalid",
                   "artifact_incompatible"}
    BY RefusalType
<1> HIDE DEF request, refusal
<1>5. CASE /\ refusal # ""
           /\ operations' = Append(operations, Failed(request, actual, refusal))
           /\ UNCHANGED <<deployments, publications>>
    <2>1. refusal \in {"deployment_changed", "policy", "already_inactive", "internal_error",
                       "release_operation_in_progress", "rollback_target_invalid",
                       "artifact_incompatible"}
        BY <1>4, <1>5
    <2>2. Failed(request, actual, refusal) \in Operation
        BY <1>1, <2>1, FailedType
    <2>3. Failed(request, actual, refusal).status = "failed"
        BY <1>1, FailedStatus
    <2> QED
        BY <1>5, <2>2, <2>3, AppendedToHistory DEF PendingIsTheAwaitedPromotion, PublicationIds
<1>6. ASSUME NEW p \in Nat, NEW source \in Nat,
             refusal = "",
             operations' = Append(operations, Recovered(request, e, p, source)),
             deployments' = Move(e, p),
             \A q \in PublicationIds : q \in PublicationIds'
      PROVE  PendingIsTheAwaitedPromotion'
    <2>1. deployments[e].pending = None
        BY <1>3, <1>6
    <2>2. /\ Recovered(request, e, p, source) \in Operation
          /\ Recovered(request, e, p, source).status = "completed"
        BY <1>1, <1>2, <1>6, RecoveredType
    <2>3. /\ deployments'[e].pending = None
          /\ \A x \in Environments \ {e} : deployments'[x] = deployments[x]
        BY <1>2, <1>6, MoveType
    <2> QED
        <3>1. CASE e = "staging"
            BY <1>6, <2>1, <2>2, <2>3, <3>1, AppendedToHistory
            DEF PendingIsTheAwaitedPromotion, Environments
        <3>2. CASE e = "production"
            <4>1. deployments'["staging"] = deployments["staging"]
                BY <2>3, <3>2 DEF Environments
            <4> QED
                BY <1>6, <2>1, <2>2, <2>3, <3>2, <4>1, AppendedToHistory
                DEF PendingIsTheAwaitedPromotion
        <3> QED
            BY <3>1, <3>2 DEF Environments
<1>7. CASE /\ refusal = "" /\ action = "rollback"
           /\ \E row : publications' = Append(publications, row)
           /\ operations' = Append(operations, Recovered(request, e, NextPublication, target))
           /\ deployments' = Move(e, NextPublication)
    <2>1. \A q \in PublicationIds : q \in PublicationIds'
        BY <1>2, <1>7, PublicationsGrow
    <2>2. target \in Nat
        <3>1. PublicationIds \subseteq Nat
            BY <1>2, LenProperties DEF PublicationIds
        <3> QED
            BY <1>7, <3>1
    <2> QED
        BY <1>2, <1>6, <1>7, <2>1, <2>2
<1>8. CASE /\ refusal = ""
           /\ operations' = Append(operations, Recovered(request, e, None, None))
           /\ deployments' = Move(e, None)
           /\ UNCHANGED publications
    BY <1>2, <1>6, <1>8 DEF PublicationIds
<1> QED
    BY <1>5, <1>7, <1>8 DEF RecoverDocumentRelease, request, refusal

\* Once a first promotion request has failed the stale operation, nothing
\* awaits approval and nothing is pending.
LEMMA NothingStaleAwaits ==
    ASSUME TypeOK, PendingIsTheAwaitedPromotion, NEW source, PendingIsReplaceable(source)
    PROVE  /\ \A e \in Environments : WithoutStalePending.deployments[e].pending = None
           /\ WithoutStalePending.deployments["production"].generation =
                 deployments["production"].generation
           /\ \A o \in OperationIds :
                 WithoutStalePending.operations[o].status # "awaiting_approval"
<1> DEFINE pending == deployments["production"].pending
<1>1. /\ deployments \in [Environments -> Deployment] /\ operations \in Seq(Operation)
      /\ "production" \in Environments /\ "staging" \in Environments
      /\ deployments["staging"].pending = None
    BY DEF TypeOK, Environments, PendingIsTheAwaitedPromotion
<1>2. CASE pending = None
    <2>1. None \notin OperationIds
        BY <1>1, LenProperties DEF OperationIds, None
    <2>2. \A o \in OperationIds : operations[o].status # "awaiting_approval"
        BY <1>2, <2>1 DEF PendingIsTheAwaitedPromotion
    <2> QED
        BY <1>1, <1>2, <2>2 DEF WithoutStalePending, Environments
<1>3. CASE pending # None
    <2>1. pending \in OperationIds
        <3>1. pending \in 0..Len(operations) /\ Len(operations) \in Nat
            BY <1>1 DEF TypeOK
        <3> QED
            BY <1>1, <1>3, <3>1, LenProperties DEF OperationIds, None
    <2> DEFINE rows == FailedOperations(pending, "active_publication_changed")
    <2>2. /\ rows[pending] = [operations[pending] EXCEPT !.status = "failed",
                                               !.error = "active_publication_changed"]
          /\ \A x \in OperationIds \ {pending} : rows[x] = operations[x]
        BY <1>1, <2>1, FailedOperationsType
    <2>3. rows[pending].status = "failed"
        <3>1. operations[pending] \in Operation
            BY <1>1, <2>1, LenProperties, ElementOfSeq DEF OperationIds
        <3> QED
            BY <2>2, <3>1 DEF Operation
    <2>4. \A o \in OperationIds : rows[o].status # "awaiting_approval"
        BY <2>1, <2>2, <2>3 DEF PendingIsTheAwaitedPromotion
    <2>5. /\ \A e \in Environments : ClearPending(pending)[e].pending = None
          /\ ClearPending(pending)["production"].generation =
                deployments["production"].generation
        BY <1>1, ClearPendingType DEF Environments
    <2> HIDE DEF rows
    <2> QED
        BY <1>3, <2>4, <2>5 DEF WithoutStalePending, rows
<1> QED
    BY <1>2, <1>3

\* Staging never has anything pending, so a move of production's pointer leaves
\* nothing pending anywhere.
LEMMA MoveSettles ==
    ASSUME deployments \in [Environments -> Deployment],
           deployments["staging"].pending = None, NEW p \in Nat,
           deployments' = Move("production", p)
    PROVE  \A x \in Environments : deployments'[x].pending = None
<1>1. "production" \in Environments /\ "staging" \in Environments
    BY DEF Environments
<1>2. deployments'["production"].pending = None
    BY <1>1, MoveType
<1>3. deployments'["staging"] = deployments["staging"]
    BY <1>1, MoveType
<1> QED
    BY <1>2, <1>3 DEF Environments

LEMMA RequestPromotionPending ==
    ASSUME TypeOK, TypeOK', PendingIsTheAwaitedPromotion,
           NEW u \in Users, NEW k \in Keys, NEW g \in ReadGenerations("production"),
           RequestPromotion(u, k, g)
    PROVE  PendingIsTheAwaitedPromotion'
<1> DEFINE e == "production"
           source == deployments["staging"].active
           actual == deployments[e].generation
           base == WithoutStalePending
           request == NewOperation(e, "promote", k, u, g, source)
<1>1. /\ source \in 1..Len(publications) /\ source \in Nat
      /\ e \in Environments /\ "staging" \in Environments
      /\ deployments \in [Environments -> Deployment] /\ operations \in Seq(Operation)
      /\ NextPublication \in Nat /\ NextOperation \in Nat
    BY DEF TypeOK, RequestPromotion, SourceIsVerified, Environments, NextPublication, NextOperation
<1>2. request \in Operation /\ actual \in Nat
    BY <1>1, RequestInOperation
<1>3. /\ request.environment = e /\ request.action = "promote"
      /\ request.source = source /\ request.expectedGeneration = g
    BY DEF NewOperation
<1>4. /\ base.deployments \in [Environments -> Deployment]
      /\ base.operations \in Seq(Operation)
      /\ Len(base.operations) = Len(operations)
    BY WithoutStalePendingType
<1>5. /\ \A x \in Environments : base.deployments[x].pending = None
      /\ base.deployments[e].generation = actual
      /\ \A o \in OperationIds : base.operations[o].status # "awaiting_approval"
    BY NothingStaleAwaits DEF RequestPromotion
<1> HIDE DEF base, request
<1>6. ASSUME NEW row \in Operation, operations' = Append(base.operations, row)
      PROVE  /\ OperationIds' = OperationIds \union {NextOperation}
             /\ NextOperation \notin OperationIds /\ NextOperation # None
             /\ operations'[NextOperation] = row
             /\ \A x \in OperationIds : operations'[x] = base.operations[x]
    BY <1>1, <1>4, <1>6, AppendedRow
<1>7. CASE /\ operations' = Append(base.operations, Failed(request, actual, "deployment_changed"))
           /\ deployments' = base.deployments
    <2>1. Failed(request, actual, "deployment_changed") \in Operation
        BY <1>2, FailedType
    <2>2. Failed(request, actual, "deployment_changed").status = "failed"
        BY <1>2, FailedStatus
    <2>3. \A o \in OperationIds' : operations'[o].status # "awaiting_approval"
        BY <1>5, <1>6, <1>7, <2>1, <2>2
    <2> QED
        BY <1>5, <1>7, <2>3, NothingAwaits
<1>8. CASE /\ operations' = Append(base.operations, Awaiting(request))
           /\ deployments' = Pend(base.deployments, NextOperation)
           /\ IsCurrent(e, g)
           /\ UNCHANGED publications
    <2>1. /\ Awaiting(request) \in Operation
          /\ Awaiting(request).status = "awaiting_approval"
          /\ Awaiting(request).environment = e /\ Awaiting(request).action = "promote"
          /\ Awaiting(request).source = source /\ Awaiting(request).expectedGeneration = g
        BY <1>2, <1>3, AwaitingType
    <2>2. /\ OperationIds' = OperationIds \union {NextOperation}
          /\ NextOperation \notin OperationIds
          /\ operations'[NextOperation] = Awaiting(request)
          /\ \A x \in OperationIds : operations'[x] = base.operations[x]
        BY <1>6, <1>8, <2>1
    <2>3. /\ deployments'["staging"].pending = None
          /\ deployments'[e].pending = NextOperation
          /\ deployments'[e].generation = g
        BY <1>1, <1>4, <1>5, <1>8, PendType DEF IsCurrent
    <2>4. source \in PublicationIds'
        BY <1>1, <1>8 DEF PublicationIds, TypeOK
    <2> QED
        BY <1>5, <2>1, <2>2, <2>3, <2>4 DEF PendingIsTheAwaitedPromotion
<1>9. CASE /\ operations' = Append(base.operations, CompletedPromotion(request))
           /\ deployments' = Move(e, NextPublication)
    <2>1. /\ CompletedPromotion(request) \in Operation
          /\ CompletedPromotion(request).status = "completed"
        BY <1>1, <1>2, CompletedPromotionType DEF TypeOK
    <2>2. \A o \in OperationIds' : operations'[o].status # "awaiting_approval"
        BY <1>5, <1>6, <1>9, <2>1
    <2>3. \A x \in Environments : deployments'[x].pending = None
        BY <1>1, <1>9, MoveSettles DEF PendingIsTheAwaitedPromotion
    <2> QED
        BY <2>2, <2>3, NothingAwaits
<1> QED
    BY <1>7, <1>8, <1>9 DEF RequestPromotion, base, request

\* Failing or completing the awaited operation leaves nothing that awaits.
LEMMA AwaitedSettles ==
    ASSUME TypeOK, TypeOK', PendingIsTheAwaitedPromotion, NEW o \in OperationIds,
           operations[o].status = "awaiting_approval",
           OperationIds' = OperationIds,
           operations'[o].status # "awaiting_approval",
           \A x \in OperationIds \ {o} : operations'[x] = operations[x],
           \A e \in Environments : deployments'[e].pending = None
    PROVE  PendingIsTheAwaitedPromotion'
<1>1. \A x \in OperationIds' : operations'[x].status # "awaiting_approval"
    BY DEF PendingIsTheAwaitedPromotion
<1> QED
    BY <1>1, NothingAwaits

\* FailedOperations and ClearPending settle it.
LEMMA FailedSettles ==
    ASSUME TypeOK, TypeOK', PendingIsTheAwaitedPromotion, NEW o \in OperationIds,
           operations[o].status = "awaiting_approval",
           NEW code \in {"active_publication_changed", "release_approval_rejected"},
           operations' = FailedOperations(o, code),
           deployments' = ClearPending(o)
    PROVE  PendingIsTheAwaitedPromotion'
<1>1. /\ deployments \in [Environments -> Deployment] /\ operations \in Seq(Operation)
      /\ operations' \in Seq(Operation)
    BY DEF TypeOK
<1>2. /\ Len(operations') = Len(operations)
      /\ operations'[o] = [operations[o] EXCEPT !.status = "failed", !.error = code]
      /\ \A x \in OperationIds \ {o} : operations'[x] = operations[x]
    <2> DEFINE failed == FailedOperations(o, code)
    <2>1. /\ Len(failed) = Len(operations)
          /\ failed[o] = [operations[o] EXCEPT !.status = "failed", !.error = code]
          /\ \A x \in OperationIds \ {o} : failed[x] = operations[x]
        BY <1>1, FailedOperationsType
    <2>2. operations' = failed
        OBVIOUS
    <2> HIDE DEF failed
    <2> QED
        BY <2>1, <2>2
<1>3. OperationIds' = OperationIds
    BY <1>1, <1>2, LenProperties DEF OperationIds
<1>4. operations[o] \in Operation
    BY <1>1, LenProperties, ElementOfSeq DEF OperationIds
<1>5. operations'[o].status = "failed"
    BY <1>2, <1>4 DEF Operation
<1>6. \A e \in Environments : deployments'[e].pending = None
    BY <1>1, ClearPendingType DEF PendingIsTheAwaitedPromotion, Environments
<1> QED
    BY <1>2, <1>3, <1>5, <1>6, AwaitedSettles

LEMMA ResumePromotionPending ==
    ASSUME TypeOK, TypeOK', PendingIsTheAwaitedPromotion,
           NEW u \in Users, NEW o \in OperationIds, ResumePromotion(u, o)
    PROVE  PendingIsTheAwaitedPromotion'
<1> DEFINE e == "production"
           source == operations[o].source
           actual == deployments[e].generation
<1>1. /\ operations[o].status = "awaiting_approval"
      /\ deployments[e].pending = o /\ operations[o].expectedGeneration = actual
    BY DEF ResumePromotion, Awaits, PendingIsTheAwaitedPromotion
<1>2. /\ deployments \in [Environments -> Deployment] /\ operations \in Seq(Operation)
      /\ publications \in Seq(Publication) /\ e \in Environments /\ "staging" \in Environments
      /\ NextPublication \in Nat /\ deployments["staging"].pending = None
    BY DEF TypeOK, Environments, NextPublication, PendingIsTheAwaitedPromotion
<1>3. o \in 1..Len(operations) /\ operations[o] \in Operation
    BY <1>2, LenProperties, ElementOfSeq DEF OperationIds
<1>4. CASE /\ operations' = FailedOperations(o, "active_publication_changed")
           /\ deployments' = ClearPending(o)
    BY <1>1, <1>4, FailedSettles
<1>5. CASE deployments' = Pend(deployments, o) /\ UNCHANGED <<operations, publications>>
    <2>1. /\ deployments'["staging"].pending = None
          /\ deployments'[e].pending = o
          /\ deployments'[e].generation = actual
        BY <1>2, <1>3, <1>5, PendType
    <2> QED
        BY <1>1, <1>5, <2>1 DEF PendingIsTheAwaitedPromotion, OperationIds, PublicationIds
<1>6. CASE /\ operations' = [operations EXCEPT ![o] = CompletedPromotion(@)]
           /\ deployments' = Move(e, NextPublication)
    <2>1. /\ CompletedPromotion(operations[o]) \in Operation
          /\ CompletedPromotion(operations[o]).status = "completed"
        BY <1>2, <1>3, CompletedPromotionType
    <2>2. /\ operations' \in Seq(Operation) /\ Len(operations') = Len(operations)
          /\ \A x \in 1..Len(operations) :
                operations'[x] = IF x = o THEN CompletedPromotion(operations[o])
                                          ELSE operations[x]
        BY <1>2, <1>3, <1>6, <2>1, ExceptSeq
    <2>3. OperationIds = 1..Len(operations) /\ OperationIds' = OperationIds
        BY <1>2, <2>2, LenProperties DEF OperationIds
    <2>4. \A x \in Environments : deployments'[x].pending = None
        BY <1>2, <1>6, MoveSettles
    <2> QED
        BY <1>1, <2>1, <2>2, <2>3, <2>4, AwaitedSettles
<1> QED
    BY <1>1, <1>4, <1>5, <1>6 DEF ResumePromotion, IsCurrent

\* Recovery, later promotions and approvals all see the one promotion that
\* awaits approval, and it still applies to the generation in force.
THEOREM PendingPromotionSafe == Spec => []PendingIsTheAwaitedPromotion
<1>1. Init => PendingIsTheAwaitedPromotion
    BY DEF Init, PendingIsTheAwaitedPromotion, Environments, OperationIds, None
<1>2. TypeOK /\ TypeOK' /\ PendingIsTheAwaitedPromotion /\ [Next]_vars
          => PendingIsTheAwaitedPromotion'
    <2> SUFFICES ASSUME TypeOK, TypeOK', PendingIsTheAwaitedPromotion, [Next]_vars
                 PROVE  PendingIsTheAwaitedPromotion'
        OBVIOUS
    <2>1. CASE UNCHANGED releaseVars
        BY <2>1 DEF releaseVars, PendingIsTheAwaitedPromotion, OperationIds, PublicationIds
    <2>2. ASSUME NEW u \in Users, NEW o \in OperationIds, RejectRelease(u, o)
          PROVE  PendingIsTheAwaitedPromotion'
        BY <2>2, FailedSettles DEF RejectRelease, MayDecide, Awaits
    <2>3. ASSUME NEW u \in Users, NEW o \in OperationIds, ApproveRelease(u, o)
          PROVE  PendingIsTheAwaitedPromotion'
        BY <2>3 DEF ApproveRelease, PendingIsTheAwaitedPromotion, OperationIds, PublicationIds
    <2>4. ASSUME NEW u \in Users, NEW passed \in BOOLEAN,
                 CreatePublicationVerification(u, passed)
          PROVE  UNCHANGED releaseVars
        BY <2>4 DEF CreatePublicationVerification
    <2>5. CASE ReleaseNext
        BY <2>1, <2>2, <2>3, <2>4, <2>5, ActivatePending, RequestPromotionPending,
           ResumePromotionPending, RecoverPending DEF ReleaseNext
    <2>6. CASE GovernanceNext
        BY <2>1, <2>6
        DEF GovernanceNext, UpdateEnvironmentPolicy, UpdateMemberRole, ChangePlan
    <2>7. CASE UNCHANGED vars
        BY <2>1, <2>7 DEF vars
    <2> QED
        BY <2>5, <2>6, <2>7 DEF Next
<1> QED
    BY <1>1, <1>2, TypeCorrect, PTL DEF Spec

-----------------------------------------------------------------------------
(* History is append-only, and a rejection is final because of it.         *)

PublicationsKept ==
    \A p \in PublicationIds : p \in DOMAIN publications' /\ publications'[p] = publications[p]

FinishedKept ==
    \A o \in OperationIds :
        /\ o \in DOMAIN operations'
        /\ operations[o].status # "awaiting_approval" => operations'[o] = operations[o]

\* A row is appended to rows that differ from the committed ones only where
\* an operation awaited approval.
LEMMA AppendKeepsFinished ==
    ASSUME operations \in Seq(Operation), NEW rows \in Seq(Operation),
           Len(rows) = Len(operations),
           \A x \in OperationIds :
               operations[x].status # "awaiting_approval" => rows[x] = operations[x],
           NEW row, operations' = Append(rows, row)
    PROVE  FinishedKept
<1> DEFINE S == Operation \union {row}
<1>1. rows \in Seq(S) /\ row \in S
    BY SeqMonotonic
<1> HIDE DEF S
<1>2. /\ operations' \in Seq(S) /\ Len(operations') = Len(operations) + 1
      /\ \A x \in 1..Len(operations) : operations'[x] = rows[x]
    BY <1>1, AppendProperties
<1>3. /\ Len(operations) \in Nat /\ OperationIds = 1..Len(operations)
      /\ DOMAIN operations' = 1..(Len(operations) + 1)
    BY <1>2 DEF OperationIds
<1> QED
    BY <1>2, <1>3 DEF FinishedKept

LEMMA UpdateKeepsFinished ==
    ASSUME NEW o \in OperationIds, operations[o].status = "awaiting_approval",
           NEW row, operations' = [operations EXCEPT ![o] = row]
    PROVE  FinishedKept
<1>1. DOMAIN operations' = OperationIds
    BY DEF OperationIds
<1>2. \A x \in OperationIds : x # o => operations'[x] = operations[x]
    BY DEF OperationIds
<1> QED
    BY <1>1, <1>2 DEF FinishedKept

LEMMA FailedKeepsFinished ==
    ASSUME NEW o \in OperationIds, operations[o].status = "awaiting_approval",
           NEW code, operations' = FailedOperations(o, code)
    PROVE  FinishedKept
<1>1. operations' = [operations EXCEPT ![o] =
                        [operations[o] EXCEPT !.status = "failed", !.error = code]]
    BY DEF FailedOperations
<1> QED
    BY <1>1, UpdateKeepsFinished

\* What a first promotion request finds pending is failed only if it awaits.
LEMMA StaleKeepsFinished ==
    ASSUME TypeOK, NEW source, PendingIsReplaceable(source)
    PROVE  \A x \in OperationIds : operations[x].status # "awaiting_approval" =>
               WithoutStalePending.operations[x] = operations[x]
<1> DEFINE pending == deployments["production"].pending
<1>1. CASE pending = None
    BY <1>1 DEF WithoutStalePending
<1>2. CASE pending # None
    <2>1. operations[pending].status = "awaiting_approval"
        BY <1>2 DEF PendingIsReplaceable, StalePromotion, Awaits
    <2>2. operations \in Seq(Operation) /\ pending \in OperationIds
        <3>1. pending \in 0..Len(operations) /\ Len(operations) \in Nat
            BY DEF TypeOK, Environments
        <3> QED
            BY <1>2, <3>1 DEF TypeOK, OperationIds, None
    <2>3. /\ FailedOperations(pending, "active_publication_changed")[pending] =
                 [operations[pending] EXCEPT !.status = "failed",
                                             !.error = "active_publication_changed"]
          /\ \A x \in OperationIds \ {pending} :
                FailedOperations(pending, "active_publication_changed")[x] = operations[x]
        BY <2>2, FailedOperationsType
    <2>4. WithoutStalePending.operations
              = FailedOperations(pending, "active_publication_changed")
        BY <1>2 DEF WithoutStalePending
    <2> QED
        BY <2>1, <2>3, <2>4
<1> QED
    BY <1>1, <1>2

LEMMA RequestKeepsHistory ==
    ASSUME TypeOK, NEW u \in Users, NEW k \in Keys, NEW g, RequestPromotion(u, k, g)
    PROVE  PublicationsKept /\ FinishedKept
<1> DEFINE source == deployments["staging"].active
           base == WithoutStalePending
<1>1. /\ base.operations \in Seq(Operation) /\ Len(base.operations) = Len(operations)
      /\ \A x \in OperationIds : operations[x].status # "awaiting_approval" =>
             base.operations[x] = operations[x]
    BY WithoutStalePendingType, StaleKeepsFinished DEF RequestPromotion
<1>2. \E row : operations' = Append(base.operations, row)
    BY DEF RequestPromotion
<1>3. \/ UNCHANGED publications
      \/ \E row : publications' = Append(publications, row)
    BY DEF RequestPromotion
<1> HIDE DEF base
<1>4. FinishedKept
    BY <1>1, <1>2, AppendKeepsFinished DEF TypeOK
<1>5. PublicationsKept
    BY <1>3, PublicationsGrow DEF TypeOK, PublicationsKept, PublicationIds
<1> QED
    BY <1>4, <1>5

LEMMA ResumeKeepsHistory ==
    ASSUME TypeOK, NEW u \in Users, NEW o \in OperationIds, ResumePromotion(u, o)
    PROVE  PublicationsKept /\ FinishedKept
<1>1. operations[o].status = "awaiting_approval"
    BY DEF ResumePromotion, Awaits
<1>2. \/ UNCHANGED operations
      \/ operations' = FailedOperations(o, "active_publication_changed")
      \/ \E row : operations' = [operations EXCEPT ![o] = row]
    BY DEF ResumePromotion
<1>3. \/ UNCHANGED publications
      \/ \E row : publications' = Append(publications, row)
    BY DEF ResumePromotion
<1>4. FinishedKept
    BY <1>1, <1>2, UpdateKeepsFinished, FailedKeepsFinished DEF FinishedKept, OperationIds
<1>5. PublicationsKept
    BY <1>3, PublicationsGrow DEF TypeOK, PublicationsKept, PublicationIds
<1> QED
    BY <1>4, <1>5

LEMMA AppendOfOneKeepsHistory ==
    ASSUME TypeOK,
           \E row : operations' = Append(operations, row),
           \/ UNCHANGED publications
           \/ \E row : publications' = Append(publications, row)
    PROVE  PublicationsKept /\ FinishedKept
<1>1. FinishedKept
    BY AppendKeepsFinished DEF TypeOK
<1>2. PublicationsKept
    BY PublicationsGrow DEF TypeOK, PublicationsKept, PublicationIds
<1> QED
    BY <1>1, <1>2

LEMMA StepKeepsHistory == TypeOK /\ [Next]_vars => PublicationsKept /\ FinishedKept
<1> SUFFICES ASSUME TypeOK, [Next]_vars
             PROVE  PublicationsKept /\ FinishedKept
    OBVIOUS
<1>1. ASSUME UNCHANGED <<publications, operations>>
      PROVE  PublicationsKept /\ FinishedKept
    BY <1>1 DEF PublicationsKept, FinishedKept, PublicationIds, OperationIds
<1>2. ASSUME NEW u \in Users, NEW k \in Keys, NEW a \in Artifacts,
             NEW g \in ReadGenerations("staging"), ActivateCompiledArtifact(u, k, a, g)
      PROVE  PublicationsKept /\ FinishedKept
    <2>1. \E row : operations' = Append(operations, row)
        BY <1>2 DEF ActivateCompiledArtifact
    <2>2. \/ UNCHANGED publications
          \/ \E row : publications' = Append(publications, row)
        BY <1>2 DEF ActivateCompiledArtifact
    <2> QED
        BY <2>1, <2>2, AppendOfOneKeepsHistory
<1>3. ASSUME NEW u \in Users, NEW e \in Environments, NEW k \in Keys, NEW action, NEW target,
             NEW g \in ReadGenerations(e), RecoverDocumentRelease(u, e, k, action, target, g)
      PROVE  PublicationsKept /\ FinishedKept
    <2>1. \E row : operations' = Append(operations, row)
        BY <1>3 DEF RecoverDocumentRelease
    <2>2. \/ UNCHANGED publications
          \/ \E row : publications' = Append(publications, row)
        BY <1>3 DEF RecoverDocumentRelease
    <2> QED
        BY <2>1, <2>2, AppendOfOneKeepsHistory
<1>4. ASSUME NEW u \in Users, NEW passed \in BOOLEAN, CreatePublicationVerification(u, passed)
      PROVE  PublicationsKept /\ FinishedKept
    BY <1>1, <1>4 DEF CreatePublicationVerification, releaseVars
<1>5. ASSUME NEW u \in Users, NEW o \in OperationIds, ApproveRelease(u, o)
      PROVE  PublicationsKept /\ FinishedKept
    BY <1>1, <1>5 DEF ApproveRelease
<1>6. ASSUME NEW u \in Users, NEW o \in OperationIds, RejectRelease(u, o)
      PROVE  PublicationsKept /\ FinishedKept
    <2>1. FinishedKept
        BY <1>6, FailedKeepsFinished DEF RejectRelease, MayDecide, Awaits
    <2>2. PublicationsKept
        BY <1>6 DEF RejectRelease, PublicationsKept, PublicationIds
    <2> QED
        BY <2>1, <2>2
<1>7. CASE ReleaseNext
    BY <1>2, <1>3, <1>4, <1>5, <1>6, <1>7, RequestKeepsHistory, ResumeKeepsHistory
    DEF ReleaseNext
<1>8. CASE GovernanceNext
    BY <1>1, <1>8
    DEF GovernanceNext, UpdateEnvironmentPolicy, UpdateMemberRole, ChangePlan, releaseVars
<1>9. CASE UNCHANGED vars
    BY <1>1, <1>9 DEF vars, releaseVars
<1> QED
    BY <1>7, <1>8, <1>9 DEF Next

\* No transaction deletes or rewrites a publication, and none touches a
\* finished operation: a replay answers what the first request was told.
THEOREM HistoryAppendOnly == Spec => HistoryIsAppendOnly
<1> DEFINE kept == PublicationsKept /\ FinishedKept
<1>1. TypeOK /\ [Next]_vars => [kept]_vars
    BY StepKeepsHistory
<1> QED
    BY <1>1, TypeCorrect, PTL DEF Spec, HistoryIsAppendOnly, PublicationsKept, FinishedKept

\* What was rejected stays so in every step of the releases.
LEMMA RejectionStays == TypeOK /\ RejectionIsFinal /\ [Next]_vars => RejectionIsFinal'
<1> SUFFICES ASSUME TypeOK, RejectionIsFinal, [Next]_vars
             PROVE  RejectionIsFinal'
    OBVIOUS
<1>1. \A a \in approvals : a.decision = "rejected" =>
          /\ operations'[a.operation].status = "failed"
          /\ operations'[a.operation].error = "release_approval_rejected"
    <2>1. \A a \in approvals : a.operation \in OperationIds
        BY DEF TypeOK, OperationIds
    <2> QED
        BY <2>1, StepKeepsHistory DEF RejectionIsFinal, FinishedKept
<1>2. ASSUME UNCHANGED approvals
      PROVE  RejectionIsFinal'
    BY <1>1, <1>2 DEF RejectionIsFinal
<1>3. ASSUME NEW u \in Users, NEW o \in OperationIds, ApproveRelease(u, o)
      PROVE  RejectionIsFinal'
    BY <1>1, <1>3 DEF RejectionIsFinal, ApproveRelease
<1>4. ASSUME NEW u \in Users, NEW o \in OperationIds, RejectRelease(u, o)
      PROVE  RejectionIsFinal'
    <2>1. o \in OperationIds /\ operations[o] \in Operation /\ operations \in Seq(Operation)
        BY ElementOfSeq DEF TypeOK, OperationIds
    <2>2. operations'[o] = [operations[o] EXCEPT !.status = "failed",
                                                 !.error = "release_approval_rejected"]
        BY <1>4, <2>1, FailedOperationsType DEF RejectRelease
    <2>3. /\ operations'[o].status = "failed"
          /\ operations'[o].error = "release_approval_rejected"
        BY <2>1, <2>2 DEF Operation
    <2>4. approvals' = approvals \union
              {[operation |-> o, user |-> u, decision |-> "rejected"]}
        BY <1>4 DEF RejectRelease
    <2> QED
        BY <1>1, <2>3, <2>4 DEF RejectionIsFinal
<1>5. ASSUME NEW u, NEW k, NEW a, NEW g, ActivateCompiledArtifact(u, k, a, g)
      PROVE  RejectionIsFinal'
    BY <1>2, <1>5 DEF ActivateCompiledArtifact
<1>6. ASSUME NEW u, NEW passed, CreatePublicationVerification(u, passed)
      PROVE  RejectionIsFinal'
    BY <1>2, <1>6 DEF CreatePublicationVerification, releaseVars
<1>7. ASSUME NEW u, NEW k, NEW g, RequestPromotion(u, k, g)
      PROVE  RejectionIsFinal'
    BY <1>2, <1>7 DEF RequestPromotion
<1>8. ASSUME NEW u, NEW o, ResumePromotion(u, o)
      PROVE  RejectionIsFinal'
    BY <1>2, <1>8 DEF ResumePromotion
<1>9. ASSUME NEW u, NEW e, NEW k, NEW action, NEW target, NEW g,
             RecoverDocumentRelease(u, e, k, action, target, g)
      PROVE  RejectionIsFinal'
    BY <1>2, <1>9 DEF RecoverDocumentRelease
<1>10. CASE ReleaseNext
    BY <1>3, <1>4, <1>5, <1>6, <1>7, <1>8, <1>9, <1>10 DEF ReleaseNext
<1>11. CASE GovernanceNext
    BY <1>2, <1>11
    DEF GovernanceNext, UpdateEnvironmentPolicy, UpdateMemberRole, ChangePlan, releaseVars
<1>12. CASE UNCHANGED vars
    BY <1>2, <1>12 DEF vars, releaseVars
<1> QED
    BY <1>10, <1>11, <1>12 DEF Next

\* A promotion somebody rejected has failed for that reason, and neither
\* further decisions nor a resubmission ever change it.
THEOREM RejectionFinal == Spec => []RejectionIsFinal
<1>1. Init => RejectionIsFinal
    BY DEF Init, RejectionIsFinal
<1> QED
    BY <1>1, RejectionStays, TypeCorrect, PTL DEF Spec

=============================================================================
