------------------------- MODULE ReleaseHistoryProofs -------------------------
(***************************************************************************)
(* Proofs that the release history of DocumentRelease accounts for every   *)
(* move of an environment's pointer, for any number of users, requests,    *)
(* policies and plans.  What one transaction does is stated without        *)
(* assuming that only releases move the pointer, so that DeliverySchedule  *)
(* can use it beside its workers.                                          *)
(***************************************************************************)
EXTENDS DocumentReleaseProofs, FiniteSetTheorems

-----------------------------------------------------------------------------
(* What one transaction does to the pointers and to the operations. *)

\* Only production is promoted to.
PromotionsToProduction ==
    \A o \in OperationIds :
        operations[o].action = "promote" => operations[o].environment = "production"

\* Nothing moves in e and no operation of e completes.
NothingMoves(e) ==
    /\ deployments'[e].active = deployments[e].active
    /\ deployments'[e].generation = deployments[e].generation
    /\ \A x \in OperationIds' :
          operations'[x].environment = e /\ operations'[x].status = "completed" =>
              x \in OperationIds /\ operations[x].status = "completed"

\* A rollback brings back a publication of its own environment.
Returns(e, active) ==
    \E p \in PublicationIds :
        /\ p # deployments[e].active
        /\ publications[p].environment = e
        /\ publications[p].artifact = publications'[active].artifact

\* A promotion that completes at once needs no approval, one that awaited
\* approval has as many as the policy asks for.
Approved(o) ==
    /\ o \notin OperationIds => policies["production"].requiredApprovals = 0
    /\ o \in OperationIds =>
          Cardinality(Approvers(o)) >= policies["production"].requiredApprovals

\* The row of an operation o that completes agrees with the publication it
\* makes, or with the one it takes down.
Backed(e, row, o) ==
    IF row.action = "unpublish"
    THEN /\ row.resultPublication = None
         /\ row.replaced = deployments[e].active
         /\ row.replaced # None
    ELSE /\ row.resultPublication \in PublicationIds'
         /\ row.resultPublication \notin PublicationIds
         /\ publications'[row.resultPublication].environment = e
         /\ publications'[row.resultPublication].operation = o
         /\ publications'[row.resultPublication].action = row.action
         /\ row.action \in {"promote", "rollback"} =>
                /\ publications'[row.resultPublication].source = row.source
                /\ row.source # None
         /\ row.action = "rollback" =>
                /\ publications'[row.resultPublication].previous = row.replaced
                /\ row.replaced # None

\* What an operation that completes in e makes live: a new artifact on staging,
\* what staging shows on production, or what an earlier operation of e made live.
Shows(e, row) ==
    /\ row.action = "publish" => e = "staging"
    /\ row.action = "promote" =>
          /\ e = "production"
          /\ deployments["staging"].active # None
          /\ deployments["staging"].active \in verified
          /\ publications'[row.resultPublication].artifact =
                publications[deployments["staging"].active].artifact
    /\ row.action = "rollback" =>
          /\ deployments[e].active # None
          /\ \E x \in Releases(e) :
                /\ operations[x].resultGeneration < deployments[e].generation
                /\ publications'[row.resultPublication].artifact =
                      publications[operations[x].resultPublication].artifact

\* Operation o, and no other, completes in e and moves its pointer.
MovedBy(e, o) ==
    /\ o \in OperationIds'
    /\ o \in OperationIds => operations[o].status = "awaiting_approval"
    /\ operations'[o].status = "completed"
    /\ operations'[o].environment = e
    /\ operations'[o].expectedGeneration = deployments[e].generation
    /\ operations'[o].resultGeneration = deployments[e].generation + 1
    /\ operations'[o].resultPublication = deployments'[e].active
    /\ deployments'[e].generation = deployments[e].generation + 1
    /\ operations'[o].action = "rollback" => Returns(e, deployments'[e].active)
    /\ operations'[o].action = "promote" => Approved(o)
    /\ Backed(e, operations'[o], o)
    /\ Shows(e, operations'[o])
    /\ \A x \in OperationIds' \ {o} :
          operations'[x].environment = e /\ operations'[x].status = "completed" =>
              x \in OperationIds /\ operations[x].status = "completed"

\* What is live was not made by a completed operation of this generation.
Unexplained(e) ==
    /\ deployments[e].active # None
    /\ \A o \in ReleaseOf(e, deployments[e].active) :
          operations[o].resultGeneration # deployments[e].generation

\* An internal error is only reported of what is unexplained.
ErrorsExplained ==
    \A o \in OperationIds' : operations'[o].error = "internal_error" =>
        \/ o \in OperationIds /\ operations[o].error = "internal_error"
        \/ \E e \in Environments : Unexplained(e)

RequestersKept == \A o \in OperationIds : operations'[o].requester = operations[o].requester

StepCaused ==
    /\ PromotionsToProduction'
    /\ RequestersKept
    /\ ErrorsExplained
    /\ \A e \in Environments : NothingMoves(e) \/ \E o \in OperationIds' : MovedBy(e, o)
    /\ \A e, x \in Environments : e = x \/ NothingMoves(e) \/ NothingMoves(x)

\* Operations that differ from the committed ones in no request, and complete
\* none of them.
SameRequests(rows) ==
    /\ rows \in Seq(Operation)
    /\ Len(rows) = Len(operations)
    /\ \A x \in OperationIds :
          /\ rows[x].environment = operations[x].environment
          /\ rows[x].action = operations[x].action
          /\ rows[x].requester = operations[x].requester
          /\ rows[x].status = "completed" => operations[x].status = "completed"
          /\ rows[x].error = "internal_error" => operations[x].error = "internal_error"

LEMMA CommittedRows == TypeOK => SameRequests(operations)
    BY DEF TypeOK, SameRequests

LEMMA RowsWithoutStale ==
    ASSUME TypeOK, NEW source, PendingIsReplaceable(source)
    PROVE  /\ SameRequests(WithoutStalePending.operations)
           /\ \A e \in Environments :
                 /\ WithoutStalePending.deployments[e].active = deployments[e].active
                 /\ WithoutStalePending.deployments[e].generation = deployments[e].generation
<1> DEFINE pending == deployments["production"].pending
<1>1. CASE pending = None
    BY <1>1, CommittedRows DEF WithoutStalePending
<1>2. CASE pending # None
    <2>1. /\ deployments \in [Environments -> Deployment] /\ operations \in Seq(Operation)
          /\ pending \in 0..Len(operations) /\ Len(operations) \in Nat
        BY LenProperties DEF TypeOK, Environments
    <2>2. pending \in OperationIds /\ pending \in 1..Len(operations)
        BY <1>2, <2>1 DEF OperationIds, None
    <2>3. operations[pending] \in Operation
        BY <2>1, <2>2, ElementOfSeq
    <2>4. /\ WithoutStalePending.deployments = ClearPending(pending)
          /\ WithoutStalePending.operations =
                FailedOperations(pending, "active_publication_changed")
        BY <1>2 DEF WithoutStalePending
    <2>5. /\ WithoutStalePending.operations \in Seq(Operation)
          /\ Len(WithoutStalePending.operations) = Len(operations)
          /\ WithoutStalePending.operations[pending] =
                [operations[pending] EXCEPT !.status = "failed",
                                            !.error = "active_publication_changed"]
          /\ \A x \in OperationIds \ {pending} :
                WithoutStalePending.operations[x] = operations[x]
        <3>1. "active_publication_changed" \in
                  {"active_publication_changed", "release_approval_rejected"}
            OBVIOUS
        <3> DEFINE rows == FailedOperations(pending, "active_publication_changed")
        <3>2. /\ rows \in Seq(Operation)
              /\ Len(rows) = Len(operations)
              /\ rows[pending] = [operations[pending] EXCEPT
                                     !.status = "failed", !.error = "active_publication_changed"]
              /\ \A x \in OperationIds \ {pending} : rows[x] = operations[x]
            BY <2>1, <2>2, <3>1, FailedOperationsType
        <3> QED
            BY <2>4, <3>2
    <2>6. /\ WithoutStalePending.operations[pending].status = "failed"
          /\ WithoutStalePending.operations[pending].action = operations[pending].action
          /\ WithoutStalePending.operations[pending].environment = operations[pending].environment
          /\ WithoutStalePending.operations[pending].requester = operations[pending].requester
          /\ WithoutStalePending.operations[pending].error = "active_publication_changed"
        BY <2>3, <2>5 DEF Operation
    <2>7. SameRequests(WithoutStalePending.operations)
        BY <2>5, <2>6 DEF SameRequests
    <2> QED
        BY <2>1, <2>4, <2>7, ClearPendingType
<1> QED
    BY <1>1, <1>2

\* A row is appended: what becomes of the others.
LEMMA Appended ==
    ASSUME TypeOK, PromotionsToProduction, NEW rows, SameRequests(rows),
           NEW row \in Operation, row.action = "promote" => row.environment = "production",
           operations' = Append(rows, row)
    PROVE  /\ PromotionsToProduction' /\ RequestersKept
           /\ NextOperation \in OperationIds' /\ NextOperation \notin OperationIds
           /\ operations'[NextOperation] = row
           /\ \A x \in OperationIds' \ {NextOperation} :
                 /\ x \in OperationIds
                 /\ operations'[x].status = "completed" => operations[x].status = "completed"
                 /\ operations'[x].error = "internal_error" =>
                       operations[x].error = "internal_error"
<1>1. /\ OperationIds' = OperationIds \union {NextOperation}
      /\ NextOperation \notin OperationIds
      /\ operations'[NextOperation] = row
      /\ \A x \in OperationIds : operations'[x] = rows[x]
    BY AppendedRow DEF TypeOK, SameRequests
<1>2. \A x \in OperationIds :
          /\ operations'[x].environment = operations[x].environment
          /\ operations'[x].action = operations[x].action
          /\ operations'[x].requester = operations[x].requester
          /\ operations'[x].status = "completed" => operations[x].status = "completed"
          /\ operations'[x].error = "internal_error" => operations[x].error = "internal_error"
    BY <1>1 DEF SameRequests
<1>3. PromotionsToProduction'
    BY <1>1, <1>2 DEF PromotionsToProduction
<1> QED
    BY <1>1, <1>2, <1>3 DEF RequestersKept

LEMMA RefusalAppended ==
    ASSUME TypeOK, PromotionsToProduction, NEW rows, SameRequests(rows),
           NEW row \in Operation, row.action = "promote" => row.environment = "production",
           row.status # "completed",
           row.error = "internal_error" => \E e \in Environments : Unexplained(e),
           operations' = Append(rows, row),
           \A e \in Environments : /\ deployments'[e].active = deployments[e].active
                                   /\ deployments'[e].generation = deployments[e].generation
    PROVE  StepCaused
<1>1. /\ PromotionsToProduction' /\ RequestersKept
      /\ operations'[NextOperation] = row
      /\ \A x \in OperationIds' \ {NextOperation} :
            /\ x \in OperationIds
            /\ operations'[x].status = "completed" => operations[x].status = "completed"
            /\ operations'[x].error = "internal_error" =>
                  operations[x].error = "internal_error"
    BY Appended
<1>2. \A e \in Environments : NothingMoves(e)
    BY <1>1 DEF NothingMoves
<1>3. ErrorsExplained
    BY <1>1 DEF ErrorsExplained
<1> QED
    BY <1>1, <1>2, <1>3 DEF StepCaused

LEMMA PointerMoved ==
    ASSUME TypeOK, NEW e \in Environments, NEW p \in Nat, deployments' = Move(e, p)
    PROVE  /\ deployments'[e].active = p /\ deployments'[e].pending = None
           /\ deployments'[e].generation = deployments[e].generation + 1
           /\ \A x \in Environments \ {e} : deployments'[x] = deployments[x]
<1>1. deployments \in [Environments -> Deployment]
    BY DEF TypeOK
<1>2. deployments'[e] = [active |-> p, pending |-> None,
                         generation |-> deployments[e].generation + 1]
    BY <1>1, MoveType
<1>3. \A x \in Environments \ {e} : deployments'[x] = deployments[x]
    BY <1>1 DEF Move
<1> QED
    BY <1>2, <1>3

LEMMA ReleaseAppended ==
    ASSUME TypeOK, PromotionsToProduction, NEW rows, SameRequests(rows),
           NEW e \in Environments, NEW p \in Nat,
           NEW row \in Operation, row.action = "promote" => row.environment = "production",
           row.status = "completed", row.environment = e,
           row.expectedGeneration = deployments[e].generation,
           row.resultGeneration = deployments[e].generation + 1,
           row.resultPublication = p,
           row.error # "internal_error",
           row.action = "rollback" => Returns(e, p),
           row.action = "promote" => policies["production"].requiredApprovals = 0,
           Backed(e, row, NextOperation), Shows(e, row),
           operations' = Append(rows, row), deployments' = Move(e, p)
    PROVE  StepCaused
<1>1. /\ PromotionsToProduction' /\ RequestersKept
      /\ NextOperation \in OperationIds' /\ NextOperation \notin OperationIds
      /\ operations'[NextOperation] = row
      /\ \A x \in OperationIds' \ {NextOperation} :
            /\ x \in OperationIds
            /\ operations'[x].status = "completed" => operations[x].status = "completed"
            /\ operations'[x].error = "internal_error" =>
                  operations[x].error = "internal_error"
    BY Appended
<1>2. /\ deployments'[e].active = p
      /\ deployments'[e].generation = deployments[e].generation + 1
      /\ \A x \in Environments \ {e} : deployments'[x] = deployments[x]
    BY PointerMoved
<1>3. MovedBy(e, NextOperation)
    BY <1>1, <1>2 DEF MovedBy, Approved
<1>4. ASSUME NEW x \in Environments \ {e}
      PROVE  NothingMoves(x)
    BY <1>1, <1>2 DEF NothingMoves
<1>5. ErrorsExplained
    BY <1>1 DEF ErrorsExplained
<1> QED
    BY <1>1, <1>3, <1>4, <1>5 DEF StepCaused

\* A row that awaited approval is rewritten.
LEMMA Rewritten ==
    ASSUME TypeOK, PromotionsToProduction, NEW o \in OperationIds,
           operations[o].status = "awaiting_approval",
           OperationIds' = OperationIds,
           operations'[o].action = operations[o].action,
           operations'[o].environment = operations[o].environment,
           operations'[o].requester = operations[o].requester,
           operations'[o].error = "internal_error" => operations[o].error = "internal_error",
           \A x \in OperationIds \ {o} : operations'[x] = operations[x]
    PROVE  PromotionsToProduction' /\ RequestersKept /\ ErrorsExplained
    BY DEF PromotionsToProduction, RequestersKept, ErrorsExplained

LEMMA RefusalRewritten ==
    ASSUME TypeOK, PromotionsToProduction, NEW o \in OperationIds,
           operations[o].status = "awaiting_approval",
           OperationIds' = OperationIds,
           operations'[o].action = operations[o].action,
           operations'[o].environment = operations[o].environment,
           operations'[o].requester = operations[o].requester,
           operations'[o].error = "internal_error" => operations[o].error = "internal_error",
           operations'[o].status # "completed",
           \A x \in OperationIds \ {o} : operations'[x] = operations[x],
           \A e \in Environments : /\ deployments'[e].active = deployments[e].active
                                   /\ deployments'[e].generation = deployments[e].generation
    PROVE  StepCaused
    BY Rewritten DEF StepCaused, NothingMoves

LEMMA ReleaseRewritten ==
    ASSUME TypeOK, PromotionsToProduction, NEW o \in OperationIds,
           operations[o].status = "awaiting_approval",
           operations[o].action = "promote",
           OperationIds' = OperationIds,
           operations'[o].action = operations[o].action,
           operations'[o].environment = operations[o].environment,
           operations'[o].requester = operations[o].requester,
           operations'[o].error = "internal_error" => operations[o].error = "internal_error",
           operations'[o].status = "completed",
           \A x \in OperationIds \ {o} : operations'[x] = operations[x],
           NEW p \in Nat, deployments' = Move("production", p),
           operations'[o].expectedGeneration = deployments["production"].generation,
           operations'[o].resultGeneration = deployments["production"].generation + 1,
           operations'[o].resultPublication = p,
           Approved(o), Backed("production", operations'[o], o),
           Shows("production", operations'[o])
    PROVE  StepCaused
<1> DEFINE e == "production"
<1>1. e \in Environments
    BY DEF Environments
<1>2. /\ deployments'[e].active = p
      /\ deployments'[e].generation = deployments[e].generation + 1
      /\ \A x \in Environments \ {e} : deployments'[x] = deployments[x]
    BY <1>1, PointerMoved
<1>3. operations[o].environment = e
    BY DEF PromotionsToProduction
<1>4. MovedBy(e, o)
    BY <1>2, <1>3 DEF MovedBy
<1>5. ASSUME NEW x \in Environments \ {e}
      PROVE  NothingMoves(x)
    BY <1>2, <1>3 DEF NothingMoves
<1> QED
    BY <1>1, <1>4, <1>5, Rewritten DEF StepCaused

-----------------------------------------------------------------------------
(* Every transaction is one of these. *)

LEMMA RequestFields ==
    ASSUME NEW e, NEW action, NEW k, NEW u, NEW g, NEW source
    PROVE  /\ NewOperation(e, action, k, u, g, source).environment = e
           /\ NewOperation(e, action, k, u, g, source).action = action
           /\ NewOperation(e, action, k, u, g, source).expectedGeneration = g
           /\ NewOperation(e, action, k, u, g, source).source = source
           /\ NewOperation(e, action, k, u, g, source).error # "internal_error"
    BY DEF NewOperation

LEMMA FailedRow ==
    ASSUME NEW operation \in Operation, NEW g \in Nat, NEW code
    PROVE  /\ Failed(operation, g, code).status = "failed"
           /\ Failed(operation, g, code).environment = operation.environment
           /\ Failed(operation, g, code).action = operation.action
           /\ Failed(operation, g, code).requester = operation.requester
           /\ Failed(operation, g, code).error = code
    BY DEF Failed, Operation

LEMMA CompletedRow ==
    ASSUME NEW operation \in Operation, NEW g \in Nat, NEW p \in Nat
    PROVE  /\ Completed(operation, g, p).status = "completed"
           /\ Completed(operation, g, p).environment = operation.environment
           /\ Completed(operation, g, p).action = operation.action
           /\ Completed(operation, g, p).expectedGeneration = operation.expectedGeneration
           /\ Completed(operation, g, p).resultGeneration = g
           /\ Completed(operation, g, p).resultPublication = p
           /\ Completed(operation, g, p).requester = operation.requester
           /\ Completed(operation, g, p).source = operation.source
           /\ Completed(operation, g, p).error = operation.error
    BY DEF Completed, Operation

LEMMA PublicationAppended ==
    ASSUME TypeOK, NEW row, publications' = Append(publications, row)
    PROVE  /\ NextPublication \in PublicationIds' /\ NextPublication \notin PublicationIds
           /\ publications'[NextPublication] = row
<1> DEFINE S == Publication \union {row}
<1>1. publications \in Seq(S) /\ row \in S
    BY SeqMonotonic DEF TypeOK
<1> HIDE DEF S
<1> QED
    BY <1>1, AppendProperties, LenProperties DEF PublicationIds, NextPublication

LEMMA AppendedDomain ==
    ASSUME TypeOK, NEW row, publications' = Append(publications, row)
    PROVE  PublicationIds' = PublicationIds \union {NextPublication}
<1> DEFINE S == Publication \union {row}
<1>1. publications \in Seq(S) /\ row \in S
    BY SeqMonotonic DEF TypeOK
<1> HIDE DEF S
<1>2. Len(publications) \in Nat /\ PublicationIds = 1..Len(publications)
    BY <1>1, LenProperties DEF PublicationIds
<1>3. PublicationIds' = 1..(Len(publications) + 1)
    BY <1>1, AppendProperties, LenProperties DEF PublicationIds
<1> QED
    BY <1>2, <1>3 DEF NextPublication

LEMMA PromotionAppended ==
    ASSUME TypeOK, NEW source, NEW o,
           publications' = Append(publications, PromotionOf(source, o))
    PROVE  /\ NextPublication \in PublicationIds' /\ NextPublication \notin PublicationIds
           /\ publications'[NextPublication].environment = "production"
           /\ publications'[NextPublication].artifact = publications[source].artifact
           /\ publications'[NextPublication].operation = o
           /\ publications'[NextPublication].action = "promote"
           /\ publications'[NextPublication].source = source
<1>1. /\ NextPublication \in PublicationIds' /\ NextPublication \notin PublicationIds
      /\ publications'[NextPublication] = PromotionOf(source, o)
    BY PublicationAppended
<1>2. /\ PromotionOf(source, o).environment = "production"
      /\ PromotionOf(source, o).artifact = publications[source].artifact
      /\ PromotionOf(source, o).operation = o
      /\ PromotionOf(source, o).action = "promote"
      /\ PromotionOf(source, o).source = source
    BY DEF PromotionOf
<1> QED
    BY <1>1, <1>2

LEMMA ActivateCaused ==
    ASSUME TypeOK, PromotionsToProduction,
           NEW u \in Users, NEW k \in Keys, NEW artifact \in Artifacts,
           NEW g \in ReadGenerations("staging"),
           ActivateCompiledArtifact(u, k, artifact, g)
    PROVE  StepCaused
<1> DEFINE e == "staging"
           actual == deployments[e].generation
           request == NewOperation(e, "publish", k, u, g, None)
<1>1. request \in Operation /\ actual \in Nat
    BY RequestInOperation DEF Environments, None
<1>2. /\ request.environment = e /\ request.action = "publish"
      /\ request.expectedGeneration = g /\ request.error # "internal_error"
    BY RequestFields
<1>3. actual + 1 \in Nat /\ NextPublication \in Nat /\ e \in Environments
    BY <1>1 DEF TypeOK, NextPublication, Environments
<1> HIDE DEF request
<1>4. CASE /\ operations' = Append(operations, Failed(request, actual, "deployment_changed"))
           /\ UNCHANGED <<deployments, publications>>
    <2> DEFINE row == Failed(request, actual, "deployment_changed")
    <2>1. row \in Operation
        BY <1>1, FailedType
    <2>2. /\ row.status = "failed" /\ row.action = "publish"
          /\ row.error = "deployment_changed"
        BY <1>1, <1>2, FailedRow
    <2> HIDE DEF row
    <2>3. operations' = Append(operations, row)
        BY <1>4 DEF row
    <2> QED
        BY <1>4, <2>1, <2>2, <2>3, CommittedRows, RefusalAppended
<1>5. CASE /\ IsCurrent(e, g)
           /\ publications' = Append(publications,
                 [environment |-> e, artifact |-> artifact, action |-> "publish",
                  source |-> None, previous |-> deployments[e].active,
                  operation |-> NextOperation])
           /\ operations' = Append(operations, Completed(request, actual + 1, NextPublication))
           /\ deployments' = Move(e, NextPublication)
    <2> DEFINE row == Completed(request, actual + 1, NextPublication)
    <2>1. row \in Operation
        BY <1>1, <1>3, CompletedType
    <2>2. /\ row.status = "completed" /\ row.environment = e /\ row.action = "publish"
          /\ row.expectedGeneration = actual
          /\ row.resultGeneration = actual + 1
          /\ row.resultPublication = NextPublication
          /\ row.error # "internal_error"
        BY <1>1, <1>2, <1>3, <1>5, CompletedRow DEF IsCurrent
    <2> HIDE DEF row
    <2>3. operations' = Append(operations, row)
        BY <1>5 DEF row
    <2>4. /\ NextPublication \in PublicationIds' /\ NextPublication \notin PublicationIds
          /\ publications'[NextPublication].environment = e
          /\ publications'[NextPublication].operation = NextOperation
          /\ publications'[NextPublication].action = "publish"
        <3> DEFINE made == [environment |-> e, artifact |-> artifact, action |-> "publish",
                            source |-> None, previous |-> deployments[e].active,
                            operation |-> NextOperation]
        <3>1. /\ NextPublication \in PublicationIds' /\ NextPublication \notin PublicationIds
              /\ publications'[NextPublication] = made
            BY <1>5, PublicationAppended
        <3> QED
            BY <3>1
    <2>5. Backed(e, row, NextOperation) /\ Shows(e, row)
        BY <2>2, <2>4 DEF Backed, Shows
    <2> QED
        BY <1>3, <1>5, <2>1, <2>2, <2>3, <2>5, CommittedRows, ReleaseAppended
<1> QED
    BY <1>4, <1>5 DEF ActivateCompiledArtifact, request

LEMMA RequestCaused ==
    ASSUME TypeOK, PromotionsToProduction,
           NEW u \in Users, NEW k \in Keys, NEW g \in ReadGenerations("production"),
           RequestPromotion(u, k, g)
    PROVE  StepCaused
<1> DEFINE e == "production"
           source == deployments["staging"].active
           actual == deployments[e].generation
           base == WithoutStalePending
           request == NewOperation(e, "promote", k, u, g, source)
<1>1. /\ source \in Nat /\ e \in Environments
      /\ NextPublication \in Nat
      /\ deployments \in [Environments -> Deployment] /\ publications \in Seq(Publication)
    BY DEF TypeOK, Environments, NextPublication
<1>2. request \in Operation /\ actual \in Nat
    BY <1>1, RequestInOperation
<1>3. /\ request.environment = e /\ request.action = "promote"
      /\ request.expectedGeneration = g /\ request.source = source
      /\ request.error # "internal_error"
    BY RequestFields
<1>4. /\ SameRequests(base.operations)
      /\ \A x \in Environments : /\ base.deployments[x].active = deployments[x].active
                                 /\ base.deployments[x].generation = deployments[x].generation
    BY RowsWithoutStale DEF RequestPromotion
<1>5. base.deployments \in [Environments -> Deployment]
    BY WithoutStalePendingType
<1> HIDE DEF base, request
<1>6. CASE /\ operations' = Append(base.operations, Failed(request, actual, "deployment_changed"))
           /\ deployments' = base.deployments
    <2> DEFINE row == Failed(request, actual, "deployment_changed")
    <2>1. row \in Operation
        BY <1>2, FailedType
    <2>2. row.status = "failed" /\ row.environment = e /\ row.error = "deployment_changed"
        BY <1>2, <1>3, FailedRow
    <2> HIDE DEF row
    <2>3. operations' = Append(base.operations, row)
        BY <1>6 DEF row
    <2> QED
        BY <1>4, <1>6, <2>1, <2>2, <2>3, RefusalAppended
<1>7. CASE /\ operations' = Append(base.operations, Awaiting(request))
           /\ deployments' = Pend(base.deployments, NextOperation)
    <2> DEFINE row == Awaiting(request)
    <2>1. /\ row \in Operation /\ row.status = "awaiting_approval" /\ row.environment = e
          /\ row.error # "internal_error"
        BY <1>2, <1>3, AwaitingType DEF Awaiting, Operation
    <2>2. NextOperation \in Nat
        BY DEF TypeOK, NextOperation
    <2>3. \A x \in Environments : /\ deployments'[x].active = deployments[x].active
                                  /\ deployments'[x].generation = deployments[x].generation
        BY <1>4, <1>5, <1>7, <2>2, PendType DEF Environments
    <2> HIDE DEF row
    <2>4. operations' = Append(base.operations, row)
        BY <1>7 DEF row
    <2> QED
        BY <1>4, <2>1, <2>3, <2>4, RefusalAppended
<1>8. CASE /\ IsCurrent(e, g)
           /\ source # None /\ source \in verified
           /\ policies["production"].requiredApprovals = 0
           /\ publications' = Append(publications, PromotionOf(source, NextOperation))
           /\ operations' = Append(base.operations, CompletedPromotion(request))
           /\ deployments' = Move(e, NextPublication)
    <2> DEFINE row == CompletedPromotion(request)
    <2>1. row \in Operation
        BY <1>1, <1>2, CompletedPromotionType
    <2>2. /\ row.status = "completed" /\ row.environment = e /\ row.action = "promote"
          /\ row.expectedGeneration = actual
          /\ row.resultGeneration = actual + 1
          /\ row.resultPublication = NextPublication
          /\ row.source = source /\ row.error # "internal_error"
        <3>1. actual + 1 \in Nat
            BY <1>2
        <3> QED
            BY <1>1, <1>2, <1>3, <1>8, <3>1, CompletedRow DEF CompletedPromotion, IsCurrent
    <2> HIDE DEF row
    <2>3. operations' = Append(base.operations, row)
        BY <1>8 DEF row
    <2>4. /\ NextPublication \in PublicationIds' /\ NextPublication \notin PublicationIds
          /\ publications'[NextPublication].environment = e
          /\ publications'[NextPublication].operation = NextOperation
          /\ publications'[NextPublication].action = "promote"
          /\ publications'[NextPublication].source = source
          /\ publications'[NextPublication].artifact = publications[source].artifact
        BY <1>8, PromotionAppended
    <2>5. Backed(e, row, NextOperation) /\ Shows(e, row)
        BY <1>8, <2>2, <2>4 DEF Backed, Shows
    <2> QED
        BY <1>1, <1>4, <1>8, <2>1, <2>2, <2>3, <2>5, ReleaseAppended
<1> QED
    BY <1>6, <1>7, <1>8 DEF RequestPromotion, SourceIsVerified, base, request

LEMMA RecoverCaused ==
    ASSUME TypeOK, PromotionsToProduction,
           NEW u \in Users, NEW e \in Environments, NEW k \in Keys,
           NEW action \in {"rollback", "unpublish"},
           NEW target, action = "rollback" => target \in PublicationIds,
           NEW g \in ReadGenerations(e),
           RecoverDocumentRelease(u, e, k, action, target, g)
    PROVE  StepCaused
<1> DEFINE refusal == RecoveryRefusal(u, e, action, target, g)
           request == NewOperation(e, action, k, u, g, None)
           actual == deployments[e].generation
<1>1. request \in Operation /\ actual \in Nat
    BY RequestInOperation DEF None
<1>2. /\ request.environment = e /\ request.action = action
      /\ request.expectedGeneration = g /\ request.error # "internal_error"
    BY RequestFields
<1>3. /\ NextPublication \in Nat /\ None \in Nat
      /\ deployments \in [Environments -> Deployment] /\ publications \in Seq(Publication)
    BY DEF TypeOK, NextPublication, None
<1>4. refusal \in {"", "policy", "already_inactive", "release_operation_in_progress",
                   "deployment_changed", "internal_error", "rollback_target_invalid",
                   "artifact_incompatible"}
    BY RefusalType
<1>5. /\ refusal = "" => g = actual /\ deployments[e].active # None
      /\ refusal = "internal_error" => Unexplained(e)
    BY DEF RecoveryRefusal, RollbackRefusal, IsCurrent, Unexplained
<1>6. ASSUME refusal = "", action = "rollback"
      PROVE  /\ target # deployments[e].active
             /\ publications[target].environment = e
             /\ \E o \in Releases(e) :
                   /\ operations[o].resultPublication = target
                   /\ operations[o].resultGeneration < deployments[e].generation
    <2>1. RollbackRefusal(e, target) = ""
        BY <1>6 DEF RecoveryRefusal
    <2>2. /\ target # deployments[e].active
          /\ \E o \in ReleaseOf(e, target) :
                ~(operations[o].resultGeneration >= deployments[e].generation)
        BY <2>1 DEF RollbackRefusal
    <2>3. PICK o \in Releases(e) :
              /\ operations[o].resultPublication = target
              /\ ~(operations[o].resultGeneration >= deployments[e].generation)
        BY <2>2 DEF ReleaseOf
    <2>4. /\ o \in OperationIds
          /\ operations[o].environment = e
          /\ operations[o].status = "completed"
          /\ operations[o].action # "unpublish"
        BY <2>3 DEF Releases
    <2>5. operations[o].resultGeneration < deployments[e].generation
        <3>1. operations[o] \in Operation
            BY <2>4, ElementOfSeq DEF TypeOK, OperationIds
        <3>2. operations[o].resultGeneration \in Nat
            BY <3>1 DEF Operation
        <3> QED
            BY <1>1, <2>3, <3>2
    <2>6. RecoveryHistoryIntact(e)
        BY <1>6 DEF RecoverDocumentRelease
    <2> QED
        BY <2>2, <2>3, <2>4, <2>5, <2>6 DEF RecoveryHistoryIntact
<1> HIDE DEF request, refusal
<1>7. CASE /\ refusal # ""
           /\ operations' = Append(operations, Failed(request, actual, refusal))
           /\ UNCHANGED <<deployments, publications>>
    <2> DEFINE row == Failed(request, actual, refusal)
    <2>1. refusal \in {"deployment_changed", "policy", "already_inactive", "internal_error",
                       "release_operation_in_progress", "rollback_target_invalid",
                       "artifact_incompatible"}
        BY <1>4, <1>7
    <2>2. row \in Operation
        BY <1>1, <2>1, FailedType
    <2>3. row.status = "failed" /\ row.action = action /\ row.error = refusal
        BY <1>1, <1>2, FailedRow
    <2> HIDE DEF row
    <2>4. operations' = Append(operations, row)
        BY <1>7 DEF row
    <2> QED
        BY <1>5, <1>7, <2>2, <2>3, <2>4, CommittedRows, RefusalAppended
<1>8. ASSUME NEW p \in Nat, NEW source \in Nat,
             refusal = "",
             action = "rollback" =>
                /\ Returns(e, p)
                /\ p = NextPublication
                /\ \E o \in Releases(e) :
                      /\ operations[o].resultPublication = source
                      /\ operations[o].resultGeneration < deployments[e].generation
                /\ source # None
                /\ p \in PublicationIds' /\ p \notin PublicationIds
                /\ publications'[p] =
                      [environment |-> e, artifact |-> publications[source].artifact,
                       action |-> "rollback", source |-> source,
                       previous |-> deployments[e].active, operation |-> NextOperation],
             action = "unpublish" => p = None,
             operations' = Append(operations, Recovered(request, e, p, source)),
             deployments' = Move(e, p)
      PROVE  StepCaused
    <2> DEFINE done == Completed(request, actual + 1, p)
               row == Recovered(request, e, p, source)
    <2>1. row \in Operation /\ row.status = "completed"
        BY <1>1, <1>3, <1>8, RecoveredType
    <2>2. actual + 1 \in Nat
        BY <1>1
    <2>3. /\ done \in Operation
          /\ done.environment = e /\ done.action = action
          /\ done.expectedGeneration = g
          /\ done.resultGeneration = actual + 1
          /\ done.resultPublication = p /\ done.error # "internal_error"
        <3>1. done \in Operation
            BY <1>1, <1>8, <2>2, CompletedType
        <3>2. /\ done.environment = request.environment /\ done.action = request.action
              /\ done.expectedGeneration = request.expectedGeneration
              /\ done.resultGeneration = actual + 1
              /\ done.resultPublication = p /\ done.error = request.error
            BY <1>1, <1>8, <2>2 DEF Completed, Operation
        <3> QED
            BY <1>2, <3>1, <3>2
    <2>4. row = [done EXCEPT !.replaced = deployments[e].active, !.source = source]
        BY DEF Recovered
    <2> HIDE DEF done
    <2>5. /\ row.environment = e /\ row.action = action
          /\ row.expectedGeneration = actual
          /\ row.resultGeneration = actual + 1
          /\ row.resultPublication = p /\ row.error # "internal_error"
          /\ row.replaced = deployments[e].active /\ row.source = source
        BY <1>5, <1>8, <2>3, <2>4 DEF Operation
    <2> HIDE DEF row
    <2>6. operations' = Append(operations, row)
        BY <1>8 DEF row
    <2>7. CASE action = "unpublish"
        <3>1. Backed(e, row, NextOperation) /\ Shows(e, row)
            BY <1>5, <1>8, <2>5, <2>7 DEF Backed, Shows
        <3> QED
            BY <1>8, <2>1, <2>5, <2>6, <3>1, CommittedRows, ReleaseAppended
    <2>8. CASE action = "rollback"
        <3>1. /\ publications'[p].environment = e
              /\ publications'[p].operation = NextOperation
              /\ publications'[p].action = "rollback"
              /\ publications'[p].source = source
              /\ publications'[p].previous = deployments[e].active
              /\ publications'[p].artifact = publications[source].artifact
            <4> DEFINE made ==
                    [environment |-> e, artifact |-> publications[source].artifact,
                     action |-> "rollback", source |-> source,
                     previous |-> deployments[e].active, operation |-> NextOperation]
            <4>1. publications'[p] = made
                BY <1>8, <2>8
            <4>2. /\ made.environment = e /\ made.operation = NextOperation
                  /\ made.action = "rollback" /\ made.source = source
                  /\ made.previous = deployments[e].active
                  /\ made.artifact = publications[source].artifact
                OBVIOUS
            <4> HIDE DEF made
            <4> QED
                BY <4>1, <4>2
        <3>2. Backed(e, row, NextOperation)
            BY <1>5, <1>8, <2>5, <2>8, <3>1 DEF Backed
        <3>3. Shows(e, row)
            BY <1>5, <1>8, <2>5, <2>8, <3>1 DEF Shows
        <3> QED
            BY <1>8, <2>1, <2>5, <2>6, <3>2, <3>3, CommittedRows, ReleaseAppended
    <2> QED
        BY <2>7, <2>8
<1>9. ASSUME refusal = "", action = "rollback",
             publications' = Append(publications,
                [environment |-> e, artifact |-> publications[target].artifact,
                 action |-> "rollback", source |-> target,
                 previous |-> deployments[e].active, operation |-> NextOperation])
      PROVE  /\ Returns(e, NextPublication) /\ target \in Nat /\ target # None
             /\ NextPublication \in PublicationIds' /\ NextPublication \notin PublicationIds
             /\ publications'[NextPublication] =
                   [environment |-> e, artifact |-> publications[target].artifact,
                    action |-> "rollback", source |-> target,
                    previous |-> deployments[e].active, operation |-> NextOperation]
    <2> DEFINE row == [environment |-> e, artifact |-> publications[target].artifact,
                       action |-> "rollback", source |-> target,
                       previous |-> deployments[e].active, operation |-> NextOperation]
    <2>1. row.artifact = publications[target].artifact
        OBVIOUS
    <2>2. publications' = Append(publications, row)
        BY <1>9
    <2> HIDE DEF row
    <2>3. /\ NextPublication \in PublicationIds' /\ NextPublication \notin PublicationIds
          /\ publications'[NextPublication] = row
        BY <2>2, PublicationAppended
    <2>4. target \in PublicationIds
        BY <1>9
    <2>5. PublicationIds \subseteq Nat /\ None \notin PublicationIds
        BY <1>3, LenProperties DEF PublicationIds, None
    <2>6. Returns(e, NextPublication)
        BY <1>6, <1>9, <2>1, <2>3, <2>4 DEF Returns
    <2> QED
        BY <2>3, <2>4, <2>5, <2>6 DEF row
<1>10. CASE /\ refusal = "" /\ action = "rollback"
            /\ publications' = Append(publications,
                  [environment |-> e, artifact |-> publications[target].artifact,
                   action |-> "rollback", source |-> target,
                   previous |-> deployments[e].active, operation |-> NextOperation])
            /\ operations' = Append(operations, Recovered(request, e, NextPublication, target))
            /\ deployments' = Move(e, NextPublication)
    BY <1>3, <1>6, <1>8, <1>9, <1>10
<1>11. CASE /\ refusal = "" /\ action = "unpublish"
            /\ operations' = Append(operations, Recovered(request, e, None, None))
            /\ deployments' = Move(e, None)
    BY <1>3, <1>8, <1>11
<1> QED
    BY <1>7, <1>10, <1>11 DEF RecoverDocumentRelease, request, refusal

LEMMA OperationsUntouched ==
    ASSUME TypeOK, PromotionsToProduction, UNCHANGED operations,
           \A e \in Environments : /\ deployments'[e].active = deployments[e].active
                                   /\ deployments'[e].generation = deployments[e].generation
    PROVE  StepCaused
<1>1. OperationIds' = OperationIds
    BY DEF OperationIds
<1> QED
    BY <1>1
    DEF StepCaused, NothingMoves, PromotionsToProduction, RequestersKept, ErrorsExplained

\* A row is replaced.
LEMMA RowReplaced ==
    ASSUME TypeOK, NEW o \in OperationIds, NEW row \in Operation,
           operations' = [operations EXCEPT ![o] = row]
    PROVE  /\ OperationIds' = OperationIds
           /\ operations'[o] = row
           /\ \A x \in OperationIds \ {o} : operations'[x] = operations[x]
<1>1. operations \in Seq(Operation) /\ OperationIds = DOMAIN operations
    BY DEF TypeOK, OperationIds
<1>2. /\ OperationIds = 1..Len(operations)
      /\ operations' \in Seq(Operation) /\ Len(operations') = Len(operations)
      /\ \A x \in 1..Len(operations) : operations'[x] = IF x = o THEN row ELSE operations[x]
    BY <1>1, LenProperties, ExceptSeq
<1>3. OperationIds' = 1..Len(operations')
    BY <1>2, LenProperties DEF OperationIds
<1> QED
    BY <1>2, <1>3

\* The pending operation o fails and the pointers stay.
LEMMA PendingFails ==
    ASSUME TypeOK, PromotionsToProduction, NEW o \in OperationIds,
           operations[o].status = "awaiting_approval",
           NEW code \in {"active_publication_changed", "release_approval_rejected"},
           operations' = FailedOperations(o, code), deployments' = ClearPending(o)
    PROVE  StepCaused
<1> DEFINE row == [operations[o] EXCEPT !.status = "failed", !.error = code]
<1>1. operations[o] \in Operation
    BY ElementOfSeq DEF TypeOK, OperationIds
<1>2. /\ row \in Operation /\ row.status = "failed"
      /\ row.action = operations[o].action /\ row.environment = operations[o].environment
      /\ row.requester = operations[o].requester /\ row.error = code
    BY <1>1 DEF Operation
<1>3. operations' = [operations EXCEPT ![o] = row]
    BY DEF FailedOperations
<1> HIDE DEF row
<1>4. /\ OperationIds' = OperationIds
      /\ operations'[o] = row
      /\ \A x \in OperationIds \ {o} : operations'[x] = operations[x]
    BY <1>2, <1>3, RowReplaced
<1>5. \A e \in Environments : /\ deployments'[e].active = deployments[e].active
                              /\ deployments'[e].generation = deployments[e].generation
    BY ClearPendingType DEF TypeOK
<1> QED
    BY <1>2, <1>4, <1>5, RefusalRewritten

LEMMA ResumeCaused ==
    ASSUME TypeOK, PromotionsToProduction,
           NEW u \in Users, NEW o \in OperationIds, ResumePromotion(u, o)
    PROVE  StepCaused
<1> DEFINE e == "production"
           operation == operations[o]
           actual == deployments[e].generation
<1>1. /\ operation.status = "awaiting_approval" /\ operation.action = "promote"
      /\ operation \in Operation
    BY ElementOfSeq DEF ResumePromotion, Awaits, TypeOK, OperationIds
<1>2. /\ e \in Environments /\ deployments \in [Environments -> Deployment]
      /\ publications \in Seq(Publication) /\ NextPublication \in Nat
    BY DEF TypeOK, Environments, NextPublication
<1>3. actual \in Nat /\ actual + 1 \in Nat
    BY <1>2 DEF Deployment
<1>4. CASE /\ operations' = FailedOperations(o, "active_publication_changed")
           /\ deployments' = ClearPending(o)
    <2>1. "active_publication_changed" \in
              {"active_publication_changed", "release_approval_rejected"}
        OBVIOUS
    <2> QED
        BY <1>1, <1>4, <2>1, PendingFails
<1>5. CASE deployments' = Pend(deployments, o) /\ UNCHANGED operations
    <2>1. o \in Nat
        BY LenProperties DEF TypeOK, OperationIds
    <2>2. \A x \in Environments : /\ deployments'[x].active = deployments[x].active
                                  /\ deployments'[x].generation = deployments[x].generation
        BY <1>2, <1>5, <2>1, PendType DEF Environments
    <2> QED
        BY <1>5, <2>2, OperationsUntouched
<1>6. CASE /\ operations' = [operations EXCEPT ![o] = Failed(@, actual, "deployment_changed")]
           /\ UNCHANGED deployments
    <2> DEFINE row == Failed(operation, actual, "deployment_changed")
    <2>1. row \in Operation
        BY <1>1, <1>3, FailedType
    <2>2. /\ row.status = "failed" /\ row.action = operation.action
          /\ row.environment = operation.environment
          /\ row.requester = operation.requester /\ row.error = "deployment_changed"
        BY <1>1, <1>3, FailedRow
    <2>3. operations' = [operations EXCEPT ![o] = row]
        BY <1>6
    <2> HIDE DEF row
    <2>4. /\ OperationIds' = OperationIds
          /\ operations'[o] = row
          /\ \A x \in OperationIds \ {o} : operations'[x] = operations[x]
        BY <2>1, <2>3, RowReplaced
    <2> QED
        BY <1>1, <1>6, <2>2, <2>4, RefusalRewritten
<1>7. CASE /\ IsCurrent(e, operation.expectedGeneration)
           /\ deployments["staging"].active = operation.source
           /\ SourceIsVerified(operation.source)
           /\ Cardinality(Approvers(o)) >= policies["production"].requiredApprovals
           /\ publications' = Append(publications, PromotionOf(operation.source, o))
           /\ operations' = [operations EXCEPT ![o] = CompletedPromotion(@)]
           /\ deployments' = Move(e, NextPublication)
    <2> DEFINE row == CompletedPromotion(operation)
    <2>1. row \in Operation
        BY <1>1, <1>2, CompletedPromotionType
    <2>2. /\ row.status = "completed" /\ row.action = operation.action
          /\ row.environment = operation.environment
          /\ row.expectedGeneration = actual
          /\ row.resultGeneration = actual + 1
          /\ row.resultPublication = NextPublication
          /\ row.requester = operation.requester /\ row.source = operation.source
          /\ row.error = operation.error
        BY <1>1, <1>2, <1>3, <1>7, CompletedRow DEF CompletedPromotion, IsCurrent
    <2>3. operations' = [operations EXCEPT ![o] = row]
        BY <1>7
    <2> HIDE DEF row
    <2>4. /\ OperationIds' = OperationIds
          /\ operations'[o] = row
          /\ \A x \in OperationIds \ {o} : operations'[x] = operations[x]
        BY <2>1, <2>3, RowReplaced
    <2>5. operation.source # None
        BY <1>7 DEF SourceIsVerified, TypeOK, None
    <2>6. /\ NextPublication \in PublicationIds' /\ NextPublication \notin PublicationIds
          /\ publications'[NextPublication].environment = e
          /\ publications'[NextPublication].operation = o
          /\ publications'[NextPublication].action = "promote"
          /\ publications'[NextPublication].source = operation.source
          /\ publications'[NextPublication].artifact = publications[operation.source].artifact
        BY <1>7, PromotionAppended
    <2>7. Backed(e, row, o) /\ Shows(e, row)
        BY <1>1, <1>7, <2>2, <2>5, <2>6 DEF Backed, Shows, SourceIsVerified
    <2>8. Approved(o)
        BY <1>7 DEF Approved
    <2> QED
        BY <1>1, <1>2, <1>7, <2>2, <2>4, <2>7, <2>8, ReleaseRewritten
<1> QED
    BY <1>4, <1>5, <1>6, <1>7 DEF ResumePromotion

\* Every transaction leaves the pointers alone or moves one of them on behalf
\* of one operation, computed against the generation it found.
LEMMA NextCaused == TypeOK /\ PromotionsToProduction /\ [Next]_vars => StepCaused
<1> SUFFICES ASSUME TypeOK, PromotionsToProduction, [Next]_vars
             PROVE  StepCaused
    OBVIOUS
<1>1. ASSUME UNCHANGED <<deployments, operations>>
      PROVE  StepCaused
    BY <1>1, OperationsUntouched
<1>2. ASSUME NEW u \in Users, NEW o \in OperationIds, RejectRelease(u, o)
      PROVE  StepCaused
    <2>1. "release_approval_rejected" \in
              {"active_publication_changed", "release_approval_rejected"}
        OBVIOUS
    <2> QED
        BY <1>2, <2>1, PendingFails DEF RejectRelease, MayDecide, Awaits
<1>3. ASSUME NEW u \in Users, NEW e \in Environments, NEW k \in Keys,
             NEW g \in ReadGenerations(e),
             \/ \E target \in PublicationIds :
                    RecoverDocumentRelease(u, e, k, "rollback", target, g)
             \/ RecoverDocumentRelease(u, e, k, "unpublish", None, g)
      PROVE  StepCaused
    <2>1. "rollback" \in {"rollback", "unpublish"} /\ "unpublish" \in {"rollback", "unpublish"}
          /\ "unpublish" # "rollback"
        OBVIOUS
    <2> QED
        BY <1>3, <2>1, RecoverCaused
<1>4. ASSUME NEW u \in Users, NEW o \in OperationIds, ApproveRelease(u, o)
      PROVE  StepCaused
    BY <1>1, <1>4 DEF ApproveRelease
<1>5. ASSUME NEW u, NEW passed, CreatePublicationVerification(u, passed)
      PROVE  StepCaused
    BY <1>1, <1>5 DEF CreatePublicationVerification, releaseVars
<1>6. CASE ReleaseNext
    BY <1>2, <1>3, <1>4, <1>5, <1>6, ActivateCaused, RequestCaused, ResumeCaused DEF ReleaseNext
<1>7. CASE GovernanceNext
    BY <1>1, <1>7
    DEF GovernanceNext, UpdateEnvironmentPolicy, UpdateMemberRole, ChangePlan, releaseVars
<1>8. CASE UNCHANGED vars
    BY <1>1, <1>8 DEF vars, releaseVars
<1> QED
    BY <1>6, <1>7, <1>8 DEF Next

-----------------------------------------------------------------------------
(* The history accounts for the pointer.  With the types this is inductive *)
(* once said of every completed operation and not only of the movers.      *)

CompletedIn(e) == {o \in OperationIds : /\ operations[o].environment = e
                                        /\ operations[o].status = "completed"}

\* A completed operation moved the pointer from the generation it expected.
CompletionsFit(e) ==
    \A o \in CompletedIn(e) :
        /\ operations[o].resultGeneration \in 1..deployments[e].generation
        /\ operations[o].resultGeneration = operations[o].expectedGeneration + 1

NoTwoMoveAlike(e) ==
    \A o, x \in CompletedIn(e) :
        operations[o].resultGeneration = operations[x].resultGeneration => o = x

EveryGenerationIsMade(e) ==
    \A g \in 1..deployments[e].generation :
        \E o \in CompletedIn(e) : operations[o].resultGeneration = g

LastIsLive(e) ==
    /\ deployments[e].generation = 0 => deployments[e].active = None
    /\ \A o \in CompletedIn(e) :
          operations[o].resultGeneration = deployments[e].generation =>
              deployments[e].active = operations[o].resultPublication

HInv ==
    /\ PromotionsToProduction
    /\ \A e \in Environments : /\ CompletionsFit(e)
                               /\ NoTwoMoveAlike(e)
                               /\ EveryGenerationIsMade(e)
                               /\ LastIsLive(e)

LEMMA CompletedRowsKept ==
    ASSUME FinishedKept, NEW e, NEW o \in CompletedIn(e)
    PROVE  o \in CompletedIn(e)' /\ operations'[o] = operations[o]
    BY DEF FinishedKept, CompletedIn, OperationIds

LEMMA StillHistory ==
    ASSUME FinishedKept, NEW e \in Environments, NothingMoves(e)
    PROVE  /\ CompletedIn(e)' = CompletedIn(e)
           /\ \A o \in CompletedIn(e) : operations'[o] = operations[o]
<1>1. \A o \in CompletedIn(e) : o \in CompletedIn(e)' /\ operations'[o] = operations[o]
    BY CompletedRowsKept
<1>2. ASSUME NEW o \in CompletedIn(e)'
      PROVE  o \in CompletedIn(e)
    <2>1. o \in OperationIds /\ operations[o].status = "completed"
        BY <1>2 DEF NothingMoves, CompletedIn
    <2>2. operations'[o] = operations[o]
        BY <2>1 DEF FinishedKept
    <2> QED
        BY <1>2, <2>1, <2>2 DEF CompletedIn
<1> QED
    BY <1>1, <1>2

LEMMA MovedHistory ==
    ASSUME FinishedKept, NEW e \in Environments, NEW o, MovedBy(e, o)
    PROVE  /\ CompletedIn(e)' = CompletedIn(e) \union {o}
           /\ o \notin CompletedIn(e)
           /\ \A x \in CompletedIn(e) : operations'[x] = operations[x]
<1>1. \A x \in CompletedIn(e) : x \in CompletedIn(e)' /\ operations'[x] = operations[x]
    BY CompletedRowsKept
<1>2. o \in CompletedIn(e)' /\ o \notin CompletedIn(e)
    BY DEF MovedBy, CompletedIn
<1>3. ASSUME NEW x \in CompletedIn(e)', x # o
      PROVE  x \in CompletedIn(e)
    <2>1. x \in OperationIds /\ operations[x].status = "completed"
        BY <1>3 DEF MovedBy, CompletedIn
    <2>2. operations'[x] = operations[x]
        BY <2>1 DEF FinishedKept
    <2> QED
        BY <1>3, <2>1, <2>2 DEF CompletedIn
<1> QED
    BY <1>1, <1>2, <1>3

LEMMA HistoryStep == TypeOK /\ HInv /\ [Next]_vars => HInv'
<1> SUFFICES ASSUME TypeOK, HInv, [Next]_vars
             PROVE  HInv'
    OBVIOUS
<1>1. StepCaused /\ FinishedKept
    BY NextCaused, StepKeepsHistory DEF HInv
<1> SUFFICES ASSUME NEW e \in Environments
             PROVE  (/\ CompletionsFit(e)
                     /\ NoTwoMoveAlike(e)
                     /\ EveryGenerationIsMade(e)
                     /\ LastIsLive(e))'
    BY <1>1 DEF HInv, StepCaused
<1> DEFINE g == deployments[e].generation
<1>2. g \in Nat
    BY DEF TypeOK, Deployment
<1>3. /\ CompletionsFit(e) /\ NoTwoMoveAlike(e) /\ EveryGenerationIsMade(e) /\ LastIsLive(e)
    BY DEF HInv
<1>4. CASE NothingMoves(e)
    <2>1. /\ CompletedIn(e)' = CompletedIn(e)
          /\ \A o \in CompletedIn(e) : operations'[o] = operations[o]
        BY <1>1, <1>4, StillHistory
    <2>2. deployments'[e].generation = g /\ deployments'[e].active = deployments[e].active
        BY <1>4 DEF NothingMoves
    <2> QED
        BY <1>3, <2>1, <2>2
        DEF CompletionsFit, NoTwoMoveAlike, EveryGenerationIsMade, LastIsLive
<1>5. ASSUME NEW o \in OperationIds', MovedBy(e, o)
      PROVE  (/\ CompletionsFit(e)
              /\ NoTwoMoveAlike(e)
              /\ EveryGenerationIsMade(e)
              /\ LastIsLive(e))'
    <2>1. /\ CompletedIn(e)' = CompletedIn(e) \union {o}
          /\ o \notin CompletedIn(e)
          /\ \A x \in CompletedIn(e) : operations'[x] = operations[x]
        BY <1>1, <1>5, MovedHistory
    <2>2. /\ deployments'[e].generation = g + 1
          /\ operations'[o].resultGeneration = g + 1
          /\ operations'[o].expectedGeneration = g
          /\ operations'[o].resultPublication = deployments'[e].active
        BY <1>5 DEF MovedBy
    <2>3. \A x \in CompletedIn(e) : /\ operations[x].resultGeneration \in 1..g
                                    /\ operations[x].resultGeneration # g + 1
        BY <1>2, <1>3 DEF CompletionsFit
    <2>4. CompletionsFit(e)'
        BY <1>2, <1>3, <2>1, <2>2, <2>3 DEF CompletionsFit
    <2>5. NoTwoMoveAlike(e)'
        BY <1>3, <2>1, <2>2, <2>3 DEF NoTwoMoveAlike
    <2>6. EveryGenerationIsMade(e)'
        <3> SUFFICES ASSUME NEW h \in 1..(g + 1)
                     PROVE  \E x \in CompletedIn(e)' : operations'[x].resultGeneration = h
            BY <2>2 DEF EveryGenerationIsMade
        <3>1. CASE h = g + 1
            BY <2>1, <2>2, <3>1
        <3>2. CASE h # g + 1
            <4>1. h \in 1..g
                BY <1>2, <3>2
            <4> QED
                BY <1>3, <2>1, <4>1 DEF EveryGenerationIsMade
        <3> QED
            BY <3>1, <3>2
    <2>7. LastIsLive(e)'
        <3>1. g + 1 # 0
            BY <1>2
        <3> QED
            BY <2>1, <2>2, <2>3, <3>1 DEF LastIsLive
    <2> QED
        BY <2>4, <2>5, <2>6, <2>7
<1> QED
    BY <1>1, <1>4, <1>5 DEF StepCaused

LEMMA HistoryInvariant == Spec => []HInv
<1>1. Init => HInv
    BY DEF Init, HInv, PromotionsToProduction, CompletionsFit, NoTwoMoveAlike,
           EveryGenerationIsMade, LastIsLive, CompletedIn, OperationIds, None
<1> QED
    BY <1>1, HistoryStep, TypeCorrect, PTL DEF Spec

\* The release history accounts for the pointer of each environment: one
\* completed operation for every generation, computed against the one before,
\* and the last of them names what is live (the compare-and-set of
\* advanceExistingDeployment and recoverDocumentRelease).
THEOREM HistoryAccounts == Spec => []HistoryAccountsForPointer
<1>1. TypeOK /\ HInv => HistoryAccountsForPointer
    <2> SUFFICES ASSUME TypeOK, HInv, NEW e \in Environments
                 PROVE  /\ \A g \in 1..deployments[e].generation :
                              \E o \in MovedTo(e, g) :
                                 /\ MovedTo(e, g) = {o}
                                 /\ operations[o].expectedGeneration = g - 1
                        /\ \A o \in OperationIds :
                              /\ operations[o].environment = e
                              /\ operations[o].status = "completed"
                              => operations[o].resultGeneration \in 1..deployments[e].generation
                        /\ \A o \in MovedTo(e, deployments[e].generation) :
                              deployments[e].active = operations[o].resultPublication
                        /\ deployments[e].generation = 0 => deployments[e].active = None
        BY DEF HistoryAccountsForPointer
    <2>1. /\ CompletionsFit(e) /\ NoTwoMoveAlike(e) /\ EveryGenerationIsMade(e)
          /\ LastIsLive(e)
        BY DEF HInv
    <2>2. \A g : MovedTo(e, g) = {o \in CompletedIn(e) : operations[o].resultGeneration = g}
        BY DEF MovedTo, CompletedIn
    <2>3. ASSUME NEW g \in 1..deployments[e].generation
          PROVE  \E o \in MovedTo(e, g) : /\ MovedTo(e, g) = {o}
                                          /\ operations[o].expectedGeneration = g - 1
        <3>1. PICK o \in CompletedIn(e) : operations[o].resultGeneration = g
            BY <2>1 DEF EveryGenerationIsMade
        <3>2. MovedTo(e, g) = {o}
            BY <2>1, <2>2, <3>1 DEF NoTwoMoveAlike
        <3>3. operations[o] \in Operation
            BY ElementOfSeq DEF CompletedIn, TypeOK, OperationIds
        <3>4. operations[o].expectedGeneration \in Nat
            BY <3>3 DEF Operation
        <3>5. operations[o].expectedGeneration = g - 1
            BY <2>1, <3>1, <3>4 DEF CompletionsFit
        <3> QED
            BY <3>2, <3>5
    <2>4. \A o \in OperationIds :
              /\ operations[o].environment = e
              /\ operations[o].status = "completed"
              => operations[o].resultGeneration \in 1..deployments[e].generation
        BY <2>1 DEF CompletionsFit, CompletedIn
    <2>5. \A o \in MovedTo(e, deployments[e].generation) :
              deployments[e].active = operations[o].resultPublication
        BY <2>1, <2>2 DEF LastIsLive
    <2> QED
        BY <2>1, <2>3, <2>4, <2>5 DEF LastIsLive
<1> QED
    BY <1>1, HistoryInvariant, TypeCorrect, PTL

\* A pointer moves only on behalf of one operation that completes with the
\* move, from the generation that operation expected; a rollback returns to a
\* publication its environment has had.
THEOREM OneOperationPerMove == Spec => PointerMovesByOneOperation
<1> DEFINE byOne(e) ==
        <<deployments[e].active, deployments[e].generation>>
            # <<deployments'[e].active, deployments'[e].generation>> =>
        /\ deployments'[e].generation = deployments[e].generation + 1
        /\ \E o \in DOMAIN operations' :
             /\ operations'[o].status = "completed"
             /\ operations'[o].environment = e
             /\ operations'[o].resultGeneration = deployments'[e].generation
             /\ operations'[o].expectedGeneration = deployments[e].generation
             /\ o \in OperationIds => operations[o].status = "awaiting_approval"
             /\ operations'[o].action = "rollback" =>
                  \E p \in PublicationIds :
                     /\ p # deployments[e].active
                     /\ publications[p].environment = e
                     /\ publications[p].artifact =
                            publications'[deployments'[e].active].artifact
           every == \A e \in Environments : byOne(e)
<1>1. TypeOK /\ HInv /\ [Next]_vars => [every]_vars
    <2> SUFFICES ASSUME TypeOK, HInv, [Next]_vars, NEW e \in Environments
                 PROVE  byOne(e)
        OBVIOUS
    <2>1. NothingMoves(e) \/ \E o \in OperationIds' : MovedBy(e, o)
        BY NextCaused DEF HInv, StepCaused
    <2>2. CASE NothingMoves(e)
        BY <2>2 DEF NothingMoves
    <2>3. ASSUME NEW o \in OperationIds', MovedBy(e, o)
          PROVE  byOne(e)
        BY <2>3 DEF MovedBy, Returns, OperationIds
    <2> QED
        BY <2>1, <2>2, <2>3
<1> QED
    BY <1>1, HistoryInvariant, TypeCorrect, PTL DEF Spec, PointerMovesByOneOperation

-----------------------------------------------------------------------------
(* Four eyes. *)

SeparateApprovers == \A p \in ProductionPolicies : p.separateApprover

\* Where approvals are never the requester's to give, none is.
SignedByOthers ==
    SeparateApprovers =>
        \A a \in approvals :
            a.decision = "approved" => a.user # operations[a.operation].requester

EyesInv == policies["production"] \in ProductionPolicies /\ SignedByOthers

\* Only the two decisions write approvals.
LEMMA OnlyDecisionsApprove ==
    ASSUME [Next]_vars, approvals' # approvals
    PROVE  \E u \in Users, o \in OperationIds : ApproveRelease(u, o) \/ RejectRelease(u, o)
<1>1. ASSUME NEW u, NEW k, NEW a, NEW g, ActivateCompiledArtifact(u, k, a, g)
      PROVE  UNCHANGED approvals
    BY <1>1 DEF ActivateCompiledArtifact
<1>2. ASSUME NEW u, NEW passed, CreatePublicationVerification(u, passed)
      PROVE  UNCHANGED approvals
    BY <1>2 DEF CreatePublicationVerification, releaseVars
<1>3. ASSUME NEW u, NEW k, NEW g, RequestPromotion(u, k, g)
      PROVE  UNCHANGED approvals
    BY <1>3 DEF RequestPromotion
<1>4. ASSUME NEW u, NEW o, ResumePromotion(u, o)
      PROVE  UNCHANGED approvals
    BY <1>4 DEF ResumePromotion
<1>5. ASSUME NEW u, NEW e, NEW k, NEW action, NEW target, NEW g,
             RecoverDocumentRelease(u, e, k, action, target, g)
      PROVE  UNCHANGED approvals
    BY <1>5 DEF RecoverDocumentRelease
<1>6. CASE ReleaseNext
    BY <1>1, <1>2, <1>3, <1>4, <1>5, <1>6 DEF ReleaseNext
<1>7. CASE GovernanceNext
    BY <1>7
    DEF GovernanceNext, UpdateEnvironmentPolicy, UpdateMemberRole, ChangePlan, releaseVars
<1>8. CASE UNCHANGED vars
    BY <1>8 DEF vars, releaseVars
<1> QED
    BY <1>6, <1>7, <1>8 DEF Next

LEMMA ReleasesDoNotGovern == ReleaseNext => UNCHANGED governanceVars
<1>1. ASSUME NEW u, NEW k, NEW a, NEW g, ActivateCompiledArtifact(u, k, a, g)
      PROVE  UNCHANGED governanceVars
    BY <1>1 DEF ActivateCompiledArtifact
<1>2. ASSUME NEW u, NEW passed, CreatePublicationVerification(u, passed)
      PROVE  UNCHANGED governanceVars
    BY <1>2 DEF CreatePublicationVerification
<1>3. ASSUME NEW u, NEW k, NEW g, RequestPromotion(u, k, g)
      PROVE  UNCHANGED governanceVars
    BY <1>3 DEF RequestPromotion
<1>4. ASSUME NEW u, NEW o, ResumePromotion(u, o) \/ ApproveRelease(u, o) \/ RejectRelease(u, o)
      PROVE  UNCHANGED governanceVars
    BY <1>4 DEF ResumePromotion, ApproveRelease, RejectRelease
<1>5. ASSUME NEW u, NEW e, NEW k, NEW action, NEW target, NEW g,
             RecoverDocumentRelease(u, e, k, action, target, g)
      PROVE  UNCHANGED governanceVars
    BY <1>5 DEF RecoverDocumentRelease
<1> QED
    BY <1>1, <1>2, <1>3, <1>4, <1>5 DEF ReleaseNext

LEMMA PoliciesStay ==
    policies["production"] \in ProductionPolicies /\ [Next]_vars
        => policies'["production"] \in ProductionPolicies
<1> SUFFICES ASSUME policies["production"] \in ProductionPolicies, [Next]_vars
             PROVE  policies'["production"] \in ProductionPolicies
    OBVIOUS
<1>1. CASE UNCHANGED policies
    BY <1>1
<1>2. ASSUME NEW e, NEW p, UpdateEnvironmentPolicy(e, p)
      PROVE  policies'["production"] \in ProductionPolicies
    BY <1>2 DEF UpdateEnvironmentPolicy, ValidPolicies
<1>3. CASE ReleaseNext
    BY <1>1, <1>3, ReleasesDoNotGovern DEF governanceVars
<1>4. CASE GovernanceNext
    BY <1>1, <1>2, <1>4 DEF GovernanceNext, UpdateMemberRole, ChangePlan
<1>5. CASE UNCHANGED vars
    BY <1>1, <1>5 DEF vars, governanceVars
<1> QED
    BY <1>3, <1>4, <1>5 DEF Next

LEMMA SignedStep ==
    TypeOK /\ PromotionsToProduction /\ EyesInv /\ [Next]_vars => EyesInv'
<1> SUFFICES ASSUME TypeOK, PromotionsToProduction, EyesInv, [Next]_vars, SeparateApprovers,
                    NEW a \in approvals', a.decision = "approved"
             PROVE  a.user # operations'[a.operation].requester
    BY PoliciesStay DEF EyesInv, SignedByOthers, SeparateApprovers
<1>1. RequestersKept
    BY NextCaused DEF StepCaused
<1>2. CASE a \in approvals
    <2>1. a.operation \in OperationIds
        BY <1>2, LenProperties DEF TypeOK, OperationIds
    <2> QED
        BY <1>1, <1>2, <2>1 DEF EyesInv, SignedByOthers, RequestersKept
<1>3. CASE a \notin approvals
    <2>1. PICK u \in Users, o \in OperationIds : ApproveRelease(u, o) \/ RejectRelease(u, o)
        BY <1>3, OnlyDecisionsApprove
    <2>2. ~RejectRelease(u, o)
        BY <1>3 DEF RejectRelease
    <2>3. /\ MaySignOff(u, o)
          /\ a = [operation |-> o, user |-> u, decision |-> "approved"]
        BY <1>3, <2>1, <2>2 DEF ApproveRelease
    <2>4. a.operation = o /\ a.user = u
        BY <2>3
    <2>5. policies["production"].separateApprover
        BY DEF EyesInv, SeparateApprovers
    <2> QED
        BY <1>1, <2>3, <2>4, <2>5 DEF MaySignOff, RequestersKept
<1> QED
    BY <1>2, <1>3

LEMMA EyesInvariant == Spec => []EyesInv
<1>1. Init => EyesInv
    BY DEF Init, EyesInv, SignedByOthers, ValidPolicies
<1>2. HInv => PromotionsToProduction
    BY DEF HInv
<1> QED
    BY <1>1, <1>2, SignedStep, HistoryInvariant, TypeCorrect, PTL DEF Spec

\* What FourEyes says of one step.
CompletionsAreSigned ==
    SeparateApprovers =>
        \A o \in DOMAIN operations' :
            /\ operations'[o].action = "promote"
            /\ operations'[o].status = "completed"
            /\ o \in OperationIds => operations[o].status # "completed"
            => Cardinality(Approvers(o) \ {operations'[o].requester})
                 >= policies["production"].requiredApprovals

LEMMA StepIsSigned ==
    TypeOK /\ PromotionsToProduction /\ EyesInv /\ [Next]_vars => CompletionsAreSigned
<1> SUFFICES ASSUME TypeOK, PromotionsToProduction, EyesInv, [Next]_vars, SeparateApprovers,
                    NEW o \in DOMAIN operations',
                    operations'[o].action = "promote",
                    operations'[o].status = "completed",
                    o \in OperationIds => operations[o].status # "completed"
             PROVE  Cardinality(Approvers(o) \ {operations'[o].requester})
                        >= policies["production"].requiredApprovals
    BY DEF CompletionsAreSigned
<1>1. StepCaused /\ TypeOK'
    BY NextCaused, NextType
<1>2. o \in OperationIds' /\ operations'[o] \in Operation
    BY <1>1, ElementOfSeq DEF TypeOK, OperationIds
<1>3. PICK e \in Environments : operations'[o].environment = e
    BY <1>2 DEF Operation
<1>4. MovedBy(e, o)
    <2>1. ~NothingMoves(e)
        BY <1>2, <1>3 DEF NothingMoves
    <2>2. PICK x \in OperationIds' : MovedBy(e, x)
        BY <1>1, <2>1 DEF StepCaused
    <2>3. x = o
        BY <1>2, <1>3, <2>2 DEF MovedBy
    <2> QED
        BY <2>2, <2>3
<1>5. CASE o \notin OperationIds
    <2>1. \A a \in approvals : a.operation # o
        BY <1>5, LenProperties DEF TypeOK, OperationIds
    <2>2. Approvers(o) = {}
        BY <2>1 DEF Approvers
    <2>3. Approvers(o) \ {operations'[o].requester} = {}
        BY <2>2
    <2>4. Cardinality(Approvers(o) \ {operations'[o].requester}) = 0
        BY <2>3, FS_EmptySet
    <2>5. policies["production"].requiredApprovals = 0
        BY <1>4, <1>5 DEF MovedBy, Approved
    <2> QED
        BY <2>4, <2>5
<1>6. CASE o \in OperationIds
    <2>1. operations'[o].requester = operations[o].requester
        BY <1>1, <1>6 DEF StepCaused, RequestersKept
    <2>2. operations'[o].requester \notin Approvers(o)
        BY <2>1 DEF Approvers, EyesInv, SignedByOthers
    <2>3. Approvers(o) \ {operations'[o].requester} = Approvers(o)
        BY <2>2
    <2> QED
        BY <1>4, <1>6, <2>3 DEF MovedBy, Approved
<1> QED
    BY <1>5, <1>6

\* Where approvals are never the requester's to give, a promotion completes
\* only with as many approvals by others as the policy then asks for
\* (loadReleaseApprovalDecision, createReleaseApproval).
THEOREM FourEyesHold == Spec => FourEyes
<1>1. TypeOK /\ HInv /\ EyesInv /\ [Next]_vars => [CompletionsAreSigned]_vars
    BY StepIsSigned DEF HInv
<1>2. Spec => [][CompletionsAreSigned]_vars
    BY <1>1, EyesInvariant, HistoryInvariant, TypeCorrect, PTL DEF Spec
<1> QED
    BY <1>2 DEF FourEyes, CompletionsAreSigned, SeparateApprovers

-----------------------------------------------------------------------------
(* Recovery is never stuck: a completed operation keeps agreeing with its   *)
(* publication, since neither is ever written again.                        *)

Agrees(e, o) ==
    IF operations[o].action = "unpublish"
    THEN /\ operations[o].resultPublication = None
         /\ operations[o].replaced \in PublicationIds
         /\ publications[operations[o].replaced].environment = e
    ELSE /\ operations[o].resultPublication \in PublicationIds
         /\ publications[operations[o].resultPublication].environment = e
         /\ publications[operations[o].resultPublication].operation = o
         /\ publications[operations[o].resultPublication].action = operations[o].action
         /\ operations[o].action \in {"promote", "rollback"} =>
                /\ publications[operations[o].resultPublication].source = operations[o].source
                /\ operations[o].source # None
         /\ operations[o].action = "rollback" =>
                /\ publications[operations[o].resultPublication].previous = operations[o].replaced
                /\ operations[o].replaced # None

AInv ==
    /\ \A e \in Environments : \A o \in CompletedIn(e) : Agrees(e, o)
    /\ \A o \in OperationIds : operations[o].error # "internal_error"

\* What is live is the result of the completed operation of this generation.
LEMMA LiveIsExplained ==
    ASSUME TypeOK, HInv, AInv, NEW e \in Environments, deployments[e].active # None
    PROVE  /\ deployments[e].active \in PublicationIds
           /\ publications[deployments[e].active].environment = e
           /\ ~Unexplained(e)
<1>1. /\ EveryGenerationIsMade(e) /\ LastIsLive(e)
      /\ deployments[e].generation \in Nat
    BY DEF HInv, TypeOK, Deployment
<1>2. deployments[e].generation \in 1..deployments[e].generation
    BY <1>1 DEF LastIsLive
<1>3. PICK o \in CompletedIn(e) : operations[o].resultGeneration = deployments[e].generation
    BY <1>1, <1>2 DEF EveryGenerationIsMade
<1>4. operations[o].resultPublication = deployments[e].active
    BY <1>1, <1>3 DEF LastIsLive
<1>5. Agrees(e, o)
    BY <1>3 DEF AInv
<1>6. operations[o].action # "unpublish"
    BY <1>4, <1>5 DEF Agrees
<1>7. o \in ReleaseOf(e, deployments[e].active)
    BY <1>3, <1>4, <1>6 DEF CompletedIn, ReleaseOf, Releases
<1> QED
    BY <1>3, <1>4, <1>5, <1>6, <1>7 DEF Agrees, Unexplained

LEMMA AgreesKept ==
    ASSUME PublicationsKept, NEW e, NEW o, Agrees(e, o), operations'[o] = operations[o]
    PROVE  Agrees(e, o)'
<1>1. \A p \in PublicationIds : p \in PublicationIds' /\ publications'[p] = publications[p]
    BY DEF PublicationsKept, PublicationIds
<1>2. CASE operations[o].action = "unpublish"
    BY <1>1, <1>2 DEF Agrees
<1>3. CASE operations[o].action # "unpublish"
    BY <1>1, <1>3 DEF Agrees
<1> QED
    BY <1>2, <1>3

LEMMA AgreesStep == TypeOK /\ HInv /\ AInv /\ [Next]_vars => AInv'
<1> SUFFICES ASSUME TypeOK, HInv, AInv, [Next]_vars
             PROVE  AInv'
    OBVIOUS
<1>1. StepCaused /\ FinishedKept /\ PublicationsKept
    BY NextCaused, StepKeepsHistory DEF HInv
<1>2. \A p \in PublicationIds : p \in PublicationIds' /\ publications'[p] = publications[p]
    BY <1>1 DEF PublicationsKept, PublicationIds
<1>3. ASSUME NEW o \in OperationIds'
      PROVE  operations'[o].error # "internal_error"
    BY <1>1, LiveIsExplained DEF StepCaused, ErrorsExplained, Unexplained, AInv
<1>4. ASSUME NEW e \in Environments, NEW o \in CompletedIn(e)'
      PROVE  Agrees(e, o)'
    <2>1. CASE o \in CompletedIn(e)
        <3>1. operations'[o] = operations[o]
            BY <1>1, <2>1, CompletedRowsKept
        <3>2. Agrees(e, o)
            BY <2>1 DEF AInv
        <3> QED
            BY <1>1, <3>1, <3>2, AgreesKept
    <2>2. CASE o \notin CompletedIn(e)
        <3>1. MovedBy(e, o)
            <4>1. ~NothingMoves(e)
                BY <1>1, <1>4, <2>2, StillHistory
            <4>2. PICK x \in OperationIds' : MovedBy(e, x)
                BY <1>1, <4>1 DEF StepCaused
            <4>3. CompletedIn(e)' = CompletedIn(e) \union {x}
                BY <1>1, <4>2, MovedHistory
            <4> QED
                BY <1>4, <2>2, <4>2, <4>3
        <3>2. Backed(e, operations'[o], o)
            BY <3>1 DEF MovedBy
        <3>3. CASE operations'[o].action = "unpublish"
            <4>1. /\ operations'[o].resultPublication = None
                  /\ operations'[o].replaced = deployments[e].active
                  /\ deployments[e].active # None
                BY <3>2, <3>3 DEF Backed
            <4>2. /\ deployments[e].active \in PublicationIds
                  /\ publications[deployments[e].active].environment = e
                BY <4>1, LiveIsExplained
            <4> QED
                BY <1>2, <3>3, <4>1, <4>2 DEF Agrees
        <3>4. CASE operations'[o].action # "unpublish"
            BY <3>2, <3>4 DEF Backed, Agrees
        <3> QED
            BY <3>3, <3>4
    <2> QED
        BY <2>1, <2>2
<1> QED
    BY <1>3, <1>4 DEF AInv

LEMMA AgreesInvariant == Spec => []AInv
<1>1. Init => AInv
    BY DEF Init, AInv, CompletedIn, OperationIds
<1> QED
    BY <1>1, AgreesStep, HistoryInvariant, TypeCorrect, PTL DEF Spec

\* Recovery never reports internal_error and its integrity checks never throw
\* (evaluateReleaseRecovery, loadReleaseRecoveryPublicationMaterials).
THEOREM NeverStuck == Spec => []RecoveryIsNeverStuck
<1>1. TypeOK /\ HInv /\ AInv => RecoveryIsNeverStuck
    <2> SUFFICES ASSUME TypeOK, HInv, AInv, NEW e \in Environments
                 PROVE  RecoveryHistoryIntact(e)
        BY DEF RecoveryIsNeverStuck, AInv
    <2> SUFFICES ASSUME NEW o \in CompletedIn(e)
                 PROVE  IF operations[o].action = "unpublish"
                        THEN /\ operations[o].replaced \in PublicationIds
                             /\ publications[operations[o].replaced].environment = e
                        ELSE /\ operations[o].resultGeneration >= 1
                             /\ Agrees(e, o)
        BY DEF RecoveryHistoryIntact, CompletedIn, Agrees
    <2>1. Agrees(e, o)
        BY DEF AInv
    <2>2. operations[o].resultGeneration >= 1
        BY DEF HInv, CompletionsFit, TypeOK, Deployment
    <2> QED
        BY <2>1, <2>2 DEF Agrees
<1> QED
    BY <1>1, AgreesInvariant, HistoryInvariant, TypeCorrect, PTL

-----------------------------------------------------------------------------
(* What reaches production was verified on staging. *)

\* A rollback that goes through returns to a publication of its environment.
LEMMA RollbackTarget ==
    ASSUME NEW u, NEW e, NEW k, NEW target, NEW g,
           RecoverDocumentRelease(u, e, k, "rollback", target, g),
           RecoveryRefusal(u, e, "rollback", target, g) = ""
    PROVE  target \in PublicationIds /\ publications[target].environment = e
<1>1. RollbackRefusal(e, target) = ""
    BY DEF RecoveryRefusal
<1>2. ReleaseOf(e, target) # {}
    BY <1>1 DEF RollbackRefusal
<1>3. PICK o \in OperationIds : /\ operations[o].environment = e
                                /\ operations[o].status = "completed"
                                /\ operations[o].action # "unpublish"
                                /\ operations[o].resultPublication = target
    BY <1>2 DEF ReleaseOf, Releases
<1>4. RecoveryHistoryIntact(e)
    BY DEF RecoverDocumentRelease
<1> QED
    BY <1>3, <1>4 DEF RecoveryHistoryIntact

\* A publication comes from staging, or from what staging shows and has
\* verified, or from an earlier publication of its environment.
Provenance(row) ==
    \/ row.environment = "staging"
    \/ \E s \in verified : /\ s = deployments["staging"].active
                           /\ row.artifact = publications[s].artifact
    \/ \E p \in PublicationIds : /\ row.environment = publications[p].environment
                                 /\ row.artifact = publications[p].artifact

PublishesFromStaging ==
    \/ UNCHANGED publications
    \/ \E row : publications' = Append(publications, row) /\ Provenance(row)

LEMMA PromotionProvenance ==
    ASSUME NEW source, NEW o, source \in verified, source = deployments["staging"].active
    PROVE  Provenance(PromotionOf(source, o))
<1>1. PromotionOf(source, o).artifact = publications[source].artifact
    BY DEF PromotionOf
<1> QED
    BY <1>1 DEF Provenance

LEMMA StepPublishes == [Next]_vars => PublishesFromStaging
<1> SUFFICES ASSUME [Next]_vars
             PROVE  PublishesFromStaging
    OBVIOUS
<1>1. ASSUME UNCHANGED publications
      PROVE  PublishesFromStaging
    BY <1>1 DEF PublishesFromStaging
<1>2. ASSUME NEW u, NEW k, NEW a, NEW g, ActivateCompiledArtifact(u, k, a, g)
      PROVE  PublishesFromStaging
    <2> DEFINE row == [environment |-> "staging", artifact |-> a, action |-> "publish",
                       source |-> None, previous |-> deployments["staging"].active,
                       operation |-> NextOperation]
    <2>1. UNCHANGED publications \/ publications' = Append(publications, row)
        BY <1>2 DEF ActivateCompiledArtifact
    <2>2. row.environment = "staging"
        OBVIOUS
    <2> HIDE DEF row
    <2> QED
        BY <2>1, <2>2 DEF PublishesFromStaging, Provenance
<1>3. ASSUME NEW u, NEW k, NEW g, RequestPromotion(u, k, g)
      PROVE  PublishesFromStaging
    <2> DEFINE source == deployments["staging"].active
    <2>1. \/ UNCHANGED publications
          \/ publications' = Append(publications, PromotionOf(source, NextOperation))
        BY <1>3 DEF RequestPromotion
    <2>2. source \in verified
        BY <1>3 DEF RequestPromotion, SourceIsVerified
    <2> QED
        BY <2>1, <2>2, PromotionProvenance DEF PublishesFromStaging
<1>4. ASSUME NEW u, NEW o, ResumePromotion(u, o)
      PROVE  PublishesFromStaging
    <2> DEFINE source == operations[o].source
    <2>1. \/ UNCHANGED publications
          \/ /\ publications' = Append(publications, PromotionOf(source, o))
             /\ source \in verified /\ source = deployments["staging"].active
        BY <1>4 DEF ResumePromotion, SourceIsVerified
    <2> QED
        BY <2>1, PromotionProvenance DEF PublishesFromStaging
<1>5. ASSUME NEW u, NEW e, NEW k, NEW target, NEW g,
             RecoverDocumentRelease(u, e, k, "rollback", target, g)
      PROVE  PublishesFromStaging
    <2> DEFINE row == [environment |-> e, artifact |-> publications[target].artifact,
                       action |-> "rollback", source |-> target,
                       previous |-> deployments[e].active, operation |-> NextOperation]
    <2>1. \/ UNCHANGED publications
          \/ /\ publications' = Append(publications, row)
             /\ RecoveryRefusal(u, e, "rollback", target, g) = ""
        BY <1>5 DEF RecoverDocumentRelease
    <2>2. row.environment = e /\ row.artifact = publications[target].artifact
        OBVIOUS
    <2> HIDE DEF row
    <2>3. CASE RecoveryRefusal(u, e, "rollback", target, g) = ""
        <3>1. target \in PublicationIds /\ publications[target].environment = e
            BY <1>5, <2>3, RollbackTarget
        <3>2. Provenance(row)
            BY <2>2, <3>1 DEF Provenance
        <3> QED
            BY <2>1, <3>2 DEF PublishesFromStaging
    <2> QED
        BY <1>1, <2>1, <2>3
<1>6. ASSUME NEW u, NEW e, NEW k, NEW g,
             RecoverDocumentRelease(u, e, k, "unpublish", None, g)
      PROVE  PublishesFromStaging
    <2>1. "unpublish" # "rollback"
        OBVIOUS
    <2> QED
        BY <1>1, <1>6, <2>1 DEF RecoverDocumentRelease
<1>7. CASE ReleaseNext
    BY <1>1, <1>2, <1>3, <1>4, <1>5, <1>6, <1>7
    DEF ReleaseNext, ApproveRelease, RejectRelease, CreatePublicationVerification, releaseVars
<1>8. CASE GovernanceNext
    BY <1>1, <1>8
    DEF GovernanceNext, UpdateEnvironmentPolicy, UpdateMemberRole, ChangePlan, releaseVars
<1>9. CASE UNCHANGED vars
    BY <1>1, <1>9 DEF vars, releaseVars
<1> QED
    BY <1>7, <1>8, <1>9 DEF Next

\* What has once passed a verification stays so, and what has just passed has.
LEMMA VerificationStep ==
    verified \subseteq everVerified /\ [Next]_vars
        => verified' \subseteq everVerified' /\ everVerified \subseteq everVerified'
<1> SUFFICES ASSUME verified \subseteq everVerified, [Next]_vars
             PROVE  verified' \subseteq everVerified' /\ everVerified \subseteq everVerified'
    OBVIOUS
<1>1. ASSUME UNCHANGED verificationVars
      PROVE  verified' \subseteq everVerified' /\ everVerified \subseteq everVerified'
    BY <1>1 DEF verificationVars
<1>2. ASSUME NEW u, NEW passed \in BOOLEAN, CreatePublicationVerification(u, passed)
      PROVE  verified' \subseteq everVerified' /\ everVerified \subseteq everVerified'
    BY <1>2 DEF CreatePublicationVerification
<1>3. ASSUME NEW u, NEW k, NEW a, NEW g, ActivateCompiledArtifact(u, k, a, g)
      PROVE  UNCHANGED verificationVars
    BY <1>3 DEF ActivateCompiledArtifact
<1>4. ASSUME NEW u, NEW k, NEW g, RequestPromotion(u, k, g)
      PROVE  UNCHANGED verificationVars
    BY <1>4 DEF RequestPromotion
<1>5. ASSUME NEW u, NEW o, ResumePromotion(u, o) \/ ApproveRelease(u, o) \/ RejectRelease(u, o)
      PROVE  UNCHANGED verificationVars
    BY <1>5 DEF ResumePromotion, ApproveRelease, RejectRelease
<1>6. ASSUME NEW u, NEW e, NEW k, NEW action, NEW target, NEW g,
             RecoverDocumentRelease(u, e, k, action, target, g)
      PROVE  UNCHANGED verificationVars
    BY <1>6 DEF RecoverDocumentRelease
<1>7. CASE ReleaseNext
    BY <1>1, <1>2, <1>3, <1>4, <1>5, <1>6, <1>7 DEF ReleaseNext
<1>8. CASE GovernanceNext
    BY <1>1, <1>8 DEF GovernanceNext, UpdateEnvironmentPolicy, UpdateMemberRole, ChangePlan
<1>9. CASE UNCHANGED vars
    BY <1>1, <1>9 DEF vars
<1> QED
    BY <1>7, <1>8, <1>9 DEF Next

\* A report is a transaction of its own, on what staging shows.
LEMMA ReportsApart ==
    ASSUME [Next]_vars
    PROVE  \/ UNCHANGED verified
           \/ UNCHANGED <<deployments, operations>> /\ deployments["staging"].active # None
<1>1. ASSUME NEW u, NEW passed \in BOOLEAN, CreatePublicationVerification(u, passed)
      PROVE  UNCHANGED <<deployments, operations>> /\ deployments["staging"].active # None
    BY <1>1 DEF CreatePublicationVerification, releaseVars
<1>2. ASSUME NEW u, NEW k, NEW a, NEW g, ActivateCompiledArtifact(u, k, a, g)
      PROVE  UNCHANGED verified
    BY <1>2 DEF ActivateCompiledArtifact, verificationVars
<1>3. ASSUME NEW u, NEW k, NEW g, RequestPromotion(u, k, g)
      PROVE  UNCHANGED verified
    BY <1>3 DEF RequestPromotion, verificationVars
<1>4. ASSUME NEW u, NEW o, ResumePromotion(u, o) \/ ApproveRelease(u, o) \/ RejectRelease(u, o)
      PROVE  UNCHANGED verified
    BY <1>4 DEF ResumePromotion, ApproveRelease, RejectRelease, verificationVars
<1>5. ASSUME NEW u, NEW e, NEW k, NEW action, NEW target, NEW g,
             RecoverDocumentRelease(u, e, k, action, target, g)
      PROVE  UNCHANGED verified
    BY <1>5 DEF RecoverDocumentRelease, verificationVars
<1>6. CASE ReleaseNext
    BY <1>1, <1>2, <1>3, <1>4, <1>5, <1>6 DEF ReleaseNext
<1>7. CASE GovernanceNext
    BY <1>7 DEF GovernanceNext, UpdateEnvironmentPolicy, UpdateMemberRole, ChangePlan,
                verificationVars
<1>8. CASE UNCHANGED vars
    BY <1>8 DEF vars, verificationVars
<1> QED
    BY <1>6, <1>7, <1>8 DEF Next

VInv == verified \subseteq everVerified /\ ProductionWasVerifiedOnStaging

\* What an environment shows is a publication of its own.
LiveIsOwn ==
    \A e \in Environments : deployments[e].active # None =>
        /\ deployments[e].active \in PublicationIds
        /\ publications[deployments[e].active].environment = e

LEMMA VerifiedStep == TypeOK /\ LiveIsOwn /\ VInv /\ [Next]_vars => VInv'
<1> SUFFICES ASSUME TypeOK, LiveIsOwn, VInv, [Next]_vars
             PROVE  VInv'
    OBVIOUS
<1>1. verified' \subseteq everVerified' /\ everVerified \subseteq everVerified'
    BY VerificationStep DEF VInv
<1>2. \A p \in PublicationIds : p \in PublicationIds' /\ publications'[p] = publications[p]
    BY StepKeepsHistory DEF PublicationsKept, PublicationIds
<1>3. everVerified \subseteq PublicationIds
    BY LenProperties DEF TypeOK, PublicationIds
<1> DEFINE Shown(artifact) == \E s \in everVerified : /\ publications[s].environment = "staging"
                                                      /\ publications[s].artifact = artifact
<1>4. ASSUME NEW artifact, Shown(artifact)
      PROVE  \E s \in everVerified' : /\ publications'[s].environment = "staging"
                                      /\ publications'[s].artifact = artifact
    BY <1>1, <1>2, <1>3, <1>4
<1>5. \A p \in PublicationIds :
          publications[p].environment = "production" => Shown(publications[p].artifact)
    BY DEF VInv, ProductionWasVerifiedOnStaging
<1>6. ASSUME NEW row, Provenance(row), row.environment = "production"
      PROVE  Shown(row.artifact)
    <2>1. ASSUME NEW s \in verified, s = deployments["staging"].active
          PROVE  s \in everVerified /\ publications[s].environment = "staging"
        <3>1. s \in everVerified /\ s # None
            BY <2>1 DEF VInv, TypeOK, None
        <3> QED
            BY <2>1, <3>1 DEF LiveIsOwn, Environments
    <2> QED
        BY <1>5, <1>6, <2>1 DEF Provenance
<1> HIDE DEF Shown
<1>7. ASSUME NEW p \in PublicationIds', publications'[p].environment = "production"
      PROVE  Shown(publications'[p].artifact)
    <2>1. CASE p \in PublicationIds
        BY <1>2, <1>5, <1>7, <2>1
    <2>2. CASE p \notin PublicationIds
        <3>1. PICK row : publications' = Append(publications, row) /\ Provenance(row)
            BY <2>2, StepPublishes DEF PublishesFromStaging, PublicationIds
        <3>2. p = NextPublication
            BY <2>2, <3>1, AppendedDomain
        <3>3. publications'[p] = row
            BY <3>1, <3>2, PublicationAppended
        <3> QED
            BY <1>6, <1>7, <3>1, <3>3
    <2> QED
        BY <2>1, <2>2
<1> QED
    BY <1>1, <1>4, <1>7 DEF VInv, ProductionWasVerifiedOnStaging

\* Nothing reaches production, through any sequence of promotions and
\* rollbacks, that was not published to staging and verified there
\* (promoteVerifiedPublication, recoverDocumentRelease).
THEOREM VerifiedOnStaging == Spec => []ProductionWasVerifiedOnStaging
<1>1. Init => VInv
    BY DEF Init, VInv, ProductionWasVerifiedOnStaging, PublicationIds
<1>2. VInv => ProductionWasVerifiedOnStaging
    BY DEF VInv
<1>3. TypeOK /\ HInv /\ AInv => LiveIsOwn
    BY LiveIsExplained DEF LiveIsOwn
<1> QED
    BY <1>1, <1>2, <1>3, VerifiedStep, AgreesInvariant, HistoryInvariant, TypeCorrect, PTL DEF Spec

-----------------------------------------------------------------------------
(* The release tables implement the release log. *)

\* The log of an environment, as ImplementsReleaseLog maps it.
LogOf(e) == [g \in 1..deployments[e].generation |-> LiveAt(e, g)]

\* What a completed operation made live.
EntryOf(o) ==
    IF operations[o].action = "unpublish"
    THEN Offline
    ELSE publications[operations[o].resultPublication].artifact

\* An entry of the log is what the one operation of its generation made live.
LEMMA EntryOfGeneration ==
    ASSUME HInv, NEW e \in Environments, NEW o \in CompletedIn(e)
    PROVE  LiveAt(e, operations[o].resultGeneration) = EntryOf(o)
<1> DEFINE g == operations[o].resultGeneration
<1>1. MovedTo(e, g) = {o}
    BY DEF HInv, NoTwoMoveAlike, MovedTo, CompletedIn
<1> DEFINE mover == CHOOSE x \in MovedTo(e, g) : TRUE
<1>2. mover = o
    BY <1>1
<1>3. LiveAt(e, g) = EntryOf(mover)
    BY DEF LiveAt, EntryOf
<1> HIDE DEF mover
<1> QED
    BY <1>2, <1>3

EntriesFit ==
    \A e \in Environments : \A o \in CompletedIn(e) :
        LiveAt(e, operations[o].resultGeneration) = EntryOf(o)

LEMMA EntriesAreOfGenerations == HInv => EntriesFit
    BY EntryOfGeneration DEF EntriesFit

LEMMA GenerationHasEntry ==
    ASSUME HInv, NEW e \in Environments, NEW g \in 1..deployments[e].generation
    PROVE  \E o \in CompletedIn(e) : operations[o].resultGeneration = g
    BY DEF HInv, EveryGenerationIsMade

LEMMA EntryType ==
    ASSUME TypeOK, HInv, AInv, NEW e \in Environments, NEW o \in CompletedIn(e)
    PROVE  EntryOf(o) \in Artifacts \union {Offline}
<1>1. Agrees(e, o)
    BY DEF AInv
<1>2. ASSUME operations[o].action # "unpublish"
      PROVE  publications[operations[o].resultPublication].artifact \in Artifacts
    <2>1. publications[operations[o].resultPublication] \in Publication
        BY <1>1, <1>2, ElementOfSeq DEF Agrees, TypeOK, PublicationIds
    <2> QED
        BY <2>1 DEF Publication
<1> QED
    BY <1>2 DEF EntryOf

LEMMA LogIsSequence ==
    ASSUME TypeOK, HInv, AInv, NEW e \in Environments
    PROVE  /\ LogOf(e) \in Seq(Artifacts \union {Offline})
           /\ Len(LogOf(e)) = deployments[e].generation
           /\ deployments[e].generation \in Nat
<1>1. deployments[e].generation \in Nat
    BY DEF TypeOK, Deployment
<1>2. ASSUME NEW g \in 1..deployments[e].generation
      PROVE  LiveAt(e, g) \in Artifacts \union {Offline}
    <2>1. PICK o \in CompletedIn(e) : operations[o].resultGeneration = g
        BY GenerationHasEntry
    <2> QED
        BY <2>1, EntryOfGeneration, EntryType
<1>3. LogOf(e) \in Seq(Artifacts \union {Offline})
    <2>1. LogOf(e) \in [1..deployments[e].generation -> Artifacts \union {Offline}]
        BY <1>2 DEF LogOf
    <2> QED
        BY <1>1, <2>1, SeqDef
<1>4. Len(LogOf(e)) = deployments[e].generation
    BY <1>1, <1>3, LenProperties DEF LogOf
<1> QED
    BY <1>1, <1>3, <1>4

\* A completed operation goes on standing for what it made live.
LEMMA EntryKept ==
    ASSUME AInv, PublicationsKept, NEW e \in Environments, NEW o \in CompletedIn(e),
           operations'[o] = operations[o]
    PROVE  EntryOf(o)' = EntryOf(o)
<1>1. Agrees(e, o)
    BY DEF AInv
<1>2. CASE operations[o].action = "unpublish"
    BY <1>2 DEF EntryOf
<1>3. CASE operations[o].action # "unpublish"
    <2>1. operations[o].resultPublication \in PublicationIds
        BY <1>1, <1>3 DEF Agrees
    <2> QED
        BY <1>3, <2>1 DEF EntryOf, PublicationsKept
<1> QED
    BY <1>2, <1>3

LEMMA EntriesKept ==
    ASSUME TypeOK, HInv, AInv, HInv', PublicationsKept, FinishedKept,
           NEW e \in Environments, NEW g \in 1..deployments[e].generation
    PROVE  LiveAt(e, g)' = LiveAt(e, g)
<1>1. PICK o \in CompletedIn(e) : operations[o].resultGeneration = g
    BY GenerationHasEntry
<1>2. o \in CompletedIn(e)' /\ operations'[o] = operations[o]
    BY CompletedRowsKept
<1>3. LiveAt(e, g)' = EntryOf(o)'
    <2>1. EntriesFit'
        BY EntriesAreOfGenerations, PTL
    <2> QED
        BY <1>1, <1>2, <2>1 DEF EntriesFit
<1>4. EntryOf(o)' = EntryOf(o)
    BY <1>2, EntryKept
<1> QED
    BY <1>1, <1>3, <1>4, EntryOfGeneration

LogsAreSequences ==
    \A e \in Environments : /\ LogOf(e) \in Seq(Artifacts \union {Offline})
                            /\ Len(LogOf(e)) = deployments[e].generation

LEMMA LogsTyped == TypeOK /\ HInv /\ AInv => LogsAreSequences
    BY LogIsSequence DEF LogsAreSequences

\* What holds before and after every transaction.
LogSound == TypeOK /\ HInv /\ AInv

LEMMA LogStays ==
    ASSUME LogSound, LogSound', PublicationsKept, FinishedKept,
           NEW e \in Environments, NothingMoves(e)
    PROVE  LogOf(e)' = LogOf(e)
<1>1. deployments'[e].generation = deployments[e].generation
    BY DEF NothingMoves
<1>2. \A g \in 1..deployments[e].generation : LiveAt(e, g)' = LiveAt(e, g)
    BY EntriesKept DEF LogSound
<1> QED
    BY <1>1, <1>2 DEF LogOf

LEMMA LogGrows ==
    ASSUME LogSound, LogSound', PublicationsKept, FinishedKept,
           NEW e \in Environments, NEW o, MovedBy(e, o)
    PROVE  LogOf(e)' = Append(LogOf(e), EntryOf(o)')
<1> DEFINE S == Artifacts \union {Offline}
           n == deployments[e].generation
           entry == EntryOf(o)'
           before == LogOf(e)
           after == LogOf(e)'
<1>1. n \in Nat /\ deployments'[e].generation = n + 1
    BY DEF LogSound, TypeOK, Deployment, MovedBy
<1>2. before \in Seq(S) /\ Len(before) = n
    BY LogsTyped DEF LogSound, LogsAreSequences
<1>3. after \in Seq(S) /\ Len(after) = n + 1
    <2>1. LogsAreSequences'
        BY LogsTyped, PTL DEF LogSound
    <2> QED
        BY <1>1, <2>1 DEF LogsAreSequences
<1>4. \A g \in 1..n : after[g] = before[g]
    <2>1. \A g \in 1..n : LiveAt(e, g)' = LiveAt(e, g)
        BY EntriesKept DEF LogSound
    <2>2. \A g \in 1..n : before[g] = LiveAt(e, g)
        BY DEF LogOf
    <2>3. \A g \in 1..(n + 1) : after[g] = LiveAt(e, g)'
        BY <1>1 DEF LogOf
    <2> HIDE DEF before, after
    <2> QED
        BY <1>1, <2>1, <2>2, <2>3
<1>5. after[n + 1] = entry
    <2>1. o \in CompletedIn(e)' /\ operations'[o].resultGeneration = n + 1
        BY DEF MovedBy, CompletedIn
    <2>2. EntriesFit'
        BY EntriesAreOfGenerations, PTL DEF LogSound
    <2>3. ASSUME NEW g, g = operations'[o].resultGeneration
          PROVE  LiveAt(e, g)' = entry
        BY <2>1, <2>2, <2>3 DEF EntriesFit
    <2>4. \A g \in 1..(n + 1) : after[g] = LiveAt(e, g)'
        BY <1>1 DEF LogOf
    <2> HIDE DEF after, entry
    <2>5. n + 1 \in 1..(n + 1)
        BY <1>1
    <2>6. PICK g \in 1..(n + 1) : g = n + 1
        BY <2>5
    <2>7. after[g] = LiveAt(e, g)' /\ LiveAt(e, g)' = entry
        BY <2>1, <2>3, <2>4, <2>6
    <2> QED
        BY <2>6, <2>7
<1> HIDE DEF n, before, after, entry
<1>6. n + 1 \in 1..Len(after)
    BY <1>1, <1>3
<1>7. entry \in S
    BY <1>3, <1>5, <1>6, ElementOfSeq
<1> HIDE DEF S
<1>8. /\ Append(before, entry) \in Seq(S)
      /\ Len(Append(before, entry)) = n + 1
      /\ \A g \in 1..n : Append(before, entry)[g] = before[g]
      /\ Append(before, entry)[n + 1] = entry
    BY <1>2, <1>7, AppendProperties
<1>9. \A g \in 1..Len(after) : after[g] = Append(before, entry)[g]
    BY <1>1, <1>3, <1>4, <1>5, <1>8
<1>10. after = Append(before, entry)
    BY <1>3, <1>8, <1>9, SeqEqual
<1> QED
    BY <1>10 DEF after, before, entry

\* The last entry of the log is what is live.
LEMMA LastEntry ==
    ASSUME LogSound, NEW e \in Environments
    PROVE  Promise!Current(e) = IF deployments[e].active = None
                                THEN Offline
                                ELSE publications[deployments[e].active].artifact
<1> DEFINE n == deployments[e].generation
<1>1. n \in Nat /\ LogOf(e) \in Seq(Artifacts \union {Offline}) /\ Len(LogOf(e)) = n
    BY LogsTyped DEF LogSound, TypeOK, Deployment, LogsAreSequences
<1>2. Promise!Current(e) = IF LogOf(e) = <<>> THEN Offline ELSE LogOf(e)[Len(LogOf(e))]
    <2> DEFINE logs == [x \in Environments |-> [g \in 1..deployments[x].generation |-> LiveAt(x, g)]]
    <2>1. Promise!Current(e) = IF logs[e] = <<>> THEN Offline ELSE logs[e][Len(logs[e])]
        BY DEF Promise!Current
    <2>2. logs[e] = LogOf(e)
        BY DEF LogOf
    <2> HIDE DEF logs
    <2> QED
        BY <2>1, <2>2
<1>3. CASE n = 0
    <2>1. LogOf(e) = <<>>
        BY <1>1, <1>3, EmptySeq
    <2>2. deployments[e].active = None
        BY <1>3 DEF LogSound, HInv, LastIsLive
    <2> QED
        BY <1>2, <2>1, <2>2
<1>4. CASE n # 0
    <2>1. n \in 1..n
        BY <1>1, <1>4
    <2>2. LogOf(e) # <<>>
        BY <1>1, <1>4, EmptySeq
    <2>3. PICK o \in CompletedIn(e) : operations[o].resultGeneration = n
        BY <2>1, GenerationHasEntry DEF LogSound
    <2>4. LogOf(e)[n] = EntryOf(o)
        BY <2>1, <2>3, EntryOfGeneration DEF LogSound, LogOf
    <2>5. operations[o].resultPublication = deployments[e].active
        BY <2>3 DEF LogSound, HInv, LastIsLive
    <2>6. Agrees(e, o)
        BY DEF LogSound, AInv
    <2>7. None \notin PublicationIds
        BY LenProperties DEF LogSound, TypeOK, PublicationIds, None
    <2> QED
        BY <1>1, <1>2, <2>2, <2>4, <2>5, <2>6, <2>7 DEF EntryOf, Agrees
<1> QED
    BY <1>3, <1>4

\* What is live is an artifact, and an artifact is not Offline.
LEMMA LiveIsArtifact ==
    ASSUME LogSound, NEW e \in Environments, deployments[e].active # None
    PROVE  /\ Promise!Current(e) = publications[deployments[e].active].artifact
           /\ Promise!Current(e) # Offline
<1>1. deployments[e].active \in PublicationIds
    BY LiveIsExplained DEF LogSound
<1>2. publications[deployments[e].active] \in Publication
    BY <1>1, ElementOfSeq DEF LogSound, TypeOK, PublicationIds
<1>3. publications[deployments[e].active].artifact \in Artifacts
    BY <1>2 DEF Publication
<1> QED
    BY <1>3, LastEntry, ConstantsAssumption

\* The latest report says that what staging shows works.
Vouched == deployments["staging"].active \in verified

LEMMA OneLogGrows ==
    ASSUME NEW e \in Environments, NEW entry,
           LogOf(e)' = Append(LogOf(e), entry),
           \A x \in Environments \ {e} : LogOf(x)' = LogOf(x),
           Vouched' <=> Vouched /\ e # "staging"
    PROVE  Promise!Extend(e, entry)
<1> DEFINE logs == [x \in Environments |->
                        [g \in 1..deployments[x].generation |-> LiveAt(x, g)]]
<1>1. \A x \in Environments : logs[x] = LogOf(x) /\ logs'[x] = LogOf(x)'
    BY DEF LogOf
<1>2. DOMAIN logs = Environments /\ DOMAIN logs' = Environments
    OBVIOUS
<1>3. logs' = [x \in Environments |-> logs'[x]]
    OBVIOUS
<1>4. [logs EXCEPT ![e] = Append(logs[e], entry)] =
          [x \in Environments |-> IF x = e THEN Append(logs[e], entry) ELSE logs[x]]
    OBVIOUS
<1>5. Promise!Extend(e, entry) <=>
          /\ logs' = [logs EXCEPT ![e] = Append(logs[e], entry)]
          /\ Vouched' = (Vouched /\ e # "staging")
    BY DEF Promise!Extend, Vouched
<1>7. Vouched' = (Vouched /\ e # "staging")
    BY DEF Vouched
<1> HIDE DEF logs
<1>6. \A x \in Environments :
          logs'[x] = IF x = e THEN Append(logs[e], entry) ELSE logs[x]
    BY <1>1
<1> QED
    BY <1>3, <1>4, <1>5, <1>6, <1>7

LEMMA LogsStay ==
    ASSUME \A e \in Environments : LogOf(e)' = LogOf(e)
    PROVE  UNCHANGED [e \in Environments |->
                         [g \in 1..deployments[e].generation |-> LiveAt(e, g)]]
    BY DEF LogOf

\* What comes to staging has no report yet, and a release to production leaves
\* the report on what staging shows alone.
LEMMA VouchedIsKept ==
    ASSUME LogSound, StepCaused, UNCHANGED verified,
           NEW e \in Environments, NEW o \in OperationIds', MovedBy(e, o)
    PROVE  Vouched' <=> Vouched /\ e # "staging"
<1>1. CASE e = "staging"
    <2>1. \/ deployments'[e].active = None
          \/ deployments'[e].active \notin PublicationIds
        BY DEF MovedBy, Backed
    <2>2. verified \subseteq PublicationIds /\ None \notin PublicationIds
        BY LenProperties DEF LogSound, TypeOK, PublicationIds, None
    <2> QED
        BY <1>1, <2>1, <2>2 DEF Vouched
<1>2. CASE e # "staging"
    <2>1. ~NothingMoves(e) /\ "staging" \in Environments
        BY DEF MovedBy, NothingMoves, Environments
    <2>2. deployments'["staging"].active = deployments["staging"].active
        BY <1>2, <2>1 DEF StepCaused, NothingMoves
    <2> QED
        BY <1>2, <2>2 DEF Vouched
<1> QED
    BY <1>1, <1>2

LEMMA MovePromised ==
    ASSUME LogSound, LogSound', StepCaused, PublicationsKept, FinishedKept,
           UNCHANGED verified,
           NEW e \in Environments, NEW o \in OperationIds', MovedBy(e, o)
    PROVE  Promise!Next
<1> DEFINE row == operations'[o]
           log == LogOf(e)
           active == deployments[e].active
<1>0. PICK entry : entry = EntryOf(o)'
    OBVIOUS
<1>1. ASSUME NEW x \in Environments \ {e}
      PROVE  LogOf(x)' = LogOf(x)
    <2>1. ~NothingMoves(e)
        BY DEF MovedBy, NothingMoves
    <2>2. NothingMoves(x)
        BY <2>1 DEF StepCaused
    <2> QED
        BY <2>2, LogStays
<1>2. log \in Seq(Artifacts \union {Offline}) /\ Len(log) = deployments[e].generation
    BY LogsTyped DEF LogSound, LogsAreSequences
<1>3. LogOf(e)' = Append(log, entry)
    BY <1>0, LogGrows
<1>4. Promise!Extend(e, entry)
    BY <1>1, <1>3, VouchedIsKept, OneLogGrows
<1>5. row \in Operation /\ Backed(e, row, o) /\ Shows(e, row)
    BY ElementOfSeq DEF LogSound, TypeOK, OperationIds, MovedBy
<1>6. row.action \in {"publish", "promote", "rollback", "unpublish"}
    BY <1>5 DEF Operation
<1>7. ASSUME row.action # "unpublish"
      PROVE  /\ entry = publications'[row.resultPublication].artifact
             /\ entry \in Artifacts
    <2>1. entry = publications'[row.resultPublication].artifact
        BY <1>0, <1>7 DEF EntryOf
    <2>2. row.resultPublication \in PublicationIds'
        BY <1>5, <1>7 DEF Backed
    <2>3. publications'[row.resultPublication] \in Publication
        BY <2>2, ElementOfSeq DEF LogSound, TypeOK, PublicationIds
    <2>4. publications'[row.resultPublication].artifact \in Artifacts
        BY <2>3 DEF Publication
    <2> QED
        BY <2>1, <2>4
<1>8. "staging" \in Environments
    BY DEF Environments
<1>9. Promise!Environments = Environments
    BY DEF Promise!Environments, Environments
<1>10. CASE row.action = "publish"
    <2>1. e = "staging" /\ entry \in Artifacts
        BY <1>5, <1>7, <1>10 DEF Shows
    <2>2. Promise!Publish(entry)
        BY <1>4, <2>1 DEF Promise!Publish
    <2> QED
        BY <2>1, <2>2 DEF Promise!Next
<1>11. CASE row.action = "promote"
    <2>1. /\ e = "production"
          /\ deployments["staging"].active # None
          /\ deployments["staging"].active \in verified
          /\ entry = publications[deployments["staging"].active].artifact
        BY <1>5, <1>7, <1>11 DEF Shows
    <2>2. entry = Promise!Current("staging") /\ Promise!Current("staging") # Offline
        BY <1>8, <2>1, LiveIsArtifact
    <2>3. Promise!Promote
        BY <1>4, <2>1, <2>2 DEF Promise!Promote, Promise!Extend
    <2> QED
        BY <2>3 DEF Promise!Next
<1>12. CASE row.action = "rollback"
    <2>1. active # None
        BY <1>5, <1>12 DEF Shows
    <2>2. PICK x \in Releases(e) :
              /\ operations[x].resultGeneration < deployments[e].generation
              /\ entry = publications[operations[x].resultPublication].artifact
        BY <1>5, <1>7, <1>12 DEF Shows
    <2>3. x \in CompletedIn(e) /\ operations[x].action # "unpublish"
        BY <2>2 DEF Releases, CompletedIn
    <2>4. operations[x].resultGeneration \in 1..deployments[e].generation
        BY <2>3 DEF LogSound, HInv, CompletionsFit
    <2>5. PICK g \in 1..Len(log) : g = operations[x].resultGeneration
        BY <1>2, <2>4
    <2>6. log[g] = entry
        <3>1. log[g] = LiveAt(e, g)
            BY <1>2, <2>5 DEF LogOf
        <3>2. LiveAt(e, g) = EntryOf(x)
            BY <2>3, <2>5, EntryOfGeneration DEF LogSound
        <3>3. EntryOf(x) = entry
            BY <2>2, <2>3 DEF EntryOf
        <3> QED
            BY <3>1, <3>2, <3>3
    <2>7. entry # Offline
        BY <1>7, <1>12, ConstantsAssumption
    <2>8. Promise!Current(e) # Offline
        BY <2>1, LiveIsArtifact
    <2>9. g < Len(log)
        BY <1>2, <2>2, <2>5
    <2> DEFINE logs == [y \in Environments |->
                            [h \in 1..deployments[y].generation |-> LiveAt(y, h)]]
    <2>10. logs[e] = log
        BY DEF LogOf
    <2>11. Promise!Rollback(e, g) <=> /\ Promise!Current(e) # Offline
                                      /\ g < Len(logs[e])
                                      /\ logs[e][g] # Offline
                                      /\ logs' = [logs EXCEPT ![e] =
                                                     Append(logs[e], logs[e][g])]
                                      /\ Vouched' = (Vouched /\ e # "staging")
        BY DEF Promise!Rollback, Promise!Extend, Vouched
    <2>12. (\E h \in 1..Len(logs[e]) : Promise!Rollback(e, h)) => Promise!Next
        BY <1>9 DEF Promise!Next
    <2>13. /\ logs' = [logs EXCEPT ![e] = Append(logs[e], entry)]
           /\ Vouched' = (Vouched /\ e # "staging")
        BY <1>4 DEF Promise!Extend, Vouched
    <2> HIDE DEF logs, log
    <2>14. Promise!Rollback(e, g)
        BY <2>6, <2>7, <2>8, <2>9, <2>10, <2>11, <2>13
    <2> QED
        BY <2>10, <2>12, <2>14
<1>13. CASE row.action = "unpublish"
    <2>1. active # None
        BY <1>5, <1>13 DEF Backed
    <2>2. entry = Offline
        BY <1>0, <1>13 DEF EntryOf
    <2>3. Promise!Current(e) # Offline
        BY <2>1, LiveIsArtifact
    <2>4. Promise!TakeOffline(e)
        BY <1>4, <2>2, <2>3 DEF Promise!TakeOffline
    <2> QED
        BY <1>9, <2>4 DEF Promise!Next
<1> QED
    BY <1>6, <1>10, <1>11, <1>12, <1>13

\* The release tables implement the release log: staging takes new artifacts,
\* production what staging shows at that moment and the latest report on it
\* vouches for, and either only goes back to an entry of its own log, or offline
\* (LiveAt reads the log off the tables).
THEOREM ReleasesKeepTheLog == Spec => ImplementsReleaseLog
<1> DEFINE logs == [e \in Environments |->
                        [g \in 1..deployments[e].generation |-> LiveAt(e, g)]]
<1>1. Init => Promise!Init
    <2> SUFFICES ASSUME Init
                 PROVE  logs = [e \in Environments |-> <<>>] /\ ~Vouched
        BY DEF Promise!Init, Promise!Environments, Environments, Vouched
    <2>1. \A e \in Environments : deployments[e].generation = 0
        BY DEF Init
    <2>2. \A e \in Environments : LogOf(e) = <<>>
        <3> SUFFICES ASSUME NEW e \in Environments
                     PROVE  LogOf(e) = <<>>
            OBVIOUS
        <3>1. LogOf(e) \in [1..0 -> {Offline}]
            BY <2>1 DEF LogOf
        <3>2. LogOf(e) \in Seq({Offline})
            BY <3>1, SeqDef
        <3>3. Len(LogOf(e)) = 0
            BY <3>1, <3>2, LenProperties
        <3> QED
            BY <3>2, <3>3, EmptySeq
    <2>3. \A e \in Environments : logs[e] = <<>>
        BY <2>2 DEF LogOf
    <2>4. ~Vouched
        BY DEF Init, Vouched, Environments
    <2> QED
        BY <2>3, <2>4
<1>2. LogSound /\ LogSound' /\ [Next]_vars => [Promise!Next]_(Promise!promised)
    <2> SUFFICES ASSUME LogSound, LogSound', [Next]_vars
                 PROVE  Promise!Next \/ UNCHANGED Promise!promised
        OBVIOUS
    <2>1. StepCaused /\ PublicationsKept /\ FinishedKept
        BY NextCaused, StepKeepsHistory DEF LogSound, HInv
    <2>2. \/ UNCHANGED verified
          \/ UNCHANGED <<deployments, operations>> /\ deployments["staging"].active # None
        BY ReportsApart
    <2>3. CASE \A e \in Environments : NothingMoves(e)
        <3>1. UNCHANGED logs
            BY <2>1, <2>3, LogStays, LogsStay
        <3>2. CASE UNCHANGED verified
            <4>1. deployments'["staging"].active = deployments["staging"].active
                BY <2>3 DEF NothingMoves, Environments
            <4>2. UNCHANGED (deployments["staging"].active \in verified)
                BY <3>2, <4>1
            <4> QED
                BY <3>1, <4>2 DEF Promise!promised
        <3>3. CASE deployments["staging"].active # None
            <4>1. Promise!Current("staging") # Offline
                BY <3>3, LiveIsArtifact DEF Environments
            <4>2. Vouched' => Promise!Report(TRUE)
                BY <3>1, <4>1 DEF Promise!Report, Vouched
            <4>3. ~Vouched' => Promise!Report(FALSE)
                BY <3>1, <4>1 DEF Promise!Report, Vouched
            <4> QED
                BY <4>2, <4>3 DEF Promise!Next
        <3> QED
            BY <2>2, <3>2, <3>3
    <2>4. CASE ~(\A e \in Environments : NothingMoves(e))
        <3>1. UNCHANGED verified
            BY <2>2, <2>4 DEF NothingMoves, OperationIds
        <3> QED
            BY <2>1, <2>4, <3>1, MovePromised DEF StepCaused
    <2> QED
        BY <2>3, <2>4
<1>3. Spec => []LogSound
    BY AgreesInvariant, HistoryInvariant, TypeCorrect, PTL DEF LogSound
<1> QED
    BY <1>1, <1>2, <1>3, PTL DEF Spec, ImplementsReleaseLog, Promise!Spec

=============================================================================
