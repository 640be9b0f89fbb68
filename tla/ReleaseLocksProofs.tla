------------------------- MODULE ReleaseLocksProofs -------------------------
(***************************************************************************)
(* Proofs about ReleaseLocks, for any number of connections and documents  *)
(* and either order of the environment ids: its type, that waits for       *)
(* document locks form no circle, that the operations that lock the        *)
(* document first never deadlock, that what is live stays within the       *)
(* plan's limit, and that every operation is one step (SerialReleases).    *)
(*                                                                         *)
(* The locks have ranks: the two document locks of a pipeline in the order *)
(* in which their environment ids are sorted, then the subscription row.   *)
(* Every transaction takes ranked locks by rising rank, so that along a    *)
(* chain of waits the rank awaited rises, and there are only three.        *)
(***************************************************************************)
EXTENDS ReleaseLocks, FiniteSetTheorems, TLAPS

First == EnvironmentIds[1]
Second == EnvironmentIds[2]

Rank(l) ==
    CASE l = Subscription -> 3
      [] \E d \in Documents : l = DocumentLock(d, Second) -> 2
      [] \E d \in Documents : l = DocumentLock(d, First) -> 1
      [] OTHER -> 0

(***************************************************************************)
(* The ranks that matter to an operation: all of them when it locks the    *)
(* document first, else those of document locks.                           *)
(***************************************************************************)
Ranks(kind) == IF kind \in DocumentFirst THEN 1..3 ELSE 1..2

Ranked(kind, s) == TakesLock(s) /\ Rank(s.lock) \in Ranks(kind)

Before(kind, s, u) ==
    Ranked(kind, s) /\ Ranked(kind, u) => Rank(s.lock) < Rank(u.lock)

InOrder(kind, ss) ==
    \A i, j \in 1..Len(ss) : i < j => Before(kind, ss[i], ss[j])

\* What an operation that locks the document first locks exclusively.
ExclusiveIsRanked(kind, s) ==
    kind \in DocumentFirst /\ s.mode = "exclusive" => Ranked(kind, s)

Orderly(kind, ss) ==
    /\ ss \in Seq(Statement)
    /\ InOrder(kind, ss)
    /\ \A i \in 1..Len(ss) : ExclusiveIsRanked(kind, ss[i])

OrderlyTransaction(t) ==
    LET kind == running[t].kind
    IN  /\ Orderly(kind, todo[t])
        /\ \A h \in held[t] :
              /\ TakesLock(h)
              /\ ExclusiveIsRanked(kind, h)
              /\ \A i \in 1..Len(todo[t]) : Before(kind, h, todo[t][i])
        /\ running[t] = Idle => todo[t] = <<>> /\ held[t] = {}

IInv == LocksTypeOK /\ \A t \in Transactions : OrderlyTransaction(t)

-----------------------------------------------------------------------------
(***************************************************************************)
(* Ranks and statements.                                                   *)
(***************************************************************************)
LEMMA TwoEnvironments ==
    /\ First \in Environments /\ Second \in Environments /\ First # Second
    /\ \A e \in Environments : e = First \/ e = Second
BY PipelineOfTwo DEF Environments, First, Second, Staging, Production

LEMMA RanksOfLocks ==
    /\ Rank(Subscription) = 3
    /\ Rank(Members) = 0
    /\ Rank(LiveStock) = 0
    /\ \A e \in Environments : Rank(EnvironmentRow(e)) = 0
    /\ \A d \in Documents : /\ Rank(DocumentLock(d, First)) = 1
                            /\ Rank(DocumentLock(d, Second)) = 2
BY TwoEnvironments
DEF Rank, Subscription, Members, LiveStock, EnvironmentRow, DocumentLock

LEMMA RankOfDocumentLock ==
    ASSUME NEW d \in Documents, NEW e \in Environments
    PROVE  Rank(DocumentLock(d, e)) \in 1..2
BY TwoEnvironments, RanksOfLocks

LEMMA DocumentLocksAreRanked ==
    ASSUME NEW l \in DocumentLocks
    PROVE  Rank(l) \in 1..2
BY RankOfDocumentLock DEF DocumentLocks

LEMMA StatementsAreStatements ==
    ASSUME NEW d \in Documents, NEW e \in Environments
    PROVE  /\ Exclusive(Subscription) \in Statement /\ Exclusive(Members) \in Statement
           /\ Exclusive(LiveStock) \in Statement /\ Exclusive(EnvironmentRow(e)) \in Statement
           /\ Share(Members) \in Statement /\ Share(EnvironmentRow(e)) \in Statement
           /\ LockDocument(d, e) \in Statement /\ CountStock \in Statement
           /\ ReadActive(d, e) \in Statement /\ CompareGeneration(d, e) \in Statement
BY DEF Exclusive, Share, LockDocument, CountStock, ReadActive, CompareGeneration, Statement,
       Locks, DocumentLocks, LockModes, ReadModes

(***************************************************************************)
(* Which statements are ranked, and how.                                   *)
(***************************************************************************)
LEMMA RanksOfStatements ==
    ASSUME NEW d \in Documents, NEW e \in Environments, NEW kind
    PROVE  /\ Rank(Exclusive(Subscription).lock) = 3
           /\ kind \in DocumentFirst => Ranked(kind, Exclusive(Subscription))
           /\ kind \notin DocumentFirst => ~Ranked(kind, Exclusive(Subscription))
           /\ Ranked(kind, LockDocument(d, e)) /\ Rank(LockDocument(d, e).lock) \in 1..2
           /\ Rank(LockDocument(d, First).lock) = 1 /\ Rank(LockDocument(d, Second).lock) = 2
           /\ ~Ranked(kind, Exclusive(Members))
           /\ ~Ranked(kind, Exclusive(LiveStock))
           /\ ~Ranked(kind, Exclusive(EnvironmentRow(e)))
           /\ ~Ranked(kind, Share(Members))
           /\ ~Ranked(kind, Share(EnvironmentRow(e)))
           /\ ~Ranked(kind, CountStock)
           /\ ~Ranked(kind, ReadActive(d, e))
           /\ ~Ranked(kind, CompareGeneration(d, e))
<1>1. /\ \A l : Exclusive(l).lock = l /\ Exclusive(l).mode = "exclusive"
      /\ \A l : Share(l).lock = l /\ Share(l).mode = "share"
      /\ CountStock.mode = "count" /\ ReadActive(d, e).mode = "active"
      /\ CompareGeneration(d, e).mode = "generation"
  BY DEF Exclusive, Share, CountStock, ReadActive, CompareGeneration
<1>2. /\ Ranks(kind) = 1..3 \/ Ranks(kind) = 1..2
      /\ kind \in DocumentFirst => Ranks(kind) = 1..3
      /\ kind \notin DocumentFirst => Ranks(kind) = 1..2
  BY DEF Ranks
<1>3. Rank(DocumentLock(d, e)) \in 1..2
  BY RankOfDocumentLock
<1>4. First \in Environments /\ Second \in Environments
  BY TwoEnvironments
<1>5. QED
  BY <1>1, <1>2, <1>3, <1>4, RanksOfLocks DEF Ranked, TakesLock, LockModes, LockDocument

LEMMA ModesOfStatements ==
    ASSUME NEW d \in Documents, NEW e \in Environments
    PROVE  /\ Share(Members).mode # "exclusive" /\ Share(EnvironmentRow(e)).mode # "exclusive"
           /\ ReadActive(d, e).mode # "exclusive"
BY DEF Share, ReadActive

-----------------------------------------------------------------------------
(***************************************************************************)
(* Every operation's statements are in order.                              *)
(***************************************************************************)
LEMMA OneRanked ==
    ASSUME NEW kind, NEW ss \in Seq(Statement), NEW k \in Nat,
           \A i \in 1..Len(ss) : i # k => ~Ranked(kind, ss[i])
    PROVE  InOrder(kind, ss)
BY DEF InOrder, Before

LEMMA OtherKindsOrderly ==
    ASSUME NEW kind, kind \notin DocumentFirst, NEW ss \in Seq(Statement), InOrder(kind, ss)
    PROVE  Orderly(kind, ss)
BY DEF Orderly, ExclusiveIsRanked

LEMMA PublishOrderly ==
    ASSUME NEW d \in Documents, NEW e \in Environments
    PROVE  Orderly("publish", PublishStatements(d, e))
<1> DEFINE ss == PublishStatements(d, e)
<1>1. "publish" \notin DocumentFirst
  BY DEF DocumentFirst
<1>2. ss \in Seq(Statement) /\ Len(ss) = 7
  BY StatementsAreStatements DEF PublishStatements
<1>3. \A i \in 1..7 : i # 6 => ~Ranked("publish", ss[i])
  BY <1>1, RanksOfStatements DEF PublishStatements
<1>4. QED
  BY <1>1, <1>2, <1>3, OneRanked, OtherKindsOrderly

LEMMA ScheduleOrderly ==
    ASSUME NEW d \in Documents, NEW e \in Environments
    PROVE  Orderly("schedule", ScheduleStatements(d, e))
<1> DEFINE ss == ScheduleStatements(d, e)
<1>1. "schedule" \notin DocumentFirst
  BY DEF DocumentFirst
<1>2. ss \in Seq(Statement) /\ Len(ss) = 4
  BY StatementsAreStatements DEF ScheduleStatements
<1>3. \A i \in 1..4 : i # 4 => ~Ranked("schedule", ss[i])
  BY <1>1, RanksOfStatements DEF ScheduleStatements
<1>4. QED
  BY <1>1, <1>2, <1>3, OneRanked, OtherKindsOrderly

LEMMA StartOrderly ==
    ASSUME NEW d \in Documents, NEW e \in Environments
    PROVE  Orderly("start", StartStatements(d, e))
<1> DEFINE ss == StartStatements(d, e)
<1>1. "start" \notin DocumentFirst
  BY DEF DocumentFirst
<1>2. ss \in Seq(Statement) /\ Len(ss) = 4
  BY StatementsAreStatements DEF StartStatements
<1>3. \A i \in 1..4 : i # 1 => ~Ranked("start", ss[i])
  BY <1>1, RanksOfStatements DEF StartStatements
<1>4. QED
  BY <1>1, <1>2, <1>3, OneRanked, OtherKindsOrderly

LEMMA SettingsOrderly ==
    ASSUME NEW e \in Environments
    PROVE  /\ Orderly("approvalCount", ApprovalCountStatements(e))
           /\ Orderly("environmentPolicy", EnvironmentPolicyStatements)
           /\ Orderly("memberRole", MemberRoleStatements)
           /\ Orderly("changePlan", ChangePlanStatements)
<1> DEFINE kinds == {"approvalCount", "environmentPolicy", "memberRole", "changePlan"}
<1>1. \A kind \in kinds : kind \notin DocumentFirst
  BY DEF DocumentFirst
<1>2. \A kind \in kinds : /\ ~Ranked(kind, Exclusive(Subscription))
                           /\ ~Ranked(kind, Exclusive(Members))
                           /\ \A f \in Environments : ~Ranked(kind, Exclusive(EnvironmentRow(f)))
  <2>1. ASSUME NEW kind \in kinds
        PROVE  ~Ranked(kind, Exclusive(Subscription)) /\ ~Ranked(kind, Exclusive(Members))
    BY <1>1, <2>1, RanksOfLocks DEF Ranked, Ranks, Exclusive
  <2>2. ASSUME NEW kind \in kinds, NEW f \in Environments
        PROVE  ~Ranked(kind, Exclusive(EnvironmentRow(f)))
    BY <1>1, <2>2, RanksOfLocks DEF Ranked, Ranks, Exclusive
  <2>3. QED
    BY <2>1, <2>2
<1>3. /\ Exclusive(Subscription) \in Statement /\ Exclusive(Members) \in Statement
      /\ \A f \in Environments : Exclusive(EnvironmentRow(f)) \in Statement
  BY DEF Exclusive, Statement, Locks, LockModes
<1>4. Staging \in Environments /\ Production \in Environments
  BY DEF Environments
<1>5. ASSUME NEW kind \in kinds, NEW ss \in Seq(Statement),
             \A i \in 1..Len(ss) : ~Ranked(kind, ss[i])
      PROVE  Orderly(kind, ss)
  BY <1>1, <1>5, OtherKindsOrderly DEF InOrder, Before
<1>6. Orderly("approvalCount", ApprovalCountStatements(e))
  <2> DEFINE ss == ApprovalCountStatements(e)
  <2>1. ss \in Seq(Statement) /\ \A i \in 1..Len(ss) : ~Ranked("approvalCount", ss[i])
    BY <1>2, <1>3 DEF ApprovalCountStatements
  <2>2. QED
    BY <1>5, <2>1
<1>7. Orderly("environmentPolicy", EnvironmentPolicyStatements)
  <2> DEFINE ss == EnvironmentPolicyStatements
  <2>1. ss \in Seq(Statement) /\ \A i \in 1..Len(ss) : ~Ranked("environmentPolicy", ss[i])
    BY <1>2, <1>3, <1>4 DEF EnvironmentPolicyStatements
  <2>2. QED
    BY <1>5, <2>1
<1>8. Orderly("memberRole", MemberRoleStatements)
  <2> DEFINE ss == MemberRoleStatements
  <2>1. ss \in Seq(Statement) /\ \A i \in 1..Len(ss) : ~Ranked("memberRole", ss[i])
    BY <1>2, <1>3 DEF MemberRoleStatements
  <2>2. QED
    BY <1>5, <2>1
<1>9. Orderly("changePlan", ChangePlanStatements)
  <2> DEFINE ss == ChangePlanStatements
  <2>1. ss \in Seq(Statement) /\ \A i \in 1..Len(ss) : ~Ranked("changePlan", ss[i])
    BY <1>2, <1>3 DEF ChangePlanStatements
  <2>2. QED
    BY <1>5, <2>1
<1>10. QED
  BY <1>6, <1>7, <1>8, <1>9

LEMMA VerifyOrderly ==
    ASSUME NEW d \in Documents
    PROVE  Orderly("verify", VerifyStatements(d))
<1> DEFINE ss == VerifyStatements(d)
<1>1. Staging \in Environments
  BY DEF Environments
<1>2. ss \in Seq(Statement) /\ Len(ss) = 3
  BY <1>1, StatementsAreStatements DEF VerifyStatements
<1>3. \A i \in 1..3 : i # 3 => ~Ranked("verify", ss[i]) /\ ss[i].mode # "exclusive"
  BY <1>1, RanksOfStatements, ModesOfStatements DEF VerifyStatements
<1>4. Ranked("verify", ss[3])
  BY <1>1, RanksOfStatements DEF VerifyStatements
<1>5. QED
  BY <1>2, <1>3, <1>4, OneRanked DEF Orderly, ExclusiveIsRanked

LEMMA EndOrderly ==
    ASSUME NEW d \in Documents, NEW e \in Environments
    PROVE  Orderly("end", EndStatements(d, e))
<1> DEFINE ss == EndStatements(d, e)
<1>1. ss \in Seq(Statement) /\ Len(ss) = 2
  BY StatementsAreStatements DEF EndStatements
<1>2. ~Ranked("end", ss[2]) /\ ss[2].mode # "exclusive" /\ Ranked("end", ss[1])
  BY RanksOfStatements, ModesOfStatements DEF EndStatements
<1> HIDE DEF ss
<1>3. InOrder("end", ss)
  BY <1>1, <1>2 DEF InOrder, Before
<1>4. QED
  BY <1>1, <1>2, <1>3 DEF Orderly, ExclusiveIsRanked, ss

(***************************************************************************)
(* Those that lock the document first, then the subscription.              *)
(***************************************************************************)
LEMMA UnpublishOrderly ==
    ASSUME NEW d \in Documents, NEW e \in Environments
    PROVE  Orderly("unpublish", UnpublishStatements(d, e))
<1> DEFINE ss == UnpublishStatements(d, e)
<1>1. "unpublish" \in DocumentFirst
  BY DEF DocumentFirst
<1>2. ss \in Seq(Statement) /\ Len(ss) = 5
  BY StatementsAreStatements DEF UnpublishStatements
<1>3. \A i \in 1..5 : i \notin {1, 4} =>
         ~Ranked("unpublish", ss[i]) /\ ss[i].mode # "exclusive"
  BY RanksOfStatements, ModesOfStatements DEF UnpublishStatements
<1>4. /\ Ranked("unpublish", ss[1]) /\ Rank(ss[1].lock) \in 1..2
      /\ Ranked("unpublish", ss[4]) /\ Rank(ss[4].lock) = 3
  BY <1>1, RanksOfStatements DEF UnpublishStatements
<1> HIDE DEF ss
<1>5. InOrder("unpublish", ss)
  BY <1>2, <1>3, <1>4 DEF InOrder, Before
<1>6. \A i \in 1..5 : ExclusiveIsRanked("unpublish", ss[i])
  BY <1>3, <1>4 DEF ExclusiveIsRanked
<1>7. QED
  BY <1>2, <1>5, <1>6 DEF Orderly, ss

LEMMA SortedLocks ==
    ASSUME NEW d \in Documents
    PROVE  /\ SortedDocumentLocks(d, Staging, Production)
                 = << LockDocument(d, First), LockDocument(d, Second) >>
           /\ SortedDocumentLocks(d, Production, Staging)
                 = << LockDocument(d, First), LockDocument(d, Second) >>
BY TwoEnvironments DEF SortedDocumentLocks, First, Second, Environments, Staging, Production

LEMMA Scans ==
    ASSUME NEW scan \in ScanOrders
    PROVE  scan[1] \in Environments /\ scan[2] \in Environments
BY DEF ScanOrders, Environments

LEMMA PromoteOrderly ==
    ASSUME NEW d \in Documents, NEW scan \in ScanOrders
    PROVE  Orderly("promote", PromoteStatements(d, scan))
<1> DEFINE ss == << Share(EnvironmentRow(scan[1])), Share(EnvironmentRow(scan[2])),
                    LockDocument(d, First), LockDocument(d, Second),
                    Exclusive(Subscription), Share(Members), ReadActive(d, Staging) >>
<1>1. "promote" \in DocumentFirst
  BY DEF DocumentFirst
<1>2. /\ scan[1] \in Environments /\ scan[2] \in Environments /\ Staging \in Environments
      /\ First \in Environments /\ Second \in Environments
  BY Scans, TwoEnvironments DEF Environments
<1>3. PromoteStatements(d, scan) = ss
  BY SortedLocks DEF PromoteStatements
<1>4. ss \in Seq(Statement) /\ Len(ss) = 7
  BY <1>2, StatementsAreStatements
<1>5. \A i \in 1..7 : i \notin 3..5 => ~Ranked("promote", ss[i]) /\ ss[i].mode # "exclusive"
  BY <1>2, RanksOfStatements, ModesOfStatements
<1>6. /\ Ranked("promote", ss[3]) /\ Rank(ss[3].lock) = 1
      /\ Ranked("promote", ss[4]) /\ Rank(ss[4].lock) = 2
      /\ Ranked("promote", ss[5]) /\ Rank(ss[5].lock) = 3
  BY <1>1, <1>2, RanksOfStatements
<1> HIDE DEF ss
<1>7. InOrder("promote", ss)
  BY <1>4, <1>5, <1>6 DEF InOrder, Before
<1>8. \A i \in 1..7 : ExclusiveIsRanked("promote", ss[i])
  BY <1>5, <1>6 DEF ExclusiveIsRanked
<1>9. QED
  BY <1>3, <1>4, <1>7, <1>8 DEF Orderly

LEMMA ApproveOrderly ==
    ASSUME NEW d \in Documents, NEW scan \in ScanOrders
    PROVE  Orderly("approve", ApproveStatements(d, scan))
<1> DEFINE ss == << Share(Members),
                    Share(EnvironmentRow(scan[1])), Share(EnvironmentRow(scan[2])),
                    LockDocument(d, First), LockDocument(d, Second),
                    Exclusive(Subscription), Share(Members) >>
<1>1. "approve" \in DocumentFirst
  BY DEF DocumentFirst
<1>2. /\ scan[1] \in Environments /\ scan[2] \in Environments
      /\ First \in Environments /\ Second \in Environments
  BY Scans, TwoEnvironments
<1>3. ApproveStatements(d, scan) = ss
  BY SortedLocks DEF ApproveStatements
<1>4. ss \in Seq(Statement) /\ Len(ss) = 7
  BY <1>2, StatementsAreStatements
<1>5. \A i \in 1..7 : i \notin 4..6 => ~Ranked("approve", ss[i]) /\ ss[i].mode # "exclusive"
  BY <1>2, RanksOfStatements, ModesOfStatements
<1>6. /\ Ranked("approve", ss[4]) /\ Rank(ss[4].lock) = 1
      /\ Ranked("approve", ss[5]) /\ Rank(ss[5].lock) = 2
      /\ Ranked("approve", ss[6]) /\ Rank(ss[6].lock) = 3
  BY <1>1, <1>2, RanksOfStatements
<1> HIDE DEF ss
<1>7. InOrder("approve", ss)
  BY <1>4, <1>5, <1>6 DEF InOrder, Before
<1>8. \A i \in 1..7 : ExclusiveIsRanked("approve", ss[i])
  BY <1>5, <1>6 DEF ExclusiveIsRanked
<1>9. QED
  BY <1>3, <1>4, <1>7, <1>8 DEF Orderly

-----------------------------------------------------------------------------
(***************************************************************************)
(* The initial states and the steps.                                       *)
(***************************************************************************)
LEMMA InitIInv == Init => IInv
<1> SUFFICES ASSUME Init PROVE IInv
  OBVIOUS
<1>1. LocksTypeOK
  BY LimitsAreCounts DEF Init, LocksTypeOK
<1>2. ASSUME NEW t \in Transactions PROVE OrderlyTransaction(t)
  <2>1. todo[t] = <<>> /\ held[t] = {}
    BY DEF Init
  <2>2. QED
    BY <2>1 DEF OrderlyTransaction, Orderly, InOrder
<1>3. QED
  BY <1>1, <1>2 DEF IInv

\* A step of one transaction leaves the others in order.
LEMMA OneTransactionSteps ==
    ASSUME IInv, NEW t \in Transactions, LocksTypeOK', OrderlyTransaction(t)',
           \A u \in Transactions \ {t} :
              running'[u] = running[u] /\ todo'[u] = todo[u] /\ held'[u] = held[u]
    PROVE  IInv'
<1>1. ASSUME NEW u \in Transactions \ {t} PROVE OrderlyTransaction(u)'
  BY <1>1 DEF IInv, OrderlyTransaction
<1>2. QED
  BY <1>1 DEF IInv

LEMMA RunningIsNotIdle ==
    ASSUME NEW call \in Call
    PROVE  call # Idle
<1>1. DOMAIN call = {"kind", "document", "environment"} /\ DOMAIN Idle = {"kind"}
  BY DEF Call, Idle
<1>2. QED
  BY <1>1

LEMMA BeginStep ==
    ASSUME IInv, NEW t \in Transactions, NEW kind, NEW d \in Documents,
           NEW e \in Environments, NEW ss, Begin(t, kind, d, e, ss), Orderly(kind, ss)
    PROVE  IInv'
<1>1. /\ running \in [Transactions -> Call \union {Idle}]
      /\ todo \in [Transactions -> Seq(Statement)] /\ held \in [Transactions -> SUBSET Statement]
  BY DEF IInv, LocksTypeOK
<1>2. /\ running' = [running EXCEPT ![t] = [kind |-> kind, document |-> d, environment |-> e]]
      /\ todo' = [todo EXCEPT ![t] = ss]
      /\ kind \in Kinds /\ running[t] = Idle
      /\ UNCHANGED <<active, limit, overtaken, held>>
  BY DEF Begin
<1>3. [kind |-> kind, document |-> d, environment |-> e] \in Call
  BY <1>2 DEF Call
<1>4. LocksTypeOK'
  BY <1>1, <1>2, <1>3 DEF IInv, LocksTypeOK, Orderly
<1>5. held'[t] = {}
  BY <1>2 DEF IInv, OrderlyTransaction
<1>6. running'[t].kind = kind /\ todo'[t] = ss
  BY <1>1, <1>2
<1>7. OrderlyTransaction(t)'
  BY <1>3, <1>5, <1>6, RunningIsNotIdle, <1>1, <1>2 DEF OrderlyTransaction
<1>8. QED
  BY <1>1, <1>2, <1>4, <1>7, OneTransactionSteps

LEMMA CallStep ==
    ASSUME IInv, NEW t \in Transactions,
           \/ ActivateCompiledArtifact(t) \/ PromoteVerifiedPublication(t)
           \/ CreateReleaseApproval(t) \/ CreatePublicationVerification(t)
           \/ RecoverDocumentRelease(t) \/ CreateDeploymentSchedule(t)
           \/ ProcessStartJob(t) \/ ProcessEndJob(t)
           \/ UpdateEnvironmentReleasePolicy(t) \/ UpdateWorkspaceEnvironmentPolicy(t)
           \/ UpdateWorkspaceMemberRole(t) \/ ChangeWorkspaceSubscription(t)
    PROVE  IInv'
<1>1. Staging \in Environments /\ Production \in Environments
  BY DEF Environments
<1>2. CASE ActivateCompiledArtifact(t)
  BY <1>2, BeginStep, PublishOrderly DEF ActivateCompiledArtifact
<1>3. CASE PromoteVerifiedPublication(t)
  BY <1>1, <1>3, BeginStep, PromoteOrderly DEF PromoteVerifiedPublication
<1>4. CASE CreateReleaseApproval(t)
  BY <1>1, <1>4, BeginStep, ApproveOrderly DEF CreateReleaseApproval
<1>5. CASE CreatePublicationVerification(t)
  BY <1>1, <1>5, BeginStep, VerifyOrderly DEF CreatePublicationVerification
<1>6. CASE RecoverDocumentRelease(t)
  BY <1>6, BeginStep, UnpublishOrderly DEF RecoverDocumentRelease
<1>7. CASE CreateDeploymentSchedule(t)
  BY <1>7, BeginStep, ScheduleOrderly DEF CreateDeploymentSchedule
<1>8. CASE ProcessStartJob(t)
  BY <1>8, BeginStep, StartOrderly DEF ProcessStartJob
<1>9. CASE ProcessEndJob(t)
  BY <1>9, BeginStep, EndOrderly DEF ProcessEndJob
<1>10. CASE UpdateEnvironmentReleasePolicy(t)
  BY <1>10, BeginStep, SettingsOrderly DEF UpdateEnvironmentReleasePolicy
<1>11. CASE UpdateWorkspaceEnvironmentPolicy(t)
  BY <1>11, BeginStep, SettingsOrderly DEF UpdateWorkspaceEnvironmentPolicy
<1>12. CASE UpdateWorkspaceMemberRole(t)
  BY <1>1, <1>12, BeginStep, SettingsOrderly DEF UpdateWorkspaceMemberRole
<1>13. CASE ChangeWorkspaceSubscription(t)
  BY <1>1, <1>13, BeginStep, SettingsOrderly DEF ChangeWorkspaceSubscription
<1>14. QED
  BY <1>2, <1>3, <1>4, <1>5, <1>6, <1>7, <1>8, <1>9, <1>10, <1>11, <1>12, <1>13

(***************************************************************************)
(* A statement that has run leaves the rest in order, and a lock it takes  *)
(* ranks below all locks still to take.                                    *)
(***************************************************************************)
LEMMA TailOrderly ==
    ASSUME NEW kind, NEW ss, Orderly(kind, ss), ss # <<>>
    PROVE  /\ Head(ss) \in Statement /\ Orderly(kind, Tail(ss))
           /\ ExclusiveIsRanked(kind, Head(ss))
           /\ \A i \in 1..Len(Tail(ss)) : Before(kind, Head(ss), Tail(ss)[i])
           /\ \A i \in 1..Len(Tail(ss)) : i + 1 \in 1..Len(ss) /\ Tail(ss)[i] = ss[i + 1]
<1>1. ss \in Seq(Statement)
  BY DEF Orderly
<1>2. /\ Head(ss) \in Statement /\ Head(ss) = ss[1] /\ 1 \in 1..Len(ss)
      /\ Tail(ss) \in Seq(Statement) /\ Len(Tail(ss)) = Len(ss) - 1
      /\ \A i \in 1..Len(Tail(ss)) : i + 1 \in 1..Len(ss) /\ Tail(ss)[i] = ss[i + 1]
  BY <1>1
<1>3. InOrder(kind, Tail(ss))
  <2> SUFFICES ASSUME NEW i \in 1..Len(Tail(ss)), NEW j \in 1..Len(Tail(ss)), i < j
               PROVE  Before(kind, Tail(ss)[i], Tail(ss)[j])
    BY DEF InOrder
  <2>1. i + 1 < j + 1 /\ i + 1 \in 1..Len(ss) /\ j + 1 \in 1..Len(ss)
    BY <1>2
  <2>2. Before(kind, ss[i + 1], ss[j + 1])
    BY <2>1 DEF Orderly, InOrder
  <2>3. QED
    BY <1>2, <2>2
<1>4. \A i \in 1..Len(Tail(ss)) : Before(kind, Head(ss), Tail(ss)[i])
  <2> SUFFICES ASSUME NEW i \in 1..Len(Tail(ss))
               PROVE  Before(kind, Head(ss), Tail(ss)[i])
    OBVIOUS
  <2>1. 1 < i + 1 /\ i + 1 \in 1..Len(ss)
    BY <1>2
  <2>2. Before(kind, ss[1], ss[i + 1])
    BY <1>2, <2>1 DEF Orderly, InOrder
  <2>3. QED
    BY <1>2, <2>2
<1>5. ExclusiveIsRanked(kind, Head(ss))
  BY <1>2 DEF Orderly
<1>6. \A i \in 1..Len(Tail(ss)) : ExclusiveIsRanked(kind, Tail(ss)[i])
  BY <1>2 DEF Orderly
<1>7. QED
  BY <1>2, <1>3, <1>4, <1>5, <1>6 DEF Orderly

LEMMA StatementStep ==
    ASSUME IInv, NEW t \in Transactions, todo[t] # <<>>, Advance(t),
           \/ held' = held
           \/ TakesLock(Head(todo[t])) /\ held' = [held EXCEPT ![t] = @ \union {Head(todo[t])}],
           UNCHANGED <<active, limit, running, overtaken>>
    PROVE  IInv'
<1> DEFINE kind == running[t].kind
<1>1. /\ todo \in [Transactions -> Seq(Statement)] /\ held \in [Transactions -> SUBSET Statement]
  BY DEF IInv, LocksTypeOK
<1>2. Orderly(kind, todo[t])
  BY DEF IInv, OrderlyTransaction
<1>3. /\ Head(todo[t]) \in Statement /\ Orderly(kind, Tail(todo[t]))
      /\ ExclusiveIsRanked(kind, Head(todo[t]))
      /\ \A i \in 1..Len(Tail(todo[t])) : Before(kind, Head(todo[t]), Tail(todo[t])[i])
      /\ \A i \in 1..Len(Tail(todo[t])) :
            i + 1 \in 1..Len(todo[t]) /\ Tail(todo[t])[i] = todo[t][i + 1]
  BY <1>2, TailOrderly
<1>4. todo' = [todo EXCEPT ![t] = Tail(todo[t])] /\ Tail(todo[t]) \in Seq(Statement)
  BY <1>3 DEF Advance, Orderly
<1>5. todo'[t] = Tail(todo[t])
  BY <1>1, <1>4
<1>6. LocksTypeOK'
  BY <1>1, <1>3, <1>4 DEF IInv, LocksTypeOK
<1>7. held'[t] = held[t] \/ (TakesLock(Head(todo[t])) /\ held'[t] = held[t] \union {Head(todo[t])})
  BY <1>1
<1>8. \A h \in held'[t] : /\ TakesLock(h) /\ ExclusiveIsRanked(kind, h)
                          /\ \A i \in 1..Len(todo'[t]) : Before(kind, h, todo'[t][i])
  <2> SUFFICES ASSUME NEW h \in held'[t]
               PROVE  /\ TakesLock(h) /\ ExclusiveIsRanked(kind, h)
                      /\ \A i \in 1..Len(Tail(todo[t])) : Before(kind, h, Tail(todo[t])[i])
    BY <1>5
  <2>1. CASE h \in held[t]
    BY <2>1, <1>3 DEF IInv, OrderlyTransaction
  <2>2. CASE h = Head(todo[t]) /\ TakesLock(h)
    BY <2>2, <1>3
  <2>3. QED
    BY <1>7, <2>1, <2>2
<1>9. running[t] # Idle
  BY DEF IInv, OrderlyTransaction
<1>10. OrderlyTransaction(t)'
  BY <1>3, <1>5, <1>8, <1>9 DEF OrderlyTransaction
<1>11. QED
  BY <1>1, <1>4, <1>6, <1>10, OneTransactionSteps

LEMMA ReleaseStep ==
    ASSUME IInv, NEW t \in Transactions, Release(t), active' \subseteq Documents \X Environments,
           limit' \in Limits, overtaken' \subseteq Transactions
    PROVE  IInv'
<1>1. /\ running \in [Transactions -> Call \union {Idle}]
      /\ todo \in [Transactions -> Seq(Statement)] /\ held \in [Transactions -> SUBSET Statement]
  BY DEF IInv, LocksTypeOK
<1>2. LocksTypeOK'
  BY <1>1 DEF LocksTypeOK, Release
<1>3. todo'[t] = <<>> /\ held'[t] = {}
  BY <1>1 DEF Release
<1>4. OrderlyTransaction(t)'
  BY <1>3 DEF OrderlyTransaction, Orderly, InOrder
<1>5. QED
  BY <1>1, <1>2, <1>4, OneTransactionSteps DEF Release

LEMMA CommitStep ==
    ASSUME IInv, NEW t \in Transactions, Commit(t)
    PROVE  IInv'
<1>1. running[t] \in Call
  BY DEF IInv, LocksTypeOK, Commit
<1>2. Served(running[t]) \subseteq Documents \X Environments
  BY <1>1 DEF Served, Call
<1>3. active' \subseteq Documents \X Environments
  BY <1>2 DEF Commit, IInv, LocksTypeOK
<1>4. limit' \in Limits
  BY DEF Commit, IInv, LocksTypeOK
<1>5. overtaken' \subseteq Transactions
  BY DEF Commit, IInv, LocksTypeOK, Overtakes
<1>6. QED
  BY <1>3, <1>4, <1>5, ReleaseStep DEF Commit

LEMMA RollbackStep ==
    ASSUME IInv, NEW t \in Transactions, Rollback(t)
    PROVE  IInv'
BY ReleaseStep DEF Rollback, IInv, LocksTypeOK

LEMMA NextIInv == IInv /\ [Next]_vars => IInv'
<1> SUFFICES ASSUME IInv, [Next]_vars PROVE IInv'
  OBVIOUS
<1>1. CASE UNCHANGED vars
  BY <1>1 DEF vars, IInv, LocksTypeOK, OrderlyTransaction
<1>2. ASSUME NEW t \in Transactions, AcquireLock(t)
      PROVE  IInv'
  BY <1>2, StatementStep DEF AcquireLock
<1>3. ASSUME NEW t \in Transactions, CountLiveStock(t) \/ FindDocumentDeployment(t)
      PROVE  IInv'
  BY <1>3, StatementStep DEF CountLiveStock, FindDocumentDeployment
<1>4. QED
  BY <1>1, <1>2, <1>3, CallStep, CommitStep, RollbackStep DEF Next

LEMMA Invariance == Spec => []IInv
BY InitIInv, NextIInv, PTL DEF Spec

-----------------------------------------------------------------------------
(***************************************************************************)
(* Along a wait between two transactions the awaited rank rises.           *)
(***************************************************************************)
LEMMA WaitsRise ==
    ASSUME IInv, NEW t \in Transactions, NEW u \in Transactions, WaitsFor(t, u),
           todo[u] # <<>>,
           Ranked(running[u].kind, Head(todo[u])),
           Rank(Head(todo[t]).lock) \in Ranks(running[u].kind)
    PROVE  Rank(Head(todo[t]).lock) < Rank(Head(todo[u]).lock)
<1> DEFINE kind == running[u].kind
<1>1. PICK h \in held[u] : h.lock = Head(todo[t]).lock
  BY DEF WaitsFor, Conflict
<1>2. TakesLock(h) /\ \A i \in 1..Len(todo[u]) : Before(kind, h, todo[u][i])
  BY DEF IInv, OrderlyTransaction
<1>3. Ranked(kind, h)
  BY <1>1, <1>2 DEF Ranked
<1>4. Head(todo[u]) = todo[u][1] /\ 1 \in 1..Len(todo[u])
  BY DEF IInv, LocksTypeOK
<1>5. QED
  BY <1>1, <1>2, <1>3, <1>4 DEF Before

(***************************************************************************)
(* No set of transactions waits for itself while all that its members wait *)
(* for is ranked for each of them.                                         *)
(***************************************************************************)
LEMMA RankedWaitsEnd ==
    ASSUME IInv, NEW S \in SUBSET Transactions, Deadlocked(S),
           \A t \in S : Rank(Head(todo[t]).lock) \in 1..3,
           \A t \in S, u \in S : Rank(Head(todo[t]).lock) \in Ranks(running[u].kind)
    PROVE  FALSE
<1> DEFINE rank(t) == Rank(Head(todo[t]).lock)
<1>1. ASSUME NEW t \in S
      PROVE  \E u \in S : rank(t) < rank(u)
  <2>1. PICK u \in S : WaitsFor(t, u)
    BY DEF Deadlocked
  <2>2. PICK v \in S : WaitsFor(u, v)
    BY DEF Deadlocked
  <2>3. todo[u] # <<>> /\ TakesLock(Head(todo[u]))
    BY <2>2 DEF WaitsFor
  <2>4. Ranked(running[u].kind, Head(todo[u]))
    BY <2>3 DEF Ranked
  <2>5. QED
    BY <2>1, <2>3, <2>4, WaitsRise
<1>2. PICK t \in S : TRUE
  BY DEF Deadlocked
<1>3. PICK u \in S : rank(t) < rank(u)
  BY <1>1
<1>4. PICK v \in S : rank(u) < rank(v)
  BY <1>1
<1>5. PICK w \in S : rank(v) < rank(w)
  BY <1>1
<1>6. rank(t) \in 1..3 /\ rank(u) \in 1..3 /\ rank(v) \in 1..3 /\ rank(w) \in 1..3
  OBVIOUS
<1>7. QED
  BY <1>3, <1>4, <1>5, <1>6

-----------------------------------------------------------------------------
(***************************************************************************)
(* The theorems.                                                           *)
(***************************************************************************)

(***************************************************************************)
(* The statements of the release transactions are of the locks and reads   *)
(* that ReleaseLocks names, and deployments are of documents.              *)
(***************************************************************************)
THEOREM LocksTypes == Spec => []LocksTypeOK
<1>1. IInv => LocksTypeOK
  BY DEF IInv
<1>2. QED
  BY <1>1, Invariance, PTL

(***************************************************************************)
(* lockSortedReleaseDocumentEnvironments: waits for document locks form no *)
(* circle, for any number of connections and documents.                    *)
(***************************************************************************)
THEOREM SortingPreventsCycles == Spec => []DocumentLocksNeverCycle
<1>1. ASSUME IInv
      PROVE  DocumentLocksNeverCycle
  <2> SUFFICES ASSUME NEW S \in SUBSET Transactions, Deadlocked(S),
                      \A t \in S : Head(todo[t]).lock \in DocumentLocks
               PROVE  FALSE
    BY DEF DocumentLocksNeverCycle
  <2>1. \A t \in S : Rank(Head(todo[t]).lock) \in 1..2
    BY DocumentLocksAreRanked
  <2>2. \A t \in S, u \in S : Rank(Head(todo[t]).lock) \in Ranks(running[u].kind)
    BY <2>1 DEF Ranks
  <2>3. \A t \in S : Rank(Head(todo[t]).lock) \in 1..3
    BY <2>1
  <2>4. QED
    BY <1>1, <2>2, <2>3, RankedWaitsEnd
<1>2. QED
  BY <1>1, Invariance, PTL

(***************************************************************************)
(* Promotions, approvals, verifications, recoveries and scheduled ends     *)
(* never deadlock among themselves, however many run at once.              *)
(***************************************************************************)
THEOREM DocumentFirstIsSafe == Spec => []DocumentFirstNeverDeadlocks
<1>1. ASSUME IInv
      PROVE  DocumentFirstNeverDeadlocks
  <2> SUFFICES ASSUME NEW S \in SUBSET Transactions, Deadlocked(S),
                      \A t \in S : running[t].kind \in DocumentFirst
               PROVE  FALSE
    BY DEF DocumentFirstNeverDeadlocks
  <2>1. ASSUME NEW t \in S
        PROVE  Rank(Head(todo[t]).lock) \in 1..3
    <3>1. PICK u \in S : WaitsFor(t, u)
      BY DEF Deadlocked
    <3>2. PICK h \in held[u] : Conflict(Head(todo[t]), h)
      BY <3>1 DEF WaitsFor
    <3>3. CASE h.mode = "exclusive"
      <4>1. Ranked(running[u].kind, h)
        BY <1>1, <3>3 DEF IInv, OrderlyTransaction, ExclusiveIsRanked
      <4>2. QED
        BY <3>2, <4>1 DEF Conflict, Ranked, Ranks
    <3>4. CASE Head(todo[t]).mode = "exclusive"
      <4>1. Head(todo[t]) = todo[t][1] /\ 1 \in 1..Len(todo[t])
        BY <1>1, <3>1 DEF IInv, LocksTypeOK, WaitsFor
      <4>2. Ranked(running[t].kind, Head(todo[t]))
        BY <1>1, <3>4, <4>1 DEF IInv, OrderlyTransaction, Orderly, ExclusiveIsRanked
      <4>3. QED
        BY <4>2 DEF Ranked, Ranks
    <3>5. QED
      BY <3>2, <3>3, <3>4 DEF Conflict
  <2>2. \A t \in S, u \in S : Rank(Head(todo[t]).lock) \in Ranks(running[u].kind)
    BY <2>1 DEF Ranks
  <2>3. QED
    BY <1>1, <2>1, <2>2, RankedWaitsEnd
<1>2. QED
  BY <1>1, Invariance, PTL

-----------------------------------------------------------------------------
(***************************************************************************)
(* The live stock.  Whoever has counted holds the lock of the live stock   *)
(* until it commits, so that the count stays true of it; whoever has found *)
(* a document live, or is about to withdraw it, holds that document's lock.*)
(***************************************************************************)
StillTo(t, s) == \E i \in 1..Len(todo[t]) : todo[t][i] = s

\* t holds the lock of statement l, or takes it before it runs statement r.
LockedBefore(t, l, r) ==
    \/ l \in held[t]
    \/ \E i, j \in 1..Len(todo[t]) : i < j /\ todo[t][i] = l /\ todo[t][j] = r

StockWith(d) == LiveDocuments(active) \union {d}

CountHolds(n, t) ==
    running[t].kind \in {"publish", "start"} =>
        /\ LockedBefore(t, Exclusive(LiveStock), CountStock)
        /\ StillTo(t, CountStock) \/ Cardinality(StockWith(running[t].document)) <= n

SourceIsLive(t) ==
    LET d == running[t].document
    IN  running[t].kind = "promote" =>
            /\ running[t].environment = Production
            /\ LockedBefore(t, LockDocument(d, Staging), ReadActive(d, Staging))
            /\ StillTo(t, ReadActive(d, Staging)) \/ <<d, Staging>> \in active

WithdrawsLocked(t) ==
    LET l == LockDocument(running[t].document, running[t].environment)
    IN  running[t].kind \in {"unpublish", "end"} => l \in held[t] \/ StillTo(t, l)

Exclusion ==
    \A t, u \in Transactions : t # u =>
        \A h \in held[t], g \in held[u] : ~Conflict(h, g)

StockInv(n) ==
    /\ IInv /\ Exclusion
    /\ IsFiniteSet(LiveDocuments(active)) /\ LiveStockOf(active) <= n
    /\ \A t \in Transactions : CountHolds(n, t) /\ SourceIsLive(t) /\ WithdrawsLocked(t)

\* A transaction that begins still has all of its statements to run.
LEMMA Beginnings ==
    ASSUME NEW t \in Transactions, NEW kind, NEW d \in Documents, NEW e \in Environments, NEW ss,
           NEW n, IInv, Begin(t, kind, d, e, ss),
           kind \in {"publish", "start"} =>
               \E i, j \in 1..Len(ss) : i < j /\ ss[i] = Exclusive(LiveStock) /\ ss[j] = CountStock,
           kind = "promote" =>
               /\ e = Production
               /\ \E i, j \in 1..Len(ss) : /\ i < j /\ ss[i] = LockDocument(d, Staging)
                                           /\ ss[j] = ReadActive(d, Staging),
           kind \in {"unpublish", "end"} => \E i \in 1..Len(ss) : ss[i] = LockDocument(d, e)
    PROVE  CountHolds(n, t)' /\ SourceIsLive(t)' /\ WithdrawsLocked(t)'
<1>1. /\ running'[t] = [kind |-> kind, document |-> d, environment |-> e]
      /\ todo'[t] = ss
  BY DEF Begin, IInv, LocksTypeOK
<1>2. CountHolds(n, t)'
  BY <1>1 DEF CountHolds, LockedBefore, StillTo
<1>3. SourceIsLive(t)'
  BY <1>1 DEF SourceIsLive, LockedBefore, StillTo
<1>4. WithdrawsLocked(t)'
  BY <1>1 DEF WithdrawsLocked, StillTo
<1>5. QED
  BY <1>2, <1>3, <1>4

\* What a step of t leaves true of the others.
LEMMA OthersKeep ==
    ASSUME NEW n, NEW t \in Transactions, NEW u \in Transactions \ {t},
           running'[u] = running[u], todo'[u] = todo[u], held'[u] = held[u],
           active' = active, CountHolds(n, u), SourceIsLive(u), WithdrawsLocked(u)
    PROVE  CountHolds(n, u)' /\ SourceIsLive(u)' /\ WithdrawsLocked(u)'
BY DEF CountHolds, SourceIsLive, WithdrawsLocked, LockedBefore, StillTo, StockWith

LEMMA BeginKeepsStock ==
    ASSUME NEW n \in Nat, Limits \subseteq 0..n, StockInv(n), IInv',
           NEW t \in Transactions, NEW kind, NEW d, NEW e, NEW ss,
           Begin(t, kind, d, e, ss), CountHolds(n, t)' /\ SourceIsLive(t)' /\ WithdrawsLocked(t)'
    PROVE  StockInv(n)'
<1>1. /\ UNCHANGED <<active, limit, held>>
      /\ \A u \in Transactions \ {t} : running'[u] = running[u] /\ todo'[u] = todo[u]
  BY DEF Begin, StockInv, IInv, LocksTypeOK
<1>2. \A u \in Transactions \ {t} : CountHolds(n, u)' /\ SourceIsLive(u)' /\ WithdrawsLocked(u)'
  BY <1>1, OthersKeep DEF StockInv
<1>3. Exclusion' /\ IsFiniteSet(LiveDocuments(active))' /\ (LiveStockOf(active) <= n)'
  BY <1>1 DEF StockInv, Exclusion
<1>4. QED
  BY <1>2, <1>3 DEF StockInv

LEMMA CallKeepsStock ==
    ASSUME NEW n \in Nat, Limits \subseteq 0..n, StockInv(n), IInv',
           NEW t \in Transactions,
           \/ ActivateCompiledArtifact(t) \/ PromoteVerifiedPublication(t)
           \/ CreateReleaseApproval(t) \/ CreatePublicationVerification(t)
           \/ RecoverDocumentRelease(t) \/ CreateDeploymentSchedule(t)
           \/ ProcessStartJob(t) \/ ProcessEndJob(t)
           \/ UpdateEnvironmentReleasePolicy(t) \/ UpdateWorkspaceEnvironmentPolicy(t)
           \/ UpdateWorkspaceMemberRole(t) \/ ChangeWorkspaceSubscription(t)
    PROVE  StockInv(n)'
<1>1. IInv /\ Staging \in Environments /\ Production \in Environments
  BY DEF Environments, StockInv
<1> DEFINE Kept == CountHolds(n, t)' /\ SourceIsLive(t)' /\ WithdrawsLocked(t)'
<1>2. CASE ActivateCompiledArtifact(t)
  <2>1. PICK d \in Documents, e \in Environments : Begin(t, "publish", d, e, PublishStatements(d, e))
    BY <1>2 DEF ActivateCompiledArtifact
  <2> DEFINE ss == PublishStatements(d, e)
  <2>2. Len(ss) = 7 /\ ss[4] = Exclusive(LiveStock) /\ ss[5] = CountStock
    BY DEF PublishStatements
  <2> HIDE DEF ss
  <2>3. \E i, j \in 1..Len(ss) : i < j /\ ss[i] = Exclusive(LiveStock) /\ ss[j] = CountStock
    BY <2>2
  <2>4. Kept
    BY <1>1, <2>1, <2>3, Beginnings DEF ss
  <2>5. QED
    BY <2>1, <2>4, BeginKeepsStock
<1>3. CASE PromoteVerifiedPublication(t)
  <2>1. PICK d \in Documents, scan \in ScanOrders :
            Begin(t, "promote", d, Production, PromoteStatements(d, scan))
    BY <1>3 DEF PromoteVerifiedPublication
  <2> DEFINE ss == PromoteStatements(d, scan)
  <2>2. /\ Len(ss) = 7 /\ ss[3] = LockDocument(d, First) /\ ss[4] = LockDocument(d, Second)
        /\ ss[7] = ReadActive(d, Staging)
    BY SortedLocks DEF PromoteStatements
  <2> HIDE DEF ss
  <2>3. ss[3] = LockDocument(d, Staging) \/ ss[4] = LockDocument(d, Staging)
    BY <1>1, <2>2, TwoEnvironments
  <2>4. \E i, j \in 1..Len(ss) : /\ i < j /\ ss[i] = LockDocument(d, Staging)
                                 /\ ss[j] = ReadActive(d, Staging)
    BY <2>2, <2>3
  <2>5. Kept
    BY <1>1, <2>1, <2>4, Beginnings DEF ss
  <2>6. QED
    BY <2>1, <2>5, BeginKeepsStock
<1>4. CASE RecoverDocumentRelease(t)
  <2>1. PICK d \in Documents, e \in Environments :
            Begin(t, "unpublish", d, e, UnpublishStatements(d, e))
    BY <1>4 DEF RecoverDocumentRelease
  <2> DEFINE ss == UnpublishStatements(d, e)
  <2>2. Len(ss) = 5 /\ ss[1] = LockDocument(d, e)
    BY DEF UnpublishStatements
  <2> HIDE DEF ss
  <2>3. \E i \in 1..Len(ss) : ss[i] = LockDocument(d, e)
    BY <2>2
  <2>4. Kept
    BY <1>1, <2>1, <2>3, Beginnings DEF ss
  <2>5. QED
    BY <2>1, <2>4, BeginKeepsStock
<1>5. CASE ProcessStartJob(t)
  <2>1. PICK d \in Documents, e \in Environments : Begin(t, "start", d, e, StartStatements(d, e))
    BY <1>5 DEF ProcessStartJob
  <2> DEFINE ss == StartStatements(d, e)
  <2>2. Len(ss) = 4 /\ ss[2] = Exclusive(LiveStock) /\ ss[4] = CountStock
    BY DEF StartStatements
  <2> HIDE DEF ss
  <2>3. \E i, j \in 1..Len(ss) : i < j /\ ss[i] = Exclusive(LiveStock) /\ ss[j] = CountStock
    BY <2>2
  <2>4. Kept
    BY <1>1, <2>1, <2>3, Beginnings DEF ss
  <2>5. QED
    BY <2>1, <2>4, BeginKeepsStock
<1>6. CASE ProcessEndJob(t)
  <2>1. PICK d \in Documents, e \in Environments : Begin(t, "end", d, e, EndStatements(d, e))
    BY <1>6 DEF ProcessEndJob
  <2> DEFINE ss == EndStatements(d, e)
  <2>2. Len(ss) = 2 /\ ss[1] = LockDocument(d, e)
    BY DEF EndStatements
  <2> HIDE DEF ss
  <2>3. \E i \in 1..Len(ss) : ss[i] = LockDocument(d, e)
    BY <2>2
  <2>4. Kept
    BY <1>1, <2>1, <2>3, Beginnings DEF ss
  <2>5. QED
    BY <2>1, <2>4, BeginKeepsStock
<1>7. ASSUME NEW kind \in {"approve", "verify", "schedule", "approvalCount", "environmentPolicy",
                           "memberRole", "changePlan"},
             NEW d \in Documents, NEW e \in Environments, NEW ss, Begin(t, kind, d, e, ss)
      PROVE  StockInv(n)'
  <2>1. Kept
    BY <1>1, <1>7, Beginnings
  <2>2. QED
    BY <1>7, <2>1, BeginKeepsStock
<1>8. QED
  BY <1>1, <1>2, <1>3, <1>4, <1>5, <1>6, <1>7
  DEF CreateReleaseApproval, CreatePublicationVerification, CreateDeploymentSchedule,
      UpdateEnvironmentReleasePolicy, UpdateWorkspaceEnvironmentPolicy,
      UpdateWorkspaceMemberRole, ChangeWorkspaceSubscription

\* The first statement of t runs; if it takes a lock, t holds it.
Runs(t) ==
    /\ todo[t] # <<>> /\ Advance(t)
    /\ UNCHANGED <<active, limit, running, overtaken>>
    /\ \/ TakesLock(Head(todo[t])) /\ held' = [held EXCEPT ![t] = @ \union {Head(todo[t])}]
       \/ ~TakesLock(Head(todo[t])) /\ held' = held

LEMMA OneStatementLess ==
    ASSUME IInv, NEW t \in Transactions, Runs(t)
    PROVE  /\ \A s : StillTo(t, s) => s = Head(todo[t]) \/ StillTo(t, s)'
           /\ \A l, r : LockedBefore(t, l, r) /\ TakesLock(l) => LockedBefore(t, l, r)'
           /\ held[t] \subseteq held'[t]
           /\ TakesLock(Head(todo[t])) => Head(todo[t]) \in held'[t]
<1>1. /\ todo[t] \in Seq(Statement) /\ todo[t] # <<>>
      /\ todo'[t] = Tail(todo[t])
      /\ \/ ~TakesLock(Head(todo[t])) /\ held'[t] = held[t]
         \/ held'[t] = held[t] \union {Head(todo[t])}
  BY DEF IInv, LocksTypeOK, Runs, Advance
<1>2. /\ Len(todo[t]) \in Nat /\ Head(todo[t]) = todo[t][1] /\ Len(todo'[t]) = Len(todo[t]) - 1
      /\ \A i \in 1..Len(todo[t]) : i # 1 =>
             i - 1 \in 1..Len(todo'[t]) /\ todo'[t][i - 1] = todo[t][i]
  BY <1>1
<1>3. ASSUME NEW s, StillTo(t, s)
      PROVE  s = Head(todo[t]) \/ StillTo(t, s)'
  <2>1. PICK i \in 1..Len(todo[t]) : todo[t][i] = s
    BY <1>3 DEF StillTo
  <2>2. i # 1 => i - 1 \in 1..Len(todo'[t]) /\ todo'[t][i - 1] = s
    BY <1>2, <2>1
  <2>3. QED
    BY <1>2, <2>1, <2>2 DEF StillTo
<1>4. ASSUME NEW l, NEW r, LockedBefore(t, l, r), TakesLock(l)
      PROVE  LockedBefore(t, l, r)'
  <2>1. CASE l \in held[t]
    BY <1>1, <2>1 DEF LockedBefore
  <2>2. ASSUME NEW i \in 1..Len(todo[t]), NEW j \in 1..Len(todo[t]), i < j,
               todo[t][i] = l, todo[t][j] = r
        PROVE  LockedBefore(t, l, r)'
    <3>1. CASE i = 1
      BY <1>1, <1>2, <1>4, <2>2, <3>1 DEF LockedBefore
    <3>2. CASE i # 1
      <4>1. /\ i - 1 \in 1..Len(todo'[t]) /\ todo'[t][i - 1] = l
            /\ j - 1 \in 1..Len(todo'[t]) /\ todo'[t][j - 1] = r /\ i - 1 < j - 1
        BY <1>2, <2>2, <3>2
      <4>2. QED
        BY <4>1 DEF LockedBefore
    <3>3. QED
      BY <3>1, <3>2
  <2>3. QED
    BY <1>4, <2>1, <2>2 DEF LockedBefore
<1>5. QED
  BY <1>1, <1>3, <1>4

LEMMA LocksAndReads ==
    /\ \A l : TakesLock(Exclusive(l)) /\ Exclusive(l).mode = "exclusive" /\ Exclusive(l).lock = l
    /\ ~TakesLock(CountStock)
    /\ \A d, e : ~TakesLock(ReadActive(d, e)) /\ ReadActive(d, e) # CountStock
    /\ \A d, e, x, y : ReadActive(d, e) = ReadActive(x, y) => d = x /\ e = y
BY DEF TakesLock, LockModes, Exclusive, CountStock, ReadActive, DocumentLock

LEMMA WithOneMore ==
    ASSUME NEW n \in Nat, IsFiniteSet(LiveDocuments(active)), LiveStockOf(active) <= n,
           limit \in 0..n, NEW d,
           d \in LiveDocuments(active) \/ LiveStockOf(active) + 1 <= limit
    PROVE  Cardinality(StockWith(d)) <= n
<1>1. CASE d \in LiveDocuments(active)
  <2>1. StockWith(d) = LiveDocuments(active)
    BY <1>1 DEF StockWith
  <2>2. QED
    BY <2>1 DEF LiveStockOf
<1>2. CASE d \notin LiveDocuments(active)
  <2> DEFINE live == LiveDocuments(active)
  <2>1. Cardinality(live \union {d}) = Cardinality(live) + 1
    BY <1>2, FS_AddElement
  <2>2. Cardinality(live) \in Nat /\ Cardinality(live) + 1 <= n
    BY <1>2, FS_CardinalityType DEF LiveStockOf
  <2>3. QED
    BY <2>1, <2>2 DEF StockWith
<1>3. QED
  BY <1>1, <1>2

LEMMA StatementKeepsStock ==
    ASSUME NEW n \in Nat, Limits \subseteq 0..n, StockInv(n), IInv',
           NEW t \in Transactions, Runs(t), Exclusion',
           Head(todo[t]) = CountStock =>
               \/ running[t].document \in LiveDocuments(active)
               \/ LiveStockOf(active) + 1 <= limit,
           \A d, e : Head(todo[t]) = ReadActive(d, e) => <<d, e>> \in active
    PROVE  StockInv(n)'
<1>1. /\ IInv /\ limit \in 0..n
      /\ UNCHANGED <<active, limit, running>>
      /\ \A u \in Transactions \ {t} : todo'[u] = todo[u] /\ held'[u] = held[u]
  BY DEF StockInv, IInv, LocksTypeOK, Runs, Advance
<1>2. \A u \in Transactions \ {t} : CountHolds(n, u)' /\ SourceIsLive(u)' /\ WithdrawsLocked(u)'
  BY <1>1, OthersKeep DEF StockInv
<1>3. CountHolds(n, t) /\ SourceIsLive(t) /\ WithdrawsLocked(t)
  BY DEF StockInv
<1>4. CountHolds(n, t)'
  <2>1. SUFFICES ASSUME running[t].kind \in {"publish", "start"}
                 PROVE  /\ LockedBefore(t, Exclusive(LiveStock), CountStock)'
                        /\ \/ StillTo(t, CountStock)'
                           \/ Cardinality(StockWith(running[t].document)) <= n
    BY <1>1 DEF CountHolds, StockWith
  <2>2. LockedBefore(t, Exclusive(LiveStock), CountStock)'
    BY <1>1, <1>3, <2>1, OneStatementLess, LocksAndReads DEF CountHolds
  <2>3. CASE Head(todo[t]) = CountStock
    BY <1>1, <2>2, <2>3, WithOneMore DEF StockInv
  <2>4. CASE Head(todo[t]) # CountStock
    BY <1>1, <1>3, <2>1, <2>2, <2>4, OneStatementLess DEF CountHolds
  <2>5. QED
    BY <2>3, <2>4
<1>5. SourceIsLive(t)'
  <2>1. SUFFICES ASSUME NEW d, d = running[t].document, running[t].kind = "promote"
                 PROVE  /\ running[t].environment = Production
                        /\ LockedBefore(t, LockDocument(d, Staging), ReadActive(d, Staging))'
                        /\ StillTo(t, ReadActive(d, Staging))' \/ <<d, Staging>> \in active
    BY <1>1 DEF SourceIsLive
  <2>2. /\ running[t].environment = Production
        /\ LockedBefore(t, LockDocument(d, Staging), ReadActive(d, Staging))
        /\ StillTo(t, ReadActive(d, Staging)) \/ <<d, Staging>> \in active
    BY <1>3, <2>1 DEF SourceIsLive
  <2>3. LockedBefore(t, LockDocument(d, Staging), ReadActive(d, Staging))'
    BY <1>1, <2>2, OneStatementLess, LocksAndReads DEF LockDocument
  <2>4. QED
    BY <1>1, <2>2, <2>3, OneStatementLess
<1>6. WithdrawsLocked(t)'
  BY <1>1, <1>3, OneStatementLess, LocksAndReads DEF WithdrawsLocked, LockDocument
<1>7. IsFiniteSet(LiveDocuments(active))' /\ (LiveStockOf(active) <= n)'
  BY <1>1 DEF StockInv
<1>8. QED
  BY <1>2, <1>4, <1>5, <1>6, <1>7 DEF StockInv

LEMMA StatementsKeepStock ==
    ASSUME NEW n \in Nat, Limits \subseteq 0..n, StockInv(n), IInv',
           NEW t \in Transactions,
           AcquireLock(t) \/ CountLiveStock(t) \/ FindDocumentDeployment(t)
    PROVE  StockInv(n)'
<1>1. CASE AcquireLock(t)
  <2>1. /\ Runs(t) /\ TakesLock(Head(todo[t]))
        /\ \A u \in Transactions \ {t} : \A g \in held[u] : ~Conflict(Head(todo[t]), g)
    BY <1>1 DEF AcquireLock, Runs, WaitsFor
  <2>2. /\ held \in [Transactions -> SUBSET Statement]
        /\ held' = [held EXCEPT ![t] = @ \union {Head(todo[t])}]
    BY <1>1 DEF AcquireLock, StockInv, IInv, LocksTypeOK
  <2>3. \A h, g : Conflict(h, g) => Conflict(g, h)
    BY DEF Conflict
  <2>4. Exclusion'
    BY <2>1, <2>2, <2>3 DEF StockInv, Exclusion
  <2>5. QED
    BY <2>1, <2>4, LocksAndReads, StatementKeepsStock
<1>2. CASE CountLiveStock(t)
  <2>1. Head(todo[t]) = CountStock /\ Runs(t) /\ held' = held
    BY <1>2, LocksAndReads DEF CountLiveStock, Runs
  <2>2. Exclusion'
    BY <2>1 DEF StockInv, Exclusion
  <2>3. QED
    BY <1>2, <2>1, <2>2, LocksAndReads, StatementKeepsStock DEF CountLiveStock
<1>3. CASE FindDocumentDeployment(t)
  <2>1. active \subseteq Documents \X Environments
    BY DEF StockInv, IInv, LocksTypeOK
  <2>2. \/ Head(todo[t]).mode = "generation"
        \/ \E d \in Documents, e \in Environments :
               <<d, e>> \in active /\ Head(todo[t]) = ReadActive(d, e)
    BY <1>3, <2>1 DEF FindDocumentDeployment
  <2>3. /\ ~TakesLock(Head(todo[t])) /\ Head(todo[t]) # CountStock
        /\ \A d, e : Head(todo[t]) = ReadActive(d, e) => <<d, e>> \in active
    <3>1. CASE Head(todo[t]).mode = "generation"
      BY <3>1 DEF TakesLock, LockModes, CountStock, ReadActive
    <3>2. CASE \E d \in Documents, e \in Environments :
                   <<d, e>> \in active /\ Head(todo[t]) = ReadActive(d, e)
      BY <3>2, LocksAndReads
    <3>3. QED
      BY <2>2, <3>1, <3>2
  <2>4. Runs(t) /\ held' = held
    BY <1>3, <2>3 DEF FindDocumentDeployment, Runs
  <2>5. Exclusion'
    BY <2>4 DEF StockInv, Exclusion
  <2>6. QED
    BY <2>3, <2>4, <2>5, StatementKeepsStock
<1>4. QED
  BY <1>1, <1>2, <1>3

-----------------------------------------------------------------------------
(***************************************************************************)
(* Commits.  Two of them that add to the stock, or that one adds on        *)
(* account of what the other withdraws, hold the same lock.                *)
(***************************************************************************)
LEMMA OneHolder ==
    ASSUME NEW n, StockInv(n), NEW t \in Transactions, NEW u \in Transactions, NEW l,
           Exclusive(l) \in held[t], Exclusive(l) \in held[u]
    PROVE  t = u
BY LocksAndReads DEF StockInv, Exclusion, Conflict

\* A committing transaction has run its statements.
LEMMA NothingLeft ==
    ASSUME NEW t, todo[t] = <<>>
    PROVE  /\ \A s : ~StillTo(t, s)
           /\ \A l, r : LockedBefore(t, l, r) => l \in held[t]
BY DEF StillTo, LockedBefore

LEMMA LiveWithOneMore ==
    ASSUME NEW S, NEW d, NEW e
    PROVE  LiveDocuments(S \union {<<d, e>>}) = LiveDocuments(S) \union {d}
<1> DEFINE p == <<d, e>>
<1>1. p[1] = d
  OBVIOUS
<1> HIDE DEF p
<1>2. LiveDocuments(S \union {p}) \subseteq LiveDocuments(S) \union {d}
  BY <1>1 DEF LiveDocuments
<1>3. d \in LiveDocuments(S \union {p}) /\ LiveDocuments(S) \subseteq LiveDocuments(S \union {p})
  BY <1>1 DEF LiveDocuments
<1>4. QED
  BY <1>2, <1>3 DEF p

LEMMA ReleasedKeeps ==
    ASSUME NEW n, StockInv(n), NEW t \in Transactions, Release(t)
    PROVE  /\ Exclusion'
           /\ CountHolds(n, t)' /\ SourceIsLive(t)' /\ WithdrawsLocked(t)'
           /\ \A u \in Transactions \ {t} :
                  running'[u] = running[u] /\ todo'[u] = todo[u] /\ held'[u] = held[u]
<1>1. /\ running'[t] = Idle /\ held'[t] = {}
      /\ \A u \in Transactions \ {t} :
             running'[u] = running[u] /\ todo'[u] = todo[u] /\ held'[u] = held[u]
  BY DEF Release, StockInv, IInv, LocksTypeOK
<1>2. Exclusion'
  BY <1>1 DEF StockInv, Exclusion
<1>3. Idle.kind = "idle"
  BY DEF Idle
<1>4. QED
  BY <1>1, <1>2, <1>3 DEF CountHolds, SourceIsLive, WithdrawsLocked

\* What is live after a commit: the stock stays within the limit, also with
\* what another transaction has counted, and nothing another has found live
\* and locked is withdrawn.
LEMMA CommitKeepsStock ==
    ASSUME NEW n \in Nat, Limits \subseteq 0..n, StockInv(n), IInv',
           NEW t \in Transactions, Commit(t)
    PROVE  StockInv(n)'
<1> DEFINE c == running[t]
           live == LiveDocuments(active)
<1>1. /\ c \in Call /\ todo[t] = <<>>
      /\ active \subseteq Documents \X Environments
      /\ active' = (active \ Withdrawn(c)) \union Served(c)
      /\ Release(t)
  BY DEF StockInv, IInv, LocksTypeOK, Commit
<1>2. CountHolds(n, t) /\ SourceIsLive(t) /\ WithdrawsLocked(t)
  BY DEF StockInv
<1>3. IsFiniteSet(live) /\ Cardinality(live) <= n
  BY DEF StockInv, LiveStockOf
<1>4. /\ c.kind \in {"publish", "start"} =>
            /\ Exclusive(LiveStock) \in held[t]
            /\ Cardinality(live \union {c.document}) <= n
      /\ c.kind = "promote" => <<c.document, Staging>> \in active
      /\ c.kind \in {"unpublish", "end"} =>
            LockDocument(c.document, c.environment) \in held[t]
  BY <1>1, <1>2, NothingLeft DEF CountHolds, SourceIsLive, WithdrawsLocked, StockWith
<1>5. /\ c.kind \in {"publish", "start"} => LiveDocuments(active') = live \union {c.document}
      /\ c.kind \notin {"publish", "start"} => LiveDocuments(active') \subseteq live
  <2>1. CASE c.kind \in {"publish", "start"}
    <3>1. active' = active \union {<<c.document, c.environment>>}
      BY <1>1, <2>1 DEF Served, Withdrawn
    <3>2. QED
      BY <2>1, <3>1, LiveWithOneMore
  <2>2. CASE c.kind = "promote"
    <3>1. active' = active \union {<<c.document, c.environment>>}
      BY <1>1, <2>2 DEF Served, Withdrawn
    <3>2. c.document \in live
      BY <1>4, <2>2 DEF LiveDocuments
    <3>3. QED
      BY <2>2, <3>1, <3>2 DEF LiveDocuments
  <2>3. CASE c.kind \notin {"publish", "start", "promote"}
    <3>1. active' \subseteq active
      BY <1>1, <2>3 DEF Served
    <3>2. QED
      BY <2>3, <3>1 DEF LiveDocuments
  <2>4. QED
    BY <2>1, <2>2, <2>3
<1>6. IsFiniteSet(LiveDocuments(active')) /\ Cardinality(LiveDocuments(active')) <= n
  <2>1. CASE c.kind \in {"publish", "start"}
    BY <1>3, <1>4, <1>5, <2>1, FS_AddElement
  <2>2. CASE c.kind \notin {"publish", "start"}
    <3>1. /\ IsFiniteSet(LiveDocuments(active'))
          /\ Cardinality(LiveDocuments(active')) <= Cardinality(live)
      BY <1>3, <1>5, <2>2, FS_Subset
    <3>2. /\ Cardinality(LiveDocuments(active')) \in Nat /\ Cardinality(live) \in Nat
      BY <1>3, <3>1, FS_CardinalityType
    <3>3. QED
      BY <1>1, <1>3, <3>1, <3>2
  <2>3. QED
    BY <2>1, <2>2
<1>7. /\ Exclusion'
      /\ CountHolds(n, t)' /\ SourceIsLive(t)' /\ WithdrawsLocked(t)'
      /\ \A u \in Transactions \ {t} :
             running'[u] = running[u] /\ todo'[u] = todo[u] /\ held'[u] = held[u]
  BY <1>1, ReleasedKeeps
<1>8. ASSUME NEW u \in Transactions \ {t}
      PROVE  CountHolds(n, u)' /\ SourceIsLive(u)' /\ WithdrawsLocked(u)'
  <2> DEFINE d == running[u].document
  <2>1. /\ CountHolds(n, u) /\ SourceIsLive(u) /\ WithdrawsLocked(u)
        /\ running'[u] = running[u] /\ todo'[u] = todo[u] /\ held'[u] = held[u]
    BY <1>7 DEF StockInv
  <2>2. /\ \A s : StillTo(u, s)' <=> StillTo(u, s)
        /\ \A l, r : LockedBefore(u, l, r)' <=> LockedBefore(u, l, r)
    BY <2>1 DEF StillTo, LockedBefore
  <2>3. CountHolds(n, u)'
    <3>1. SUFFICES ASSUME running[u].kind \in {"publish", "start"}, ~StillTo(u, CountStock)
                   PROVE  Cardinality(LiveDocuments(active') \union {d}) <= n
      BY <2>1, <2>2 DEF CountHolds, StockWith
    <3>2. /\ Exclusive(LiveStock) \in held[u]
          /\ Cardinality(live \union {d}) <= n
      BY <2>1, <3>1 DEF CountHolds, StockWith, LockedBefore, StillTo
    <3>3. c.kind \notin {"publish", "start"}
      BY <1>4, <3>2, OneHolder
    <3>4. LiveDocuments(active') \union {d} \subseteq live \union {d}
      BY <1>5, <3>3
    <3>5. IsFiniteSet(live \union {d})
      BY <1>3, FS_AddElement
    <3>6. /\ Cardinality(LiveDocuments(active') \union {d}) <= Cardinality(live \union {d})
          /\ IsFiniteSet(LiveDocuments(active') \union {d})
      BY <3>4, <3>5, FS_Subset
    <3>7. /\ Cardinality(LiveDocuments(active') \union {d}) \in Nat
          /\ Cardinality(live \union {d}) \in Nat
      BY <3>5, <3>6, FS_CardinalityType
    <3>8. QED
      BY <1>1, <3>2, <3>6, <3>7
  <2>4. SourceIsLive(u)'
    <3>1. SUFFICES ASSUME running[u].kind = "promote", ~StillTo(u, ReadActive(d, Staging))
                   PROVE  <<d, Staging>> \in active'
      BY <2>1, <2>2 DEF SourceIsLive
    <3>2. <<d, Staging>> \in active /\ LockDocument(d, Staging) \in held[u]
      BY <2>1, <3>1 DEF SourceIsLive, LockedBefore, StillTo
    <3>3. <<d, Staging>> \notin Withdrawn(c)
      <4>1. SUFFICES ASSUME c.kind \in {"unpublish", "end"},
                            c.document = d, c.environment = Staging
                     PROVE  FALSE
        BY DEF Withdrawn
      <4>2. QED
        BY <1>4, <3>2, <4>1, OneHolder DEF LockDocument
    <3>4. QED
      BY <1>1, <3>2, <3>3
  <2>5. WithdrawsLocked(u)'
    BY <2>1, <2>2 DEF WithdrawsLocked
  <2>6. QED
    BY <2>3, <2>4, <2>5
<1>9. QED
  BY <1>6, <1>7, <1>8 DEF StockInv, LiveStockOf

LEMMA RollbackKeepsStock ==
    ASSUME NEW n \in Nat, Limits \subseteq 0..n, StockInv(n), IInv',
           NEW t \in Transactions, Rollback(t)
    PROVE  StockInv(n)'
<1>1. Release(t) /\ UNCHANGED <<active, limit>>
  BY DEF Rollback
<1>2. \A u \in Transactions \ {t} : CountHolds(n, u)' /\ SourceIsLive(u)' /\ WithdrawsLocked(u)'
  BY <1>1, ReleasedKeeps, OthersKeep DEF StockInv
<1>3. IsFiniteSet(LiveDocuments(active))' /\ (LiveStockOf(active) <= n)'
  BY <1>1 DEF StockInv
<1>4. QED
  BY <1>1, <1>2, <1>3, ReleasedKeeps DEF StockInv

LEMMA InitStock ==
    ASSUME NEW n \in Nat, Init
    PROVE  StockInv(n)
<1>1. IInv
  BY InitIInv
<1>2. LiveDocuments(active) = {}
  BY DEF Init, LiveDocuments
<1>3. \A t \in Transactions : running[t].kind = "idle" /\ held[t] = {}
  BY DEF Init, Idle
<1>4. IsFiniteSet(LiveDocuments(active)) /\ LiveStockOf(active) <= n
  BY <1>2, FS_EmptySet DEF LiveStockOf
<1>5. QED
  BY <1>1, <1>3, <1>4
  DEF StockInv, Exclusion, CountHolds, SourceIsLive, WithdrawsLocked

LEMMA NextStock ==
    ASSUME NEW n \in Nat, Limits \subseteq 0..n, StockInv(n), [Next]_vars
    PROVE  StockInv(n)'
<1>1. IInv'
  BY NextIInv DEF StockInv
<1>2. CASE UNCHANGED vars
  BY <1>1, <1>2 DEF vars, StockInv, Exclusion, CountHolds, SourceIsLive,
     WithdrawsLocked, LockedBefore, StillTo, StockWith
<1>3. QED
  BY <1>1, <1>2, CallKeepsStock, StatementsKeepStock, CommitKeepsStock, RollbackKeepsStock DEF Next

(***************************************************************************)
(* Whatever the plans allow and whenever the plan changes, the workspace   *)
(* never serves more documents than the largest limit allows, for any      *)
(* number of connections and documents: the count that a publish or a      *)
(* start relies on cannot be outrun, and promotions add no document.       *)
(***************************************************************************)
THEOREM StockStaysWithinLargestLimit ==
    ASSUME NEW n \in Nat, Limits \subseteq 0..n
    PROVE  Spec => [](LiveStockOf(active) <= n)
<1>1. Init => StockInv(n)
  BY InitStock
<1>2. StockInv(n) /\ [Next]_vars => StockInv(n)'
  BY NextStock
<1>3. StockInv(n) => LiveStockOf(active) <= n
  BY DEF StockInv
<1>4. QED
  BY <1>1, <1>2, <1>3, PTL DEF Spec

(***************************************************************************)
(* While all plans have one limit, the live stock stays within the limit   *)
(* of the plan.  After a downgrade it may be above, and a publish that     *)
(* counted before it may even add to it.                                   *)
(***************************************************************************)
THEOREM StockStaysWithinLimit ==
    ASSUME NEW n, Limits = {n}
    PROVE  Spec => []LiveStockWithinLimit
<1>1. n \in Nat /\ Limits \subseteq 0..n
  BY LimitsAreCounts
<1>2. Spec => [](LiveStockOf(active) <= n)
  BY <1>1, StockStaysWithinLargestLimit
<1>3. LocksTypeOK /\ LiveStockOf(active) <= n => LiveStockWithinLimit
  BY DEF LocksTypeOK, LiveStockWithinLimit
<1>4. QED
  BY <1>2, <1>3, LocksTypes, PTL

-----------------------------------------------------------------------------
(***************************************************************************)
(* What each operation has looked up stays as it is.  Whoever moves a      *)
(* deployment holds its document lock, and so does whoever has compared    *)
(* its generation or found it live, until the end.                         *)
(***************************************************************************)
Movers == {"publish", "promote", "start", "unpublish", "end"}
OwnLock(t) == LockDocument(running[t].document, running[t].environment)

MovesLocked(t) ==
    running[t].kind \in Movers => OwnLock(t) \in held[t] \/ StillTo(t, OwnLock(t))

Compared(t) ==
    LET r == CompareGeneration(running[t].document, running[t].environment)
    IN  running[t].kind = "publish" =>
            LockedBefore(t, OwnLock(t), r) /\ (StillTo(t, r) \/ t \notin overtaken)

FoundLive(t) ==
    LET r == ReadActive(running[t].document, running[t].environment)
    IN  running[t].kind \in {"unpublish", "end"} =>
            /\ LockedBefore(t, OwnLock(t), r)
            /\ StillTo(t, r) \/ <<running[t].document, running[t].environment>> \in active

Reads(t) == MovesLocked(t) /\ Compared(t) /\ FoundLive(t)

ReadsInv(n) == StockInv(n) /\ \A t \in Transactions : Reads(t)

LEMMA LocksFirst ==
    ASSUME NEW t \in Transactions, NEW kind, NEW d \in Documents, NEW e \in Environments, NEW ss,
           IInv, Begin(t, kind, d, e, ss),
           kind \in Movers => \E i \in 1..Len(ss) : ss[i] = LockDocument(d, e),
           kind = "publish" =>
               \E i, j \in 1..Len(ss) : /\ i < j /\ ss[i] = LockDocument(d, e)
                                        /\ ss[j] = CompareGeneration(d, e),
           kind \in {"unpublish", "end"} =>
               \E i, j \in 1..Len(ss) : /\ i < j /\ ss[i] = LockDocument(d, e)
                                        /\ ss[j] = ReadActive(d, e)
    PROVE  Reads(t)'
<1>1. /\ running'[t] = [kind |-> kind, document |-> d, environment |-> e]
      /\ todo'[t] = ss
  BY DEF Begin, IInv, LocksTypeOK
<1>2. /\ running'[t].kind = kind /\ running'[t].document = d /\ running'[t].environment = e
  BY <1>1
<1>3. MovesLocked(t)'
  BY <1>1, <1>2 DEF MovesLocked, OwnLock, StillTo
<1>4. Compared(t)'
  <2>1. SUFFICES ASSUME kind = "publish"
                 PROVE  /\ LockedBefore(t, LockDocument(d, e), CompareGeneration(d, e))'
                        /\ StillTo(t, CompareGeneration(d, e))'
    BY <1>2 DEF Compared, OwnLock
  <2>2. PICK i, j \in 1..Len(ss) : /\ i < j /\ ss[i] = LockDocument(d, e)
                                   /\ ss[j] = CompareGeneration(d, e)
    BY <2>1
  <2>3. QED
    BY <1>1, <2>2 DEF LockedBefore, StillTo
<1>5. FoundLive(t)'
  <2>1. SUFFICES ASSUME kind \in {"unpublish", "end"}
                 PROVE  /\ LockedBefore(t, LockDocument(d, e), ReadActive(d, e))'
                        /\ StillTo(t, ReadActive(d, e))'
    BY <1>2 DEF FoundLive, OwnLock
  <2>2. PICK i, j \in 1..Len(ss) : /\ i < j /\ ss[i] = LockDocument(d, e)
                                   /\ ss[j] = ReadActive(d, e)
    BY <2>1
  <2>3. QED
    BY <1>1, <2>2 DEF LockedBefore, StillTo
<1>6. QED
  BY <1>3, <1>4, <1>5 DEF Reads

\* What a step of t leaves true of the others.
LEMMA OthersRead ==
    ASSUME NEW t \in Transactions, NEW u \in Transactions \ {t}, Reads(u),
           running'[u] = running[u], todo'[u] = todo[u], held'[u] = held[u],
           active' = active, u \in overtaken' => u \in overtaken
    PROVE  Reads(u)'
BY DEF Reads, MovesLocked, Compared, FoundLive, OwnLock, LockedBefore, StillTo

LEMMA BeginReads ==
    ASSUME NEW n, ReadsInv(n), NEW t \in Transactions, NEW kind, NEW d, NEW e, NEW ss,
           Begin(t, kind, d, e, ss), Reads(t)'
    PROVE  \A u \in Transactions : Reads(u)'
<1>1. /\ UNCHANGED <<active, overtaken, held>>
      /\ \A u \in Transactions \ {t} : running'[u] = running[u] /\ todo'[u] = todo[u]
  BY DEF Begin, ReadsInv, StockInv, IInv, LocksTypeOK
<1>2. QED
  BY <1>1, OthersRead DEF ReadsInv

LEMMA CallReads ==
    ASSUME NEW n, ReadsInv(n), NEW t \in Transactions,
           \/ ActivateCompiledArtifact(t) \/ PromoteVerifiedPublication(t)
           \/ CreateReleaseApproval(t) \/ CreatePublicationVerification(t)
           \/ RecoverDocumentRelease(t) \/ CreateDeploymentSchedule(t)
           \/ ProcessStartJob(t) \/ ProcessEndJob(t)
           \/ UpdateEnvironmentReleasePolicy(t) \/ UpdateWorkspaceEnvironmentPolicy(t)
           \/ UpdateWorkspaceMemberRole(t) \/ ChangeWorkspaceSubscription(t)
    PROVE  \A u \in Transactions : Reads(u)'
<1>1. IInv /\ Staging \in Environments /\ Production \in Environments
  BY DEF Environments, ReadsInv, StockInv
<1> DEFINE Kept == \A u \in Transactions : Reads(u)'
<1>2. CASE ActivateCompiledArtifact(t)
  <2>1. PICK d \in Documents, e \in Environments : Begin(t, "publish", d, e, PublishStatements(d, e))
    BY <1>2 DEF ActivateCompiledArtifact
  <2> DEFINE ss == PublishStatements(d, e)
  <2>2. Len(ss) = 7 /\ ss[6] = LockDocument(d, e) /\ ss[7] = CompareGeneration(d, e)
    BY DEF PublishStatements
  <2> HIDE DEF ss
  <2>3. /\ \E i \in 1..Len(ss) : ss[i] = LockDocument(d, e)
        /\ \E i, j \in 1..Len(ss) : /\ i < j /\ ss[i] = LockDocument(d, e)
                                    /\ ss[j] = CompareGeneration(d, e)
    BY <2>2
  <2>4. Reads(t)'
    BY <1>1, <2>1, <2>3, LocksFirst DEF ss
  <2>5. QED
    BY <2>1, <2>4, BeginReads
<1>3. CASE PromoteVerifiedPublication(t)
  <2>1. PICK d \in Documents, scan \in ScanOrders :
            Begin(t, "promote", d, Production, PromoteStatements(d, scan))
    BY <1>3 DEF PromoteVerifiedPublication
  <2> DEFINE ss == PromoteStatements(d, scan)
  <2>2. Len(ss) = 7 /\ ss[3] = LockDocument(d, First) /\ ss[4] = LockDocument(d, Second)
    BY SortedLocks DEF PromoteStatements
  <2> HIDE DEF ss
  <2>3. ss[3] = LockDocument(d, Production) \/ ss[4] = LockDocument(d, Production)
    BY <1>1, <2>2, TwoEnvironments
  <2>4. \E i \in 1..Len(ss) : ss[i] = LockDocument(d, Production)
    BY <2>2, <2>3
  <2>5. Reads(t)'
    BY <1>1, <2>1, <2>4, LocksFirst DEF ss
  <2>6. QED
    BY <2>1, <2>5, BeginReads
<1>4. CASE RecoverDocumentRelease(t)
  <2>1. PICK d \in Documents, e \in Environments :
            Begin(t, "unpublish", d, e, UnpublishStatements(d, e))
    BY <1>4 DEF RecoverDocumentRelease
  <2> DEFINE ss == UnpublishStatements(d, e)
  <2>2. Len(ss) = 5 /\ ss[1] = LockDocument(d, e) /\ ss[5] = ReadActive(d, e)
    BY DEF UnpublishStatements
  <2> HIDE DEF ss
  <2>3. /\ \E i \in 1..Len(ss) : ss[i] = LockDocument(d, e)
        /\ \E i, j \in 1..Len(ss) : /\ i < j /\ ss[i] = LockDocument(d, e)
                                    /\ ss[j] = ReadActive(d, e)
    BY <2>2
  <2>4. Reads(t)'
    BY <1>1, <2>1, <2>3, LocksFirst DEF ss
  <2>5. QED
    BY <2>1, <2>4, BeginReads
<1>5. CASE ProcessStartJob(t)
  <2>1. PICK d \in Documents, e \in Environments : Begin(t, "start", d, e, StartStatements(d, e))
    BY <1>5 DEF ProcessStartJob
  <2> DEFINE ss == StartStatements(d, e)
  <2>2. Len(ss) = 4 /\ ss[1] = LockDocument(d, e)
    BY DEF StartStatements
  <2> HIDE DEF ss
  <2>3. \E i \in 1..Len(ss) : ss[i] = LockDocument(d, e)
    BY <2>2
  <2>4. Reads(t)'
    BY <1>1, <2>1, <2>3, LocksFirst DEF ss
  <2>5. QED
    BY <2>1, <2>4, BeginReads
<1>6. CASE ProcessEndJob(t)
  <2>1. PICK d \in Documents, e \in Environments : Begin(t, "end", d, e, EndStatements(d, e))
    BY <1>6 DEF ProcessEndJob
  <2> DEFINE ss == EndStatements(d, e)
  <2>2. Len(ss) = 2 /\ ss[1] = LockDocument(d, e) /\ ss[2] = ReadActive(d, e)
    BY DEF EndStatements
  <2> HIDE DEF ss
  <2>3. /\ \E i \in 1..Len(ss) : ss[i] = LockDocument(d, e)
        /\ \E i, j \in 1..Len(ss) : /\ i < j /\ ss[i] = LockDocument(d, e)
                                    /\ ss[j] = ReadActive(d, e)
    BY <2>2
  <2>4. Reads(t)'
    BY <1>1, <2>1, <2>3, LocksFirst DEF ss
  <2>5. QED
    BY <2>1, <2>4, BeginReads
<1>7. ASSUME NEW kind \in {"approve", "verify", "schedule", "approvalCount", "environmentPolicy",
                           "memberRole", "changePlan"},
             NEW d \in Documents, NEW e \in Environments, NEW ss, Begin(t, kind, d, e, ss)
      PROVE  Kept
  <2>1. kind \notin Movers
    BY <1>7 DEF Movers
  <2>2. Reads(t)'
    BY <1>1, <1>7, <2>1, LocksFirst
  <2>3. QED
    BY <1>7, <2>2, BeginReads
<1>8. QED
  BY <1>1, <1>2, <1>3, <1>4, <1>5, <1>6, <1>7
  DEF CreateReleaseApproval, CreatePublicationVerification, CreateDeploymentSchedule,
      UpdateEnvironmentReleasePolicy, UpdateWorkspaceEnvironmentPolicy,
      UpdateWorkspaceMemberRole, ChangeWorkspaceSubscription

LEMMA StatementsRead ==
    ASSUME NEW n, ReadsInv(n), NEW t \in Transactions,
           AcquireLock(t) \/ CountLiveStock(t) \/ FindDocumentDeployment(t)
    PROVE  \A u \in Transactions : Reads(u)'
<1>1. /\ IInv /\ Reads(t)
      /\ \A d, e : CompareGeneration(d, e).mode = "generation" /\ ReadActive(d, e).mode = "active"
      /\ CountStock.mode = "count"
  BY DEF ReadsInv, StockInv, CompareGeneration, ReadActive, CountStock
<1>2. /\ \A d, e : Head(todo[t]) = CompareGeneration(d, e) => t \notin overtaken
      /\ \A d, e : Head(todo[t]) = ReadActive(d, e) => <<d, e>> \in active
  <2>1. CASE AcquireLock(t)
    BY <1>1, <2>1 DEF AcquireLock, TakesLock, LockModes
  <2>2. CASE CountLiveStock(t)
    BY <1>1, <2>2 DEF CountLiveStock
  <2>3. CASE FindDocumentDeployment(t)
    <3>1. active \subseteq Documents \X Environments
      BY <1>1 DEF IInv, LocksTypeOK
    <3>2. \/ Head(todo[t]).mode = "generation" /\ t \notin overtaken
          \/ \E d \in Documents, e \in Environments :
                 <<d, e>> \in active /\ Head(todo[t]) = ReadActive(d, e)
      BY <2>3, <3>1 DEF FindDocumentDeployment
    <3>3. CASE Head(todo[t]).mode = "generation" /\ t \notin overtaken
      BY <1>1, <3>3
    <3>4. CASE \E d \in Documents, e \in Environments :
                   <<d, e>> \in active /\ Head(todo[t]) = ReadActive(d, e)
      <4>1. PICK d \in Documents, e \in Environments :
                     <<d, e>> \in active /\ Head(todo[t]) = ReadActive(d, e)
        BY <3>4
      <4>2. \A x, y : Head(todo[t]) = ReadActive(x, y) => x = d /\ y = e
        BY <4>1, LocksAndReads
      <4>3. \A x, y : Head(todo[t]) # CompareGeneration(x, y)
        BY <1>1, <4>1
      <4>4. QED
        BY <4>1, <4>2, <4>3
    <3>5. QED
      BY <3>2, <3>3, <3>4
  <2>4. QED
    BY <2>1, <2>2, <2>3
<1>3. Runs(t)
  BY LocksAndReads DEF Runs, AcquireLock, CountLiveStock, FindDocumentDeployment, TakesLock, LockModes
<1>4. /\ UNCHANGED <<active, running, overtaken>>
      /\ \A u \in Transactions \ {t} : todo'[u] = todo[u] /\ held'[u] = held[u]
  BY <1>1, <1>3 DEF Runs, Advance, IInv, LocksTypeOK
<1>5. \A u \in Transactions \ {t} : Reads(u)'
  BY <1>4, OthersRead DEF ReadsInv
<1>6. /\ \A s : StillTo(t, s) => s = Head(todo[t]) \/ StillTo(t, s)'
      /\ \A l, r : LockedBefore(t, l, r) /\ TakesLock(l) => LockedBefore(t, l, r)'
      /\ held[t] \subseteq held'[t]
      /\ TakesLock(Head(todo[t])) => Head(todo[t]) \in held'[t]
  BY <1>1, <1>3, OneStatementLess
<1>7. TakesLock(OwnLock(t)) /\ OwnLock(t)' = OwnLock(t)
  BY <1>4, LocksAndReads DEF OwnLock, LockDocument
<1>8. MovesLocked(t)'
  BY <1>1, <1>4, <1>6, <1>7 DEF Reads, MovesLocked
<1>9. Compared(t)'
  BY <1>1, <1>2, <1>4, <1>6, <1>7 DEF Reads, Compared
<1>10. FoundLive(t)'
  BY <1>1, <1>2, <1>4, <1>6, <1>7 DEF Reads, FoundLive
<1>11. QED
  BY <1>5, <1>8, <1>9, <1>10 DEF Reads

LEMMA EndsRead ==
    ASSUME NEW n, ReadsInv(n), NEW t \in Transactions, Commit(t) \/ Rollback(t)
    PROVE  \A u \in Transactions : Reads(u)'
<1> DEFINE c == running[t]
           place == <<c.document, c.environment>>
<1>1. /\ StockInv(n) /\ IInv /\ Release(t) /\ Reads(t) /\ running[t] # Idle
  BY DEF ReadsInv, StockInv, Commit, Rollback
<1>2. /\ running'[t].kind = "idle"
      /\ \A u \in Transactions \ {t} :
             running'[u] = running[u] /\ todo'[u] = todo[u] /\ held'[u] = held[u]
  BY <1>1 DEF Release, IInv, LocksTypeOK, Idle
<1>3. Reads(t)'
  BY <1>2 DEF Reads, MovesLocked, Compared, FoundLive, Movers
<1>4. ASSUME NEW u \in Transactions \ {t} PROVE Reads(u)'
  <2>1. CASE Rollback(t)
    BY <1>2, <2>1, OthersRead DEF Rollback, ReadsInv
  <2>2. CASE Commit(t)
    <3> DEFINE theirs == <<running[u].document, running[u].environment>>
    <3>1. /\ todo[t] = <<>> /\ active' = (active \ Withdrawn(c)) \union Served(c)
          /\ overtaken' = (overtaken \union Overtakes(c)) \ {t}
      BY <2>2 DEF Commit
    <3>2. c.kind \in Movers => OwnLock(t) \in held[t]
      BY <1>1, <3>1, NothingLeft DEF Reads, MovesLocked
    <3>3. ASSUME OwnLock(u) \in held[u], theirs \in Served(c) \union Withdrawn(c)
          PROVE  FALSE
      <4>1. c.kind \in Movers /\ theirs = place
        BY <3>3 DEF Served, Withdrawn, Movers
      <4>2. running[u].document = c.document /\ running[u].environment = c.environment
        BY <4>1
      <4>3. OwnLock(u) = OwnLock(t)
        BY <4>2 DEF OwnLock
      <4>4. OwnLock(t) = Exclusive(DocumentLock(c.document, c.environment))
        BY DEF OwnLock, LockDocument
      <4>5. QED
        BY <1>1, <3>2, <3>3, <4>1, <4>3, <4>4, OneHolder
    <3>4. /\ \A s : StillTo(u, s)' <=> StillTo(u, s)
          /\ \A l, r : LockedBefore(u, l, r)' <=> LockedBefore(u, l, r)
          /\ \A l, r : LockedBefore(u, l, r) /\ ~StillTo(u, r) => l \in held[u]
          /\ OwnLock(u)' = OwnLock(u)
      BY <1>2 DEF StillTo, LockedBefore, OwnLock
    <3>5. Reads(u)
      BY DEF ReadsInv
    <3>6. MovesLocked(u)'
      BY <1>2, <3>4, <3>5 DEF Reads, MovesLocked
    <3>7. Compared(u)'
      <4> DEFINE r == CompareGeneration(running[u].document, running[u].environment)
      <4>1. SUFFICES ASSUME running[u].kind = "publish", ~StillTo(u, r)
                     PROVE  u \notin overtaken'
        BY <1>2, <3>4, <3>5 DEF Reads, Compared
      <4>2. u \notin overtaken /\ OwnLock(u) \in held[u]
        BY <3>4, <3>5, <4>1 DEF Reads, Compared
      <4>3. u \notin Overtakes(c)
        BY <3>3, <4>2 DEF Overtakes
      <4>4. QED
        BY <3>1, <4>2, <4>3
    <3>8. FoundLive(u)'
      <4> DEFINE r == ReadActive(running[u].document, running[u].environment)
      <4>1. SUFFICES ASSUME running[u].kind \in {"unpublish", "end"}, ~StillTo(u, r)
                     PROVE  theirs \in active'
        BY <1>2, <3>4, <3>5 DEF Reads, FoundLive
      <4>2. theirs \in active /\ OwnLock(u) \in held[u]
        BY <3>4, <3>5, <4>1 DEF Reads, FoundLive
      <4>3. QED
        BY <3>1, <3>3, <4>2
    <3>9. QED
      BY <3>6, <3>7, <3>8 DEF Reads
  <2>3. QED
    BY <2>1, <2>2
<1>5. QED
  BY <1>3, <1>4

LEMMA NextReads ==
    ASSUME NEW n \in Nat, Limits \subseteq 0..n, ReadsInv(n), [Next]_vars
    PROVE  ReadsInv(n)'
<1>1. StockInv(n)'
  BY NextStock DEF ReadsInv
<1>2. CASE UNCHANGED vars
  BY <1>1, <1>2 DEF vars, ReadsInv, Reads, MovesLocked, Compared, FoundLive, OwnLock,
     LockedBefore, StillTo
<1>3. CASE Next
  <2>1. \A u \in Transactions : Reads(u)'
    BY <1>3, CallReads, StatementsRead, EndsRead DEF Next
  <2>2. QED
    BY <1>1, <2>1 DEF ReadsInv
<1>4. QED
  BY <1>2, <1>3

LEMMA InitReads ==
    ASSUME NEW n \in Nat, Init
    PROVE  ReadsInv(n)
<1>1. \A t \in Transactions : running[t].kind = "idle"
  BY DEF Init, Idle
<1>2. QED
  BY <1>1, InitStock DEF ReadsInv, Reads, MovesLocked, Compared, FoundLive, Movers

-----------------------------------------------------------------------------
(***************************************************************************)
(* The refinement.                                                         *)
(***************************************************************************)
LEMMA BeginSerially ==
    ASSUME NEW t \in Transactions, NEW kind, NEW d \in Documents, NEW e \in Environments, NEW ss,
           Begin(t, kind, d, e, ss)
    PROVE  Serial!Next
<1> DEFINE c == [kind |-> kind, document |-> d, environment |-> e]
<1>1. c \in Call /\ running[t] = Idle /\ running' = [running EXCEPT ![t] = c]
      /\ UNCHANGED <<active, limit, overtaken>>
  BY DEF Begin, Call
<1>2. Serial!Begin(t, c)
  BY <1>1 DEF Serial!Begin
<1>3. QED
  BY <1>1, <1>2 DEF Serial!Next

LEMMA CallSerially ==
    ASSUME NEW t \in Transactions,
           \/ ActivateCompiledArtifact(t) \/ PromoteVerifiedPublication(t)
           \/ CreateReleaseApproval(t) \/ CreatePublicationVerification(t)
           \/ RecoverDocumentRelease(t) \/ CreateDeploymentSchedule(t)
           \/ ProcessStartJob(t) \/ ProcessEndJob(t)
           \/ UpdateEnvironmentReleasePolicy(t) \/ UpdateWorkspaceEnvironmentPolicy(t)
           \/ UpdateWorkspaceMemberRole(t) \/ ChangeWorkspaceSubscription(t)
    PROVE  Serial!Next
<1>1. Staging \in Environments /\ Production \in Environments
  BY DEF Environments
<1>2. CASE ActivateCompiledArtifact(t) \/ PromoteVerifiedPublication(t)
            \/ CreateReleaseApproval(t) \/ CreatePublicationVerification(t)
  BY <1>1, <1>2, BeginSerially
  DEF ActivateCompiledArtifact, PromoteVerifiedPublication, CreateReleaseApproval,
      CreatePublicationVerification
<1>3. CASE RecoverDocumentRelease(t) \/ CreateDeploymentSchedule(t)
            \/ ProcessStartJob(t) \/ ProcessEndJob(t)
  BY <1>3, BeginSerially
  DEF RecoverDocumentRelease, CreateDeploymentSchedule, ProcessStartJob, ProcessEndJob
<1>4. CASE UpdateEnvironmentReleasePolicy(t) \/ UpdateWorkspaceEnvironmentPolicy(t)
  BY <1>4, BeginSerially DEF UpdateEnvironmentReleasePolicy, UpdateWorkspaceEnvironmentPolicy
<1>5. CASE UpdateWorkspaceMemberRole(t)
  <2>1. PICK d \in Documents : Begin(t, "memberRole", d, Staging, MemberRoleStatements)
    BY <1>5 DEF UpdateWorkspaceMemberRole
  <2>2. QED
    BY <1>1, <2>1, BeginSerially
<1>6. CASE ChangeWorkspaceSubscription(t)
  <2>1. PICK d \in Documents : Begin(t, "changePlan", d, Staging, ChangePlanStatements)
    BY <1>6 DEF ChangeWorkspaceSubscription
  <2>2. QED
    BY <1>1, <2>1, BeginSerially
<1>7. QED
  BY <1>2, <1>3, <1>4, <1>5, <1>6

LEMMA CommitSerially ==
    ASSUME NEW n \in Nat, Limits = {n}, ReadsInv(n), NEW t \in Transactions, Commit(t)
    PROVE  Serial!Next
<1> DEFINE c == running[t]
           place == Serial!Place(running[t])
           others == {u \in Transactions \ {t} :
                         \/ u \in overtaken
                         \/ running[u] # Idle /\ Serial!Place(running[u]) = place}
<1>1. /\ StockInv(n) /\ LocksTypeOK /\ Reads(t)
      /\ CountHolds(n, t) /\ SourceIsLive(t)
  BY DEF ReadsInv, StockInv, IInv
<1>2. /\ c # Idle /\ todo[t] = <<>> /\ limit = n /\ overtaken \subseteq Transactions
      /\ active' = (active \ Withdrawn(c)) \union Served(c)
      /\ running' = [running EXCEPT ![t] = Idle]
      /\ overtaken' = (overtaken \union Overtakes(c)) \ {t}
      /\ limit' = limit
  BY <1>1 DEF Commit, Release, LocksTypeOK
<1>3. Serial!Place(c) = <<c.document, c.environment>>
      /\ \A u \in Transactions :
             Serial!Place(running[u]) = <<running[u].document, running[u].environment>>
  BY DEF Serial!Place
<1>4. \A s : ~StillTo(t, s)
  BY <1>2, NothingLeft
<1>5. Served(c) \union Withdrawn(c) = {place} => overtaken' = others
  BY <1>2, <1>3 DEF Overtakes
<1>6. ASSUME c.kind \in {"publish", "start"}
      PROVE  Serial!Allowed(c.document)
  <2>1. IsFiniteSet(LiveDocuments(active)) /\ Cardinality(StockWith(c.document)) <= n
    BY <1>1, <1>4, <1>6 DEF CountHolds, StockInv
  <2>2. c.document \notin LiveDocuments(active) =>
            Cardinality(StockWith(c.document)) = Cardinality(LiveDocuments(active)) + 1
    BY <2>1, FS_AddElement DEF StockWith
  <2>3. Serial!LiveDocuments = LiveDocuments(active)
    BY DEF Serial!LiveDocuments, LiveDocuments
  <2>4. \A S : Serial!Cardinality(S) = Cardinality(S)
    BY DEF Serial!Cardinality, Cardinality
  <2>5. QED
    BY <1>2, <2>1, <2>2, <2>3, <2>4 DEF Serial!Allowed
<1>7. CASE c.kind \in {"publish", "promote", "start"}
  <2>1. Served(c) = {place} /\ Withdrawn(c) = {}
    BY <1>3, <1>7 DEF Served, Withdrawn
  <2>2. active' = active \union {place} /\ overtaken' = others
    BY <1>2, <1>5, <2>1
  <2>3. Serial!Moves(t, active \union {place})
    BY <1>2, <2>2 DEF Serial!Moves
  <2>4. CASE c.kind = "publish"
    <3>1. t \notin overtaken
      BY <1>1, <1>4, <2>4 DEF Reads, Compared
    <3>2. Serial!Publish(t)
      BY <1>2, <1>6, <2>3, <2>4, <3>1 DEF Serial!Publish, Serial!Ends
    <3>3. QED
      BY <3>2 DEF Serial!Next
  <2>5. CASE c.kind = "start"
    <3>1. Serial!Start(t)
      BY <1>2, <1>6, <2>3, <2>5 DEF Serial!Start, Serial!Ends
    <3>2. QED
      BY <3>1 DEF Serial!Next
  <2>6. CASE c.kind = "promote"
    <3>1. <<c.document, "staging">> \in active
      BY <1>1, <1>4, <2>6 DEF SourceIsLive, Staging
    <3>2. Serial!Promote(t)
      BY <1>2, <2>3, <2>6, <3>1 DEF Serial!Promote, Serial!Ends
    <3>3. QED
      BY <3>2 DEF Serial!Next
  <2>7. QED
    BY <1>7, <2>4, <2>5, <2>6
<1>8. CASE c.kind \in {"unpublish", "end"}
  <2>1. Served(c) = {} /\ Withdrawn(c) = {place}
    BY <1>3, <1>8 DEF Served, Withdrawn
  <2>2. active' = active \ {place} /\ overtaken' = others
    BY <1>2, <1>5, <2>1
  <2>3. Serial!Moves(t, active \ {place})
    BY <1>2, <2>2 DEF Serial!Moves
  <2>4. place \in active
    BY <1>1, <1>3, <1>4, <1>8 DEF Reads, FoundLive
  <2>5. Serial!Withdraw(t)
    BY <1>2, <1>8, <2>3, <2>4 DEF Serial!Withdraw, Serial!Ends
  <2>6. QED
    BY <2>5 DEF Serial!Next
<1>9. CASE c.kind \notin Movers
  <2>1. Served(c) = {} /\ Withdrawn(c) = {}
    BY <1>9 DEF Served, Withdrawn, Movers
  <2>2. active' = active /\ overtaken' = overtaken \ {t}
    BY <1>2, <2>1 DEF Overtakes
  <2>3. Serial!Leave(t)
    BY <1>2, <2>2 DEF Serial!Leave
  <2>4. QED
    BY <2>3 DEF Serial!Next
<1>10. QED
  BY <1>7, <1>8, <1>9 DEF Movers

LEMMA StepsAreSerial ==
    ASSUME NEW n \in Nat, Limits = {n}, ReadsInv(n), [Next]_vars
    PROVE  [Serial!Next]_(Serial!serialVars)
<1>1. CASE UNCHANGED vars
  BY <1>1 DEF vars, Serial!serialVars
<1>2. ASSUME NEW t \in Transactions,
             AcquireLock(t) \/ CountLiveStock(t) \/ FindDocumentDeployment(t)
      PROVE  UNCHANGED Serial!serialVars
  BY <1>2 DEF AcquireLock, CountLiveStock, FindDocumentDeployment, Serial!serialVars
<1>3. ASSUME NEW t \in Transactions, Rollback(t)
      PROVE  Serial!Next
  <2>1. Serial!Leave(t)
    BY <1>3 DEF Rollback, Release, Serial!Leave
  <2>2. QED
    BY <2>1 DEF Serial!Next
<1>4. QED
  BY <1>1, <1>2, <1>3, CallSerially, CommitSerially DEF Next

(***************************************************************************)
(* The locks make every operation one step, for any number of connections  *)
(* and documents: whatever a publish, start, promotion, recovery or end    *)
(* looked up still holds when it commits, while all plans have one limit.  *)
(***************************************************************************)
THEOREM LocksMakeReleasesSerial ==
    ASSUME NEW n, Limits = {n}
    PROVE  Spec => ImplementsSerialReleases
<1>1. n \in Nat /\ Limits \subseteq 0..n
  BY LimitsAreCounts
<1>2. Init => Serial!Init
  BY DEF Init, Serial!Init
<1>3. Init => ReadsInv(n)
  BY <1>1, InitReads
<1>4. ReadsInv(n) /\ [Next]_vars => ReadsInv(n)'
  BY <1>1, NextReads
<1>5. ReadsInv(n) /\ [Next]_vars => [Serial!Next]_(Serial!serialVars)
  BY <1>1, StepsAreSerial
<1>6. QED
  BY <1>2, <1>3, <1>4, <1>5, PTL DEF Spec, ImplementsSerialReleases, Serial!Spec

=============================================================================
