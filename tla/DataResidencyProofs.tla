------------------------- MODULE DataResidencyProofs -------------------------
(***************************************************************************)
(* Proofs about DataResidency, for any number of workers, migrations,       *)
(* regions and rows: the type invariant, that the placement and its         *)
(* migrations agree, that a workspace moves only on proof, that a migration *)
(* that is over stays as it is, what a cutover leaves behind, and where no   *)
(* workspace moves at all.                                                  *)
(***************************************************************************)
EXTENDS DataResidency, TLAPS

\* A migration that is not open is neither leased nor delayed.
OnlyOpenAreWorkedOn ==
  \A m \in Migrations :
    migrations[m].owner # None \/ migrations[m].delayed => migrations[m].status \in Open

\* The evidence an open migration has left on its way.
ProofSoFar ==
  \A m \in Migrations :
    /\ migrations[m].status \in {"verifying", "cutover-ready"} =>
         "copying" \in migrations[m].evidence
    /\ migrations[m].status = "cutover-ready" =>
         "verifying" \in migrations[m].evidence /\ "verifying" \in migrations[m].matched

\* What a busy worker works on.
WorkersAreBusyWithAMigration ==
  \A w \in Workers :
    /\ workers[w].phase # "idle" =>
         workers[w].migration \in Migrations /\ workers[w].status \in Open
    /\ workers[w].phase = "inserting" => workers[w].page \in Keys \X Nat

\* What the invariants say of placement and migrations.
Agreement ==
  /\ PlacementPointsToOpen
  /\ PlacementFollowsMigrations
  /\ MovesOnProof
  /\ ProofSoFar
  /\ OnlyOpenAreWorkedOn

IInv == ResidencyTypeOK /\ WorkersAreBusyWithAMigration /\ Agreement

-----------------------------------------------------------------------------
(* Types *)

\* The initial states have their types.
LEMMA InitTypes == ASSUME Init PROVE IInv
<1>1. ResidencyTypeOK
  BY ResidencyAssumption DEF Init, ResidencyTypeOK, Migration, NoMigration, Worker, Idle, Phases, Rows, Open
<1>2. WorkersAreBusyWithAMigration
  BY DEF Init, WorkersAreBusyWithAMigration, Idle
<1>3. Agreement
  BY ResidencyAssumption DEF Init, Agreement, PlacementPointsToOpen, PlacementFollowsMigrations, MovesOnProof,
     ProofSoFar, OnlyOpenAreWorkedOn, NoMigration, Open
<1>4. QED
  BY <1>1, <1>2, <1>3 DEF IInv

\* Bookkeeping keeps the rows rows.
LEMMA BookkeepingType ==
  ASSUME data \in [Regions -> Rows], Bookkeeping
  PROVE  data' \in [Regions -> Rows]
BY ResidencyAssumption DEF Bookkeeping, Rows

\* Whatever leaves the placement and the migrations alone leaves them agreed.
LEMMA UnchangedAgrees ==
  ASSUME IInv, UNCHANGED <<placement, migrations>>
  PROVE  Agreement'
BY DEF IInv, Agreement, PlacementPointsToOpen, PlacementFollowsMigrations, MovesOnProof,
   ProofSoFar, OnlyOpenAreWorkedOn

-----------------------------------------------------------------------------
(* Placement and migrations *)

\* What a transaction may make of an open migration: the same move, and the
\* evidence its new status calls for.
Successor(old, new) ==
  /\ new \in Migration
  /\ new.status \in Open \cup Closed
  /\ new.source = old.source /\ new.target = old.target /\ new.generation = old.generation
  /\ new.owner # None \/ new.delayed => new.status \in Open
  /\ new.status \in {"verifying", "cutover-ready", "completed"} => "copying" \in new.evidence
  /\ new.status \in {"cutover-ready", "completed"} =>
       "verifying" \in new.evidence /\ "verifying" \in new.matched
  /\ new.status = "completed" =>
       "cutover-ready" \in new.evidence /\ "cutover-ready" \in new.matched

\* The heart of the argument: replacing the open migration by a successor and
\* the placement by what follows from it keeps them in agreement.
LEMMA SuccessorAgrees ==
  ASSUME IInv, NEW m \in Migrations, NEW new,
         migrations[m].status \in Open, Successor(migrations[m], new),
         migrations' = [migrations EXCEPT ![m] = new],
         placement' = PlacementAfter(m, new.status)
  PROVE  /\ Agreement'
         /\ migrations' \in [Migrations -> Migration]
         /\ placement' \in [region: Regions, generation: Nat, active: Migrations \cup {None}]
         /\ \A n \in Migrations : migrations'[n].owner # None => migrations'[n].status \in Open
<1>1. /\ migrations \in [Migrations -> Migration]
      /\ placement \in [region: Regions, generation: Nat, active: Migrations \cup {None}]
      /\ placement.active = m /\ m # None
      /\ \A n \in Migrations \ {m} : migrations[n].status \notin Open
      /\ migrations[m].generation = placement.generation
      /\ migrations[m].target \in Regions
      /\ \A n \in Migrations : migrations[n].generation \in Nat
  BY ResidencyAssumption DEF IInv, Agreement, ResidencyTypeOK, PlacementPointsToOpen, PlacementFollowsMigrations,
     Migration
<1>2. /\ migrations' \in [Migrations -> Migration]
      /\ migrations'[m] = new
      /\ \A n \in Migrations \ {m} : migrations'[n] = migrations[n]
  BY <1>1 DEF Successor
<1>3. \/ /\ new.status \in Open /\ placement' = placement
      \/ /\ new.status \in {"failed", "cancelled"}
         /\ placement' = [placement EXCEPT !.active = None]
      \/ /\ new.status = "completed"
         /\ placement' = [region |-> migrations[m].target,
                           generation |-> placement.generation + 1, active |-> None]
  BY DEF Successor, PlacementAfter, Open, Closed
<1>4. placement' \in [region: Regions, generation: Nat, active: Migrations \cup {None}]
  BY <1>1, <1>3
<1>5. PlacementPointsToOpen'
  <2>1. CASE new.status \in Open
    BY <1>1, <1>2, <1>3, <2>1 DEF PlacementPointsToOpen, Open
  <2>2. CASE new.status \notin Open
    <3>1. placement'.active = None
      BY <1>1, <1>3, <2>2
    <3>2. \A n \in Migrations : migrations'[n].status \notin Open /\ n # None
      BY <1>1, <1>2, <2>2, ResidencyAssumption
    <3>3. QED
      BY <3>1, <3>2 DEF PlacementPointsToOpen
  <2>3. QED
    BY <2>1, <2>2
<1>6. PlacementFollowsMigrations'
  <2>1. PlacementFollowsMigrations
    BY DEF IInv, Agreement
  <2>2. new.generation = migrations[m].generation /\ new.target = migrations[m].target
        /\ new.source = migrations[m].source
    BY DEF Successor
  <2>3. \A n \in Migrations \ {m} : migrations[n].status = "completed" =>
          migrations[n].generation < placement.generation
    BY <2>1 DEF PlacementFollowsMigrations
  <2>4. CASE new.status \in Open
    BY <1>1, <1>2, <1>3, <2>1, <2>2, <2>4 DEF PlacementFollowsMigrations, Open
  <2>5. CASE new.status \in {"failed", "cancelled"}
    <3>1. placement'.generation = placement.generation /\ placement'.region = placement.region
      BY <1>1, <1>3, <2>5 DEF Open
    <3>2. QED
      BY <1>1, <1>2, <2>1, <2>5, <3>1 DEF PlacementFollowsMigrations, Open
  <2>6. CASE new.status = "completed"
    <3>1. placement'.generation = placement.generation + 1
          /\ placement'.region = migrations[m].target
      BY <1>3, <2>6 DEF Open
    <3>2. \A n \in Migrations : migrations'[n].status \notin Open
      BY <1>1, <1>2, <2>6 DEF Open
    <3>3. ASSUME NEW n \in Migrations, migrations'[n].status = "completed"
          PROVE  /\ migrations'[n].generation < placement'.generation
                 /\ migrations'[n].generation + 1 = placement'.generation =>
                      migrations'[n].target = placement'.region
                 /\ \A k \in Migrations \ {n} :
                      migrations'[k].status = "completed" =>
                        migrations'[k].generation # migrations'[n].generation
      <4>1. placement.generation \in Nat
        BY <1>1
      <4>2. CASE n = m
        BY <1>1, <1>2, <2>2, <2>3, <3>1, <4>1, <4>2
      <4>3. CASE n # m
        <5>1. migrations'[n] = migrations[n] /\ migrations[n].generation < placement.generation
              /\ migrations[n].generation \in Nat
          BY <1>1, <1>2, <2>3, <3>3, <4>3
        <5>2. \A k \in Migrations \ {n} : migrations'[k].status = "completed" =>
                migrations'[k].generation # migrations'[n].generation
          <6>1. TAKE k \in Migrations \ {n}
          <6>2. CASE k = m
            BY <1>1, <1>2, <2>2, <5>1, <6>2
          <6>3. CASE k # m
            BY <1>2, <2>1, <3>3, <4>3, <5>1, <6>3 DEF PlacementFollowsMigrations
          <6>4. QED
            BY <6>2, <6>3
        <5>3. QED
          BY <3>1, <4>1, <5>1, <5>2
      <4>4. QED
        BY <4>2, <4>3
    <3>4. QED
      BY <3>2, <3>3 DEF PlacementFollowsMigrations
  <2>7. QED
    BY <1>3, <2>4, <2>5, <2>6
<1>7. MovesOnProof' /\ ProofSoFar' /\ OnlyOpenAreWorkedOn'
  <2>1. MovesOnProof'
    <3>1. new.status = "completed" =>
            new.evidence = EvidencePhases /\ {"verifying", "cutover-ready"} \subseteq new.matched
      BY DEF Successor, Migration, EvidencePhases
    <3>2. QED
      BY <1>2, <3>1 DEF IInv, Agreement, MovesOnProof
  <2>2. ProofSoFar'
    BY <1>2 DEF IInv, Agreement, ProofSoFar, Successor
  <2>3. OnlyOpenAreWorkedOn'
    BY <1>2 DEF IInv, Agreement, OnlyOpenAreWorkedOn, Successor
  <2>4. QED
    BY <2>1, <2>2, <2>3
<1>8. \A n \in Migrations : migrations'[n].owner # None => migrations'[n].status \in Open
  BY <1>7 DEF OnlyOpenAreWorkedOn
<1>9. QED
  BY <1>2, <1>4, <1>5, <1>6, <1>7, <1>8 DEF Agreement

-----------------------------------------------------------------------------
(* Workers *)

\* A worker's next row, when it has the right type and works on a migration.
LEMMA WorkerStep ==
  ASSUME IInv, NEW w \in Workers, NEW new \in Worker,
         new.phase # "idle" => new.migration \in Migrations /\ new.status \in Open,
         new.phase = "inserting" => new.page \in Keys \X Nat,
         workers' = [workers EXCEPT ![w] = new]
  PROVE  workers' \in [Workers -> Worker] /\ WorkersAreBusyWithAMigration'
BY DEF IInv, ResidencyTypeOK, WorkersAreBusyWithAMigration

LEMMA IdleStep ==
  ASSUME IInv, NEW w \in Workers, workers' = [workers EXCEPT ![w] = Idle]
  PROVE  workers' \in [Workers -> Worker] /\ WorkersAreBusyWithAMigration'
<1>1. Idle \in Worker /\ Idle.phase = "idle"
  BY DEF Idle, Worker, Phases
<1>2. QED
  BY <1>1, WorkerStep

\* A step of a worker's provider call changes its phase and what it has read.
LEMMA ProviderStep ==
  ASSUME IInv, NEW w \in Workers, NEW new, workers[w].phase # "idle",
         workers' = [workers EXCEPT ![w] = new],
         new \in Worker, new.migration = workers[w].migration,
         new.status = workers[w].status,
         new.phase = "inserting" => new.page \in Keys \X Nat
  PROVE  workers' \in [Workers -> Worker] /\ WorkersAreBusyWithAMigration'
<1>1. workers[w].migration \in Migrations /\ workers[w].status \in Open
  BY DEF IInv, WorkersAreBusyWithAMigration
<1>2. QED
  BY <1>1, WorkerStep

-----------------------------------------------------------------------------
(* Every action keeps the invariant *)

LEMMA RequestKeeps ==
  ASSUME IInv, NEW m \in Migrations, NEW r \in Regions, RequestDataResidencyMigration(m, r)
  PROVE  IInv'
<1> DEFINE new == [NoMigration EXCEPT !.status = "requested", !.source = placement.region,
                       !.target = r, !.generation = placement.generation]
<1>1. /\ placement.region \in Regions /\ placement.generation \in Nat
      /\ placement.active = None /\ migrations[m].status = "none"
      /\ migrations \in [Migrations -> Migration]
  BY DEF IInv, ResidencyTypeOK, RequestDataResidencyMigration
<1>2. /\ new \in Migration /\ new.status = "requested" /\ new.owner = None /\ ~new.delayed
      /\ new.source = placement.region /\ new.generation = placement.generation
  <2>1. 0 \in 0..MaxAttempts
    BY ResidencyAssumption
  <2>2. NoMigration \in Migration /\ NoMigration.owner = None /\ NoMigration.delayed = FALSE
    BY <2>1, ResidencyAssumption DEF NoMigration, Migration
  <2>3. new \in Migration
    BY <1>1, <2>2 DEF Migration, Open
  <2>4. QED
    BY <1>1, <2>2, <2>3 DEF NoMigration
<1>3. migrations' = [migrations EXCEPT ![m] = new]
  BY DEF RequestDataResidencyMigration
<1> HIDE DEF new
<1>4. /\ migrations' \in [Migrations -> Migration] /\ migrations'[m] = new
      /\ \A n \in Migrations \ {m} : migrations'[n] = migrations[n]
  BY <1>1, <1>2, <1>3
<1>5. placement' = [placement EXCEPT !.active = m]
  BY DEF RequestDataResidencyMigration
<1>6. ResidencyTypeOK'
  <2>1. placement' \in [region: Regions, generation: Nat, active: Migrations \cup {None}]
    BY <1>5 DEF IInv, ResidencyTypeOK
  <2>2. data' \in [Regions -> Rows]
    BY BookkeepingType DEF IInv, ResidencyTypeOK, RequestDataResidencyMigration
  <2>3. \A n \in Migrations : migrations'[n].owner # None => migrations'[n].status \in Open
    BY <1>2, <1>4 DEF IInv, ResidencyTypeOK
  <2>4. QED
    BY <1>4, <2>1, <2>2, <2>3 DEF IInv, ResidencyTypeOK, RequestDataResidencyMigration, bounds
<1>7. WorkersAreBusyWithAMigration'
  BY DEF IInv, WorkersAreBusyWithAMigration, RequestDataResidencyMigration
<1>8. Agreement'
  <2>1. \A n \in Migrations : n # None /\ migrations[n].status \notin Open
    BY <1>1, ResidencyAssumption DEF IInv, Agreement, PlacementPointsToOpen
  <2>2. placement'.active = m /\ placement'.region = placement.region
        /\ placement'.generation = placement.generation
    BY <1>5 DEF IInv, ResidencyTypeOK
  <2>3. PlacementPointsToOpen'
    BY <1>2, <1>4, <2>1, <2>2 DEF PlacementPointsToOpen, Open
  <2>4. PlacementFollowsMigrations'
    BY <1>2, <1>4, <2>1, <2>2 DEF IInv, Agreement, PlacementFollowsMigrations, Open
  <2>5. MovesOnProof' /\ ProofSoFar' /\ OnlyOpenAreWorkedOn'
    BY <1>2, <1>4 DEF IInv, Agreement, MovesOnProof, ProofSoFar, OnlyOpenAreWorkedOn, Open
  <2>6. QED
    BY <2>3, <2>4, <2>5 DEF Agreement
<1>9. QED
  BY <1>6, <1>7, <1>8 DEF IInv

LEMMA MovedType ==
  ASSUME NEW migration \in Migration, NEW status \in Open \cup Closed
  PROVE  /\ Moved(migration, status) \in Migration
         /\ Moved(migration, status).status = status
         /\ Moved(migration, status).owner = None
         /\ Moved(migration, status).delayed = FALSE
         /\ Moved(migration, status).source = migration.source
         /\ Moved(migration, status).target = migration.target
         /\ Moved(migration, status).generation = migration.generation
         /\ Moved(migration, status).evidence = migration.evidence
         /\ Moved(migration, status).matched = migration.matched
<1>1. 0 \in 0..MaxAttempts
  BY ResidencyAssumption
<1>2. QED
  BY <1>1 DEF Moved, Migration

LEMMA CancelKeeps ==
  ASSUME IInv, NEW m \in Migrations, CancelDataResidencyMigration(m)
  PROVE  IInv'
<1> DEFINE new == Moved(migrations[m], "cancelled")
<1>1. migrations[m] \in Migration /\ migrations[m].status \in Open
  BY DEF IInv, ResidencyTypeOK, CancelDataResidencyMigration, Open
<1>2. Successor(migrations[m], new) /\ new.status = "cancelled"
  BY <1>1, MovedType DEF Successor, Closed
<1>3. migrations' = [migrations EXCEPT ![m] = new]
  BY DEF CancelDataResidencyMigration
<1>4. placement' = PlacementAfter(m, new.status)
  BY <1>2 DEF CancelDataResidencyMigration, PlacementAfter
<1>5. data' \in [Regions -> Rows]
  BY BookkeepingType DEF IInv, ResidencyTypeOK, CancelDataResidencyMigration
<1>6. QED
  BY <1>1, <1>2, <1>3, <1>4, <1>5, SuccessorAgrees
  DEF IInv, ResidencyTypeOK, WorkersAreBusyWithAMigration, CancelDataResidencyMigration, bounds

LEMMA LeaseLapsesKeeps ==
  ASSUME IInv, NEW m \in Migrations, LeaseLapses(m)
  PROVE  IInv'
<1> DEFINE new == [migrations[m] EXCEPT !.lapsed = TRUE]
<1>1. migrations[m] \in Migration /\ migrations[m].status \in Open
  BY DEF IInv, ResidencyTypeOK, LeaseLapses
<1>2. Successor(migrations[m], new) /\ new.status = migrations[m].status
  BY <1>1 DEF IInv, Agreement, ProofSoFar, OnlyOpenAreWorkedOn, Successor, Migration, Open, Closed
<1>3. migrations' = [migrations EXCEPT ![m] = new]
  BY DEF LeaseLapses
<1>4. placement' = PlacementAfter(m, new.status)
  BY <1>1, <1>2 DEF LeaseLapses, PlacementAfter, Open
<1>5. QED
  BY <1>1, <1>2, <1>3, <1>4, SuccessorAgrees
  DEF IInv, ResidencyTypeOK, WorkersAreBusyWithAMigration, LeaseLapses, bounds

LEMMA DelayPassesKeeps ==
  ASSUME IInv, NEW m \in Migrations, DelayPasses(m)
  PROVE  IInv'
<1> DEFINE new == [migrations[m] EXCEPT !.delayed = FALSE]
<1>1. migrations[m] \in Migration /\ migrations[m].status \in Open
  BY DEF IInv, ResidencyTypeOK, Agreement, OnlyOpenAreWorkedOn, DelayPasses
<1>2. Successor(migrations[m], new) /\ new.status = migrations[m].status
  BY <1>1 DEF IInv, Agreement, ProofSoFar, OnlyOpenAreWorkedOn, Successor, Migration, Open, Closed
<1>3. migrations' = [migrations EXCEPT ![m] = new]
  BY DEF DelayPasses
<1>4. placement' = PlacementAfter(m, new.status)
  BY <1>1, <1>2 DEF DelayPasses, PlacementAfter, Open
<1>5. QED
  BY <1>1, <1>2, <1>3, <1>4, SuccessorAgrees
  DEF IInv, ResidencyTypeOK, WorkersAreBusyWithAMigration, DelayPasses, bounds

LEMMA ClaimKeeps ==
  ASSUME IInv, NEW w \in Workers, NEW m \in Migrations, ClaimDataResidencyMigration(w, m)
  PROVE  IInv'
<1> DEFINE old == migrations[m]
           new == [old EXCEPT !.attempts = @ + 1, !.owner = w, !.lapsed = FALSE]
           worker == [Idle EXCEPT !.phase = FirstPhase(old.status), !.migration = m,
                                  !.status = old.status]
<1>1. old \in Migration /\ old.status \in Open /\ old.attempts < MaxAttempts
  BY DEF IInv, ResidencyTypeOK, ClaimDataResidencyMigration, IsClaimable
<1>2. Successor(old, new) /\ new.status = old.status
  <2>1. old.attempts + 1 \in 0..MaxAttempts
    BY <1>1, ResidencyAssumption DEF Migration
  <2>2. new \in Migration
    BY <1>1, <2>1 DEF Migration
  <2>3. QED
    BY <1>1, <2>2 DEF IInv, Agreement, ProofSoFar, Successor, Migration, Open, Closed
<1>3. migrations' = [migrations EXCEPT ![m] = new]
  BY DEF ClaimDataResidencyMigration, IInv, ResidencyTypeOK
<1>4. placement' = PlacementAfter(m, new.status)
  BY <1>1, <1>2 DEF ClaimDataResidencyMigration, PlacementAfter, Open
<1>5. data' \in [Regions -> Rows]
  BY BookkeepingType DEF IInv, ResidencyTypeOK, ClaimDataResidencyMigration
<1>6. workers' \in [Workers -> Worker] /\ WorkersAreBusyWithAMigration'
  <2>1. FirstPhase(old.status) \in {"settling", "digesting", "reading"}
    BY DEF FirstPhase
  <2>2. /\ worker \in Worker /\ worker.migration = m /\ worker.status = old.status
        /\ worker.phase # "inserting"
    BY <1>1, <2>1 DEF Idle, Worker, Phases
  <2>3. workers' = [workers EXCEPT ![w] = worker]
    BY DEF ClaimDataResidencyMigration
  <2>4. QED
    BY <1>1, <2>2, <2>3, WorkerStep
<1>7. QED
  <2>1. UNCHANGED <<schema, writes, failures, faults>>
    BY DEF ClaimDataResidencyMigration, bounds
  <2>2. QED
    BY <1>1, <1>2, <1>3, <1>4, <1>5, <1>6, <2>1, SuccessorAgrees DEF IInv, ResidencyTypeOK

\* A worker that owns its phase holds a migration of the status it claimed.
LEMMA OwnedMigration ==
  ASSUME IInv, NEW w \in Workers, workers[w].phase # "idle", OwnsPhase(w)
  PROVE  /\ workers[w].migration \in Migrations
         /\ migrations[workers[w].migration] \in Migration
         /\ migrations[workers[w].migration].status \in Open
         /\ migrations[workers[w].migration].status = workers[w].status
BY DEF IInv, ResidencyTypeOK, WorkersAreBusyWithAMigration, OwnsPhase

\* The next status of a phase, and what the digests must have said for it.
LEMMA NextStatusIs ==
  ASSUME NEW w \in Workers, workers[w].status \in Open
  PROVE  \/ workers[w].status = "requested" /\ NextStatus(w) = "copying"
         \/ workers[w].status = "copying" /\ NextStatus(w) = "verifying"
         \/ NextStatus(w) = "failed"
         \/ workers[w].status = "verifying" /\ NextStatus(w) = "cutover-ready" /\ DigestsMatch(w)
         \/ workers[w].status = "cutover-ready" /\ NextStatus(w) = "completed" /\ DigestsMatch(w)
BY DEF NextStatus, StatusAfter, DigestsMatch, Open

LEMMA CompleteKeeps ==
  ASSUME IInv, NEW w \in Workers, CompleteDataResidencyMigrationPhase(w)
  PROVE  IInv'
<1> DEFINE m == workers[w].migration
           status == NextStatus(w)
           new == Proven(w, Moved(migrations[m], status))
<1>1. workers' \in [Workers -> Worker] /\ WorkersAreBusyWithAMigration'
  BY IdleStep DEF CompleteDataResidencyMigrationPhase
<1>2. UNCHANGED <<schema, writes, failures, faults>>
  BY DEF CompleteDataResidencyMigrationPhase, bounds
<1>3. CASE OwnsPhase(w) /\ placement.active = m
  <2>1. /\ m \in Migrations /\ migrations[m] \in Migration
        /\ migrations[m].status \in Open /\ migrations[m].status = workers[w].status
    BY <1>3, OwnedMigration DEF CompleteDataResidencyMigrationPhase
  <2>2. status \in Open \cup Closed
    BY <2>1, NextStatusIs DEF Open, Closed
  <2>3. /\ migrations' = [migrations EXCEPT ![m] = new]
        /\ placement' = PlacementAfter(m, status)
        /\ data' \in [Regions -> Rows]
    BY <1>3, BookkeepingType DEF CompleteDataResidencyMigrationPhase, IInv, ResidencyTypeOK
  <2>4. Successor(migrations[m], new) /\ new.status = status
    <3> DEFINE moved == Moved(migrations[m], status)
               phase == {workers[w].status} \cap EvidencePhases
    <3>1. /\ moved \in Migration /\ moved.status = status
          /\ moved.owner = None /\ moved.delayed = FALSE
          /\ moved.source = migrations[m].source /\ moved.target = migrations[m].target
          /\ moved.generation = migrations[m].generation
          /\ moved.evidence = migrations[m].evidence /\ moved.matched = migrations[m].matched
      BY <2>1, <2>2, MovedType
    <3> HIDE DEF moved
    <3>2. new = [moved EXCEPT !.evidence = @ \cup phase,
                              !.matched = IF DigestsMatch(w) THEN @ \cup phase ELSE @]
      BY DEF Proven, moved
    <3>3. moved.evidence \in SUBSET EvidencePhases /\ moved.matched \in SUBSET EvidencePhases
      BY <3>1 DEF Migration
    <3>4. /\ new \in Migration
          /\ new.status = status /\ new.owner = None /\ new.delayed = FALSE
          /\ new.source = migrations[m].source /\ new.target = migrations[m].target
          /\ new.generation = migrations[m].generation
          /\ new.evidence = moved.evidence \cup phase
          /\ DigestsMatch(w) => new.matched = moved.matched \cup phase
          /\ moved.matched \subseteq new.matched
      BY <3>1, <3>2, <3>3 DEF Migration
    <3> HIDE DEF new, status
    <3>5. /\ migrations[m].status \in {"verifying", "cutover-ready"} =>
               "copying" \in migrations[m].evidence
          /\ migrations[m].status = "cutover-ready" =>
               "verifying" \in migrations[m].evidence /\ "verifying" \in migrations[m].matched
      BY <2>1 DEF IInv, Agreement, ProofSoFar
    <3>6. \/ workers[w].status = "requested" /\ status = "copying"
          \/ workers[w].status = "copying" /\ status = "verifying"
          \/ status = "failed"
          \/ workers[w].status = "verifying" /\ status = "cutover-ready" /\ DigestsMatch(w)
          \/ workers[w].status = "cutover-ready" /\ status = "completed" /\ DigestsMatch(w)
      BY <2>1, NextStatusIs DEF status
    <3>7. phase \subseteq new.evidence
      BY <3>4
    <3>8. DigestsMatch(w) => phase \subseteq new.matched
      BY <3>4
    <3>9. workers[w].status \in EvidencePhases => workers[w].status \in phase
      OBVIOUS
    <3> HIDE DEF phase
    <3>10. migrations[m].evidence \subseteq new.evidence /\ migrations[m].matched \subseteq new.matched
      BY <3>1, <3>4
    <3>11. QED
      BY <2>1, <2>2, <3>4, <3>5, <3>6, <3>7, <3>8, <3>9, <3>10 DEF Successor, EvidencePhases
  <2>5. QED
    <3> HIDE DEF new, status, m
    <3>1. QED
      BY <1>1, <1>2, <2>1, <2>3, <2>4, SuccessorAgrees DEF IInv, ResidencyTypeOK
<1>4. CASE ~(OwnsPhase(w) /\ placement.active = m)
  <2>1. UNCHANGED <<migrations, placement, data>>
    BY <1>4 DEF CompleteDataResidencyMigrationPhase
  <2>2. QED
    BY <1>1, <1>2, <2>1, UnchangedAgrees DEF IInv, ResidencyTypeOK
<1>5. QED
  BY <1>3, <1>4

LEMMA RetryKeeps ==
  ASSUME IInv, NEW w \in Workers, RetryDataResidencyMigrationPhase(w)
  PROVE  IInv'
<1> DEFINE m == workers[w].migration
<1>1. workers' \in [Workers -> Worker] /\ WorkersAreBusyWithAMigration'
  BY IdleStep DEF RetryDataResidencyMigrationPhase
<1>2. UNCHANGED <<schema, writes, failures, faults>>
  BY DEF RetryDataResidencyMigrationPhase, bounds
<1>3. CASE /\ OwnsPhase(w)
           /\ migrations' = [migrations EXCEPT ![m] = Retried(migrations[m])]
           /\ Bookkeeping /\ UNCHANGED placement
  <2> DEFINE new == Retried(migrations[m])
  <2>1. m \in Migrations /\ migrations[m] \in Migration /\ migrations[m].status \in Open
    BY <1>3, OwnedMigration DEF RetryDataResidencyMigrationPhase
  <2>2. Successor(migrations[m], new) /\ new.status = migrations[m].status
    BY <2>1 DEF Retried, IInv, Agreement, ProofSoFar, Successor, Migration, Open, Closed
  <2>3. placement' = PlacementAfter(m, new.status)
    BY <1>3, <2>1, <2>2 DEF PlacementAfter, Open
  <2>4. migrations' = [migrations EXCEPT ![m] = new] /\ data' \in [Regions -> Rows]
    BY <1>3, BookkeepingType DEF IInv, ResidencyTypeOK
  <2> HIDE DEF new, m
  <2>5. QED
    BY <1>1, <1>2, <2>1, <2>2, <2>3, <2>4, SuccessorAgrees DEF IInv, ResidencyTypeOK
<1>4. CASE /\ OwnsPhase(w)
           /\ migrations' = [migrations EXCEPT ![m] = GivenUp(migrations[m])]
           /\ placement' = PlacementAfter(m, "failed") /\ Bookkeeping
  <2> DEFINE new == GivenUp(migrations[m])
  <2>1. m \in Migrations /\ migrations[m] \in Migration /\ migrations[m].status \in Open
    BY <1>4, OwnedMigration DEF RetryDataResidencyMigrationPhase
  <2>2. Successor(migrations[m], new) /\ new.status = "failed"
    BY <2>1 DEF GivenUp, Successor, Migration, Closed
  <2>3. migrations' = [migrations EXCEPT ![m] = new] /\ data' \in [Regions -> Rows]
    BY <1>4, BookkeepingType DEF IInv, ResidencyTypeOK
  <2> HIDE DEF new, m
  <2>4. QED
    BY <1>1, <1>2, <1>4, <2>1, <2>2, <2>3, SuccessorAgrees DEF IInv, ResidencyTypeOK
<1>5. CASE UNCHANGED <<migrations, placement, data>>
  BY <1>1, <1>2, <1>5, UnchangedAgrees DEF IInv, ResidencyTypeOK
<1>6. QED
  BY <1>3, <1>4, <1>5 DEF RetryDataResidencyMigrationPhase

LEMMA WriteRowKeeps ==
  ASSUME IInv, NEW k \in Keys, WriteRow(k)
  PROVE  IInv'
<1>1. data' \in [Regions -> Rows]
  <2>1. PICK value \in {0, writes + 2} : data' = [data EXCEPT ![InitialRegion][k] = value]
    BY DEF WriteRow
  <2>2. value \in Nat
    BY ResidencyAssumption DEF IInv, ResidencyTypeOK
  <2>3. QED
    BY <2>1, <2>2 DEF IInv, ResidencyTypeOK, Rows
<1>2. writes' \in 0..MaxWrites
  BY ResidencyAssumption DEF WriteRow, IInv, ResidencyTypeOK
<1>3. UNCHANGED <<schema, placement, migrations, workers, failures, faults>>
  BY DEF WriteRow
<1>4. QED
  BY <1>1, <1>2, <1>3, UnchangedAgrees DEF IInv, ResidencyTypeOK, WorkersAreBusyWithAMigration

\* The provider's steps, a crash and a failing settlement touch neither the
\* placement nor the migrations.
LEMMA WorkerOnlyKeeps ==
  ASSUME IInv, UNCHANGED <<schema, placement, migrations>>, data' \in [Regions -> Rows],
         workers' \in [Workers -> Worker], WorkersAreBusyWithAMigration',
         writes' \in 0..MaxWrites, failures' \in 0..MaxFailures, faults' \in 0..MaxFaults
  PROVE  IInv'
BY UnchangedAgrees DEF IInv, ResidencyTypeOK

LEMMA ReadPageKeeps ==
  ASSUME IInv, NEW w \in Workers, ReadPage(w)
  PROVE  IInv'
<1> DEFINE page == AtOffset(Source(w), workers[w].offset)
<1>1. /\ workers[w] \in Worker /\ workers[w].phase # "idle"
      /\ workers[w].migration \in Migrations
  BY DEF IInv, ResidencyTypeOK, WorkersAreBusyWithAMigration, ReadPage
<1>2. Source(w) \in Regions
  BY <1>1 DEF Source, IInv, ResidencyTypeOK, Migration
<1>3. workers' \in [Workers -> Worker] /\ WorkersAreBusyWithAMigration'
  <2>1. CASE workers' = [workers EXCEPT ![w].phase = "digesting"]
    <3> DEFINE new == [workers[w] EXCEPT !.phase = "digesting"]
    <3>1. new \in Worker /\ new.migration = workers[w].migration
          /\ new.status = workers[w].status /\ new.phase # "inserting"
      BY <1>1 DEF Worker, Phases
    <3>2. workers' = [workers EXCEPT ![w] = new]
      BY <2>1
    <3>3. QED
      BY <1>1, <3>1, <3>2, ProviderStep
  <2>2. CASE \E k \in page : workers' = [workers EXCEPT ![w].phase = "inserting",
                                      ![w].page = <<k, data[Source(w)][k]>>]
    <3>1. PICK k \in page : workers' = [workers EXCEPT ![w].phase = "inserting",
                                      ![w].page = <<k, data[Source(w)][k]>>]
      BY <2>2
    <3> DEFINE row == <<k, data[Source(w)][k]>>
               new == [workers[w] EXCEPT !.phase = "inserting", !.page = row]
    <3>2. k \in Keys
      BY DEF AtOffset
    <3>3. row \in Keys \X Nat
      BY <1>2, <3>2 DEF IInv, ResidencyTypeOK, Rows
    <3>4. workers' = [workers EXCEPT ![w] = new]
      BY <3>1
    <3> HIDE DEF row
    <3>5. new \in Worker /\ new.migration = workers[w].migration
          /\ new.status = workers[w].status /\ new.page \in Keys \X Nat
      BY <1>1, <3>3 DEF Worker, Phases
    <3>6. QED
      BY <1>1, <3>4, <3>5, ProviderStep
  <2>3. QED
    BY <2>1, <2>2 DEF ReadPage
<1>4. UNCHANGED <<schema, placement, migrations, data, writes, failures, faults>>
  BY DEF ReadPage, bounds
<1>5. QED
  BY <1>3, <1>4, WorkerOnlyKeeps DEF IInv, ResidencyTypeOK

LEMMA InsertRowsKeeps ==
  ASSUME IInv, NEW w \in Workers, InsertRows(w)
  PROVE  IInv'
<1> DEFINE page == workers[w].page
           new == [workers[w] EXCEPT !.phase = "reading", !.page = None, !.offset = @ + 1]
<1>1. /\ workers[w] \in Worker /\ workers[w].phase # "idle"
      /\ workers[w].migration \in Migrations /\ page \in Keys \X Nat
  BY DEF IInv, ResidencyTypeOK, WorkersAreBusyWithAMigration, InsertRows
<1>2. page[1] \in Keys /\ page[2] \in Nat /\ Target(w) \in Regions
  BY <1>1 DEF Target, IInv, ResidencyTypeOK, Migration
<1>3. data' \in [Regions -> Rows]
  <2>1. \/ data' = data
        \/ data' = [data EXCEPT ![Target(w)][page[1]] = page[2]]
    BY DEF InsertRows
  <2> HIDE DEF page
  <2>2. QED
    BY <1>2, <2>1 DEF IInv, ResidencyTypeOK, Rows
<1>4. workers' \in [Workers -> Worker] /\ WorkersAreBusyWithAMigration'
  <2>1. new \in Worker /\ new.migration = workers[w].migration
        /\ new.status = workers[w].status /\ new.phase = "reading"
    <3>1. workers[w].offset + 1 \in Nat
      BY <1>1 DEF Worker
    <3>2. QED
      BY <1>1, <3>1 DEF Worker, Phases
  <2>2. workers' = [workers EXCEPT ![w] = new]
    BY DEF InsertRows
  <2>3. QED
    BY <1>1, <2>1, <2>2, ProviderStep
<1>5. UNCHANGED <<schema, placement, migrations, writes, failures, faults>>
  BY DEF InsertRows, bounds
<1>6. QED
  BY <1>3, <1>4, <1>5, WorkerOnlyKeeps DEF IInv, ResidencyTypeOK

LEMMA TakeDigestKeeps ==
  ASSUME IInv, NEW w \in Workers, TakeDigest(w)
  PROVE  IInv'
<1>1. /\ workers[w] \in Worker /\ workers[w].phase # "idle"
      /\ workers[w].migration \in Migrations /\ workers[w].phase # "inserting"
  BY DEF IInv, ResidencyTypeOK, WorkersAreBusyWithAMigration, TakeDigest
<1>2. data[Source(w)] \in Rows /\ data[Target(w)] \in Rows
  BY <1>1 DEF Source, Target, IInv, ResidencyTypeOK, Migration
<1>3. workers' \in [Workers -> Worker] /\ WorkersAreBusyWithAMigration'
  <2>1. CASE workers' = [workers EXCEPT ![w].sourceDigest = data[Source(w)]]
    <3> DEFINE new == [workers[w] EXCEPT !.sourceDigest = data[Source(w)]]
    <3>1. new \in Worker /\ new.migration = workers[w].migration
          /\ new.status = workers[w].status /\ new.phase = workers[w].phase
      BY <1>1, <1>2 DEF Worker
    <3>2. workers' = [workers EXCEPT ![w] = new]
      BY <2>1
    <3>3. QED
      BY <1>1, <3>1, <3>2, ProviderStep
  <2>2. CASE workers' = [workers EXCEPT ![w].targetDigest = data[Target(w)]]
    <3> DEFINE new == [workers[w] EXCEPT !.targetDigest = data[Target(w)]]
    <3>1. new \in Worker /\ new.migration = workers[w].migration
          /\ new.status = workers[w].status /\ new.phase = workers[w].phase
      BY <1>1, <1>2 DEF Worker
    <3>2. workers' = [workers EXCEPT ![w] = new]
      BY <2>2
    <3>3. QED
      BY <1>1, <3>1, <3>2, ProviderStep
  <2>3. QED
    BY <2>1, <2>2 DEF TakeDigest
<1>4. UNCHANGED <<schema, placement, migrations, data, writes, failures, faults>>
  BY DEF TakeDigest, bounds
<1>5. QED
  BY <1>3, <1>4, WorkerOnlyKeeps DEF IInv, ResidencyTypeOK

\* A worker that turns to settling or failing keeps what it has read.
LEMMA PhaseChange ==
  ASSUME IInv, NEW w \in Workers, NEW phase \in {"settling", "failing"},
         workers[w].phase # "idle", workers' = [workers EXCEPT ![w].phase = phase]
  PROVE  workers' \in [Workers -> Worker] /\ WorkersAreBusyWithAMigration'
<1> DEFINE new == [workers[w] EXCEPT !.phase = phase]
<1>1. workers[w] \in Worker
  BY DEF IInv, ResidencyTypeOK
<1>2. /\ new \in Worker /\ new.migration = workers[w].migration
      /\ new.status = workers[w].status /\ new.phase # "inserting"
  BY <1>1 DEF Worker, Phases
<1>3. workers' = [workers EXCEPT ![w] = new]
  OBVIOUS
<1>4. QED
  BY <1>2, <1>3, ProviderStep

LEMMA ProviderAnswersKeeps ==
  ASSUME IInv, NEW w \in Workers, ProviderAnswers(w)
  PROVE  IInv'
<1>1. PICK phase \in {"settling", "failing"} : workers' = [workers EXCEPT ![w].phase = phase]
  BY DEF ProviderAnswers
<1>2. workers' \in [Workers -> Worker] /\ WorkersAreBusyWithAMigration'
  BY <1>1, PhaseChange DEF ProviderAnswers
<1>3. UNCHANGED <<schema, placement, migrations, data, writes, failures, faults>>
  BY DEF ProviderAnswers, bounds
<1>4. QED
  BY <1>2, <1>3, WorkerOnlyKeeps DEF IInv, ResidencyTypeOK

LEMMA FaultsKeep ==
  ASSUME IInv, NEW w \in Workers,
         StatementThrows(w) \/ ProviderFails(w) \/ SettlementFails(w) \/ Crash(w)
  PROVE  IInv'
<1>1. CASE ProviderFails(w)
  <2>1. workers' \in [Workers -> Worker] /\ WorkersAreBusyWithAMigration'
    BY <1>1, PhaseChange DEF ProviderFails
  <2>2. failures' \in 0..MaxFailures
    BY <1>1, ResidencyAssumption DEF ProviderFails, IInv, ResidencyTypeOK
  <2>3. QED
    BY <1>1, <2>1, <2>2, WorkerOnlyKeeps DEF ProviderFails, IInv, ResidencyTypeOK
<1>2. CASE SettlementFails(w)
  <2>1. workers' \in [Workers -> Worker] /\ WorkersAreBusyWithAMigration'
    BY <1>2, PhaseChange DEF SettlementFails
  <2>2. faults' \in 0..MaxFaults
    BY <1>2, ResidencyAssumption DEF SettlementFails, IInv, ResidencyTypeOK
  <2>3. QED
    BY <1>2, <2>1, <2>2, WorkerOnlyKeeps DEF SettlementFails, IInv, ResidencyTypeOK
<1>3. CASE Crash(w)
  <2>1. workers' \in [Workers -> Worker] /\ WorkersAreBusyWithAMigration'
    BY <1>3, IdleStep DEF Crash
  <2>2. faults' \in 0..MaxFaults
    BY <1>3, ResidencyAssumption DEF Crash, IInv, ResidencyTypeOK
  <2>3. QED
    BY <1>3, <2>1, <2>2, WorkerOnlyKeeps DEF Crash, IInv, ResidencyTypeOK
<1>4. CASE StatementThrows(w)
  <2>1. workers[w].phase # "idle" /\ workers' = [workers EXCEPT ![w].phase = "failing"]
    BY <1>4 DEF StatementThrows
  <2>2. workers' \in [Workers -> Worker] /\ WorkersAreBusyWithAMigration'
    BY <2>1, PhaseChange
  <2>3. QED
    BY <1>4, <2>2, WorkerOnlyKeeps DEF StatementThrows, bounds, IInv, ResidencyTypeOK
<1>5. QED
  BY <1>1, <1>2, <1>3, <1>4

\* The schema is what it was.
LEMMA SchemaStays == ASSUME [Next]_vars PROVE schema' = schema
BY DEF Next, vars, bounds, Run, RequestDataResidencyMigration, CancelDataResidencyMigration, LeaseLapses,
       DelayPasses, WriteRow, ClaimDataResidencyMigration, ReadPage, InsertRows, TakeDigest,
       StatementThrows, ProviderAnswers, CompleteDataResidencyMigrationPhase,
       RetryDataResidencyMigrationPhase, ProviderFails, SettlementFails, Crash

\* The invariant is inductive.
LEMMA StepKeeps ==
  ASSUME IInv, [Next]_vars
  PROVE  IInv'
<1>1. CASE \E m \in Migrations, r \in Regions : RequestDataResidencyMigration(m, r)
  BY <1>1, RequestKeeps
<1>2. CASE \E m \in Migrations :
             CancelDataResidencyMigration(m) \/ LeaseLapses(m) \/ DelayPasses(m)
  BY <1>2, CancelKeeps, LeaseLapsesKeeps, DelayPassesKeeps
<1>3. CASE \E k \in Keys : WriteRow(k)
  BY <1>3, WriteRowKeeps
<1>4. ASSUME NEW w \in Workers, Run(w)
      PROVE  IInv'
  BY <1>4, ClaimKeeps, ReadPageKeeps, InsertRowsKeeps, TakeDigestKeeps,
     FaultsKeep, ProviderAnswersKeeps, CompleteKeeps, RetryKeeps DEF Run
<1>5. CASE \E w \in Workers : ProviderFails(w) \/ SettlementFails(w) \/ Crash(w)
  BY <1>5, FaultsKeep
<1>6. CASE UNCHANGED vars
  BY <1>6, UnchangedAgrees DEF vars, IInv, ResidencyTypeOK, WorkersAreBusyWithAMigration
<1>7. QED
  BY <1>1, <1>2, <1>3, <1>4, <1>5, <1>6 DEF Next

-----------------------------------------------------------------------------
(* Theorems *)

LEMMA Invariance == Spec => []IInv
<1>1. Init => IInv
  BY InitTypes
<1>2. IInv /\ [Next]_vars => IInv'
  BY StepKeeps
<1>3. QED
  BY <1>1, <1>2, PTL DEF Spec

\* Rows and workers have their types, and only an open migration is leased: the
\* lease check of data_residency_migrations never rejects a transaction.
THEOREM ResidencyTypes == Spec => []ResidencyTypeOK
<1>1. IInv => ResidencyTypeOK
  BY DEF IInv
<1>2. QED
  BY <1>1, Invariance, PTL

\* However many workers, people and crashes interleave, the placement points to
\* the one open migration, completed migrations moved it one generation each,
\* and an open one starts from where the workspace is
\* (updatePlacementAfterResidencyTransition).
THEOREM PlacementAgrees == Spec => []PlacementMatchesMigrations
<1>1. IInv => PlacementMatchesMigrations
  BY DEF IInv, Agreement, PlacementMatchesMigrations
<1>2. QED
  BY <1>1, Invariance, PTL

\* No workspace moves without the evidence of all three phases and equal digests
\* after the verification and after the final pass.
THEOREM MovedOnProof == Spec => []MovesOnProof
<1>1. IInv => MovesOnProof
  BY DEF IInv, Agreement
<1>2. QED
  BY <1>1, Invariance, PTL

\* Only an open migration changes: every transaction that writes one requires
\* it to be new, requested, claimable, owned, leased or delayed.
LEMMA ClosedStays ==
  ASSUME IInv, [Next]_vars, NEW m \in Migrations, migrations[m].status \in Closed
  PROVE  migrations'[m] = migrations[m]
<1>1. migrations \in [Migrations -> Migration] /\ migrations[m].status \notin Open
      /\ migrations[m].status # "none"
  BY DEF IInv, ResidencyTypeOK, Open, Closed
<1>3. CASE UNCHANGED migrations
  BY <1>3
<1>4. ASSUME NEW n \in Migrations, NEW r \in Regions, RequestDataResidencyMigration(n, r)
      PROVE  migrations'[m] = migrations[m]
  BY <1>1, <1>4 DEF RequestDataResidencyMigration
<1>5. ASSUME NEW n \in Migrations,
             CancelDataResidencyMigration(n) \/ LeaseLapses(n) \/ DelayPasses(n)
      PROVE  migrations'[m] = migrations[m]
  <2>1. migrations[n].status \in Open
    BY <1>5 DEF CancelDataResidencyMigration, LeaseLapses, DelayPasses, IInv,
       ResidencyTypeOK, Agreement, OnlyOpenAreWorkedOn, Open
  <2>2. QED
    BY <1>1, <1>5, <2>1 DEF CancelDataResidencyMigration, LeaseLapses, DelayPasses
<1>6. ASSUME NEW w \in Workers, NEW n \in Migrations, ClaimDataResidencyMigration(w, n)
      PROVE  migrations'[m] = migrations[m]
  BY <1>1, <1>6 DEF ClaimDataResidencyMigration, IsClaimable
<1>7. ASSUME NEW w \in Workers,
             CompleteDataResidencyMigrationPhase(w) \/ RetryDataResidencyMigrationPhase(w)
      PROVE  migrations'[m] = migrations[m]
  <2>1. \/ UNCHANGED migrations
        \/ /\ OwnsPhase(w)
           /\ \E new : migrations' = [migrations EXCEPT ![workers[w].migration] = new]
    BY <1>7 DEF CompleteDataResidencyMigrationPhase, RetryDataResidencyMigrationPhase
  <2>2. workers[w].phase # "idle"
    BY <1>7 DEF CompleteDataResidencyMigrationPhase, RetryDataResidencyMigrationPhase
  <2>3. CASE OwnsPhase(w)
    BY <1>1, <2>1, <2>2, <2>3, OwnedMigration
  <2>4. QED
    BY <2>1, <2>3
<1>8. QED
  BY <1>3, <1>4, <1>5, <1>6, <1>7
  DEF Next, vars, Run, WriteRow, ReadPage, InsertRows, TakeDigest, StatementThrows, ProviderAnswers,
      ProviderFails, SettlementFails, Crash

\* A worker that settles late never touches a migration that was cancelled, has
\* failed or was completed by another worker.
THEOREM ClosedMigrationsAreFinal == Spec => ClosedIsFinal
<1>1. IInv /\ [Next]_vars =>
        [\A m \in Migrations :
           migrations[m].status \in Closed => migrations'[m] = migrations[m]]_vars
  BY ClosedStays
<1>2. QED
  BY <1>1, Invariance, PTL DEF Spec, ClosedIsFinal

-----------------------------------------------------------------------------
(* What a cutover leaves behind *)

\* A migration that was requested goes to another region than it comes from.
MigrationsMove ==
  \A m \in Migrations : migrations[m].status # "none" => migrations[m].source # migrations[m].target

\* A worker settles a phase that has digests only after it has taken both.
SettledAfterDigests(w) ==
  workers[w].phase = "settling" /\ workers[w].status # "requested" =>
    workers[w].sourceDigest # None /\ workers[w].targetDigest # None

\* While its migration is open, the rows a worker found in the target are still
\* there.
TargetIsKept(w) ==
  /\ workers[w].phase # "idle"
  /\ migrations[workers[w].migration].status \in Open
  /\ workers[w].targetDigest # None
  => \A k \in Keys : workers[w].targetDigest[k] # 0 =>
       data[Target(w)][k] = workers[w].targetDigest[k]

TInv ==
  /\ IInv /\ MigrationsMove
  /\ \A w \in Workers :
       /\ workers[w].phase # "idle" => migrations[workers[w].migration].status # "none"
       /\ SettledAfterDigests(w)
       /\ TargetIsKept(w)

\* A migration that was requested keeps its regions and is never opened again.
LEMMA MigrationsKeepRegions ==
  ASSUME IInv, [Next]_vars, NEW m \in Migrations, migrations[m].status # "none"
  PROVE  /\ migrations'[m].status # "none"
         /\ migrations'[m].source = migrations[m].source
         /\ migrations'[m].target = migrations[m].target
         /\ migrations'[m].status \in Open => migrations[m].status \in Open
<1>1. migrations \in [Migrations -> Migration] /\ migrations[m].status \in Open \cup Closed
  BY DEF IInv, ResidencyTypeOK, Migration
<1>2. CASE UNCHANGED migrations
  BY <1>2
<1>3. CASE migrations[m].status \in Closed
  BY <1>3, ClosedStays DEF Open, Closed
<1>4. ASSUME migrations[m].status \in Open, NEW n \in Migrations, NEW r \in Regions,
             RequestDataResidencyMigration(n, r)
      PROVE  migrations'[m] = migrations[m]
  BY <1>1, <1>4 DEF RequestDataResidencyMigration, Open
<1>5. ASSUME migrations[m].status \in Open, NEW n \in Migrations,
             CancelDataResidencyMigration(n) \/ LeaseLapses(n) \/ DelayPasses(n)
      PROVE  /\ migrations'[m].status # "none"
             /\ migrations'[m].source = migrations[m].source
             /\ migrations'[m].target = migrations[m].target
  <2>1. migrations[m] \in Migration /\ migrations[m].status # "none"
    BY <1>1
  <2>2. CASE n # m
    BY <1>1, <1>5, <2>1, <2>2 DEF CancelDataResidencyMigration, LeaseLapses, DelayPasses
  <2>3. CASE n = m /\ CancelDataResidencyMigration(n)
    <3>1. migrations'[m] = Moved(migrations[m], "cancelled")
      BY <1>1, <2>3 DEF CancelDataResidencyMigration
    <3>2. "cancelled" \in Open \cup Closed
      BY DEF Closed
    <3>3. /\ Moved(migrations[m], "cancelled").status = "cancelled"
          /\ Moved(migrations[m], "cancelled").source = migrations[m].source
          /\ Moved(migrations[m], "cancelled").target = migrations[m].target
      BY <2>1, <3>2, MovedType
    <3>4. QED
      BY <3>1, <3>3
  <2>4. CASE n = m /\ LeaseLapses(n)
    <3>1. migrations'[m] = [migrations[m] EXCEPT !.lapsed = TRUE]
      BY <1>1, <2>4 DEF LeaseLapses
    <3>2. QED
      BY <2>1, <3>1 DEF Migration
  <2>5. CASE n = m /\ DelayPasses(n)
    <3>1. migrations'[m] = [migrations[m] EXCEPT !.delayed = FALSE]
      BY <1>1, <2>5 DEF DelayPasses
    <3>2. QED
      BY <2>1, <3>1 DEF Migration
  <2>6. QED
    BY <1>5, <2>2, <2>3, <2>4, <2>5
<1>6. ASSUME migrations[m].status \in Open, NEW w \in Workers, NEW n \in Migrations,
             ClaimDataResidencyMigration(w, n)
      PROVE  /\ migrations'[m].status # "none"
             /\ migrations'[m].source = migrations[m].source
             /\ migrations'[m].target = migrations[m].target
  BY <1>1, <1>6 DEF ClaimDataResidencyMigration, Migration, Open
<1>7. ASSUME migrations[m].status \in Open, NEW w \in Workers,
             CompleteDataResidencyMigrationPhase(w) \/ RetryDataResidencyMigrationPhase(w)
      PROVE  /\ migrations'[m].status # "none"
             /\ migrations'[m].source = migrations[m].source
             /\ migrations'[m].target = migrations[m].target
  <2> DEFINE n == workers[w].migration
  <2>1. n \in Migrations /\ workers[w].status \in Open /\ migrations[n] \in Migration
    BY <1>1, <1>7 DEF IInv, WorkersAreBusyWithAMigration,
       CompleteDataResidencyMigrationPhase, RetryDataResidencyMigrationPhase
  <2>2. PICK new : /\ migrations' = migrations \/ migrations' = [migrations EXCEPT ![n] = new]
                   /\ new.source = migrations[n].source /\ new.target = migrations[n].target
                   /\ new.status \in Open \cup Closed \/ new.status = migrations[n].status
    <3>1. CASE CompleteDataResidencyMigrationPhase(w)
      <4> DEFINE moved == Moved(migrations[n], NextStatus(w))
      <4>1. NextStatus(w) \in Open \cup Closed
        BY <2>1, NextStatusIs DEF Open, Closed
      <4>2. /\ moved \in Migration /\ moved.source = migrations[n].source
            /\ moved.target = migrations[n].target /\ moved.status \in Open \cup Closed
        BY <2>1, <4>1, MovedType
      <4> HIDE DEF moved
      <4>3. /\ Proven(w, moved).source = moved.source
            /\ Proven(w, moved).target = moved.target
            /\ Proven(w, moved).status = moved.status
        BY <4>2 DEF Proven, Migration
      <4>4. migrations' = migrations \/ migrations' = [migrations EXCEPT ![n] = Proven(w, moved)]
        BY <3>1 DEF CompleteDataResidencyMigrationPhase, moved
      <4>5. QED
        BY <4>2, <4>3, <4>4
    <3>2. CASE RetryDataResidencyMigrationPhase(w)
      <4>1. \/ migrations' = migrations
            \/ migrations' = [migrations EXCEPT ![n] = Retried(migrations[n])]
            \/ migrations' = [migrations EXCEPT ![n] = GivenUp(migrations[n])]
        BY <3>2 DEF RetryDataResidencyMigrationPhase
      <4>2. /\ Retried(migrations[n]).source = migrations[n].source
            /\ Retried(migrations[n]).target = migrations[n].target
            /\ Retried(migrations[n]).status = migrations[n].status
            /\ GivenUp(migrations[n]).source = migrations[n].source
            /\ GivenUp(migrations[n]).target = migrations[n].target
            /\ GivenUp(migrations[n]).status = "failed"
        BY <2>1 DEF Retried, GivenUp, Migration
      <4>3. QED
        BY <4>1, <4>2 DEF Closed
    <3>3. QED
      BY <1>7, <3>1, <3>2
  <2>3. QED
    BY <1>1, <1>7, <2>1, <2>2 DEF Open, Closed
<1>8. QED
  BY <1>1, <1>2, <1>3, <1>4, <1>5, <1>6, <1>7
  DEF Next, vars, Run, WriteRow, ReadPage, InsertRows, TakeDigest, StatementThrows, ProviderAnswers,
      ProviderFails, SettlementFails, Crash

\* Only a request opens a migration.
LEMMA NoneStays ==
  ASSUME IInv, [Next]_vars, NEW m \in Migrations, migrations[m].status = "none"
  PROVE  \/ \E r \in Regions : RequestDataResidencyMigration(m, r)
         \/ migrations'[m] = migrations[m]
<1>1. migrations \in [Migrations -> Migration]
  BY DEF IInv, ResidencyTypeOK
<1>2. ASSUME NEW n \in Migrations, NEW r \in Regions, RequestDataResidencyMigration(n, r)
      PROVE  n = m \/ migrations'[m] = migrations[m]
  BY <1>1, <1>2 DEF RequestDataResidencyMigration
<1>3. ASSUME NEW n \in Migrations, NEW new, migrations' = [migrations EXCEPT ![n] = new],
             migrations[n].status \in Open
      PROVE  migrations'[m] = migrations[m]
  BY <1>1, <1>3 DEF Open
<1>4. ASSUME NEW n \in Migrations,
             CancelDataResidencyMigration(n) \/ LeaseLapses(n) \/ DelayPasses(n)
      PROVE  migrations'[m] = migrations[m]
  <2>1. migrations[n].status \in Open
    BY <1>4 DEF CancelDataResidencyMigration, LeaseLapses, DelayPasses, IInv,
       ResidencyTypeOK, Agreement, OnlyOpenAreWorkedOn, Open
  <2>2. QED
    BY <1>3, <1>4, <2>1 DEF CancelDataResidencyMigration, LeaseLapses, DelayPasses
<1>5. ASSUME NEW w \in Workers, NEW n \in Migrations, ClaimDataResidencyMigration(w, n)
      PROVE  migrations'[m] = migrations[m]
  BY <1>1, <1>5 DEF ClaimDataResidencyMigration, IsClaimable, Open
<1>6. ASSUME NEW w \in Workers,
             CompleteDataResidencyMigrationPhase(w) \/ RetryDataResidencyMigrationPhase(w)
      PROVE  migrations'[m] = migrations[m]
  <2>1. \/ UNCHANGED migrations
        \/ /\ OwnsPhase(w)
           /\ \E new : migrations' = [migrations EXCEPT ![workers[w].migration] = new]
    BY <1>6 DEF CompleteDataResidencyMigrationPhase, RetryDataResidencyMigrationPhase
  <2>2. workers[w].phase # "idle"
    BY <1>6 DEF CompleteDataResidencyMigrationPhase, RetryDataResidencyMigrationPhase
  <2>3. QED
    BY <1>3, <2>1, <2>2, OwnedMigration
<1>7. CASE UNCHANGED migrations
  BY <1>7
<1>8. QED
  BY <1>2, <1>4, <1>5, <1>6, <1>7
  DEF Next, vars, Run, WriteRow, ReadPage, InsertRows, TakeDigest, StatementThrows, ProviderAnswers,
      ProviderFails, SettlementFails, Crash

\* Only the completion of a migration moves the placement to another region.
LEMMA OnlyCompletionsMove ==
  ASSUME IInv, [Next]_vars, placement'.region # placement.region
  PROVE  \E w \in Workers : /\ CompleteDataResidencyMigrationPhase(w) /\ OwnsPhase(w)
                            /\ NextStatus(w) = "completed"
<1>1. placement \in [region: Regions, generation: Nat, active: Migrations \cup {None}]
  BY DEF IInv, ResidencyTypeOK
<1>2. ~UNCHANGED placement /\ \A a : placement' # [placement EXCEPT !.active = a]
  BY <1>1
<1>3. ASSUME NEW w \in Workers, CompleteDataResidencyMigrationPhase(w)
      PROVE  OwnsPhase(w) /\ NextStatus(w) = "completed"
  BY <1>2, <1>3 DEF CompleteDataResidencyMigrationPhase, PlacementAfter
<1>4. ASSUME NEW w \in Workers, RetryDataResidencyMigrationPhase(w)
      PROVE  FALSE
  BY <1>2, <1>4 DEF RetryDataResidencyMigrationPhase, PlacementAfter
<1>5. QED
  BY <1>2, <1>3, <1>4
  DEF Next, vars, Run, RequestDataResidencyMigration, CancelDataResidencyMigration, LeaseLapses,
      DelayPasses, WriteRow, ClaimDataResidencyMigration, ReadPage, InsertRows, TakeDigest,
      StatementThrows, ProviderAnswers, ProviderFails, SettlementFails, Crash

\* A migration only adds rows, and the workspace writes where it lives: rows
\* elsewhere stay, unless they are the migrations' own.
LEMMA RowsStay ==
  ASSUME IInv, [Next]_vars, NEW r \in Regions, NEW k \in Keys, data[r][k] # 0,
         r = InitialRegion => placement.region # InitialRegion /\ schema.own = {}
  PROVE  data'[r][k] = data[r][k]
<1>1. data \in [Regions -> Rows]
  BY DEF IInv, ResidencyTypeOK
<1>2. CASE Bookkeeping
  BY <1>1, <1>2, ResidencyAssumption DEF Bookkeeping, Rows
<1>3. CASE UNCHANGED data
  BY <1>3
<1>4. CASE \E j \in Keys : WriteRow(j)
  BY <1>1, <1>4 DEF WriteRow, Rows
<1>5. ASSUME NEW w \in Workers, InsertRows(w)
      PROVE  data'[r][k] = data[r][k]
  <2> DEFINE key == workers[w].page[1]
             row == workers[w].page[2]
  <2>1. data' = data \/ (data[Target(w)][key] = 0 /\ data' = [data EXCEPT ![Target(w)][key] = row])
    BY <1>5 DEF InsertRows
  <2> HIDE DEF key, row
  <2>2. QED
    BY <1>1, <2>1 DEF Rows
<1>6. QED
  BY <1>2, <1>3, <1>4, <1>5
  DEF Next, vars, Run, RequestDataResidencyMigration, CancelDataResidencyMigration, LeaseLapses,
      DelayPasses, ClaimDataResidencyMigration, ReadPage, TakeDigest, StatementThrows, ProviderAnswers,
      CompleteDataResidencyMigrationPhase, RetryDataResidencyMigrationPhase,
      ProviderFails, SettlementFails, Crash

\* What a step does to a worker: it stays, becomes idle, claims a migration, or
\* goes on with the one it has, and settles a phase it has digests of.
WorkerMoves(w) ==
  \/ workers'[w] = workers[w]
  \/ workers'[w] = Idle
  \/ \E m \in Migrations :
       /\ migrations[m].status \in Open
       /\ workers'[w] = [Idle EXCEPT !.phase = FirstPhase(migrations[m].status), !.migration = m,
                                     !.status = migrations[m].status]
  \/ /\ workers[w].phase # "idle"
     /\ workers'[w].migration = workers[w].migration /\ workers'[w].status = workers[w].status
     /\ workers'[w].phase = "settling" =>
          workers'[w].sourceDigest # None /\ workers'[w].targetDigest # None
     /\ \/ workers'[w].targetDigest = workers[w].targetDigest
        \/ workers'[w].targetDigest = data[Target(w)] /\ data' = data
     /\ \/ workers'[w].sourceDigest = workers[w].sourceDigest
        \/ workers'[w].sourceDigest = data[Source(w)] /\ data' = data
     /\ workers'[w].phase = "inserting" =>
          workers'[w].page[2] = data[Source(w)][workers'[w].page[1]] /\ data' = data

LEMMA NextMovesWorkers ==
  ASSUME IInv, [Next]_vars, NEW w \in Workers
  PROVE  WorkerMoves(w)
<1>1. workers \in [Workers -> Worker]
  BY DEF IInv, ResidencyTypeOK
<1>2. CASE UNCHANGED workers
  BY <1>2 DEF WorkerMoves
<1>3. ASSUME NEW v \in Workers, Run(v) \/ ProviderFails(v) \/ SettlementFails(v) \/ Crash(v)
      PROVE  WorkerMoves(w)
  <2>1. CASE v # w
    BY <1>1, <1>3, <2>1
    DEF WorkerMoves, Run, ClaimDataResidencyMigration, ReadPage, InsertRows, TakeDigest,
        StatementThrows, ProviderAnswers, CompleteDataResidencyMigrationPhase, RetryDataResidencyMigrationPhase,
        ProviderFails, SettlementFails, Crash
  <2>2. CASE v = w
    <3>1. CASE \E m \in Migrations : ClaimDataResidencyMigration(w, m)
      BY <1>1, <3>1 DEF ClaimDataResidencyMigration, IsClaimable, WorkerMoves
    <3>2. CASE CompleteDataResidencyMigrationPhase(w) \/ RetryDataResidencyMigrationPhase(w) \/ Crash(w)
      BY <1>1, <3>2 DEF CompleteDataResidencyMigrationPhase, RetryDataResidencyMigrationPhase, Crash,
         WorkerMoves
    <3>3. CASE ReadPage(w)
      <4>1. /\ workers'[w].migration = workers[w].migration
            /\ workers'[w].status = workers[w].status
            /\ workers'[w].targetDigest = workers[w].targetDigest
            /\ workers'[w].sourceDigest = workers[w].sourceDigest
            /\ workers'[w].phase # "settling"
            /\ workers'[w].phase = "inserting" =>
                 workers'[w].page[2] = data[Source(w)][workers'[w].page[1]]
        <5>1. CASE workers' = [workers EXCEPT ![w].phase = "digesting"]
          BY <1>1, <5>1 DEF Worker
        <5>2. ASSUME NEW k, workers' = [workers EXCEPT ![w].phase = "inserting",
                                                      ![w].page = <<k, data[Source(w)][k]>>]
              PROVE  /\ workers'[w].migration = workers[w].migration
                     /\ workers'[w].status = workers[w].status
                     /\ workers'[w].targetDigest = workers[w].targetDigest
                     /\ workers'[w].sourceDigest = workers[w].sourceDigest
                     /\ workers'[w].phase # "settling"
                     /\ workers'[w].page[2] = data[Source(w)][workers'[w].page[1]]
          <6> DEFINE row == <<k, data[Source(w)][k]>>
          <6>1. workers' = [workers EXCEPT ![w].phase = "inserting", ![w].page = row]
            BY <5>2
          <6>2. row[1] = k /\ row[2] = data[Source(w)][k]
            OBVIOUS
          <6> HIDE DEF row
          <6>3. workers'[w].page = row
            BY <1>1, <6>1 DEF Worker
          <6>4. workers'[w].page[1] = k /\ workers'[w].page[2] = data[Source(w)][k]
            BY <6>2, <6>3
          <6>5. QED
            BY <1>1, <6>1, <6>4 DEF Worker
        <5>3. QED
          BY <3>3, <5>1, <5>2 DEF ReadPage
      <4>2. QED
        BY <3>3, <4>1 DEF ReadPage, WorkerMoves
    <3>4. CASE InsertRows(w)
      BY <1>1, <3>4 DEF InsertRows, WorkerMoves, Worker
    <3>5. CASE TakeDigest(w)
      BY <1>1, <3>5 DEF TakeDigest, WorkerMoves, Worker
    <3>6. CASE ProviderAnswers(w)
      BY <1>1, <3>6 DEF ProviderAnswers, WorkerMoves, Worker
    <3>7. CASE StatementThrows(w) \/ ProviderFails(w) \/ SettlementFails(w)
      BY <1>1, <3>7 DEF StatementThrows, ProviderFails, SettlementFails, WorkerMoves, Worker
    <3>8. QED
      BY <1>3, <2>2, <3>1, <3>2, <3>3, <3>4, <3>5, <3>6, <3>7 DEF Run
  <2>3. QED
    BY <2>1, <2>2
<1>4. QED
  BY <1>2, <1>3
  DEF Next, vars, RequestDataResidencyMigration, CancelDataResidencyMigration, LeaseLapses,
      DelayPasses, WriteRow

LEMMA InitKeepsTarget == ASSUME Init PROVE TInv
BY InitTypes DEF Init, TInv, MigrationsMove, SettledAfterDigests, TargetIsKept, NoMigration, Idle

LEMMA StepKeepsTarget ==
  ASSUME TInv, placement.region # InitialRegion => schema.own = {}, [Next]_vars
  PROVE  TInv'
<1>1. IInv /\ IInv'
  BY StepKeeps DEF TInv
<1>2. MigrationsMove'
  <2>1. SUFFICES ASSUME NEW m \in Migrations, migrations'[m].status # "none"
                 PROVE  migrations'[m].source # migrations'[m].target
    BY DEF MigrationsMove
  <2>2. CASE migrations[m].status # "none"
    BY <1>1, <2>2, MigrationsKeepRegions DEF TInv, MigrationsMove
  <2>3. CASE migrations[m].status = "none"
    <3>1. \/ \E r \in Regions : RequestDataResidencyMigration(m, r)
          \/ migrations'[m] = migrations[m]
      BY <1>1, <2>3, NoneStays
    <3>2. ASSUME NEW r \in Regions, RequestDataResidencyMigration(m, r)
          PROVE  migrations'[m].source # migrations'[m].target
      BY <1>1, <3>2 DEF RequestDataResidencyMigration, NoMigration, IInv, ResidencyTypeOK
    <3>3. QED
      BY <2>1, <2>3, <3>1, <3>2
  <2>4. QED
    BY <2>2, <2>3
<1>3. ASSUME NEW w \in Workers
      PROVE  /\ workers'[w].phase # "idle" => migrations'[workers'[w].migration].status # "none"
             /\ SettledAfterDigests(w)'
             /\ TargetIsKept(w)'
  <2>1. /\ workers[w] \in Worker
        /\ workers[w].phase # "idle" =>
             /\ workers[w].migration \in Migrations
             /\ migrations[workers[w].migration].status # "none"
        /\ SettledAfterDigests(w) /\ TargetIsKept(w)
    BY <1>1 DEF TInv, IInv, ResidencyTypeOK, WorkersAreBusyWithAMigration
  <2>2. WorkerMoves(w)
    BY <1>1, NextMovesWorkers
  <2>3. ASSUME workers[w].phase # "idle", workers'[w].migration = workers[w].migration,
               \/ workers'[w].targetDigest = workers[w].targetDigest
               \/ workers'[w].targetDigest = data[Target(w)] /\ data' = data
        PROVE  /\ migrations'[workers'[w].migration].status # "none"
               /\ TargetIsKept(w)'
    <3> DEFINE m == workers[w].migration
    <3>1. /\ m \in Migrations /\ migrations'[m].status # "none"
          /\ migrations'[m].target = migrations[m].target
          /\ migrations'[m].status \in Open => migrations[m].status \in Open
      BY <1>1, <2>1, <2>3, MigrationsKeepRegions
    <3>2. ASSUME migrations'[m].status \in Open, workers'[w].targetDigest # None,
                 NEW k \in Keys, workers'[w].targetDigest[k] # 0
          PROVE  data'[migrations[m].target][k] = workers'[w].targetDigest[k]
      <4>1. migrations[m].status \in Open
        BY <3>1, <3>2
      <4>2. migrations[m].target \in Regions /\ migrations[m].target # placement.region
        <5>1. migrations[m].source = placement.region
          BY <1>1, <3>1, <4>1 DEF IInv, Agreement, PlacementFollowsMigrations
        <5>2. migrations[m].status # "none"
          BY <4>1 DEF Open
        <5>3. migrations[m].source # migrations[m].target
          BY <3>1, <5>2 DEF TInv, MigrationsMove
        <5>4. migrations[m] \in Migration
          BY <1>1, <3>1 DEF IInv, ResidencyTypeOK
        <5>5. QED
          BY <5>1, <5>3, <5>4 DEF Migration
      <4>3. CASE workers'[w].targetDigest = workers[w].targetDigest
        <5>1. data[migrations[m].target][k] = workers[w].targetDigest[k]
          BY <2>1, <2>3, <3>2, <4>1, <4>3 DEF TargetIsKept, Target
        <5>2. QED
          BY <1>1, <3>2, <4>2, <4>3, <5>1, RowsStay
      <4>4. CASE workers'[w].targetDigest = data[Target(w)] /\ data' = data
        BY <4>4 DEF Target
      <4>5. QED
        BY <2>3, <4>3, <4>4
    <3>3. QED
      BY <2>3, <3>1, <3>2 DEF TargetIsKept, Target
  <2>4. CASE workers'[w] = workers[w]
    BY <2>1, <2>3, <2>4 DEF SettledAfterDigests, TargetIsKept
  <2>5. CASE workers'[w] = Idle
    BY <2>5 DEF Idle, SettledAfterDigests, TargetIsKept
  <2>6. ASSUME NEW m \in Migrations, migrations[m].status \in Open,
               workers'[w] = [Idle EXCEPT !.phase = FirstPhase(migrations[m].status), !.migration = m,
                                          !.status = migrations[m].status]
        PROVE  /\ migrations'[workers'[w].migration].status # "none"
               /\ SettledAfterDigests(w)'
               /\ TargetIsKept(w)'
    <3>1. migrations'[m].status # "none"
      BY <1>1, <2>6, MigrationsKeepRegions DEF Open
    <3>2. /\ workers'[w].migration = m /\ workers'[w].targetDigest = None
          /\ workers'[w].phase = FirstPhase(migrations[m].status)
          /\ workers'[w].status = migrations[m].status
      BY <2>6 DEF Idle
    <3>3. QED
      BY <3>1, <3>2 DEF SettledAfterDigests, TargetIsKept, FirstPhase
  <2>7. CASE /\ workers[w].phase # "idle"
             /\ workers'[w].migration = workers[w].migration /\ workers'[w].status = workers[w].status
             /\ workers'[w].phase = "settling" =>
                  workers'[w].sourceDigest # None /\ workers'[w].targetDigest # None
             /\ \/ workers'[w].targetDigest = workers[w].targetDigest
                \/ workers'[w].targetDigest = data[Target(w)] /\ data' = data
    BY <2>3, <2>7 DEF SettledAfterDigests
  <2>8. QED
    BY <2>2, <2>4, <2>5, <2>6, <2>7 DEF WorkerMoves
<1>4. QED
  BY <1>1, <1>2, <1>3 DEF TInv

\* A migration leaves its status by closing, or with the outcome of its phase.
LEMMA StatusMoves ==
  ASSUME IInv, [Next]_vars, NEW m \in Migrations, migrations[m].status # "none"
  PROVE  \/ migrations'[m].status = migrations[m].status
         \/ migrations'[m].status \in Closed
         \/ \E w \in Workers :
              /\ CompleteDataResidencyMigrationPhase(w) /\ OwnsPhase(w) /\ Bookkeeping
              /\ workers[w].migration = m /\ migrations'[m].status = NextStatus(w)
<1>1. migrations \in [Migrations -> Migration] /\ migrations[m] \in Migration
  BY DEF IInv, ResidencyTypeOK
<1>2. ASSUME NEW n \in Migrations, NEW r \in Regions, RequestDataResidencyMigration(n, r)
      PROVE  migrations'[m].status = migrations[m].status
  BY <1>1, <1>2 DEF RequestDataResidencyMigration
<1>3. ASSUME NEW n \in Migrations,
             CancelDataResidencyMigration(n) \/ LeaseLapses(n) \/ DelayPasses(n)
      PROVE  migrations'[m].status \in {migrations[m].status} \cup Closed
  <2>1. CASE CancelDataResidencyMigration(n)
    <3>1. migrations' = [migrations EXCEPT ![n] = Moved(migrations[n], "cancelled")]
      BY <2>1 DEF CancelDataResidencyMigration
    <3>2. "cancelled" \in Open \cup Closed /\ migrations[n] \in Migration
      BY <1>1 DEF Closed
    <3>3. Moved(migrations[n], "cancelled").status = "cancelled"
      BY <3>2, MovedType
    <3>4. QED
      BY <1>1, <3>1, <3>3 DEF Closed
  <2>2. CASE LeaseLapses(n)
    BY <1>1, <2>2 DEF LeaseLapses, Migration
  <2>3. CASE DelayPasses(n)
    BY <1>1, <2>3 DEF DelayPasses, Migration
  <2>4. QED
    BY <1>3, <2>1, <2>2, <2>3
<1>4. ASSUME NEW w \in Workers, NEW n \in Migrations, ClaimDataResidencyMigration(w, n)
      PROVE  migrations'[m].status = migrations[m].status
  BY <1>1, <1>4 DEF ClaimDataResidencyMigration, Migration
<1>5. ASSUME NEW w \in Workers, RetryDataResidencyMigrationPhase(w)
      PROVE  migrations'[m].status \in {migrations[m].status} \cup Closed
  <2>1. PICK n : n = workers[w].migration
    OBVIOUS
  <2>2. \/ migrations' = migrations
        \/ migrations' = [migrations EXCEPT ![n] = Retried(migrations[n])]
        \/ migrations' = [migrations EXCEPT ![n] = GivenUp(migrations[n])]
    BY <1>5, <2>1 DEF RetryDataResidencyMigrationPhase
  <2>3. CASE n = m
    <3>1. /\ Retried(migrations[m]).status = migrations[m].status
          /\ GivenUp(migrations[m]).status = "failed"
      BY <1>1 DEF Retried, GivenUp, Migration
    <3>2. QED
      BY <1>1, <2>2, <2>3, <3>1 DEF Closed
  <2>4. CASE n # m
    BY <1>1, <2>2, <2>4
  <2>5. QED
    BY <2>3, <2>4
<1>6. ASSUME NEW w \in Workers, CompleteDataResidencyMigrationPhase(w),
             migrations'[m].status # migrations[m].status
      PROVE  /\ OwnsPhase(w) /\ Bookkeeping
             /\ workers[w].migration = m /\ migrations'[m].status = NextStatus(w)
  <2> DEFINE n == workers[w].migration
             moved == Moved(migrations[n], NextStatus(w))
  <2>1. OwnsPhase(w) /\ Bookkeeping /\ migrations' = [migrations EXCEPT ![n] = Proven(w, moved)]
    BY <1>6 DEF CompleteDataResidencyMigrationPhase
  <2>2. n = m
    BY <1>1, <1>6, <2>1
  <2>3. moved.status = NextStatus(w) /\ DOMAIN moved = DOMAIN migrations[m]
    BY <1>1, <2>2 DEF Moved, Migration
  <2>4. Proven(w, moved).status = moved.status
    BY <1>1, <2>2 DEF Proven, Moved, Migration
  <2>5. QED
    BY <1>1, <2>1, <2>2, <2>3, <2>4
<1>7. QED
  BY <1>2, <1>3, <1>4, <1>5, <1>6
  DEF Next, vars, Run, WriteRow, ReadPage, InsertRows, TakeDigest, StatementThrows, ProviderAnswers,
      ProviderFails, SettlementFails, Crash

IsAt(w, status) == workers[w].phase # "idle" /\ workers[w].status = status

\* Where no workspace can leave: the migrations' own rows are in the region the
\* workspace is in.
AtHome ==
  /\ placement.region = InitialRegion
  /\ \A m \in Migrations : migrations[m].status # "none" => migrations[m].source = InitialRegion
  /\ \A w \in Workers : IsAt(w, "cutover-ready") =>
       migrations[workers[w].migration].status \in {"cutover-ready"} \cup Closed

\* A copy of an own row is behind: no copy is newer than the row, and the copy of
\* a migration that was verified is older, as every later digest of it.
RowLeads(k) ==
  /\ data[InitialRegion][k] # 0
  /\ \A r \in Regions \ {InitialRegion} : data[r][k] <= data[InitialRegion][k]
  /\ \A w \in Workers :
       /\ workers[w].phase = "inserting" /\ workers[w].page[1] = k =>
            workers[w].page[2] <= data[InitialRegion][k]
       /\ workers[w].sourceDigest # None => workers[w].sourceDigest[k] # 0
       /\ /\ IsAt(w, "cutover-ready") /\ workers[w].sourceDigest # None
          /\ migrations[workers[w].migration].status = "cutover-ready"
          => data[Target(w)][k] < workers[w].sourceDigest[k]
  /\ \A m \in Migrations : migrations[m].status = "cutover-ready" =>
       /\ data[migrations[m].target][k] # 0
       /\ data[migrations[m].target][k] < data[InitialRegion][k]

HInv == schema.own # {} => AtHome /\ \A k \in schema.own : RowLeads(k)

\* An own row only grows, and a copy of it is what a worker inserts.
LEMMA OwnRowsMove ==
  ASSUME TInv, AtHome, [Next]_vars, NEW k \in schema.own
  PROVE  /\ data[InitialRegion][k] \in Nat /\ data'[InitialRegion][k] \in Nat
         /\ data'[InitialRegion][k] >= data[InitialRegion][k]
         /\ \A r \in Regions \ {InitialRegion} :
              \/ data'[r][k] = data[r][k]
              \/ /\ data[r][k] = 0
                 /\ \E w \in Workers : /\ workers[w].phase = "inserting" /\ workers[w].page[1] = k
                                       /\ data'[r][k] = workers[w].page[2]
<1>1. /\ data \in [Regions -> Rows] /\ data' \in [Regions -> Rows]
      /\ InitialRegion \in Regions /\ k \in Keys
  BY StepKeeps, ResidencyAssumption DEF TInv, IInv, ResidencyTypeOK, Schema
<1>2. data[InitialRegion][k] \in Nat /\ data'[InitialRegion][k] \in Nat
  BY <1>1 DEF Rows
<1>3. CASE Bookkeeping
  BY <1>1, <1>2, <1>3 DEF Bookkeeping, Rows
<1>4. CASE UNCHANGED data
  BY <1>2, <1>4
<1>5. CASE \E j \in Keys : WriteRow(j)
  BY <1>1, <1>2, <1>5 DEF WriteRow, Rows
<1>6. ASSUME NEW w \in Workers, InsertRows(w)
      PROVE  /\ data'[InitialRegion][k] = data[InitialRegion][k]
             /\ \A r \in Regions \ {InitialRegion} :
                  \/ data'[r][k] = data[r][k]
                  \/ /\ data[r][k] = 0
                     /\ workers[w].phase = "inserting" /\ workers[w].page[1] = k
                     /\ data'[r][k] = workers[w].page[2]
  <2>1. PICK key, row : key = workers[w].page[1] /\ row = workers[w].page[2]
    OBVIOUS
  <2>2. workers[w].phase = "inserting"
        /\ (data' = data \/ (data[Target(w)][key] = 0 /\ data' = [data EXCEPT ![Target(w)][key] = row]))
    BY <1>6, <2>1 DEF InsertRows
  <2>3. Target(w) # InitialRegion
    BY <1>1, <2>2 DEF TInv, IInv, WorkersAreBusyWithAMigration, MigrationsMove, AtHome, Target
  <2>4. QED
    BY <1>1, <2>1, <2>2, <2>3 DEF Rows
<1>7. \/ Bookkeeping \/ UNCHANGED data \/ (\E j \in Keys : WriteRow(j))
      \/ \E w \in Workers : InsertRows(w)
  BY DEF Next, vars, Run, RequestDataResidencyMigration, CancelDataResidencyMigration, LeaseLapses,
         DelayPasses, ClaimDataResidencyMigration, ReadPage, TakeDigest, StatementThrows, ProviderAnswers,
         CompleteDataResidencyMigrationPhase, RetryDataResidencyMigrationPhase,
         ProviderFails, SettlementFails, Crash
<1>8. QED
  BY <1>2, <1>3, <1>4, <1>5, <1>6, <1>7

\* The final digests of a migration never match when it has rows of its own.
LEMMA NeverCompletes ==
  ASSUME TInv, HInv, schema.own # {}, NEW w \in Workers, workers[w].phase = "settling",
         workers[w].status = "cutover-ready", OwnsPhase(w)
  PROVE  ~DigestsMatch(w)
<1> SUFFICES ASSUME DigestsMatch(w) PROVE FALSE
  OBVIOUS
<1>1. PICK k \in schema.own : RowLeads(k)
  BY DEF HInv
<1>2. k \in Keys
  BY ResidencyAssumption DEF TInv, IInv, ResidencyTypeOK, Schema
<1>3. workers[w].sourceDigest # None /\ workers[w].targetDigest # None
  BY DEF TInv, SettledAfterDigests
<1>4. workers[w].targetDigest[k] # 0 /\ workers[w].targetDigest = workers[w].sourceDigest
  BY <1>1, <1>3 DEF RowLeads, DigestsMatch
<1>5. migrations[workers[w].migration].status = "cutover-ready"
  BY DEF OwnsPhase
<1>6. data[Target(w)][k] = workers[w].targetDigest[k]
  BY <1>2, <1>3, <1>4, <1>5 DEF TInv, TargetIsKept, Open
<1>7. data[Target(w)][k] < workers[w].sourceDigest[k]
  BY <1>1, <1>3, <1>5 DEF RowLeads, IsAt
<1>8. workers[w].sourceDigest[k] \in Nat
  BY <1>2, <1>3 DEF TInv, IInv, ResidencyTypeOK, Worker, Rows
<1>9. QED
  BY <1>4, <1>6, <1>7, <1>8

\* A verified migration stays verified until it is over.
LEMMA ReadyEnds ==
  ASSUME IInv, [Next]_vars, NEW m \in Migrations,
         migrations[m].status \in {"cutover-ready"} \cup Closed
  PROVE  migrations'[m].status \in {"cutover-ready"} \cup Closed
<1>1. migrations[m].status # "none"
  BY DEF Closed
<1>2. CASE migrations[m].status \in Closed
  BY <1>2, ClosedStays
<1>3. CASE migrations[m].status = "cutover-ready"
  <2>1. ASSUME NEW w \in Workers, CompleteDataResidencyMigrationPhase(w), OwnsPhase(w),
               workers[w].migration = m
        PROVE  NextStatus(w) \in Closed
    <3>1. workers[w].status = "cutover-ready"
      BY <1>3, <2>1 DEF OwnsPhase
    <3>2. QED
      BY <3>1, NextStatusIs DEF Open, Closed
  <2>2. QED
    BY <1>1, <1>3, <2>1, StatusMoves
<1>4. QED
  BY <1>2, <1>3

\* What is behind stays behind, and so the workspace stays where it is.
LEMMA StaysAtHome ==
  ASSUME TInv, HInv, schema.own # {}, [Next]_vars
  PROVE  AtHome'
<1>1. IInv /\ AtHome
  BY DEF TInv, HInv
<1>2. placement'.region = InitialRegion
  <2>1. SUFFICES ASSUME placement'.region # placement.region PROVE FALSE
    BY <1>1 DEF AtHome
  <2>2. PICK w \in Workers : /\ CompleteDataResidencyMigrationPhase(w) /\ OwnsPhase(w)
                             /\ NextStatus(w) = "completed"
    BY <1>1, <2>1, OnlyCompletionsMove
  <2>3. workers[w].phase = "settling" /\ workers[w].status \in Open
    BY <1>1, <2>2 DEF CompleteDataResidencyMigrationPhase, IInv, WorkersAreBusyWithAMigration
  <2>4. workers[w].status = "cutover-ready" /\ DigestsMatch(w)
    BY <2>2, <2>3, NextStatusIs
  <2>5. QED
    BY <2>2, <2>3, <2>4, NeverCompletes
<1>3. ASSUME NEW m \in Migrations, migrations'[m].status # "none"
      PROVE  migrations'[m].source = InitialRegion
  <2>1. CASE migrations[m].status # "none"
    BY <1>1, <2>1, MigrationsKeepRegions DEF AtHome
  <2>2. CASE migrations[m].status = "none"
    <3>1. PICK r \in Regions : RequestDataResidencyMigration(m, r)
      BY <1>1, <1>3, <2>2, NoneStays
    <3>2. QED
      BY <1>1, <3>1 DEF RequestDataResidencyMigration, NoMigration, IInv, ResidencyTypeOK, AtHome
  <2>3. QED
    BY <2>1, <2>2
<1>4. ASSUME NEW w \in Workers, IsAt(w, "cutover-ready")'
      PROVE  migrations'[workers'[w].migration].status \in {"cutover-ready"} \cup Closed
  <2>1. workers'[w].migration \in Migrations
    BY <1>1, <1>4, StepKeeps DEF IInv, WorkersAreBusyWithAMigration, IsAt
  <2>2. WorkerMoves(w)
    BY <1>1, NextMovesWorkers
  <2>3. CASE workers[w].phase # "idle" /\ workers'[w].migration = workers[w].migration
             /\ workers'[w].status = workers[w].status
    BY <1>1, <1>4, <2>1, <2>3, ReadyEnds DEF AtHome, IsAt
  <2>4. ASSUME NEW m \in Migrations,
               workers'[w] = [Idle EXCEPT !.phase = FirstPhase(migrations[m].status), !.migration = m,
                                          !.status = migrations[m].status]
        PROVE  migrations'[workers'[w].migration].status \in {"cutover-ready"} \cup Closed
    <3>1. workers'[w].migration = m /\ migrations[m].status = "cutover-ready"
      BY <1>4, <2>4 DEF Idle, IsAt
    <3>2. QED
      BY <1>1, <3>1, ReadyEnds
  <2>5. CASE workers'[w] = Idle
    BY <1>4, <2>5 DEF Idle, IsAt
  <2>6. CASE workers'[w] = workers[w]
    BY <1>4, <2>3, <2>6 DEF IsAt
  <2>7. QED
    BY <2>2, <2>3, <2>4, <2>5, <2>6 DEF WorkerMoves
<1>5. QED
  BY <1>2, <1>3, <1>4 DEF AtHome

LEMMA RowStaysAhead ==
  ASSUME TInv, HInv, [Next]_vars, NEW k \in schema.own
  PROVE  RowLeads(k)'
<1> DEFINE I == InitialRegion
<1>1. /\ IInv /\ AtHome /\ RowLeads(k) /\ k \in Keys /\ I \in Regions /\ IInv'
      /\ data \in [Regions -> Rows] /\ data' \in [Regions -> Rows]
      /\ workers \in [Workers -> Worker] /\ migrations \in [Migrations -> Migration]
  BY StepKeeps, ResidencyAssumption DEF TInv, HInv, IInv, ResidencyTypeOK, Schema
<1>2. /\ data[I][k] \in Nat /\ data'[I][k] \in Nat /\ data'[I][k] >= data[I][k]
      /\ \A r \in Regions \ {I} :
           \/ data'[r][k] = data[r][k]
           \/ /\ data[r][k] = 0
              /\ \E w \in Workers : /\ workers[w].phase = "inserting" /\ workers[w].page[1] = k
                                    /\ data'[r][k] = workers[w].page[2]
  BY <1>1, OwnRowsMove
<1>3. data'[I][k] # 0
  BY <1>1, <1>2 DEF RowLeads
<1>4. ASSUME NEW r \in Regions \ {I} PROVE data'[r][k] <= data'[I][k]
  <2>1. data[r][k] \in Nat /\ data'[r][k] \in Nat
    BY <1>1 DEF Rows
  <2>2. data'[r][k] <= data[I][k]
    BY <1>1, <1>2 DEF RowLeads
  <2>3. QED
    BY <1>2, <2>1, <2>2
<1>5. ASSUME NEW m \in Migrations, migrations[m].status \in {"cutover-ready"} \cup Closed,
             migrations'[m].status = "cutover-ready"
      PROVE  /\ migrations[m].status = "cutover-ready" /\ migrations[m].target \in Regions \ {I}
             /\ migrations'[m].target = migrations[m].target
             /\ data'[migrations[m].target][k] = data[migrations[m].target][k]
             /\ data[migrations[m].target][k] # 0 /\ data[migrations[m].target][k] < data[I][k]
  <2>1. migrations[m].status = "cutover-ready"
    BY <1>1, <1>5, ClosedStays DEF Closed
  <2>2. migrations[m].target \in Regions \ {I}
    BY <1>1, <2>1 DEF TInv, MigrationsMove, AtHome, Migration
  <2>3. migrations'[m].target = migrations[m].target
    BY <1>1, <2>1, MigrationsKeepRegions
  <2>4. data[migrations[m].target][k] # 0 /\ data[migrations[m].target][k] < data[I][k]
    BY <1>1, <2>1 DEF RowLeads
  <2>5. data'[migrations[m].target][k] = data[migrations[m].target][k]
    BY <1>1, <2>2, <2>4, RowsStay
  <2>6. QED
    BY <2>1, <2>2, <2>3, <2>4, <2>5
<1>6. ASSUME NEW m \in Migrations, migrations'[m].status = "cutover-ready"
      PROVE  /\ data'[migrations'[m].target][k] # 0
             /\ data'[migrations'[m].target][k] < data'[I][k]
  <2>1. migrations[m].status # "none"
    <3>1. ASSUME NEW r \in Regions, RequestDataResidencyMigration(m, r)
          PROVE  migrations'[m].status = "requested"
      BY <1>1, <3>1 DEF RequestDataResidencyMigration, NoMigration
    <3>2. QED
      BY <1>1, <1>6, <3>1, NoneStays
  <2>2. CASE migrations[m].status = "cutover-ready"
    <3>1. data[migrations[m].target][k] \in Nat
      BY <1>1, <1>5, <1>6, <2>2 DEF Rows
    <3>2. QED
      BY <1>2, <1>5, <1>6, <2>2, <3>1
  <2>3. CASE migrations[m].status # "cutover-ready"
    <3>1. PICK w \in Workers :
            /\ CompleteDataResidencyMigrationPhase(w) /\ OwnsPhase(w) /\ Bookkeeping
            /\ workers[w].migration = m /\ NextStatus(w) = "cutover-ready"
      BY <1>1, <1>6, <2>1, <2>3, StatusMoves DEF Closed
    <3>2. workers[w].phase = "settling" /\ workers[w].status \in Open
      BY <1>1, <3>1 DEF CompleteDataResidencyMigrationPhase, IInv, WorkersAreBusyWithAMigration
    <3>3. workers[w].status = "verifying" /\ DigestsMatch(w) /\ migrations[m].status = "verifying"
      BY <3>1, <3>2, NextStatusIs DEF OwnsPhase
    <3>4. workers[w].sourceDigest # None /\ workers[w].targetDigest # None
      BY <3>2, <3>3 DEF TInv, SettledAfterDigests
    <3>5. workers[w].targetDigest[k] # 0
      BY <1>1, <3>3, <3>4 DEF RowLeads, DigestsMatch
    <3>6. data[migrations[m].target][k] # 0
      BY <1>1, <3>1, <3>2, <3>3, <3>4, <3>5 DEF TInv, TargetIsKept, Target, Open
    <3>7. migrations[m].target \in Regions \ {I}
      BY <1>1, <2>1 DEF TInv, MigrationsMove, AtHome, Migration
    <3>8. migrations'[m].target = migrations[m].target
      BY <1>1, <2>1, MigrationsKeepRegions
    <3>9. /\ data'[migrations[m].target][k] = data[migrations[m].target][k]
          /\ data'[I][k] = data[I][k] + 1
      BY <1>1, <3>1, <3>7 DEF Bookkeeping, Rows
    <3>10. /\ data[migrations[m].target][k] <= data[I][k]
           /\ data[migrations[m].target][k] \in Nat
      BY <1>1, <3>7 DEF RowLeads, Rows
    <3>11. QED
      BY <1>2, <3>6, <3>8, <3>9, <3>10
  <2>4. QED
    BY <2>2, <2>3
<1>7. ASSUME NEW w \in Workers
      PROVE  /\ workers'[w].phase = "inserting" /\ workers'[w].page[1] = k =>
                  workers'[w].page[2] <= data'[I][k]
             /\ workers'[w].sourceDigest # None => workers'[w].sourceDigest[k] # 0
             /\ /\ IsAt(w, "cutover-ready")' /\ workers'[w].sourceDigest # None
                /\ migrations'[workers'[w].migration].status = "cutover-ready"
                => data'[migrations'[workers'[w].migration].target][k] < workers'[w].sourceDigest[k]
  <2>1. WorkerMoves(w)
    BY <1>1, NextMovesWorkers
  <2>2. CASE workers'[w] = Idle
    BY <2>2 DEF Idle, IsAt
  <2>3. ASSUME NEW m \in Migrations,
               workers'[w] = [Idle EXCEPT !.phase = FirstPhase(migrations[m].status), !.migration = m,
                                          !.status = migrations[m].status]
        PROVE  workers'[w].phase # "inserting" /\ workers'[w].sourceDigest = None
    <3>1. FirstPhase(migrations[m].status) # "inserting"
      BY DEF FirstPhase
    <3>2. /\ workers'[w].phase = FirstPhase(migrations[m].status)
          /\ workers'[w].sourceDigest = None
      BY <2>3 DEF Idle
    <3>3. QED
      BY <3>1, <3>2
  <2>4. \/ workers'[w] = workers[w]
        \/ workers'[w].phase # "inserting" /\ workers'[w].sourceDigest = None
        \/ /\ workers[w].phase # "idle"
           /\ workers'[w].migration = workers[w].migration /\ workers'[w].status = workers[w].status
           /\ \/ workers'[w].sourceDigest = workers[w].sourceDigest
              \/ workers'[w].sourceDigest = data[Source(w)] /\ data' = data
           /\ workers'[w].phase = "inserting" =>
                workers'[w].page[2] = data[Source(w)][workers'[w].page[1]] /\ data' = data
    <3>1. workers'[w] = Idle => workers'[w].phase # "inserting" /\ workers'[w].sourceDigest = None
      BY DEF Idle
    <3>2. (\E m \in Migrations :
              workers'[w] = [Idle EXCEPT !.phase = FirstPhase(migrations[m].status), !.migration = m,
                                         !.status = migrations[m].status])
          => workers'[w].phase # "inserting" /\ workers'[w].sourceDigest = None
      BY <2>3
    <3>3. QED
      BY <2>1, <3>1, <3>2, Zenon DEF WorkerMoves
  <2>5. ASSUME workers[w].phase # "idle" PROVE Source(w) = I
    BY <1>1, <2>5 DEF IInv, WorkersAreBusyWithAMigration, TInv, AtHome, Source
  <2>6. ASSUME workers'[w].phase = "inserting", workers'[w].page[1] = k
        PROVE  workers'[w].page[2] <= data'[I][k]
    <3>1. CASE workers'[w] = workers[w]
      <4>1. workers[w].phase = "inserting" /\ workers[w].page[1] = k
        BY <2>6, <3>1
      <4>2. workers[w].page[2] <= data[I][k]
        BY <1>1, <4>1 DEF RowLeads
      <4>3. workers[w].page \in Keys \X Nat
        BY <1>1, <4>1 DEF IInv, WorkersAreBusyWithAMigration
      <4>4. workers[w].page[2] \in Nat /\ workers'[w].page[2] = workers[w].page[2]
        BY <3>1, <4>3
      <4>5. QED
        BY <1>2, <4>2, <4>4
    <3>2. CASE workers[w].phase # "idle" /\ data' = data
               /\ workers'[w].page[2] = data[Source(w)][workers'[w].page[1]]
      BY <1>2, <2>5, <2>6, <3>2
    <3>3. QED
      BY <2>4, <2>6, <3>1, <3>2
  <2>7. ASSUME workers'[w].sourceDigest # None
        PROVE  /\ workers[w].phase # "idle" => workers'[w].sourceDigest[k] # 0
               /\ \/ workers'[w] = workers[w]
                  \/ /\ workers[w].phase # "idle"
                     /\ workers'[w].migration = workers[w].migration
                     /\ workers'[w].status = workers[w].status
               /\ \/ workers'[w].sourceDigest = workers[w].sourceDigest
                  \/ workers'[w].sourceDigest = data[I] /\ data' = data
    <3>1. CASE workers'[w] = workers[w]
      <4>1. workers[w].sourceDigest # None /\ workers'[w].sourceDigest = workers[w].sourceDigest
        BY <2>7, <3>1
      <4>2. QED
        BY <1>1, <3>1, <4>1 DEF RowLeads
    <3>2. CASE workers[w].phase # "idle" /\ workers'[w].sourceDigest = workers[w].sourceDigest
               /\ workers'[w].migration = workers[w].migration
               /\ workers'[w].status = workers[w].status
      BY <1>1, <2>7, <3>2 DEF RowLeads
    <3>3. CASE workers[w].phase # "idle" /\ data' = data
               /\ workers'[w].sourceDigest = data[Source(w)]
               /\ workers'[w].migration = workers[w].migration
               /\ workers'[w].status = workers[w].status
      BY <1>1, <2>5, <3>3 DEF RowLeads
    <3>4. QED
      BY <2>4, <2>7, <3>1, <3>2, <3>3
  <2>8. workers'[w].sourceDigest # None => workers'[w].sourceDigest[k] # 0
    BY <1>1, <2>7 DEF RowLeads
  <2>9. ASSUME IsAt(w, "cutover-ready")', workers'[w].sourceDigest # None,
               migrations'[workers'[w].migration].status = "cutover-ready"
        PROVE  data'[migrations'[workers'[w].migration].target][k] < workers'[w].sourceDigest[k]
    <3> DEFINE m == workers[w].migration
    <3>1. IsAt(w, "cutover-ready") /\ workers'[w].migration = m
      BY <2>7, <2>9 DEF IsAt
    <3>2. m \in Migrations /\ migrations[m].status \in {"cutover-ready"} \cup Closed
      BY <1>1, <3>1 DEF IInv, WorkersAreBusyWithAMigration, AtHome, IsAt
    <3>3. /\ migrations[m].status = "cutover-ready"
          /\ migrations'[m].target = migrations[m].target
          /\ data'[migrations[m].target][k] = data[migrations[m].target][k]
          /\ data[migrations[m].target][k] < data[I][k]
      BY <1>5, <2>9, <3>1, <3>2
    <3>4. CASE workers'[w].sourceDigest = workers[w].sourceDigest
      BY <1>1, <2>9, <3>1, <3>3, <3>4 DEF RowLeads, Target
    <3>5. CASE workers'[w].sourceDigest = data[I]
      BY <3>1, <3>3, <3>5
    <3>6. QED
      BY <2>7, <2>9, <3>4, <3>5
  <2>10. QED
    BY <2>6, <2>8, <2>9
<1>8. QED
  BY <1>3, <1>4, <1>6, <1>7 DEF RowLeads, IsAt, Target

LEMMA InitAtHome == ASSUME Init PROVE HInv
<1>1. AtHome
  BY DEF Init, AtHome, NoMigration, Idle, IsAt
<1>2. ASSUME NEW k \in schema.own PROVE RowLeads(k)
  <2>1. k \in Keys /\ InitialRegion \in Regions
    BY ResidencyAssumption DEF Init, Schema
  <2>2. \A r \in Regions : data[r][k] = IF r = InitialRegion THEN 1 ELSE 0
    BY <2>1 DEF Init
  <2>3. QED
    BY <2>1, <2>2 DEF Init, RowLeads, NoMigration, Idle, IsAt
<1>3. QED
  BY <1>1, <1>2 DEF HInv

LEMMA HomeInvariance == Spec => [](TInv /\ HInv)
<1>1. Init => TInv /\ HInv
  BY InitKeepsTarget, InitAtHome
<1>2. TInv /\ HInv /\ [Next]_vars => TInv' /\ HInv'
  <2> SUFFICES ASSUME TInv, HInv, [Next]_vars PROVE TInv' /\ HInv'
    OBVIOUS
  <2>1. TInv'
    BY StepKeepsTarget DEF HInv, AtHome
  <2>2. HInv'
    BY SchemaStays, StaysAtHome, RowStaysAhead DEF HInv
  <2>3. QED
    BY <2>1, <2>2
<1>3. QED
  BY <1>1, <1>2, PTL DEF Spec

\* Whatever workers, writers and crashes do, when the placement moves, what the
\* final digests saw and nobody has changed since is in the new region.  Where
\* the migrations' own rows are among the copied ones, the placement never moves.
THEOREM CutoverIsComplete == Spec => CutoverMissesOnlyLateWrites
<1> DEFINE Complete == placement'.region # placement.region =>
             \E w \in Workers :
               /\ workers[w].phase = "settling" /\ workers'[w].phase = "idle"
               /\ \A k \in Keys :
                    /\ data[placement.region][k] # 0
                    /\ data[placement.region][k] = workers[w].sourceDigest[k]
                    => data[placement'.region][k] = data[placement.region][k]
<1>1. TInv /\ [Next]_vars => [Complete]_vars
  <2>1. SUFFICES ASSUME TInv, [Next]_vars, placement'.region # placement.region
                 PROVE  Complete
    OBVIOUS
  <2>2. IInv
    BY <2>1 DEF TInv
  <2>3. PICK w \in Workers : /\ CompleteDataResidencyMigrationPhase(w) /\ OwnsPhase(w)
                             /\ NextStatus(w) = "completed"
    BY <2>1, <2>2, OnlyCompletionsMove
  <2> DEFINE m == workers[w].migration
  <2>4. /\ workers[w].phase = "settling" /\ workers[w] \in Worker /\ m \in Migrations
        /\ workers[w].status \in Open
    BY <2>2, <2>3 DEF CompleteDataResidencyMigrationPhase, IInv, ResidencyTypeOK,
       WorkersAreBusyWithAMigration
  <2>5. workers[w].status = "cutover-ready" /\ DigestsMatch(w)
    BY <2>3, <2>4, NextStatusIs
  <2>6. migrations[m].status = "cutover-ready"
    BY <2>3, <2>5 DEF OwnsPhase
  <2>7. migrations[m].source = placement.region
    BY <2>2, <2>4, <2>6 DEF IInv, Agreement, PlacementFollowsMigrations, Open
  <2>8. placement'.region = migrations[m].target
    BY <2>1, <2>3 DEF CompleteDataResidencyMigrationPhase, PlacementAfter
  <2>9. \A k \in Keys : workers[w].targetDigest[k] # 0 =>
          data[migrations[m].target][k] = workers[w].targetDigest[k]
    <3>1. workers[w].targetDigest # None
      BY <2>1, <2>4, <2>5 DEF TInv, SettledAfterDigests
    <3>2. migrations[m].status \in Open
      BY <2>6 DEF Open
    <3>3. TargetIsKept(w)
      BY <2>1 DEF TInv
    <3>4. QED
      BY <2>4, <3>1, <3>2, <3>3 DEF TargetIsKept, Target
  <2>10. workers'[w].phase = "idle"
    BY <2>2, <2>3 DEF CompleteDataResidencyMigrationPhase, IInv, ResidencyTypeOK, Idle
  <2>11. QED
    BY <2>4, <2>5, <2>8, <2>9, <2>10 DEF DigestsMatch
<1>2. QED
  BY <1>1, HomeInvariance, PTL DEF Spec, CutoverMissesOnlyLateWrites

\* Where the control plane's database is one of the regional ones, no migration ever
\* moves the workspace: each claim and each phase changes the migration's own rows
\* in the region that is left, so the copy it verified is behind when the final
\* digests are compared.
THEOREM OwnRowsKeepTheWorkspace ==
  Spec => [](schema.own # {} => placement.region = InitialRegion)
<1>1. TInv /\ HInv => (schema.own # {} => placement.region = InitialRegion)
  BY DEF HInv, AtHome
<1>2. QED
  BY <1>1, HomeInvariance, PTL

-----------------------------------------------------------------------------
(* The list as it stands *)

\* While a listed table has no workspace_id, no worker gets digests, and no
\* migration past its copying.
UInv ==
  ~schema.scoped =>
    /\ placement.region = InitialRegion
    /\ \A w \in Workers :
         /\ workers[w].sourceDigest = None
         /\ workers[w].phase = "settling" => workers[w].status = "requested"

LEMMA StaysUnscoped ==
  ASSUME IInv, UInv, [Next]_vars
  PROVE  UInv'
<1> SUFFICES ASSUME ~schema.scoped
             PROVE  /\ placement'.region = InitialRegion
                    /\ \A w \in Workers :
                         /\ workers'[w].sourceDigest = None
                         /\ workers'[w].phase = "settling" => workers'[w].status = "requested"
  BY SchemaStays DEF UInv
<1>1. /\ workers \in [Workers -> Worker] /\ placement.region = InitialRegion
      /\ \A w \in Workers :
           /\ workers[w].sourceDigest = None
           /\ workers[w].phase = "settling" => workers[w].status = "requested"
  BY DEF IInv, ResidencyTypeOK, UInv
<1>2. placement'.region = InitialRegion
  <2>1. ASSUME NEW w \in Workers, CompleteDataResidencyMigrationPhase(w)
        PROVE  NextStatus(w) # "completed"
    BY <1>1, <2>1, NextStatusIs DEF CompleteDataResidencyMigrationPhase, Open
  <2>2. QED
    BY <1>1, <2>1, OnlyCompletionsMove
<1>3. ASSUME NEW w \in Workers
      PROVE  /\ workers'[w].sourceDigest = None
             /\ workers'[w].phase = "settling" => workers'[w].status = "requested"
  <2>1. CASE UNCHANGED workers
    BY <1>1, <2>1
  <2>2. ASSUME NEW v \in Workers, Run(v) \/ ProviderFails(v) \/ SettlementFails(v) \/ Crash(v),
               v # w
        PROVE  workers'[w] = workers[w]
    BY <1>1, <2>2
    DEF Run, ClaimDataResidencyMigration, ReadPage, InsertRows, TakeDigest, StatementThrows,
        ProviderAnswers, CompleteDataResidencyMigrationPhase, RetryDataResidencyMigrationPhase,
        ProviderFails, SettlementFails, Crash
  <2>3. CASE \E m \in Migrations : ClaimDataResidencyMigration(w, m)
    <3>1. PICK m \in Migrations : ClaimDataResidencyMigration(w, m)
      BY <2>3
    <3>2. /\ workers'[w].sourceDigest = None
          /\ workers'[w].phase = FirstPhase(migrations[m].status)
          /\ workers'[w].status = migrations[m].status
      BY <1>1, <3>1 DEF ClaimDataResidencyMigration, Idle
    <3>3. QED
      BY <3>2 DEF FirstPhase
  <2>4. CASE \/ CompleteDataResidencyMigrationPhase(w) \/ RetryDataResidencyMigrationPhase(w)
             \/ Crash(w)
    BY <1>1, <2>4 DEF CompleteDataResidencyMigrationPhase, RetryDataResidencyMigrationPhase, Crash,
       Idle
  <2>5. CASE InsertRows(w) \/ StatementThrows(w) \/ ProviderFails(w) \/ SettlementFails(w)
    BY <1>1, <2>5 DEF InsertRows, StatementThrows, ProviderFails, SettlementFails, Worker
  <2>6. ~ReadPage(w) /\ ~TakeDigest(w) /\ ~ProviderAnswers(w)
    BY <1>1 DEF ReadPage, TakeDigest, ProviderAnswers
  <2>7. QED
    BY <1>1, <2>1, <2>2, <2>3, <2>4, <2>5, <2>6
    DEF Next, vars, Run, RequestDataResidencyMigration, CancelDataResidencyMigration, LeaseLapses,
        DelayPasses, WriteRow
<1>4. QED
  BY <1>2, <1>3

\* With the list of tables as the repository has it, whose first table has no column
\* workspace_id (tenantScopedTableNames), no migration ever moves the workspace,
\* however often it is requested and retried.
THEOREM UnscopedListKeepsTheWorkspace ==
  Spec => [](~schema.scoped => placement.region = InitialRegion)
<1>1. Init => UInv
  BY DEF Init, UInv, Idle
<1>2. IInv /\ UInv /\ [Next]_vars => UInv'
  BY StaysUnscoped
<1>3. UInv => (~schema.scoped => placement.region = InitialRegion)
  BY DEF UInv
<1>4. QED
  BY <1>1, <1>2, <1>3, Invariance, PTL DEF Spec

=============================================================================
