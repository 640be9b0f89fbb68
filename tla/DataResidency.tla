---------------------------- MODULE DataResidency ----------------------------
(***************************************************************************)
(* Moving a workspace's data to another region: the placement, the          *)
(* migrations, the workers that lease a migration phase by phase, and the   *)
(* regional databases they copy (packages/database/src/drizzle/             *)
(* data-residency.ts, residency-data-plane.ts, apps/api/src/                *)
(* data-residency-worker.ts, data-residency-neon-r2.ts).                    *)
(*                                                                         *)
(* One workspace; its tables are one table, ordered by primary key and read *)
(* in pages of one row.  A repository transaction is one action: each locks *)
(* the migration row, then the placement row.  The provider's statements    *)
(* are actions of their own.  Leases and retry delays end at any time,      *)
(* since nothing bounds how long a provider call takes.                     *)
(***************************************************************************)
EXTENDS Integers, FiniteSets

CONSTANTS
  Workers,      \* worker processes, one per API instance
  Migrations,   \* ids of migrations that may be requested
  Regions,      \* regions with a configured route
  InitialRegion,\* 'us': where a workspace without a placement is
  Keys,         \* primary keys of the workspace's rows
  Schemas,      \* what the copied tables may be like
  None,         \* no migration, no owner, no digest
  MaxAttempts,  \* DATA_RESIDENCY_MAX_PHASE_ATTEMPTS
  MaxWrites,    \* bound: writes of the workspace
  MaxFailures,  \* bound: failing provider calls
  MaxFaults     \* bound: crashed workers and failed settlements

\* What the schema makes of a list of tables to copy:
\*   scoped   every listed table has the column workspace_id.  This is FALSE for
\*            tenantScopedTableNames as it stands, whose first table is workspaces;
\*            TRUE stands for the list without that flaw;
\*   keyless  keys of the rows in tables without a primary key;
\*   orphans  keys of the rows that refer to a row no listed table copies (users);
\*   own      keys of the rows the migration's own transactions write.  There are
\*            some where the control plane's database is one of the regional ones:
\*            data_residency_migrations, its history and evidence, and
\*            workspace_data_placements are listed.
Schema == [scoped: BOOLEAN, keyless: SUBSET Keys, orphans: SUBSET Keys, own: SUBSET Keys]

ASSUME ResidencyAssumption ==
  /\ None \notin Workers \cup Migrations
  /\ InitialRegion \in Regions
  /\ Keys \subseteq Nat /\ Schemas \subseteq Schema
  /\ MaxAttempts \in Nat \ {0} /\ MaxWrites \in Nat
  /\ MaxFailures \in Nat /\ MaxFaults \in Nat

VARIABLES
  schema,      \* what the copied tables are like; never changes
  placement,   \* workspace_data_placements
  migrations,  \* data_residency_migrations with their evidence
  data,        \* each region's copy of the rows; 0: no row with that key
  workers,     \* what each worker is doing
  writes,      \* history: writes so far
  failures,    \* history: provider failures so far
  faults       \* history: faults so far

bounds == <<schema, writes, failures, faults>>
vars == <<schema, placement, migrations, data, workers, writes, failures, faults>>

-----------------------------------------------------------------------------
Open == {"requested", "copying", "verifying", "cutover-ready"}
Closed == {"completed", "failed", "cancelled"}

\* dataResidencyEvidencePhaseForStatus names the evidence of a status; the
\* status itself serves here.
EvidencePhases == {"copying", "verifying", "cutover-ready"}

\* `generation` is expectedPlacementGeneration; `evidence` the phases that left
\* evidence and `matched` those whose two digests were equal; `lapsed` that the
\* lease is over and `delayed` that the next attempt is not due yet.
Migration == [status: {"none"} \cup Open \cup Closed,
              source: Regions, target: Regions, generation: Nat,
              attempts: 0..MaxAttempts, owner: Workers \cup {None},
              lapsed: BOOLEAN, delayed: BOOLEAN,
              evidence: SUBSET EvidencePhases, matched: SUBSET EvidencePhases]

NoMigration == [status |-> "none", source |-> InitialRegion, target |-> InitialRegion,
                generation |-> 0, attempts |-> 0, owner |-> None, lapsed |-> FALSE,
                delayed |-> FALSE, evidence |-> {}, matched |-> {}]

\* A worker waits, reads a page of the source, inserts it into the target,
\* takes the digests, writes the outcome, or reports that the provider failed.
Phases == {"idle", "reading", "inserting", "digesting", "settling", "failing"}

Rows == [Keys -> Nat]

Worker == [phase: Phases, migration: Migrations \cup {None},
           status: {"none"} \cup Open, offset: Nat, page: (Keys \X Nat) \cup {None},
           sourceDigest: Rows \cup {None}, targetDigest: Rows \cup {None}]

Idle == [phase |-> "idle", migration |-> None, status |-> "none", offset |-> 0,
         page |-> None, sourceDigest |-> None, targetDigest |-> None]

Init ==
  /\ schema \in Schemas
  /\ placement = [region |-> InitialRegion, generation |-> 0, active |-> None]
  /\ migrations = [m \in Migrations |-> NoMigration]
  /\ \E present \in SUBSET Keys :
       /\ schema.own \subseteq present
       /\ data = [r \in Regions |-> [k \in Keys |->
            IF r = InitialRegion /\ k \in present THEN 1 ELSE 0]]
  /\ workers = [w \in Workers |-> Idle]
  /\ writes = 0
  /\ failures = 0
  /\ faults = 0

\* What a transaction of the migration itself does to the copied tables.
Bookkeeping ==
  data' = [data EXCEPT ![InitialRegion] =
             [k \in Keys |-> IF k \in schema.own THEN data[InitialRegion][k] + 1
                             ELSE data[InitialRegion][k]]]

-----------------------------------------------------------------------------
(* People *)

RequestDataResidencyMigration(m, target) ==
  /\ migrations[m].status = "none"
  /\ placement.active = None
  /\ placement.region # target
  /\ migrations' = [migrations EXCEPT ![m] =
       [NoMigration EXCEPT !.status = "requested", !.source = placement.region,
                           !.target = target, !.generation = placement.generation]]
  /\ placement' = [placement EXCEPT !.active = m]
  /\ Bookkeeping
  /\ UNCHANGED <<workers, bounds>>

\* A status change ends the lease and starts the attempts anew.
Moved(migration, status) ==
  [migration EXCEPT !.status = status, !.attempts = 0, !.owner = None,
                    !.lapsed = FALSE, !.delayed = FALSE]

\* Only a migration that no worker has advanced yet can be cancelled.
CancelDataResidencyMigration(m) ==
  /\ migrations[m].status = "requested"
  /\ placement.active = m
  /\ migrations' = [migrations EXCEPT ![m] = Moved(@, "cancelled")]
  /\ placement' = [placement EXCEPT !.active = None]
  /\ Bookkeeping
  /\ UNCHANGED <<workers, bounds>>

\* The workspace's own requests insert, update and delete rows.  They are
\* modelled until the placement moves: nothing in the code reads the route.
WriteRow(k) ==
  /\ writes < MaxWrites
  /\ placement.region = InitialRegion
  /\ k \notin schema.own
  /\ \E value \in {0, writes + 2} :
       /\ data[InitialRegion][k] # value
       /\ data' = [data EXCEPT ![InitialRegion][k] = value]
  /\ writes' = writes + 1
  /\ UNCHANGED <<schema, placement, migrations, workers, failures, faults>>

-----------------------------------------------------------------------------
(* A worker's poll *)

IsClaimable(migration) ==
  /\ migration.status \in Open
  /\ migration.attempts < MaxAttempts
  /\ ~migration.delayed
  /\ migration.owner = None \/ migration.lapsed

FirstPhase(status) ==
  CASE status = "requested" -> "settling"
    [] status = "verifying" -> "digesting"
    [] OTHER -> "reading"

ClaimDataResidencyMigration(w, m) ==
  /\ workers[w].phase = "idle"
  /\ IsClaimable(migrations[m])
  /\ migrations' = [migrations EXCEPT ![m].attempts = @ + 1, ![m].owner = w,
                                      ![m].lapsed = FALSE]
  /\ workers' = [workers EXCEPT ![w] =
       [Idle EXCEPT !.phase = FirstPhase(migrations[m].status), !.migration = m,
                    !.status = migrations[m].status]]
  /\ Bookkeeping
  /\ UNCHANGED <<placement, bounds>>

Source(w) == migrations[workers[w].migration].source
Target(w) == migrations[workers[w].migration].target

\* Mutant of AtOffset: offsets start at one.
AtOffsetFromOne(region, offset) ==
  LET present == {k \in Keys \ schema.keyless : data[region][k] # 0}
  IN {k \in present : Cardinality({j \in present : j < k}) = offset + 1}

\* The row at an offset of a region's rows, in the order of their keys.  A table
\* without a primary key counts as copied with none of its rows.
AtOffset(region, offset) ==
  LET present == {k \in Keys \ schema.keyless : data[region][k] # 0}
  IN {k \in present : Cardinality({j \in present : j < k}) = offset}

ReadPage(w) ==
  /\ workers[w].phase = "reading"
  /\ schema.scoped
  /\ LET page == AtOffset(Source(w), workers[w].offset)
     IN \/ /\ page = {}
           /\ workers' = [workers EXCEPT ![w].phase = "digesting"]
        \/ \E k \in page :
             workers' = [workers EXCEPT ![w].phase = "inserting",
                                        ![w].page = <<k, data[Source(w)][k]>>]
  /\ UNCHANGED <<placement, migrations, data, bounds>>

\* The row a worker holds refers to one the target does not have; a row that is
\* there already is skipped before the reference is checked.
BreaksReference(w) ==
  LET key == workers[w].page[1]
  IN key \in schema.orphans /\ data[Target(w)][key] = 0

\* Mutant of InsertRows: on conflict the row is updated.
UpsertRows(w) ==
  /\ workers[w].phase = "inserting"
  /\ ~BreaksReference(w)
  /\ data' = [data EXCEPT ![Target(w)][workers[w].page[1]] = workers[w].page[2]]
  /\ workers' = [workers EXCEPT ![w].phase = "reading", ![w].page = None,
                                ![w].offset = @ + 1]
  /\ UNCHANGED <<placement, migrations, bounds>>

\* On conflict do nothing: a row the target already has stays as it is.
InsertRows(w) ==
  /\ workers[w].phase = "inserting"
  /\ ~BreaksReference(w)
  /\ LET key == workers[w].page[1]
     IN data' = IF data[Target(w)][key] = 0
                THEN [data EXCEPT ![Target(w)][key] = workers[w].page[2]]
                ELSE data
  /\ workers' = [workers EXCEPT ![w].phase = "reading", ![w].page = None,
                                ![w].offset = @ + 1]
  /\ UNCHANGED <<placement, migrations, bounds>>

\* The two digests are taken concurrently, over all listed tables, keyless or not.
TakeDigest(w) ==
  /\ workers[w].phase = "digesting"
  /\ schema.scoped
  /\ \/ /\ workers[w].sourceDigest = None
        /\ workers' = [workers EXCEPT ![w].sourceDigest = data[Source(w)]]
     \/ /\ workers[w].targetDigest = None
        /\ workers' = [workers EXCEPT ![w].targetDigest = data[Target(w)]]
  /\ UNCHANGED <<placement, migrations, data, bounds>>

DigestsMatch(w) == workers[w].sourceDigest = workers[w].targetDigest

\* The provider answers; the cutover throws unless the digests are equal.
ProviderAnswers(w) ==
  /\ workers[w].phase = "digesting"
  /\ workers[w].sourceDigest # None /\ workers[w].targetDigest # None
  /\ workers' = [workers EXCEPT ![w].phase =
       IF workers[w].status = "cutover-ready" /\ ~DigestsMatch(w) THEN "failing"
       ELSE "settling"]
  /\ UNCHANGED <<placement, migrations, data, bounds>>

\* The database rejects a statement whenever it is sent: a query of a table without
\* workspace_id, or an insert that breaks a reference.
StatementThrows(w) ==
  /\ \/ workers[w].phase \in {"reading", "digesting"} /\ ~schema.scoped
     \/ workers[w].phase = "inserting" /\ BreaksReference(w)
  /\ workers' = [workers EXCEPT ![w].phase = "failing"]
  /\ UNCHANGED <<placement, migrations, data, bounds>>

ProviderFails(w) ==
  /\ failures < MaxFailures
  /\ workers[w].phase \in {"reading", "inserting", "digesting"}
  /\ workers' = [workers EXCEPT ![w].phase = "failing"]
  /\ failures' = failures + 1
  /\ UNCHANGED <<schema, placement, migrations, data, writes, faults>>

-----------------------------------------------------------------------------
(* The outcome of a phase *)

StatusAfter(status) ==
  CASE status = "requested" -> "copying"
    [] status = "copying" -> "verifying"
    [] status = "verifying" -> "cutover-ready"
    [] status = "cutover-ready" -> "completed"

\* Mutant of NextStatus: the digests of the verification are not compared.
UncheckedNextStatus(w) == StatusAfter(workers[w].status)

NextStatus(w) ==
  IF workers[w].status \in {"verifying", "cutover-ready"} /\ ~DigestsMatch(w)
  THEN "failed"
  ELSE StatusAfter(workers[w].status)

\* Mutant of PlacementAfter: a migration that failed keeps the placement.
PlacementAfterCompletion(m, status) ==
  IF status = "completed"
  THEN [region |-> migrations[m].target, generation |-> placement.generation + 1,
        active |-> None]
  ELSE placement

\* updatePlacementAfterResidencyTransition
PlacementAfter(m, status) ==
  CASE status = "completed" ->
         [region |-> migrations[m].target, generation |-> placement.generation + 1,
          active |-> None]
    [] status \in {"failed", "cancelled"} -> [placement EXCEPT !.active = None]
    [] OTHER -> placement

\* Mutant of OwnsPhase: the migration is updated by its id alone.
FindsMigration(w) == migrations[workers[w].migration].status # "none"

OwnsPhase(w) ==
  LET m == workers[w].migration
  IN migrations[m].status = workers[w].status /\ migrations[m].owner = w

Proven(w, migration) ==
  LET phase == {workers[w].status} \cap EvidencePhases
  IN [migration EXCEPT !.evidence = @ \cup phase,
                       !.matched = IF DigestsMatch(w) THEN @ \cup phase ELSE @]

CompleteDataResidencyMigrationPhase(w) ==
  /\ workers[w].phase = "settling"
  /\ LET m == workers[w].migration
         next == NextStatus(w)
     IN IF OwnsPhase(w) /\ placement.active = m
        THEN /\ migrations' = [migrations EXCEPT ![m] = Proven(w, Moved(@, next))]
             /\ placement' = PlacementAfter(m, next)
             /\ Bookkeeping
        ELSE UNCHANGED <<migrations, placement, data>>
  /\ workers' = [workers EXCEPT ![w] = Idle]
  /\ UNCHANGED bounds

Retried(migration) ==
  [migration EXCEPT !.owner = None, !.lapsed = FALSE, !.delayed = TRUE]

\* Mutant of GivenUp: one more attempt is scheduled than will be claimed.
RetriedOnceMore(migration) ==
  [migration EXCEPT !.owner = None, !.lapsed = FALSE, !.delayed = TRUE]

GivenUp(migration) ==
  [migration EXCEPT !.status = "failed", !.owner = None, !.lapsed = FALSE, !.delayed = FALSE]

RetryDataResidencyMigrationPhase(w) ==
  /\ workers[w].phase = "failing"
  /\ LET m == workers[w].migration
     IN \/ /\ OwnsPhase(w) /\ migrations[m].attempts < MaxAttempts
           /\ migrations' = [migrations EXCEPT ![m] = Retried(@)]
           /\ Bookkeeping
           /\ UNCHANGED placement
        \/ /\ OwnsPhase(w) /\ migrations[m].attempts >= MaxAttempts
           /\ placement.active = m
           /\ migrations' = [migrations EXCEPT ![m] = GivenUp(@)]
           /\ placement' = PlacementAfter(m, "failed")
           /\ Bookkeeping
        \/ /\ \/ ~OwnsPhase(w)
              \/ migrations[m].attempts >= MaxAttempts /\ placement.active # m
           /\ UNCHANGED <<migrations, placement, data>>
  /\ workers' = [workers EXCEPT ![w] = Idle]
  /\ UNCHANGED bounds

-----------------------------------------------------------------------------
(* Time and crashes *)

LeaseLapses(m) ==
  /\ migrations[m].owner # None
  /\ ~migrations[m].lapsed
  /\ migrations' = [migrations EXCEPT ![m].lapsed = TRUE]
  /\ UNCHANGED <<placement, data, workers, bounds>>

DelayPasses(m) ==
  /\ migrations[m].delayed
  /\ migrations' = [migrations EXCEPT ![m].delayed = FALSE]
  /\ UNCHANGED <<placement, data, workers, bounds>>

\* The process dies; its lease stays until it lapses.
Crash(w) ==
  /\ faults < MaxFaults
  /\ workers[w].phase # "idle"
  /\ workers' = [workers EXCEPT ![w] = Idle]
  /\ faults' = faults + 1
  /\ UNCHANGED <<schema, placement, migrations, data, writes, failures>>

\* The database fails the write of an outcome, which counts as a failed phase.
SettlementFails(w) ==
  /\ faults < MaxFaults
  /\ workers[w].phase = "settling"
  /\ workers' = [workers EXCEPT ![w].phase = "failing"]
  /\ faults' = faults + 1
  /\ UNCHANGED <<schema, placement, migrations, data, writes, failures>>

Run(w) ==
  \/ \E m \in Migrations : ClaimDataResidencyMigration(w, m)
  \/ ReadPage(w)
  \/ InsertRows(w)
  \/ TakeDigest(w)
  \/ StatementThrows(w)
  \/ ProviderAnswers(w)
  \/ CompleteDataResidencyMigrationPhase(w)
  \/ RetryDataResidencyMigrationPhase(w)

Next ==
  \/ \E m \in Migrations, r \in Regions : RequestDataResidencyMigration(m, r)
  \/ \E m \in Migrations :
       CancelDataResidencyMigration(m) \/ LeaseLapses(m) \/ DelayPasses(m)
  \/ \E k \in Keys : WriteRow(k)
  \/ \E w \in Workers : Run(w) \/ ProviderFails(w) \/ SettlementFails(w) \/ Crash(w)

Spec == Init /\ [][Next]_vars

\* The worker polls again after every run, clocks advance, and a provider call
\* returns or throws.
FairSpec ==
  /\ Spec
  /\ \A w \in Workers : WF_vars(Run(w))
  /\ \A m \in Migrations : WF_vars(LeaseLapses(m)) /\ WF_vars(DelayPasses(m))

-----------------------------------------------------------------------------
(* Properties *)

\* Rows and workers have their types; the lease check of
\* data_residency_migrations: only an open migration is leased.
ResidencyTypeOK ==
  /\ schema \in Schemas
  /\ placement \in [region: Regions, generation: Nat, active: Migrations \cup {None}]
  /\ migrations \in [Migrations -> Migration]
  /\ data \in [Regions -> Rows]
  /\ workers \in [Workers -> Worker]
  /\ writes \in 0..MaxWrites
  /\ failures \in 0..MaxFailures
  /\ faults \in 0..MaxFaults
  /\ \A m \in Migrations : migrations[m].owner # None => migrations[m].status \in Open

\* The placement points to the one open migration, whatever workers, people and
\* crashes do: a workspace is never blocked by a migration that is over, and
\* none advances that the placement has let go of.
PlacementPointsToOpen ==
  \A m \in Migrations : migrations[m].status \in Open <=> placement.active = m

\* The compare-and-swap of the placement: every completed migration moved it
\* once, in the order of the generations, and an open one starts from where the
\* workspace is.
PlacementFollowsMigrations ==
  \A m \in Migrations :
    /\ migrations[m].status = "completed" =>
         /\ migrations[m].generation < placement.generation
         /\ migrations[m].generation + 1 = placement.generation =>
              migrations[m].target = placement.region
         /\ \A n \in Migrations \ {m} :
              migrations[n].status = "completed" =>
                migrations[n].generation # migrations[m].generation
    /\ migrations[m].status \in Open =>
         /\ migrations[m].generation = placement.generation
         /\ migrations[m].source = placement.region

\* Placement and migrations agree: workers, people and crashes only move them
\* together.
PlacementMatchesMigrations == PlacementPointsToOpen /\ PlacementFollowsMigrations

\* A workspace moves only on the evidence of all three phases, with equal
\* digests after the verification and after the final pass.
MovesOnProof ==
  \A m \in Migrations : migrations[m].status = "completed" =>
    /\ migrations[m].evidence = EvidencePhases
    /\ {"verifying", "cutover-ready"} \subseteq migrations[m].matched

\* A migration that is over stays as it is, also when a worker that claimed it
\* before it was cancelled, failed or completed elsewhere settles late.
ClosedIsFinal ==
  [][\A m \in Migrations :
       migrations[m].status \in Closed => migrations'[m] = migrations[m]]_vars

\* A requested migration is not left pending: as long as no worker dies, it
\* completes, fails or is cancelled, however often the provider fails.
EveryMigrationEnds ==
  [](faults = 0) =>
    \A m \in Migrations : migrations[m].status \in Open ~> migrations[m].status \in Closed

\* What the copy cannot carry over: any row while the list is unscoped, the
\* migration's own rows, and a row the target lacks or has otherwise, when its table
\* has no key, when its reference is missing, or when the target's one is kept.
Barred(m) ==
  LET from == data[migrations[m].source]
      to == data[migrations[m].target]
  IN \/ ~schema.scoped
     \/ schema.own # {}
     \/ \E k \in Keys :
          from[k] # to[k] /\ (k \in schema.keyless \cup schema.orphans \/ to[k] # 0)

\* What becomes of a migration of rows that nobody writes, whatever leases lapse under
\* two workers copying at once: unless someone cancels it, it completes with the same
\* rows on both sides, or something bars the way and it fails, freeing the placement.
QuietMigrationOutcome ==
  [](faults = 0 /\ failures = 0 /\ writes = 0) =>
    \A m \in Migrations :
      migrations[m].status = "requested" ~>
        \/ migrations[m].status = "cancelled"
        \/ /\ migrations[m].status = "completed"
           /\ ~Barred(m)
           /\ data[migrations[m].source] = data[migrations[m].target]
        \/ migrations[m].status = "failed" /\ Barred(m)

\* The cutover misses only what was written after its final digests: when the
\* placement moves, a row that is in the source as it was digested is in the
\* target as well.  (Rows written later stay behind: nothing locks the source.)
CutoverMissesOnlyLateWrites ==
  [][placement'.region # placement.region =>
       \E w \in Workers :
         /\ workers[w].phase = "settling" /\ workers'[w].phase = "idle"
         /\ \A k \in Keys :
              /\ data[placement.region][k] # 0
              /\ data[placement.region][k] = workers[w].sourceDigest[k]
              => data[placement'.region][k] = data[placement.region][k]]_vars

=============================================================================
