# Verification of doris-ducklake

TLA+ models of the Doris connector for DuckLake and of the tooling that deploys
it, the TLC configurations that check them, and TLAPS proofs. Paths are relative
to the repository; `plugin/` stands for
`src/dev/brikk/ducklake/doris/plugin/`.

## The system

The connector is a plugin of the Doris front end (FE). It reads and changes a
DuckLake lake: a PostgreSQL catalog of snapshots, tables and files, and Parquet
objects in S3. The catalog is reached through a library (`JdbcDucklakeCatalog`),
and other engines (DuckDB, Trino) work on the same lake at the same time.
Nothing in the connector holds a lock on the lake. Each call is a transaction of
its own, so the hard behaviours are those that lie *between* calls.

| Part | Source | State | Operations | Hard part | What makes it correct |
|---|---|---|---|---|---|
| Maintenance procedures | `plugin/DuckLakeProcedureOps.kt`, `DuckLakeExpiryFailure.kt` | locals of one call | `expire_snapshots`, `cleanup_old_files`, `remove_orphan_files` | read, list, delete and write are separate; sessions overlap; crashes; deletes cannot be undone | no file of a retained snapshot, of a running query or of an uncommitted statement is deleted; dead files are reclaimed |
| Orphan selection | `plugin/OrphanFiles.kt` | none | `find` | alias schemes, dataset directories | only managed, unreferenced, old objects |
| Object store client | `plugin/S3WarehouseBlobStore.kt` | none | `delete`, `list`, `objectIdentity` | one object of a batch fails | a failure is reported for its object only |
| Scan planning | `plugin/DuckLakeScanPlanProvider.kt`, `DuckLakeTableHandle.kt` | the handle (pin, pruned ids) | `planScan`, `getScanNodeProperties` | files move under a pinned snapshot; what the backend cannot filter | exactly the pinned rows, or a refusal |
| Connector metadata | `plugin/DuckLakeConnectorMetadata.kt` | none | handles, pushdown, time travel, DDL | several catalog sessions for one query | pruning keeps a superset |
| Insert transaction | `plugin/DuckLakeConnectorTransaction.kt`, `DuckLakeWritePlanProvider.kt`, `DuckLakeIcebergCommitMapper.kt` | target, fragments | `bindTarget`, `addCommitData`, `commit`, `rollback` | fragments arrive concurrently; a commit's outcome may be unknown | each fragment is published once or not at all, in the table it was written for |
| Inlined data | `plugin/DuckLakeInlinedDataRanges.kt`, `DuckLakeInlinedParquetWriter.kt` | scratch files | `plan`, `write` | several planners share one name | a reader sees a complete file of its own snapshot |
| Predicates | `plugin/DuckLakePredicateConverter.kt`, `DuckLakeMembership.kt`, `DuckLakeBucketTransform.kt` | none | ranges and candidate values of a filter | ends of prefixes, lists, NULL, older partition specs | widened, never narrowed |
| Inlined temporal values | `plugin/DuckLakeTemporalDomain.kt` | the budget of one check | `checkKnownBounds` | two budgets over all schema versions | nothing read beyond them, nothing refused within them |
| Paths, types, dictionaries | the other files of `plugin/` | none | pure | edge values | |
| Plugin deployment | `compose/plugin_deploy.py`, `plugin_volume.py`, `plugin_preflight.py`, `plugin_attest.py` | claim container, plugin volume, FE container, receipts | deploy, tear down | rival deployers, timeouts, dying processes | the volume changes only under the claim with the FE stopped; a receipt tells the truth |
| Smoke run | `compose/plugin_deploy.py`, `plugin_attest.py`, `smoke_checks.py`, `smoke_targets.py`, `smoke_rows.py`, `smoke_run.sh` | ledger, receipts, the driver's process group | resolve, attest, initialize, record, finish, verify, retract | restarts between two looks, signals, a check that outlives its shell | exit code 0 says the whole of one deployment was tested; a failure leaves no current receipt |
| Acceptance campaigns | `compose/plugin_acceptance.py`, `plugin_acceptance_docker.py`, `smoke_acceptance.py`, `network_acceptance.py`, `read_correctness_acceptance.py`, `corpus_acceptance.py`, `read_safety_acceptance.py`, `corpus_baseline.py`, `corpus_baseline_triage.py` | a sandbox, its flags, the verdict | deployments, replays, cleanup | interrupts at any step, deployments that hang or go on alone | a pass was whole and left nothing; a claimed sandbox is kept; every campaign ends |

`PROJECT.json` lists every component with its status, and under `hazards` each
behaviour that is hard to test, at its line.

## Modules

| Module | Models |
|---|---|
| `OrphanFiles` | `OrphanFiles.find` over abstract objects and their aliases |
| `DuckLakeMaintenance` | the three procedures, statements, readers, crashes, the clock |
| `RetainedData` | what retention promises: a retained snapshot is never changed, and a file leaves the store only when no snapshot has it and no query within its grace plans to read it |
| `DuckLakeMaintenanceProofs` | theorems about it, the refinement of `RetainedData` among them |
| `MCMaintenance`, `MCMaintenanceLive` | its instances for TLC |
| `PredicatePruning` | which files a filter keeps: ranges, membership, buckets, statistics |
| `PredicatePruningProofs` | theorems about pruning |
| `ScanPlanning`, `MCScanPlanning` | planning a query while other engines commit and rewrite |
| `SnapshotReads` | what a query is promised: one snapshot of a history that never changes, or a refusal |
| `ScanPlanningProofs` | theorems about planning, the refinement of `SnapshotReads` among them |
| `AtomicInsert` | what INSERT promises: all of a statement's files become visible at once, or none ever does, and the client is told which, unless it is told that the outcome is in doubt |
| `InsertTransaction`, `MCInsertTransaction` | the transaction, its write plan, the backends and the catalog |
| `InsertTransactionProofs` | theorems about it, the refinement of `AtomicInsert` among them |
| `InlinedScratch`, `MCInlinedScratch` | the budgeted check of inlined values, and the scratch files by which planners hand inlined rows to the backend |
| `InlinedScratchProofs` | theorems about it |
| `PluginDeployment`, `MCPluginDeployment` | runs of `plugin_deploy.py` that race for one plugin volume |
| `GuardedPlugin` | what deployments promise together: one owner, files that change only while nothing serves, nothing served but whole builds, nothing unvouched left behind |
| `DeploymentContract` | what one deployment is to whoever started it: a process, and a claim that may outlive it |
| `PluginDeploymentProofs` | theorems about it, the refinements of both among them |
| `SmokeEvidence` | what each kind of smoke case observes and how it is judged |
| `SmokeRun`, `MCSmokeRun` | a full smoke: its owner, its driver, the check processes, the files they leave |
| `SmokeRunProofs` | theorems about both |
| `ReplayEvidence` | which reports of a test JVM the campaigns, the baseline and the triage accept |
| `AcceptanceCampaign`, `MCAcceptanceCampaign` | the campaigns, the guard of docker, their deployments |
| `AcceptanceCampaignProofs` | theorems about both |

`DuckLakeMaintenance` composes `OrphanFiles` (its sweep selects by `Find`),
`ScanPlanning` composes `PredicatePruning` (`applyFilter` prunes by its operators),
`SmokeRun` composes `SmokeEvidence` and `AcceptanceCampaign` composes
`ReplayEvidence` (what is observed and how it is judged).

Four components have an abstract specification that they are shown to implement, by TLC
on an instance and by a theorem for all: `InsertTransaction` implements `AtomicInsert`,
`ScanPlanning` `SnapshotReads`, `DuckLakeMaintenance` `RetainedData`, and
`PluginDeployment` `GuardedPlugin`. Besides, each single run of `PluginDeployment`
implements `DeploymentContract`, and that contract is what the deployment in
`AcceptanceCampaign` is made of: what the campaigns assume of their child is what is
proved of it. `PluginDeployment`, `SmokeRun` and `AcceptanceCampaign` are three views of
one call: the first has the claim and the volume, the second what happens between the
FE's start and the exit code, the third the one process that a deployment is from
outside. The components of the connector meet only in the catalog, and each module has
the part of the catalog that its component reads and writes.

### Maintenance

The state is the catalog's rows (`st`, `begin`, `end`, `schedAt` for each file
id, `snaps` and `snapTime` for snapshots), the store (`modified`, 0 for an absent
object) and, for each session, the locals of the procedure it is in. One action
is one call: `ListExpirable*` and `ExpireSnapshots` and one `CleanupPage` for each
page transaction; `ListScheduled`, one `DeleteObject` or `DeleteFails` for each
object, `RemoveRows`; `ReadReferences`, `ListWarehouse`, the deletes, `SweepDone`.
A dry run changes nothing and is no action. `Throw` is a call that fails,
the removal of the rows of deleted objects included, `Crash` the loss of the FE; a
`DeleteObject` of which the reply is lost counts as failed in the call. Objects have aliases (`Identity`), as s3, s3a and s3n
paths do; `UriOf` may map two file ids to one object.

What the catalog library does is external. Expiry is taken to remove the given
snapshots in one transaction and then move rows that no retained snapshot sees,
page by page, as `DuckLakeExpiryMaintenanceTest` observes.

`RetainedData` has none of this. It is implemented with `content[s]` as the files
visible at a retained snapshot, `stored` as those whose object is there, `plan` as what
queries have yet to read and `fresh` as the queries within the floor. A commit appends a
snapshot, an expiry drops some but the latest, a deletion reclaims, and pages, lists and
schedule rows are no step at all.

* `maintenance_sessions`: two sessions, a query, two files, aliases, failing
  deletes and crashes, against every safety property. Two sessions are enough for
  every pair of procedures to overlap, two files for a batch in which one fails,
  and a clock of 5 with a floor of 2 lets a file pass the floor twice. The sessions
  are interchangeable, so the run uses their symmetry (it checks no liveness).
* `maintenance_live`: the liveness properties. Both file ids resolve to one object,
  because cleanup keeps one id for each URI and must come back for the other.
* `maintenance_slow_sweep`: a violation, see below.

Fairness in the liveness run: the clock advances, statements end, a started
procedure goes on, and operators keep starting each procedure. The code retries
nothing itself, so the last is an assumption on operators, and it is strong
fairness because a session runs one procedure at a time. From some moment on
(`calm`) no fault happens; a system whose every call fails reclaims nothing.

### Scan planning

`born` and `gone` say in which snapshots a row lives; `file` and `files` where it
is stored; `inlined` and `tombs` what the catalog itself holds. The pin decides
the rows, not the files: `Flush`, `Compact` and `Rewrite` move rows of old
snapshots to new files. `PruneFirst` and `PruneNext` are the catalog calls of
`applyFilter`; `RefuseScan`, `PlanCount` and `PlanScan` the outcomes of one read
session of `planScan`; `ReadProperties` is `getScanNodeProperties`. A range reads
all rows of its file without *all* positions of its delete file, because that is
what the backend does.

`SnapshotReads` is implemented with `history[s]` as the rows born by `s` and not gone
then, whatever files they are in, and `answer` as what a query was told last: rows with
how many of them the backend gets (so that a row served twice is one too many), a count,
or a refusal. Commits append to the history; moving rows between files is no step
at all. Only an answer to a filter may be incomplete, and only if `Lossy`, which is
`Racing`.

The filter is a set of conjuncts, and `PredicatePruning` says what the connector
makes of each: a range of its column (`Ranges`), the values it confines its column to
(`Membership`), or nothing. A value is the sequence of numbers it is compared by: one
number for an integer or a time, the characters of a string. `MeetsRange` is the
statistics comparison of the catalog, `MeetsBuckets` what `bucketPrune` does with the
file's bucket. The murmur hash is a constant, and `TIMESTAMP_NS` columns, which a
query sees in microseconds, are rounded by two instead of a thousand.

* `scan_served`: three rows (matching both conjuncts, the first, none), files with path
  or body partition columns, a limit or none, both settings of
  `experimental.inlined.reads`, every pin. Other engines write at any time, and rewrite
  at any time but between two catalog reads of one query (`Racing` is false). Four
  snapshots hold an insert, a second change, a rewrite of both and one more commit,
  which is what each refusal needs. That no wrong row is
  planned (`NoWrongRows`) and that a pushed count is exact (`CountExact`) follow from
  `ReadsOfSnapshots`, which says both of every answer. With five,
  where a rewritten file can be merged, all
  properties hold too (8.3 million states), which takes too long for every day.
  `PruningKeepsMatches` says of each query that, from applyFilter until `planScan` uses
  them, its pruned ids name every file of its pin with a match, whatever was committed
  since. It also holds `KeepsMatches`, a formula of the constants alone that needs
  no behaviour, only a step for TLC to judge it at: 203 filters
  of every kind of conjunct, alone and in pairs, against every file that a writer may
  leave of six rows with three columns (2168 of them, with and without statistics, of
  the active spec or an older one). 138 of these filters prune some file. Prefixes of
  up to three characters out of three hold every position of the last one that can
  be bumped.
* `scan_racing`: `Racing` is true; a violation, see below.

`LatestServed` speaks of reads that no commit overtook. One that a commit overtook on a
table with delete files is refused, which fails closed; that it is not served with the
later deletes is in `NoMissingRows` and `ReadsOfSnapshots`.

Outside these runs: with `"plain"` among `Layouts` (files written before the table
was partitioned) `LayoutMatches` does not hold, which the repository tracks as F13. Nor
does it hold with both layouts and `Racing` true: when a flush moves inlined rows to a
file with path columns between getScanNodeProperties and `planScan`, the plan declares
no path columns and has a file with some. It is the window of `scan_racing` again, at
`DuckLakeScanPlanProvider.kt:445`, so `LayoutMatches` in `scan_served` is about mixed
tables, pins and commits between the two calls, not about that race.

### Insert transaction

`phase` is where the engine is with a statement, `data` is `commitData`, `target`
what `bindTarget` stored, `request` what became of the catalog's transaction.
`version` stands for the table's definition, schema and partition spec together:
`pin` is the one at the handle's snapshot, `layout` the one a backend wrote a file
by, `stamp` the partition id in the file's catalog rows. A fragment is its file.
`WriteFile` and `AddCommitData` are the backends, any number at once and even after
the engine has given up; `AddCommitData` is one step because it is synchronized.
`CatalogApplies` is separate from `CommitReturns`, so that `Throw` in between is a
commit whose answer was lost. Rollback deletes nothing. `Crash` is the loss of the
FE, after which a request it sent may still be applied.

`insert_atomic` has statements of two files, one and none, so that partial
publication, interference and the empty commit all occur, and checks the refinement
of `AtomicInsert`. No liveness is claimed: nothing in the connector retries, so an
INSERT may fail for ever.

### Inlined scratch

`query` has the progress of a planner and then of the reader of its ranges, `file`
the rows of each scratch file and whether it is whole. `CheckTable` and
`CheckVersion` are `DuckLakeTemporalDomain`: a schema version is read only if its
rows fit into what is left of `MaxInlineRows`, and its values into what is left of
`MaxInlineValues`, which is divided by the number of temporal columns. Then the
planner writes. The name, `PathOf`, has the table, the schema version and the
snapshot in it, and the file is opened with OVERWRITE: `OpenFile` truncates,
`CloseFile` completes, `AddRange` takes the size the file has at that moment. The
backend reads a footer and then pages.

`scratch_own_rows` has two queries of one catalog, which share their files, and one
of another catalog with a directory of its own, at any of three snapshots with rows
of two schema versions: a planner may overwrite what the other has planned while it
reads. The budgets are 3 rows, 7 values and 2 versions, and the tables lie on both
sides of each: within them with no temporal column and exactly full with three rows
of one, then a row too many; within them with four columns, then a value too many,
then a version. A query that meets an incomplete file fails there, which M09 already
tracks; the run shows that none *returns* wrong rows. The directory's own life, and
scratch files that nobody deletes, are not modelled.

### Plugin deployment

The daemon has the claim container (`claim`), the plugin volume (`volume`), the FE
container with its process (`fe`, `loads` is what each of its processes loaded), the
helper containers (`helper`) and compose's own progress (`down`). `run[d]` has the
step and the locals of a run of `plugin_deploy.py`, which is a deployment or, with
`--down`, a teardown. The daemon's side of an operation is an action of its own
(`Snapshots`, `ClearVolume`, `CopyBuild`, `DownRemovesFe`, ...) that goes on when the
run that asked for it timed out, was interrupted or was killed. Every request may
fail (`Fail`), and those that change something may fail with or without their effect.
`FeDies` also stands for a stop that outlives its client.

Where all honor the claim, the runs together implement `GuardedPlugin`: `owner` is the
claim, `files` the volume, `serving` what the FE process that runs has loaded, and
`vouched` whether that process is the one of before or one that a run attested.
`Release` needs `vouched`, so a failed run gives its claim back only over a stopped FE.
To whoever started it, run `d` implements `DeploymentContract`, whatever its rivals, the
daemon and outsiders do: `ChildOf(d)` is its process, `ClaimOf(d)` the claim as it is to
that process: its own while it works, `"retained"` when it is another's or was left.

* `deploy_rivals`: two runs of either kind with different builds. Two are enough
  for every overlap of a claim's holder with a rival; three FE starts let each run
  start it and one start fall to neither. It checks both refinements, which imply
  that no FE starts from half replaced files (`NeverLoadsTorn`) and that none serves
  unattested when the claim is free (`UnattestedNeverServes`), and `ClaimReturned`.
  Weak fairness is given to a run's process only where the code waits with a time
  limit (`LimitedStep`): for a worker, in the cleaning up, for a compose down, when it
  leaves. `docker_output` (`plugin_preflight.py:170`), of which `revalidate` and so
  every look at the FE is made, has none, and neither has the wait for the smoke driver
  (`plugin_deploy.py:440`): there (`WaitsWithoutLimit`) a run may stay for ever, and
  `ClaimReturned` excuses the one that does, and no other. The daemon gets no fairness,
  and killed runs none (they have no step left).
* `deploy_outsiders`: one run, while others start the FE and write the volume by hand.
* `deploy_interrupted`: a violation.

Not modelled: the recovery by hand of a claim that was kept, and a `docker start` that
takes effect only after the run has failed. What the smoke does is in `SmokeRun`.

### Smoke run

`step` is where the owner (`plugin_deploy.py`) is, from the resolution of the
substrate to its exit code. It resolves the substrate before and after it starts it
(`PlanRoute`, `ResolveRoute`), attests which FE and BE processes serve (`ConfirmFe`
and `Answer` are the two halves of one query: the process is confirmed, then asked),
runs the driver, verifies what that left and reports. `fe` and `be` count processes,
so that a restart is seen as one; `seen` has every pair that answered something that
counts. The driver lets one check process after another observe a case: `Observe`
reads the ledger and `WriteRecord` replaces it, two steps, as `record` is. The last
closes the ledger and then writes a receipt with the hash of the file as it is then.
An exception is an action (`Fail`, `Interrupt`), and what it leads to depends on where
the owner is: `Body`, `Reporting` and `Handler` name the parts of `deploy` and `run`.
`SmokeEvidence` has what a case may observe in rows, in counts and in the object
store (objects that are there, gone, or answer with an error) and how it is judged.

`smoke_run` has five cases, one of each kind, of which one has a reviewed expected
failure; an FE and a BE that restart once each, one edit of the substrate, two
signals (the second lands in what the first set off), a kill at any step, and a shell
that is ended alone while its check process goes on (`lone`). One restart is enough
for two processes to be told apart, and a second would only add a third. The routes
are versions, so an edit that is taken back between the two resolutions is outside the
model; the code would not see it either.

Fairness is weak and of the owner alone, from the moment it is on its way out. Before,
it waits for the driver and looks at the FE, and neither wait has a time limit; after,
the only such wait is the look at the FE in `fail_closed`, which there is none of once
the FE was attested (`LooksWithoutLimit`). `InterruptEnds` is therefore about an owner
that got a signal: it ends however long its driver takes, unless that look never gets
an answer.

### Acceptance campaign

`Plan` has what each of the six campaigns, the baseline and the triage do, item after
item; `at` is the item in hand and `pc` the place in it. A deployment is a child
process that keeps `DeploymentContract`: it obtains the claim of the volume or ends
without it (a lost reply leaves the claim behind), creates resources, asks docker for
things through the guard (`allowed`, over every kind of command as the guard sees it: its
patterns take neither an `UPDATE` nor SQL on the standard input for a change of data, and
look at no name in a `DELETE`; the owned container confines those), may see what the guard
injects, and ends as a success, which has given the claim back, or refused or failed,
which may have left it. What the contract leaves open is settled here: a success has
both projects and saw no injection, a refusal saw one. The judgement of
an item is in `JudgeDeployment`, `Check`, `UseTunnel` and `JudgeReplay`, the reports
they read in `ReplayEvidence`. Whatever happened, the end is the same: `StopScope`,
`CheckClaims`, `DownDoris`, `DownSubstrate`, `VerifyGone`, `Compare`, `WriteVerdict`;
a step of it that fails leaves the others undone.

`acceptance_campaign` runs all of them, each interrupted up to twice (the second cuts
the cleaning up short, which is the last thing an interrupt can change), timed out,
killed at any step, with stacks of others that change once. The child gets no
fairness: it may hang, ignore SIGTERM, or go on when nobody waits for it.
`LimitedStep` has weak fairness: the waits for deployments, for JVMs and for what docker
removes have time limits, and the wait after a SIGKILL is for a group that is dead.
The local looks have none (`git`, `systemctl show` in `corpus_acceptance.py:116` and `:155`,
`docker logs` in `plugin_acceptance.py:301`), so `CampaignEnds` excuses a campaign that
waits for one of those for ever (`LooksWithoutLimit`); it holds without any help of the
child. A written pass of the baseline stands for its `diagnostic-complete`.

Left out are the forms of bundles, seeds and reports, and the network routes that the
network campaign probes; each is a judgement that may raise.

## Disagreements found

* `maintenance_slow_sweep`: the cutoff of `remove_orphan_files` is computed after
  the reference read, so the floor protects a writer for less than the floor.
* `scan_racing`: pruned file ids go stale when a flush or compaction runs before
  `planScan`; rows are lost silently (the repository tracks this as F07).
* `deploy_interrupted`: an interrupt that arrives while the run polls the starting
  FE is caught by the poll; the run goes on and ends as a success.

Known and outside the properties that are run, as the repository tracks them:

* DDL between planning and commit is not noticed, and files of the old definition are
  published into the new one (F17); `StampMatchesLayout` says what still holds.
* Two catalogs with one `scratch.path` use one scratch file for tables of equal ids,
  and a query returns the other's rows (M09). The theorem about `OwnRows` has the
  hypothesis `OwnDirs` for that reason.
* Java orders strings by UTF-16 units and the statistics by code points. For
  characters beyond the basic plane the span of a list and the end of a prefix may be
  wrong, and a bound may be bumped into the surrogates (F06).
* Unsigned columns are hashed by another encoding than the writer's (F05), and casts
  that the FE erases make a pushed comparison another one (F26). Both are what the
  constant `Hash` and the conjuncts of `Filters` leave out.

Noticed while modelling, in places where no doc, comment or test is contradicted or
where the models stop:

* A second SIGTERM to a smoke may land in the handler of `run()`
  (`plugin_deploy.py:379`) and leave receipts current; a signal in `main` after the
  success makes the exit code 1. Both are in `SmokeRun`: `FailureRetracts` speaks of
  what was *reported* as failed, and `SuccessIsWhole` of exit code 0.
* A scope whose start was not yet noted (`corpus_acceptance.py:166`) and a deployment
  that was started but is not yet waited for (`plugin_acceptance.py:203`) are not stopped by an
  interrupt at that moment; the time limit of a full smoke ends its shell only. All
  three are in `AcceptanceCampaign` (`launched`, `CutShort`); none ends as a pass.
* A baseline that cannot stop its scope writes no verdict, and the private sshd stays
  when an interrupt arrives while it is being ended.
* Tools are copied first and hashed after (`plugin_acceptance.py:85`).

## Proofs

`DuckLakeMaintenanceProofs` proves, for every number of files, sessions, readers,
snapshots and scopes, `TypeCorrect`, `ExpirySafe` and `NothingComesBack`; under
`DistinctObjects` (no two file ids share an object) `RowsOutliveObjects`; and under that
and `GraceCoversWriters` (writing to committing plus reading references to computing the
cutoff fits in the floor) `CommittedNeverOrphaned` (every live file has its object, so
a retained snapshot has all its files), `ReadersKeepTheirFiles` and the refinement, `ImplementsRetainedData`. Both are needed:
`maintenance_slow_sweep` drops the second, and a file id that shares an object with a
scheduled row loses it to that row's cleanup, or brings it back before the row goes.

None of these properties is inductive. A deletion list is made in one call and
used in later ones, so the invariant `IInv` speaks of the lists: whatever is in
`victims`, `deleted` or `chosen` is `Doomed`, that is, it can never become live
again and its floor is over. To show that a list is doomed when it is made,
`ReferencesCover` says that references read earlier miss only files committed
after the read, and `CommitsInTime` that such files are too young for the cutoff.
`ReadersCovered` ties a reader's plan to the time its files were scheduled.
`RowsOutliveObjects` needs no clock and so not that invariant: a row that a session chose
stays scheduled until purged, and its object, once deleted, away (`ChosenGone`).
`NothingComesBack` says of every step what it does to one file (`Ages`): a file has one
life, and what no retained snapshot sees no later one sees, which rests on the latest
snapshot being retained (`HeadRetained`). The refinement goes step by step
(`StepRefines`): `ContentStays` says that no step changes what a retained snapshot sees,
and `GraceKept` that a deletion spares every plan within its grace.

`InsertTransactionProofs` proves, for every number of statements, files and table
definitions, `TypeCorrect`, `NeverPublishedTwice`, `PublishedStaysInStore`,
`StampIsLayout` and `ImplementsAtomicInsert`. The only assumption is that no two
statements write the same file, as the backends name each anew. The refinement maps
a statement to its output files that have catalog rows. Its invariant follows a
fragment on its way: it is reported at most once and counted as often
(`CountsReported`), a batch that was sent is the whole output, each file once
(`BatchComplete`), and a file has rows just if the request of its own statement was
applied (`RowsAsked`, where the assumption is used); pin, target and layout of one
statement agree (`OneDefinition`); and a client that was told success or failure was
told the truth (`Honest`).

`PluginDeploymentProofs` proves, for every number of runs, builds and FE starts,
`TypeCorrect`, `Exclusive`, `NeverTorn`, `NeverUnattested`, `Truthful`,
`ImplementsGuardedPlugin` (without outsiders), `ImplementsContract`, `Advancing` and
`KeptClaimsAreExcused`, from `DeploymentAssumption` alone (the names of contents and of
runs are distinct from each other). Exclusion rests on `Owns`: a run that has the
claim's steps, a helper or
a compose down has the claim, so of any two such runs one does not exist (`Alone`).
It is inductive only with `StepsFit`, which says which steps can have something
running in the daemon, so that a run that gives the claim back has nothing left
there. From both follow that an install excludes the start of the FE
(`InstallsStopped`) and that what was verified is still there when the FE starts
(`VerifiedStays`, hence `NeverTorn`). `ServedBeyond` says who vouches for the FE
that serves, step by step of the run that started it, and `ProcessKnown` that the
process whose registry was read is the one attested or is gone. The prover handles
updates of a record in a function badly, so the module first says once, in `Effect`,
what each step does, and the invariants are proved from that.

The refinement of `GuardedPlugin` maps each step to one of its actions or to none.
A helper's writes are changes by the owner (`Owns`) while nothing serves
(`InstallsStopped`), a start serves the owner's whole build (`VerifiedStays`), and a
claim is given back only when what serves is vouched for (`ServedBeyond`); `Absent` says
that a removed FE does not run. `DeploymentContract` needs, besides `Owns`, that a run
that is handling a failure or left something behind ends as a failed one
(`FailureKnown`), so that a success has given its claim back. `Advancing` counts the
steps that are left to a run (`Left`: four for each step of its process, and its
helper's), shows that each step of its process lowers the count (`OwnProgress`) and that
nothing raises it (`NoRegress`); `KeptClaimsAreExcused` says that the claim of a run that
ended is there only because it had to leave something running or lost the reply.

`PredicatePruningProofs` proves `PruningIsSafe`: for any columns, rows, statistics and
specs and for any filter made of the conjuncts that there are, no file with a match is
pruned. It assumes that rows and lists are finite, as a program's are, and that times
are not hashed. The order of values is shown to be total first (`LeqTransitive`,
`LeqAntisymmetric`, `LeqTotal`), so that a finite set has a least and a greatest value
(`Extremes`): that is what statistics and the span of a list are. `PrefixBound` is the
upper end of a prefix, `InMembership` and `InRange` say that a match lies where each
conjunct says, and `KeptByRange` and `KeptByBuckets` carry that to files.

`ScanPlanningProofs` proves, for any rows, files, snapshots, filters and limits,
`TypeOK`, `NoWrongRows`, `CountExact`, `LatestServed` and the
refinement of `SnapshotReads`;
`NoMissingRows` and `PruningKeepsMatches` (of a query's own pruned ids) where no rewrite
comes between two reads of one query (`~Racing`, see `scan_racing`); and `LayoutMatches` where, besides, no file was written before its
table was partitioned (no `"plain"` layout, F13). The argument has two halves.

The catalog's invariant says where rows are. A file's `begin` and tag bound the births
of its rows (`Bounded`, `Tagged`), which a merge must preserve; a row that died is named
by an inlined delete or an active delete file, or its file had ended (`DeadNamed`), and
nothing names a row that lives (`LivingSpared`); every row that a snapshot has is in
some place there (`SomePlace`); and files that share a row are not seen together, unless
one of them is tagged too new to be served (`OnePlace`). Of each refusal of `planScan`
it follows what it buys: `ServedFile` says that a file that is not refused yields
exactly its rows of the pin, and `ServedOnce` that no two such files share a row.
`PairsCount` is a bijection of the file's pairs with rows, for `CountExact`. From
these, `ImplementsSnapshotReads` needs no hypothesis: a rewrite may make an answer
incomplete, never wrong, and the refinement says just that.

The query's invariant carries that over the steps of others. `EngineStep` says that no
commit changes the rows of an older snapshot, `NoRewriteStep` that none but a rewrite
changes which files hold them; hence what was planned stays right (`Sound`), pruned ids
keep naming the files they were computed from (`Complete`), and the properties read
last fit the files planned before (`Fits`). The last two are what a race breaks, so
they carry the hypothesis.

`InlinedScratchProofs` proves types, `BudgetExact`, and, if no two catalogs share a
directory (`OwnDirs`), `OwnRows`, for any number of queries, versions, snapshots and
rows and any budgets. A whole file has the rows that its name stands for
(`FilesTrue`), what is planned and read is of the query's own snapshot (`Planned_`),
and what was spent is what the versions done have (`Budgeted`).

`SmokeRunProofs` proves, for any cases, processes, edits and signals, `TypeOK`,
`SuccessIsWhole`, `OneDeployment`, `EvidenceTrue`, `FailureRetracts` and `FailedStays`,
and of the evidence that whatever is judged as passed is right (`PassedIsRight`). The
invariant follows a case from the observation to the ledger (`HeldTrue`,
`LedgerOpen`, `CheckOfShell`), the files from the driver to the report
(`DriverWaited`, `Verified`, `Certified`, `Reported`, `Retracted`, `RouteKept`), and
says that whatever was seen lies between two confirmations of one process
(`SeenBetween`). Of signals, `SignalsObeyed` says that an owner which got one is on its
way out and waits for no driver but one that ended or is in its trap, and `SignalsEnd`
that each of its steps then brings it nearer to the end (`Due`) and nobody's takes it back.

`AcceptanceCampaignProofs` proves `TypeOK`, `PassedIsWhole`, `CleanedIsGone` and
`NoTeardownUnderClaim` for any campaigns and any number of interrupts and changes,
and of the evidence that what is accepted is as a pass claims (`AcceptedIsRight`).
`Controlled` says that what was accepted was right and that a pass is noted at the end
of the plan and written once; `Watched`, that whatever was started and still runs is
waited for or the campaign is known not to pass; `Held`, that the cleaning up goes
past the claims when there is none and past the resources when they are gone.
`Advancing` says that every step of a campaign lowers the number of steps left to it
(`Left`: six for each item of its plan, and those of the end), and that nothing that
signals, a deployment or others do raises it: at most 56 in all.

What stays with TLC is liveness (`DeadFilesScheduled`, `AbortedReclaimed`,
`QueueDrains`, `ClaimReturned`, `InterruptEnds`, `CampaignEnds`) and the three properties
that do not hold. Why the former hold is proved as far as the prover reaches: the steps
that have fairness lead to the end, or for files that nothing leads away from it
(`Advancing` of deployments and of campaigns, `SignalsEnd`, `NothingComesBack`). What is
not proved is that a fair step is possible until then, which is a matter of ENABLED, and
the conclusion from both. Every inductive invariant held in TLC's runs of its module
before it was proved.

## Plan

1. The commit mapper's column statistics, which `PredicatePruning` takes as given, and
   the paths it makes relative.
2. The connector's own life: `DuckLakeConnector.close` looks at `isInitialized` while
   another thread may be building the catalog, whose pool is then never closed.
3. Catalog DDL, which delegates to the catalog library in one call each.

## Not modelled

Schema dictionaries and type mappings are stateless conversions whose correctness is a
matter of foreign formats; paths are string functions that readers and writers share,
and the sibling directory whose name begins like the table's does not arise, since the
backend writes under the path it is given; erased casts of pushed filters and the
hash function itself, for which a reference would be the same arithmetic again; the
lost reply to the creation of a helper container, which nobody can then name; wiring,
the corpus replay's own test code (its report is what `ReplayEvidence` judges) and the
Gradle identity task.
