# A verification project for BOMHort

TLA+ models of the parts of BOMHort (`src/backend`) whose correctness depends on
the order of steps of several processes, TLC configurations that check them on
small instances, and TLAPS proofs of what matters most for every size.

Contents: [1 the system](#1-the-system) · [2 modules](#2-modules-and-code) ·
[3 runs](#3-what-the-runs-check) · [4 fairness](#4-fairness) ·
[5 proofs](#5-proofs) · [6 where code and docs disagree](#6-where-the-code-does-something-else-than-it-says) ·
[7 not modelled](#7-what-is-not-modelled) · [8 plan](#8-plan) ·
[9 running it](#9-running-it)

## 1 The system

BOMHort ingests SBOM and VEX documents, finds known vulnerabilities and licence
violations, and shows them per project. All state that outlives a process is in
ClickHouse tables, a document store (a directory or S3) and a Kubernetes Lease.
ClickHouse gives no transactions: **every SQL statement is atomic, nothing between
two statements is**. That one fact makes most of what is hard here.

| component | state it keeps | operations | correct when |
|---|---|---|---|
| ingestion queue (`internal/clickhouse/queue.go`) | `ingestion_queue`: append-only rows per job; the row with the largest `created_at` is the job's state | enqueue, claim (select, insert, verify), release own leftovers, complete, fail, defer, requeue stale | a job has one worker at a time; a finished job stays finished; an enqueued job is finished in the end |
| claim lock (`internal/claimlock`) | a Lease object; per call: goroutines and channels | `WithLock` | callbacks of two workers that are in time exclude each other; no result is accepted once the lease may be lost; every call returns and gives the lease back |
| parsing worker, main loop (`cmd/parsing-worker/main.go`) | the batch in hand | claim, process, record the outcome, sweep, restart | see the queue |
| parsing worker, SBOM jobs | `sboms`, `sbom_packages`, `vulnerabilities`, `license_compliance`, `document_store`, blobs | `processSBOMJob`, `captureOriginal` | what is visible is complete, also after crashes, retries and duplicates; no orphans; the rows of a commit have one owner |
| parsing worker, VEX | `vex_statements` | `processVEXJob`, `scopeVEXStatements`, `rescueUnscopedVEX` | a statement is never lost, is scoped to the SBOM it is about whichever arrives first, and stays so |
| parsing worker, licence recheck | the `license_recheck` jobs, `license_compliance` | poll, enqueue, skip or defer, rewrite, retry | after a change of the rules every stored outcome is the one of the new rules |
| rules documents (`internal/rulesource`) | the snapshot in use, an ETag | fetch (HTTPS, S3, file), `Refresh` | good rules come into use; broken ones are reported and never replace good ones unnoticed |
| cve-refresher (`cmd/cve-refresher`) | `vulnerabilities`, a run log | one run | what is disclosed later reaches every SBOM with the package |
| OSV client (`internal/osv`) | none | query a batch, hydrate | as a part of the refresher and the ingest |
| ingestion watcher (`cmd/ingestion-watcher`) | a snapshot of known hashes | scan, enqueue new and failed files | every file is queued, known ones are not |
| document store (`internal/docstore`) | blobs by an opaque reference | put, get, delete, two backends during a migration | a recorded reference can be read |
| licence policy (`internal/license`) | none | parse and evaluate expressions, match exceptions, recheck a row | an obligation does not disappear in an expression; a recheck gives what an ingest would |
| licence resolvers and caches (`internal/github`, `npm`, `nuget`, `depsdev`, `packagist`, `pypi`) | per worker: rate-limit latch, caches; three tables | ask GitHub, then five registries; persist, preload | a package gets the first answer of the cascade; a failure is not taken for an answer; nothing known is lost |
| dependency depth (`internal/depgraph`) | none | breadth-first search | a package is as near as its shortest path |
| project groups (`internal/projectgroup`) | none; worked out per request | owner keys, mapping file, parents | one grouping, in the listing, on the pages and in the filter |
| API gateway: read API (`internal/clickhouse/queries*.go`) | none; a query per page | dashboard, findings, projects, groups, fleet, packages, licences, archives, badges | pages that show the same thing show the same number |
| API gateway: rest | none of its own | uploads, exceptions, reports | a request is answered from the current tables and rules |
| document parsers | none | SPDX, CycloneDX, OpenVEX to rows | format conversions |
| ClickHouse client and schema | the tables | statements, migrations | `ReplacingMergeTree` keys fit what is replaced |
| configuration, S3 client, MCP server, web UI | none | | |

How they interact:

- The watcher and the gateway only **append jobs**; workers claim them. Watcher,
  gateway and workers use their own clocks for `created_at` of new jobs, the
  server's for transitions.
- Workers coordinate through the queue rows, the Lease (`ClaimJobs` runs inside
  `WithLock`) and the commit marker (`sboms` comes last).
- VEX jobs and SBOM jobs meet in `vex_statements`: either may come first, and the
  second one has to do the scoping.
- The refresher and SBOM jobs both write `vulnerabilities`.
- Each worker replica watches the exceptions by itself; replicas agree through the
  digest in the newest `license_recheck` job.
- Workers share what they learn of licences only through the cache tables: each writes
  all it knows with every SBOM and reads the tables when it starts.
- The gateway reads what the workers write, table by table, while they write it.

Hard behaviours, all of them modelled: statements of several workers interleaving;
a statement that fails after it took effect, or takes effect after its sender has
given up; a lease lost while a callback runs; processes that die anywhere and
restart under the same id; clocks that disagree; two jobs with one content;
documents arriving in any order; partial failures that are only logged; a retry of
what was half done; sources that are broken, missing or unreachable for a while.

`PROJECT.json` lists all components with what is modelled of each, and every hazard
at its line of code with the properties that watch it.

## 2 Modules and code

`map` in `PROJECT.json` names the lines each definition stands for. In short:

**IngestQueue** — the queue, the lock around `ClaimJobs` and the main loop. `queue[j]`
is what `argMax` can report for a job: the largest `created_at` and the *set* of rows
that carry it, because two rows may tie and `argMax` then answers either. The steps
of `ClaimJobs` (`SelectOwn`, `ReleaseOwn`, `SelectPending`, `Stamp`, `SendClaim`,
`Verify`, `Return`) are one action per statement; `...Unacknowledged` are the same
statements when the row lands and the caller sees an error; `StatementFails` is a
failure before the server, which is certain once `maxHold` is over (`Within`).
`FinishJob`, `DeferHeldJob` and `StatusLost` are the outcomes of a job;
`SweepSelect`/`SweepRequeue`/`SweepFails` the stale sweep, concurrent with the loop of
the same worker. Seconds and milliseconds matter in the code (`now()` against
`now64(3)`), so times have a `Unit` and `Sec`. `overruled` is a history variable: the
jobs that were queued again by a statement whose read was no longer true. The code
does that by design (the sweep and the release are unconditional), and the
properties say that *nothing else* breaks exclusion.

**ClaimLease** — what a claim lock promises: nobody enters while another is inside for
less than `Handover` since it asked. The abstract specification; `IngestQueue` and
`ClaimLock` both implement it (`IsClaimLease`), which is how the two fit together: the
queue relies on no more than the lock gives.

**ClaimLock** — `WithLock` of the Kubernetes locker: the select of the caller, the
callback goroutine, the buffered result, `runDone`, the context that is cancelled only
after the release, the check against `maxHold`; client-go's elector and the Lease with
its resource version are external parts (`Observe` … `Stop`, `Write`, `Land`). Times
are ages that saturate, so time is unbounded.

**LicenseRecheck** — rules polling per replica (`Refresh`), `ensureLicenseRecheck`
(`Ask` reads, `Enqueue` inserts), `runLicenseRecheckJob` (`SkipOrDefer`, `Scan`,
`Rewrite`, `Complete`), beside the licence part of `processSBOMJob` (`Check`,
`InsertCompliance`, `InsertSBOM`). A tick is the time in which every live replica
polls once; `Delay`, `Stale` and `RunTime` count ticks. Versions of the rules are numbered as they are published;
`Spec` lets an older one come back, `OnwardSpec` does not.

**VEXScope** — `vex_statements` as the rows on disk, with `FINAL`, background `Merge`
and the key, which contains `product_purl` (`'*'` after scoping) and not `sbom_id`;
`processVEXJob` from `Exists` to `CompleteVEX`; `rescueUnscopedVEX` as `Query`,
`ResolveRescue`, `Rescue`, `Clean` after the `Commit` of an SBOM. `raced` is a history
variable: the statements on which a VEX job and a rescue pass crossed. They do so in three ways: the
job deletes the document while a pass has rows of it in hand; it inserts unscoped what the pass of an SBOM
that describes the product will no longer see; it inserts unscoped what a pass (`Copied`) has just
scoped and is about to clean up after.

**CVERefresh** — one refresher run (`Start` … `Complete`, `RunFails`) and the OSV part of
`processSBOMJob`, over `vulnerabilities` as a set of triples; OSV may `Disclose` at any
time.

**SBOMIngest** — `processSBOMJob` for one content queued several times, with
`captureOriginal` (`Lookup`, `Put`, `Record`, `Clean`) and the inserts in order. `at` is the
time a document was *parsed*: that is its `ingested_at`, the version of
`ReplacingMergeTree`. `license_compliance` is keyed by SBOM *and licence*: `compliance` has a row per
licence, and each pass (`Resolve`) may end up with another set of them (`Findings`), as look-ups fail, answer or answer
anew. Nothing is deleted, so a row under a licence that the later pass does not find stays. The rows in
`vulnerabilities` are CVERefresh's. `crossed` is a history variable: two jobs were between the guard
and the commit at once.

**RulesWatcher** — `Fetch` and `Refresh` with the ETag and the digest, for the three kinds
of source (`Conditional`, `Remote`), and the answer to a request for the exceptions.

**Discovery** — how jobs come into being: a watcher run (`StartRun` asks for the known hashes,
`ScanDir`, `ListBuckets`, `Look` per document, `Flush` per batch, `EndRun`) beside uploads (`Check`,
`Store`, `Enqueue`, `CleanUp`). A path stands for its file, hash, type and place; a constant says
which uploads go under `SBOM_DIR`, where the watcher looks, and which to a bucket it leaves alone (`Pushed`).
Both loops of the watcher (directory, buckets) have the same body and are one `Look`.
`Process` is what workers do with a job, cut down to its outcome. `asked` is history: how many jobs there
were when the sender of a job asked for the known hashes; `listed`, `added` and `clean` say what a run
saw and queued, and whether anything failed.

**LicenseLookup** (with **Purls**) — how the packages of an SBOM get their licences. A worker
preloads three tables, claims an SBOM (`Begin`) and asks one question after another (`Questions`): GitHub
about each package without a licence, then npm, NuGet, deps.dev (in one batch), Packagist, PyPI. Each
`Ask...` is one look into a cache or one request with its failures (NuGet asks GitHub about the repositories
of a package one by one: `AskNuGetRepository`); `OnRateLimit` hands the job back. Then free text is
normalised, what is still unknown gets a reason, the caches are persisted and the packages inserted. Licences are
sets of ids with an operator; what the services know is constant. `unanswered` is history: the
questions whose answer a failure kept away. `Purls` says which resolver takes which package under which key.

**LicensePolicy** — expressions as token sequences: `parseExpression` to a tree, `evaluate`, the look-up of an
id (`categorizeSingle` with its base-name rule, `lookupDeprecated`), exceptions (`IsExempt`),
`CheckWithExceptions`, `Reevaluate`. The reference definition is `BestChoice` on the tree the text was written
from. **Compliance** puts it under the rules a `RulesWatcher` has loaded.

**Depgraph** — `classifyRelationship` and `Compute`, the breadth-first search from roots and then from seeds.

**ProjectGroups** — `ownerKey`, `match` and `Resolve`: the parent of a project from its explicit label, its tags,
the mapping file, or the other projects of its owner; and the four places in the gateway that use it.

**FindingViews, ProjectViews, ReadSide** — a query of the gateway is an operator over a corpus (the rows of
the tables at one moment), with the joins, groupings and filters of its SQL. Its JSON shape, order and
paging are left out. `ReadSide` ends with what the pages promise each other. `FindingViews` extends
`VEXScope`, so that the promises are invariants of the workers: in each state, for the SBOMs that are
committed and the scoped statements that are there, every corpus that fits (any order of ingest, any part of
the other SBOMs' rows written ahead of the commit) is looked at. The queries are functions of those two, so TLC evaluates a
corpus once (`SuppressionDiffers` and its like) and not once per state.

**IngestQueueProofs, ClaimLockProofs, VEXScopeProofs, DiscoveryProofs, SBOMIngestProofs, CVERefreshProofs,
LicenseLookupProofs, RulesProofs** — the proofs (section 5). Each extends its component; `RulesProofs` is about two, the recheck
and the watcher of the rules. `MC*` modules give the constants of the runs.

Definitions whose comment starts with "Mutation:" are plausible bugs: each property
is violated when the definition below the mutation is replaced by it, which shows that
the property is about the code and that its run reaches the case.

## 3 What the runs check

Every run finishes within five minutes on two workers. Bounds are named in the
modules; deadlock checking is off (`CHECK_DEADLOCK FALSE`) only where the system really
stops: a clock horizon (`IngestQueue`) or a finite list of jobs and runs (`VEXScope`,
`CVERefresh`, `SBOMIngest`).

| run | instance | shows |
|---|---|---|
| `queue_safety` | 2 workers, 1 job, clock 0..4, `MaxHold` 1, hand-over after 2, clocks off by 1, a job needs up to 2 ticks, faults at any time | `TypeOK`; `ExclusiveUnlessOverruled`; `HeldIsOwned`; `FinalUnlessOverruled`; `IsClaimLease` |
| `queue_live` | 2 workers, 1 job, clock 0..6, faults before tick 2 | `SweepSparesTheLiving`; `EveryJobFinishes` |
| `lock` | 2 workers, unbounded time, `maxHold` 1 < `renewDeadline` 2 < `leaseDuration` 3, one fault (lost update, cancellation or crash) | `AcceptedWhileHeld`; `ReturnsReleased`; `IsClaimLease`; `EveryCallReturns` |
| `recheck_rules` | 2 replicas, 1 document, 1 change of the rules, 1 fault; no version comes back (`OnwardSpec`) | `DoneMeansCurrent` |
| `recheck_live` | 1 replica, 1 document, 1 change, 3 faults | `ChangesReachAll` |
| `vex` | 2 workers, 2 jobs for one document with a product-wide and two component statements about two products, 2 SBOMs, 1 fault in any job; 5 documents ingested earlier | `LostOnlyWhenRaced`; `InertOnlyWhenRaced`; `ScopeStays`; `SuppressionAgrees`; `ScopesAgree`; `ProjectsAgree`; `BatchesAgree` |
| `vex_lost` | as `vex`, no fault | `NeverLost` is violated |
| `refresh` | 2 SBOMs that share a package, 2 packages, 2 vulnerabilities, 2 runs, 2 faults | `CatchesUpUnlessKnown`; `NewReachAll` |
| `ingest` | 2 workers, 2 jobs from two files, 2 licences of which a pass finds one or both, 1 rate limit, 2 faults | `CommittedIsComplete`; `NoOrphans`; `OneOwner`; `BecomesVisible` |
| `rules` | HTTPS; two good, one broken, one empty document and none; 4 edits, 2 faults; expressions of up to 3 operands, 2 projects of 6 packages | `NotPaperedOver`; `GoodRulesReach`; `StrictIsTheBestChoice`; `RecheckIsReingest` |
| `discovery` | a VEX file in the directory, one SBOM uploaded to `SBOM_DIR` and to a bucket that is not scanned, batches of 2, `SBOM_LIMIT` 1, 1 fault | `QueuedAgainForAReason`; `MissingFileIsReported`; `UploadsKeepTheirLabels`; `CleanRunQueuesAll`; `FoundIsIngested`; `AnsweredIsIngested` |
| `lookup` | 2 workers, 2 SBOMs with packages of every ecosystem, services that disagree, a limit that lasts 1, 2 failures, limits or crashes | `FirstAnswerWins`; `SourcesAreTrue`; `RegistryCachesAreTrue`; `KnowledgeStays` |

Why these bounds. The claim protocol is about one job and two contenders: claims of
different jobs only meet in the shared batch insert, and the proofs of section 5 cover
any number of jobs and workers. Four ticks hold a claim that loses its lease, the
take-over, a second claim, a late insert of the first and a sweep. The lock is compared by its three durations only, and the smallest
values that keep their order are used. For VEX, two statements with different shapes
and two products are needed for the key and the delete to matter, and two VEX jobs for
a replacement. `vex` also passes with two faults, and with three workers and two faults where the
document has one statement about each of two products (3.7 million states). For the refresher, the shared package,
the second package and the second run are each needed by one mutant. Two ingest jobs
from two files with one deferral reach every way of crossing two captures; a second licence that one pass finds
and the next does not leaves a row behind. `CommittedIsComplete`, `NoOrphans` and `OneOwner` also pass with all three sets of two licences
(10.5 million states). For discovery, three senders of
one hash (two uploads, the watcher) and a fault hold a job whose insert was not acknowledged and two who asked before
it was there. The number of watcher runs is not bounded. For the look-up, the two SBOMs share a
repository, so that one worker meets what another has cached, failed or persisted; every resolver has an answer that a
later one contradicts, and a package that only a later one knows; two faults hold a limit after a failure, and a crash that forgets either.

For the read side, the state of the tables is exhausted for the two SBOMs and three statements of the run; the five earlier documents are there to
be different: every way to name a project, a pre-release and its release, one purl at two depths and in two documents, a
package without a purl, a flaw under two names, a tag that is a project, an owner written in two ways, labels and none. Pages that
agree on them may differ on others: the queries are not proved. For the expressions, three operands are the least in which `AND` and `OR`
nest and associate both ways.

What the parameters of a run leave out, on purpose:

- `recheck_rules` has one fault, no project-scoped exception, no version that comes back and `RunTime = 0` (a
  claimed recheck ends in the polling interval it began in). With two faults at one replica, scoped exceptions,
  a reverted change or slow rechecks `DoneMeansCurrent` is false: section 6. Without them it is proved for any
  number of changes, replicas and documents: section 5.
- `queue_live` has one job per batch, which ends before its claim is stale. Where a batch takes longer than
  `staleClaimAfter`, `SweepSparesTheLiving` is false (section 6); for all batches that do not it is proved (section 5).
- `vex` gives the statements ids of their own and no explicit target: section 6.
- `LostOnlyWhenRaced`, `InertOnlyWhenRaced`, `CatchesUpUnlessKnown`, `OneOwner`,
  `NoOrphans`, `CommittedIsComplete` and the `...UnlessOverruled` properties name an
  exception in which the code does not do what one would want, and so does `FirstAnswerWins` (`unanswered`). Each exception is as narrow as
  its history variable, and the unconditional property is stated beside it
  (`NeverLost`, `CatchesUp`, `OriginalIsKept`, `RetrySupersedes`, `ExclusiveClaims`).

## 4 Fairness

- *IngestQueue*: a live worker's loop goes on (weak fairness of the claim steps, jobs and
  sweeps: `main` loops without an exit). Strong fairness of `Acquire`, because client-go
  retries every two seconds while the holder sleeps ten between claims; strong fairness of
  `Tick`, as the clock does not stop although `InTime` disables it now and then. Nothing makes a
  dead worker restart: `EveryJobFinishes` asks only for one that is alive in the end. `CalmFrom`
  ends new jobs, faults and rate limits: a property about the end needs one.
- *ClaimLock*: goroutines run and the callback returns (its statements have a context).
  Strong fairness of `Take` for the reason above. No fairness of faults, cancellation or
  calls.
- *LicenseRecheck*: pollers, claims and sweeps go on (tickers in `main`); changes, ingests
  and faults need not happen.
- *SBOMIngest*: workers go on, the watcher enqueues a failed file again (a CronJob).
- *Discovery*: the CronJob starts runs again and again, a run goes on, workers go on, and a request that was
  not refused is carried through. `faults` bounds everything that fails, jobs included: a document that always
  fails is not ingested.
- *RulesWatcher*: the ticker of `Run`. A failed poll counts as a poll, so a source that stays
  down is allowed; `failures` bounds how often it does not answer.

## 5 Proofs

TLAPS checks all of this for every value of the constants that meets the assumptions
named in the modules.

**`TypeCorrect`, `ClaimsAreOwned`, `ClaimsAreExclusive`** (IngestQueueProofs):
`Spec => []TypeOK`, `[]HeldIsOwned`, `[]ExclusiveUnlessOverruled`, for any workers, jobs,
batch size and durations with `MaxHold + Lead <= Handover` (`QueueAssumption`: the lease
outlives the deadline by more than a claim row's `created_at` can be ahead of the
server's clock; `maxHold` is 5 s and a holder that cannot renew gives the lease up after 10 s).

The invariants are not inductive, since a claim that is wrong today was prepared several
steps earlier. `IInv` adds

- `LeaseInv`: who is in the section has the lease, or asked for it at least `Handover` ago;
- `BatchInv`: what a batch holds in which phase, each job once;
- `SingleRow`, `ClaimRows`: a job that was not overruled has one latest row (no tie), and a
  claim carries its own version;
- `StampInv`, `StampOrder`: a claim is stamped before its lease can be lost, hence of two
  workers about to claim one job one has stamped after the other had lost its lease;
- `ClaimOutranks`: a worker with the lease outranks what has been written, one without never ties;
- `OwnedInv`, `LateInv`: a claim that landed in time is the state of the job until its worker's
  next transition, and whoever is still about to claim the job has lost the lease and will be outranked;
- `ReleaseInv`: a leftover claim being released is the job's state, or is outranked whenever somebody
  with the lease has the job in hand.

Most actions only give entries up and write at most one row that outranks the rest; `Preservation`
proves the step once for all of them. The two claim inserts (`ClaimPreserves`) and
the stamp are the heart: the new rows meet those of everybody who lost the lease meanwhile.

**`FinishedStaysFinished`** (IngestQueueProofs): `Spec => FinalUnlessOverruled`, from `IInv` and
two more facts. `FinishedInv`: whoever is about to claim a job that has been finished
meanwhile has lost the lease, and a stamp it already has is below the job's version.
`SweepInv`: a claim a sweep has read is the job's state still, or outranked. `Goes` says what a step
may do to a job that nobody overruled: nothing, or outrank its rows.

**`SweepsSpareTheLiving`** (IngestQueueProofs): `[]SweepSparesTheLiving`, if `BatchesEndFirst`: `MaxHold + Limit * JobTime` is at most
`Unit * Stale + 1` ticks, so that a claim section and a whole batch, worked off one job after the other, end before the first claim of the batch
is an hour old. TLC finds the property violated one tick beyond that. `Proceeds` is the induction over the batch: the job in hand
began when those before it had had their `JobTime`. It does not matter here that sweeps and releases overrule claims: a claim that has been
outranked is older than the one that is swept (`NotAhead`), so its worker is finished first. `StampedInTime` is needed because a claim may
be ahead of the clock by `Lead`, and a worker then waits for the clock. The hypothesis is about the deployment, not about the code: nothing
bounds a job, and `WORKER_BATCH_SIZE` (10 by default, which makes six minutes a job) is free.

**`QueueImplementsLease`** (IngestQueueProofs): `Spec => IsClaimLease`, the refinement of the
abstract claim lock. The mapping takes a worker as the holder only while it is in its section, and the
time since its attempt, cut off at `Handover`, as its age. `LeaseInv` is what `Expire` needs: a holder
whose lease is taken away is overdue, or has left.

**`LockImplementsLease`** (ClaimLockProofs): `Spec => IsClaimLease`, the same for `WithLock` itself, for any processes
with `maxHold <= renewDeadline <= leaseDuration` (`LockAssumption`) and any number of faults. The section of a process is its leadership, its age the
time since its call of `WithLock`, which renewals do not set back. The heart is `LeaderHolds`: until `renewDeadline` after its call a leader is
named by the record, nobody has watched that record for longer than it leads, and no update of anyone else can still land. It is
inductive with `InflightRenews` (an update under way of a process that leads would be its own renewal) and `InCall`, which
relates the elector, the callback and the caller of one process.

**`ResultsAreCovered`, `CallsGiveTheLeaseBack`** (ClaimLockProofs): `[]AcceptedWhileHeld` and `[]ReturnsReleased`, from the same
invariant. `EndedForAReason` is the link from the check in `WithLock` to the Lease: an elector that gave up was cancelled or
has not renewed for `renewDeadline`, so a callback that reports within `maxHold` of its start reports under the
lease. `NamesLeader` says that without faults the record names only who leads or is about to release.

**`ClaimSectionsExclude`** (IngestQueueProofs), **`LeadersExclude`** (ClaimLockProofs): of
two workers in the sections of the abstract lock one has exceeded the hand-over time (the lemma `SectionsAreExclusive`, about ClaimLease
alone); and by the two refinements the same holds of the queue's claims and of `WithLock`'s leaders. This closes the argument: the queue is proved from no more than
what `WithLock` is proved to give.

**`QueuedOnceUnlessFailedOrCrossed`, `MissingFilesAreReported`, `PushedKeepTheirLabels`**
(DiscoveryProofs): `[]QueuedAgainForAReason`, `[]MissingFileIsReported` and
`[]UploadsKeepTheirLabels` for the uploads in `Pushed`, for any files, requests, hashes, batch size, limit and faults. `JobsGrow` says where a
new job comes from: the batch that is flushed, or one request. `History` is the induction: whoever is going to
insert a job asked when every job for its hash, up to the number in `asked`, had failed (`Failed`, which `FailedStays`
keeps, since a failed job stays failed); a run's known hashes cover all it queued (`Knows`), and its batch has each
hash once and none it queued before (`Once`). `Files` does the same for files: a path is removed only by its own
request, in the step that answers it with an error. `Pulled` is that the watcher never holds an upload's path.

**`CleanRunsAreComplete`** (DiscoveryProofs): `[]CleanRunQueuesAll`. `Complete` follows a run in which nothing has failed: what it knew
when it started, and every document it has been through, has a job or is in the batch, or is an SBOM of which the run has seen
more than `SBOM_LIMIT`. Its counter counts a document once (`Listing`: the directory is
listed before the buckets, and a path is in one of them), which is a fact about cardinalities that TLC cannot reach for all limits.

**`StatementsSurvive`, `StatementsGetTheirScope`, `ScopesStay`** (VEXScopeProofs): `[]LostOnlyWhenRaced`, `[]InertOnlyWhenRaced` and
`ScopeStays`, for any workers, documents, statements, SBOMs, merges and faults, from `OwnIDs`: different statements
have different `vex_id`s. The id is made of the document, the vulnerability and the component, so this fails only for a document that says
the same of one component of two products (a hazard of its own, and a row of section 6).
Rows are versions of one another, and `FINAL` shows the newest: `Newest` says there is one, among the scoped and among
the unscoped rows of a statement. The rest of the invariant is about what somebody still has in hand:

- `Holding`: a job is in one worker's hands and its steps are those of its kind;
- `CopiedFirst`: what a pass is about to delete has a scoped copy that `FINAL` shows;
- `WholeOrPending`: a statement without a row has no row of its document beside it, is in no pass's hands, and a job will bring it (again);
- `Committing`: a pass follows the commit, and without faults nobody commits an SBOM twice;
- `ScopedOrPending`: a statement whose product is there is scoped, or the pass of that product has yet to
  read the table, or some pass has the statement in hand and will scope it.

The first attempt failed for a good reason. `raced` did not have the third crossing of section 2, and `CopiedFirst` is not inductive
without it: a job inserts a statement unscoped and newer while the pass of *another* SBOM is between its insert and its delete; a merge
drops the scoped copy as the older version of the same key (which does not hold `sbom_id`), and the pass deletes the one that is left. It takes three workers and two faults, which the run did not have; TLC
found it there when the invariant was checked before the proof. The code does this, so the exception is now stated as wide as it is.

**`BrokenRulesAreReported`** (RulesProofs): `NotPaperedOver` for any documents, edits
and failures, if `DigestsDiffer`: the source cannot be both missing and empty (HTTPS and S3
report a missing document as an error). `Versions` relates the ETag, the reply and the
snapshot: an ETag is kept only for the rules in use, so a 304 is always about them.

**`RechecksReachEveryRow`** (RulesProofs): `OnwardSpec => []DoneMeansCurrent` for any replicas, documents, changes and jobs, if
`Prompt`: no exception is for one project, and `MaxFaults + 2 < 2 * (Delay - RunTime)`. The code relies on time here: a recheck
waits so that "every replica has to be on the new rules by then" (`license_recheck.go:48-49`), and the recheck compares rules only where it runs.
`Prompt` says what that takes. A replica that stays behind for a whole tick has missed two polls, its refresh and the request that would put
the recheck off again, which are two faults; a scan that began with older rules may write `RunTime` ticks later. With `Delay = 2` and
`RunTime = 0` this leaves one fault, and TLC refutes the property for two: the bound is as wide as it can be there. The parts of the invariant:

- `Published` and `Refs`: nobody is ahead of the published version, what is referred to exists, and no recheck was requested after the
  latest one;
- `Late`: whoever is behind the latest recheck's version, or is about to write by an older one, does so while that recheck is untouched, and
  what it has waited is paid for in faults (`Behind`, with the polls missed in the current tick, and `Older`, with the age of the scan);
- `Served`: once the latest recheck is done every row is right, and while it is in hand the wrong ones are among those it will write.

`Late` and `Served` speak of the latest recheck only while its version is the newest that anybody has (`Newest`): a replica that has just loaded the
next one has not requested its recheck yet. Two lemmas carry the steps: `NotYet` (somebody is still behind, hence the latest recheck may not
be claimed) and its converse `Unanimous`. What the attempt showed is that the hypotheses cannot be dropped: each is a counterexample of section 6,
the one with two faults found only by this proof. In the code nothing bounds the failures; they are errors of ClickHouse or of the source of the rules.

**`VisibleMeansComplete`, `PassesLeaveNoOrphans`, `CommittedRowsHaveOneOwner`** (SBOMIngestProofs): `[]CommittedIsComplete`,
`[]NoOrphans` and `[]OneOwner`, for any workers, jobs with one content (at least one: `IngestAssumption`), source files,
licences and sets of them that passes find, deferrals and faults. `Written` alone carries the rows, crossed or not: a step is
reached only when the inserts before it are done, and rows are never taken away. The rest rests on `Alone`: unless jobs crossed, one worker
at most is past the guard, and none once the SBOM is there (`Passes`). `Captured` says that what this worker put and recorded is then what there
is, `Newer` that its rows are younger than those of every pass before, though others may claim beside it, and `Owned` draws
from that which packages are shown, and that the rows of their licences (`Labelled`) are of the same pass. Of rows under other
licences nothing is claimed, and `RetrySupersedes` is false (section 6). `Tidy` follows the one blob that is not recorded yet, or no longer.

**`CleanRunsCatchUp`, `NewFindingsReachAll`** (CVERefreshProofs): `[]CatchesUpUnlessKnown` and `[]NewReachAll`, for any
SBOMs, packages, vulnerabilities, runs and faults. `Pursued` follows a pair that a run must not miss from the packages to ask
about, through what is new or known, to the rows: nothing that has been found is ever taken away, so failures outside the run do
not matter. `Mapped` is about the race of a run with an ingest: an SBOM without packages when a pair is mapped has not asked
OSV yet (`Ordered`), and OSV knew the pair before, so its own answer covers it (`Covers`).

**`LookupIsSound`** (LicenseLookupProofs): `[]LookupInv`, for any workers, SBOMs, services, failures, limits and restarts; and from it
**`FirstAnswersWin`** (`[]FirstAnswerWins`), **`StoredSourcesAreTrue`** (`[]SourcesAreTrue`), **`CachesStayTrue`** (`[]RegistryCachesAreTrue`)
and **`KnowledgeIsKept`** (`KnowledgeStays`). The caches are shared, persisted as a whole and read again by others, so a wrong entry would
spread; the invariant says of each what its entries mean, and above all what it means that a licence is *absent*:

- `LicensesKnown`: in the table of licences, that the repository has none, or that a request about it has failed;
- `MetadataKnown`: in the table of repositories the same, or that a restart has forgotten it (the table has no column for it), but the
  flag of an archived repository is never lost without a failure;
- `RegistriesKnown`: a registry's cache, for every key it may be asked about, holds only what the registry definitely says;
- `JobsSound`, for the SBOM in hand: what it was told is true of its source (`Told`); every resolver it has passed without an answer
  had none or was not heard (`Heard`, where `Behind` is the order of the questions); at NuGet's repositories, those before
  the current one were asked in vain; and a finished job keeps what the tables will show.

`LookupAssumption` says what the inputs are: documents and NuGet's repository lists are sequences, a NuGet entry without metadata names no
repositories, and GitHub does not state a licence in a repository's metadata while its licence endpoint answers that there is none. The last is an assumption
about GitHub: if the two endpoints disagree, the cached "none" of one would speak for the other.
The attempt corrected the model. The manual override speaks for a repository also when the request for its licence file has failed, so
that a licence of GitHub's may be stored that GitHub would not have given (`GitHubLicenses`); the properties called that untrue, and no
input of the run had such a repository. Guards that overlapped in a `CASE` left to TLC which of their values it takes. And the repositories
of a NuGet package are asked one per step now: as one fold their outcome was an induction over data, and other workers could not come between.

Only model-checked, and why:

- liveness under fairness (`EveryJobFinishes`, `EveryCallReturns`, `ChangesReachAll`, `BecomesVisible`, `GoodRulesReach`, `FoundIsIngested`,
  `AnsweredIsIngested`), which is beyond TLAPS;
- `StrictIsTheBestChoice`, `RecheckIsReingest` and Depgraph: a parser, an evaluator and a search, which are recursive over data. They are checked on
  the expressions and documents of their runs only;
- `SuppressionAgrees`, `ScopesAgree`, `ProjectsAgree`, `BatchesAgree`: the queries of the read side group and fold over the
  rows, and what pages promise each other depends on the corpus as well as on the workers.

## 6 Where the code does something else than it says

The run `vex_lost` shows the first of these by a counterexample, and `findings` in `PROJECT.json` quotes both
sides:

- `vex_lost`: a rescue pass inserts scoped copies, a second job for the document deletes
  all its rows and inserts what it had resolved before, unscoped, and the rescue pass then deletes
  the unscoped rows. `vex_rescue.go:38-39` says "never lost". The same happens with a crash
  in the place of the insert: the retried job finds only scoped rows, takes the document for
  complete and skips it (`main.go:341-350`).

The rest is in the models and described here with the configuration that shows it: where a
property is named, TLC refutes it when the run of that name is made to check it with the change
given. No standing run is spent on it.

| what | shown by | the text |
|---|---|---|
| Two captures of one content from two files each delete the blob the other has recorded: the newest row names a blob that is not there | `ingest`: `OriginalIsKept` | `main.go:672-673` "so its blob can be removed once the new one is safely written and recorded" |
| A pass writes its compliance rows and dies; the retry's look-ups end otherwise. The row of a licence that only the first pass found stays beside the retry's, with the labels of the job that left it, and is shown and counted with the SBOM: the key is (`sbom_id`, `license_id`), nothing deletes, and a recheck evaluates the row again | `ingest`: `RetrySupersedes` | `parsing-worker/main.go:506-507` "the retry's rows supersede the partial ones", so only in `sboms` and `sbom_packages` |
| The refresher skips a pair of vulnerability and package known for *any* SBOM: one whose own query failed never gets it once another has it | `refresh`: `CatchesUp` | `ARCHITECTURE_PLAN.md:549` "INSERT new vulnerability records for all affected SBOMs" |
| Known SBOMs use up `SBOM_LIMIT`: with as many of them ahead, a new one is left aside for ever | `discovery` with two SBOMs in the directory: `LimitCountsQueued` | `DEPLOYMENT_GUIDE.md:678` "Max SBOMs to enqueue per watcher run" |
| An upload under `SBOM_DIR` has its file in place before its job. A run that asked for the known hashes earlier, or one after the job failed, queues the file with labels made from `pushed/...`, and the first job done decides which labels the rows have | `discovery`: `UploadsKeepTheirLabels` with `Uploads` for `Pushed` | `api-reference/_index.md:346` labels "are stamped onto the ingestion job and copied onto every row the parsing worker writes" |
| Nothing ever queues an upload again that failed from a bucket of its own | `discovery`: `AcceptedIsIngested` | `faq/_index.md:16` "A file whose last job failed ... is enqueued again on the next run" |
| A job waiting in a batch behind a long one ages in `processing`; the sweep takes it from its live worker | `queue_live` with two jobs, `Limit = 2`, `JobTime = 2`, `Stale = 2`: `SweepSparesTheLiving` | `license_recheck.go:66-68` "an hour is a dead worker", `ARCHITECTURE_PLAN.md:374-376` |
| Two sweeps overlap with a claim: the slower one queues the job again under its new worker | `queue_safety`: `ExclusiveClaims` | `ARCHITECTURE_PLAN.md:392` "Claims are serialised" |
| Replicas that see a change at different times enqueue rechecks in turn | `recheck_rules`: traces with more than one job for a change (`MaxJobs`) | `license-exceptions/_index.md:93-94` "several workers seeing the same change enqueue one job" |
| A replica whose refresh and request both fail in one interval is not on the new rules when the recheck runs; it goes on ingesting by the old ones, and the recheck has been | `recheck_rules` with `MaxFaults = 2`: `DoneMeansCurrent` | `license_recheck.go:48-49` "Every replica has to be on the new rules by then" |
| A slow recheck overwrites what a newer, completed one wrote | `recheck_rules` with `RunTime = 1`, two documents, `MaxFaults = 0`: `DoneMeansCurrent` | `license_recheck.go:118-120` "the newer one covers it" |
| A recheck between the licence rows and the `sboms` row judges the document without its name | `recheck_rules` with `Scoped = {2}`: `DoneMeansCurrent` | `reevaluate.go:11-13` "the same result a fresh ingest would" |
| Rules change and are reverted before a recheck for the change is queued: documents ingested meanwhile keep the outcome | `recheck_rules` with `SPECIFICATION Spec`, `MaxChanges = 2`: `DoneMeansCurrent` | `license-exceptions/_index.md:94` "a change like any other" |
| A VEX job resolves before an SBOM is committed and inserts after that SBOM's rescue pass has read: the statement stays unscoped | `vex` without `raced` in `InertOnlyWhenRaced` | `architecture/_index.md:260` "re-resolves all unscoped statements" |
| Two statements of one document about one component of two products share a `vex_id`; deleting the unscoped row of one deletes the other | `vex` with one `VexID` for both: `InertOnlyWhenRaced` | `architecture/_index.md:257` |
| A document uploaded again with another `?sbom_id=` is skipped as fully scoped | `Count` of VEXScope with `Target` set | `architecture/_index.md:256` |
| Two captures that both find no previous blob leave an orphan; two ingests of one content mix their labels. `ingested_at` is the time of parsing, so a job that parsed earlier and commits after the partial rows of a later one has that one's packages shown | `ingest` without `crossed` in `NoOrphans`, `OneOwner` | `architecture/_index.md:393` "never leaves orphans behind"; `api-gateway/main.go:1560-1565` "the worst case is one redundant parse" |
| A rules file that was missing and is then empty counts as unchanged; its parse error is not recorded | `rules` with `Conditional = FALSE`, `Remote = FALSE`: `NotPaperedOver` | `license_exceptions.go:29-32` "a document that is invalid is reported, not papered over" |
| After a restart a worker has forgotten the licences that GitHub stated: the table of repositories has no column for them, and the ingest looks there first | `lookup`: `FirstAnswerWins` without `"forgotten"` | `license-resolution/_index.md:45-47`, `architecture/_index.md:339`: answers are kept across restarts |
| NuGet asks GitHub through `Resolve`, which drops the error of a rate limit: the job is not handed back, and deps.dev answers instead | `lookup`: `FirstAnswerWins` without the limited requests in `unanswered` | `license-resolution/_index.md:245` "A GitHub rate limit defers the job; nothing is guessed" |
| A failed request to GitHub is cached as "no licence" and persisted | `lookup`: `FirstAnswerWins` without the failed ones | `cache.go:6-9` says of the registries that a transient failure must not be cached |
| "MIT-0 AND GPL-3.0-only" is permissive: the rule that drops what follows the first `-` is applied to the whole text before it is parsed. A blanket exception does the same | `rules`: `FoldsToTheBestChoice` over all of `Expressions` | `expression.go:33-35` "it never hides a copyleft obligation" |
| The page of a flaw prefers a statement about the package to a newer one about the product; the other pages take the newest | `vex`: `SuppressionAgrees` without `Compete` | `queries.go:102-106` |
| The archived banner counts repositories of documents that are not committed; the list behind it does not | `vex`: `SameRepos` without its guard | `queries_archived.go:387-391` |
| The search derives a project's name without the `project` column | `vex`: the mutant of `ProjectsAgree` in ProjectViews is that definition | `queries_projects.go:14-19`: the explicit column wins |

Read in the code, not modelled: the dashboard subtracts all exempted packages from the copyleft count and calls the result
the real violation count (`queries.go:72-82`); badges count stored licence rows while the violations listing applies the current
exceptions; a `LEFT JOIN` without a match yields `''`, so `ifNull(s.document_name, source_file)` never falls back; the VEX and
version-skew pages sort without a unique last key; the affected SBOMs of a VEX statement ignore its scope; the comment on
`QuerySBOMDependencies` has the `sboms` row written first, and it is written last; the example in the comment on `latestKey` does
not sort as it says; NuGet keeps reasons that it never reports; the key of `vulnerabilities` is (`sbom_id`, `vuln_id`, `purl`), so a
finding of a pass that died keeps that pass's labels when the retry does not make it again (an OSV query that fails).

Behind `AnsweredIsIngested` there is an exception to know of: an upload is answered with "Content already ingested,
skipping" (`main.go:1572-1576`) as soon as any job for its hash is waiting, also one that is going to fail because its
insert was reported as an error and its file removed. Such a client has been told that all is well, and nothing is ingested
until somebody sends the document again.

## 7 What is not modelled

- Conversions of documents (SPDX, CycloneDX, protobom, OpenVEX parsers), how labels are made from paths, CVSS
  scores, SVG, CSV, authentication, the MCP proxy, the web UI: no state of their own.
- Of the read API: paging and sorting, the dependency listing of an SBOM, the totals page of a cluster or
  namespace, the licence facet of the search, the cache of the archived banner. A page that reads several tables is taken to read them in one state.
- The token bucket of the GitHub resolver (it delays requests) and the detection of a licence from its text.
- The second document store of a migration.
- In *IngestQueue*, `SendClaimUnacknowledged` lands before the section it belongs to releases the lock, or
  not at all: that a statement whose context has ended does not reach the table later is an assumption about
  the ClickHouse client.
- In *Discovery*, a listing is one step, types and labels are not computed from names, and requests that are
  refused (authentication, size, content, parameters) are left out, as they change nothing.
- In *LicenseRecheck*, claims are exclusive, and clocks of replicas differ by less than a request.
- Schema migrations and the removal of data.

## 8 Plan

Core first: everything that decides whether a job is done exactly as often as it should be, then what a
job does, then how jobs come into being, then pure algorithms. Runs are few and each asks a question of its
own; new questions about a modelled component extend its run.

Done: IngestQueue, ClaimLease, ClaimLock, LicenseRecheck, VEXScope, CVERefresh, SBOMIngest, RulesWatcher, Discovery,
LicenseLookup, LicensePolicy with Compliance, Depgraph, ProjectGroups and the read side
with their runs; the proofs of section 5.

Next, models:

1. *SBOMIngest* with two stores (`multistore.go`).
2. *LicenseRecheck* with the package lists of a row and with clocks of replicas, and a history variable for
   the exceptions of section 6 so that slow rechecks and reverted changes can be in the run.
3. *IngestQueue* with a lock of each worker's own (the compose deployment).
4. Severities of OSV records and `docstore.Key` against reference definitions.

Next, proofs: what the pages of the read side promise each other for any corpus, for the parts that are filters and not folds;
`RechecksReachEveryRow` with a bound per replica in place of one for all faults.

Abstract specifications worth adding: an exactly-once job queue that IngestQueue implements as long as nothing is
overruled; an atomic "document appears" that SBOMIngest implements while jobs do not cross.

## 9 Running it

    tlc -workers 2 -config MCIngestQueue_safety.cfg MCIngestQueue
    tlapm IngestQueueProofs.tla

`PROJECT.json` has every run, mutant, mapped definition, finding, hazard and theorem.
