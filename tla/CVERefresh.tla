------------------------------- MODULE CVERefresh -------------------------------
(***************************************************************************)
(* How a disclosed vulnerability reaches the SBOMs that contain the        *)
(* package: the parsing worker asks OSV when it ingests an SBOM, the       *)
(* cve-refresher (a CronJob, one run at a time) asks again for all known   *)
(* packages later.  Both write the vulnerabilities table                   *)
(* (cmd/parsing-worker/main.go, cmd/cve-refresher/main.go).                *)
(***************************************************************************)
EXTENDS Integers, FiniteSets

CONSTANTS
  SBOMs,          \* one ingest job each
  PURLs,          \* packages; one OSV batch each
  Packages,       \* the packages of an SBOM
  Vulns,
  Affects,        \* the packages a vulnerability is about
  SkipOSV,        \* SKIP_OSV: the worker does not ask
  MaxRuns,        \* bound on refresher runs
  MaxFaults       \* bound on faults

ASSUME RefreshAssumption ==
  /\ Packages \in [SBOMs -> SUBSET PURLs] /\ Affects \in [Vulns -> SUBSET PURLs]
  /\ SkipOSV \in BOOLEAN /\ MaxRuns \in Nat /\ MaxFaults \in Nat

VARIABLES
  disclosed,      \* the vulnerabilities OSV knows
  packages,       \* the SBOMs with a row in sbom_packages
  findings,       \* vulnerabilities: <<sbom, vuln, purl>>
  committed,      \* the SBOMs with a row in sboms
  job,            \* per SBOM: its ingest job
  run,            \* the refresher's run
  runs, faults    \* bounds: runs and faults so far

tables == <<packages, findings, committed>>
vars == <<disclosed, tables, job, run, runs, faults>>

\* What a batch answers: the vulnerabilities of a package by now.
Answer(p) == {<<v, p>> : v \in {v \in disclosed : p \in Affects[v]}}

Waiting == [step |-> "waiting"]
NoRun == [step |-> "off"]

Init ==
  /\ disclosed = {}
  /\ packages = {} /\ findings = {} /\ committed = {}
  /\ job = [s \in SBOMs |-> Waiting]
  /\ run = NoRun
  /\ runs = 0 /\ faults = 0

Disclose ==
  /\ \E v \in Vulns \ disclosed : disclosed' = disclosed \cup {v}
  /\ UNCHANGED <<tables, job, run, runs, faults>>

Fault == faults < MaxFaults /\ faults' = faults + 1

\* HydrateVulns: vulnerabilities whose details cannot be had are left out.
Hydrated(found, kept) ==
  \/ kept = found /\ UNCHANGED faults
  \/ Fault /\ \E v \in {x[1] : x \in found} : kept = {x \in found : x[1] # v}

Kept(found) == {{x \in found : x[1] \in vs} : vs \in SUBSET {x[1] : x \in found}}

-----------------------------------------------------------------------------
(* processSBOMJob: packages, OSV, findings, commit marker.                 *)

InsertPackages(s) ==
  /\ job[s] = Waiting /\ s \notin committed
  /\ packages' = packages \cup {s}
  /\ job' = [job EXCEPT ![s] = [step |-> "query", found |-> {},
                                  todo |-> IF SkipOSV THEN {} ELSE Packages[s]]]
  /\ UNCHANGED <<disclosed, findings, committed, run, runs, faults>>

\* A batch that fails is logged and left out.
Query(s) ==
  /\ job[s].step = "query"
  /\ \E p \in job[s].todo :
       \/ /\ job' = [job EXCEPT ![s].todo = @ \ {p}, ![s].found = @ \cup Answer(p)]
          /\ UNCHANGED faults
       \/ Fault /\ job' = [job EXCEPT ![s].todo = @ \ {p}]
  /\ UNCHANGED <<disclosed, tables, run, runs>>

InsertFindings(s) ==
  /\ job[s].step = "query" /\ job[s].todo = {}
  /\ \E kept \in Kept(job[s].found) :
       /\ Hydrated(job[s].found, kept)
       /\ findings' = findings \cup {<<s, x[1], x[2]>> : x \in kept}
  /\ job' = [job EXCEPT ![s] = [step |-> "commit"]]
  /\ UNCHANGED <<disclosed, packages, committed, run, runs>>

Commit(s) ==
  /\ job[s].step = "commit"
  /\ committed' = committed \cup {s}
  /\ job' = [job EXCEPT ![s] = [step |-> "done"]]
  /\ UNCHANGED <<disclosed, packages, findings, run, runs, faults>>

\* A statement fails or the worker dies; the job runs again from the start.
JobFails(s) ==
  /\ Fault /\ job[s].step \in {"query", "commit"}
  /\ job' = [job EXCEPT ![s] = Waiting]
  /\ UNCHANGED <<disclosed, tables, run, runs>>

-----------------------------------------------------------------------------
(* run of the refresher.                                                   *)

\* QueryDistinctPURLs.  since and base are for the properties: what was
\* disclosed, and which SBOMs had packages, when the run began; clean: nothing
\* has failed in it.
Start ==
  /\ run.step \in {"off", "completed", "failed"} /\ runs < MaxRuns
  /\ LET known == UNION {Packages[s] : s \in packages} IN
     run' = [step |-> IF known = {} THEN "completed" ELSE "keys", todo |-> known,
             keys |-> {}, new |-> {}, rows |-> {},
             since |-> disclosed, base |-> packages, clean |-> TRUE]
  /\ runs' = runs + 1
  /\ UNCHANGED <<disclosed, tables, job, faults>>

\* Mutation: a vulnerability known for one package counts as known for all.
KeysByVuln == {f[2] : f \in findings} \X PURLs

\* QueryExistingVulnKeys: what some SBOM has a row for.
ExistingKeys == {<<f[2], f[3]>> : f \in findings}

LoadKeys ==
  /\ run.step = "keys"
  /\ run' = [run EXCEPT !.step = "query", !.keys = ExistingKeys]
  /\ UNCHANGED <<disclosed, tables, job, runs, faults>>

QueryBatch ==
  /\ run.step = "query"
  /\ \E p \in run.todo :
       \/ /\ run' = [run EXCEPT !.todo = @ \ {p}, !.new = @ \cup (Answer(p) \ run.keys)]
          /\ UNCHANGED faults
       \/ Fault /\ run' = [run EXCEPT !.todo = @ \ {p}, !.clean = FALSE]
  /\ UNCHANGED <<disclosed, tables, job, runs>>

\* Mutation: the SBOMs as they were when the run began.
SBOMsAtStart(p) == {s \in run.base : p \in Packages[s]}

\* QuerySBOMsByPURLs.
SBOMsWith(p) == {s \in packages : p \in Packages[s]}

Hydrate ==
  /\ run.step = "query" /\ run.todo = {}
  /\ \E kept \in Kept(run.new) :
       /\ Hydrated(run.new, kept)
       /\ run' = [run EXCEPT !.step = "map", !.todo = {x[2] : x \in kept}, !.new = kept,
                    !.clean = @ /\ kept = run.new]
  /\ UNCHANGED <<disclosed, tables, job, runs>>

\* buildRows: one row per affected SBOM.
buildRows(p) == {<<s, x[1], p>> : s \in SBOMsWith(p), x \in {y \in run.new : y[2] = p}}

Map ==
  /\ run.step = "map"
  /\ \E p \in run.todo :
       run' = [run EXCEPT !.todo = @ \ {p}, !.rows = @ \cup buildRows(p)]
  /\ UNCHANGED <<disclosed, tables, job, runs, faults>>

\* Batches of rows: any part of them.
InsertBatch ==
  /\ run.step = "map" /\ run.todo = {}
  /\ \E batch \in SUBSET run.rows \ {{}} :
       /\ findings' = findings \cup batch
       /\ run' = [run EXCEPT !.rows = @ \ batch]
  /\ UNCHANGED <<disclosed, packages, committed, job, runs, faults>>

Complete ==
  /\ run.step = "map" /\ run.todo = {} /\ run.rows = {}
  /\ run' = [run EXCEPT !.step = "completed"]
  /\ UNCHANGED <<disclosed, tables, job, runs, faults>>

RunFails ==
  /\ Fault /\ run.step \in {"keys", "query", "map"}
  /\ run' = [run EXCEPT !.step = "failed"]
  /\ UNCHANGED <<disclosed, tables, job, runs>>

-----------------------------------------------------------------------------
Next ==
  \/ Disclose
  \/ \E s \in SBOMs :
       InsertPackages(s) \/ Query(s) \/ InsertFindings(s) \/ Commit(s) \/ JobFails(s)
  \/ Start \/ LoadKeys \/ QueryBatch \/ Hydrate \/ Map \/ InsertBatch \/ Complete \/ RunFails

Spec == Init /\ [][Next]_vars

-----------------------------------------------------------------------------
Pairs == Vulns \X PURLs
Rows == SBOMs \X Vulns \X PURLs
Asking == [step : {"query"}, found : SUBSET Pairs, todo : SUBSET PURLs]
Running == [step : {"keys", "query", "map", "completed", "failed"}, todo : SUBSET PURLs, keys : SUBSET Pairs,
            new : SUBSET Pairs, rows : SUBSET Rows, since : SUBSET Vulns, base : SUBSET SBOMs, clean : BOOLEAN]

TypeOK ==
  /\ disclosed \subseteq Vulns /\ packages \subseteq SBOMs /\ committed \subseteq SBOMs /\ findings \subseteq Rows
  /\ job \in [SBOMs -> {Waiting} \cup Asking \cup [step : {"commit", "done"}]]
  /\ run \in {NoRun} \cup Running
  /\ runs \in Nat /\ faults \in Nat

Found(s, x) == x[2] \in Packages[s] => <<s, x[1], x[2]>> \in findings

Affected(s, v) == {<<v, p>> : p \in Affects[v] \cap Packages[s]}

\* A refresher run in which nothing fails makes up for whatever failed before:
\* afterwards every ingested SBOM that was there has all that was disclosed by its
\* start, unless the pair of vulnerability and package was known for another SBOM.
CatchesUpUnlessKnown ==
  (run.step = "completed" /\ run.clean) =>
    \A s \in run.base \cap committed, v \in run.since : \A x \in Affected(s, v) :
      Found(s, x) \/ \E t \in SBOMs \ {s} : <<t, x[1], x[2]>> \in findings

\* What ARCHITECTURE_PLAN.md says, without that exception: "new vulnerability
\* records for all affected SBOMs".
CatchesUp ==
  (run.step = "completed" /\ run.clean) =>
    \A s \in run.base \cap committed, v \in run.since : \A x \in Affected(s, v) : Found(s, x)

\* What a run finds new is recorded for every SBOM with the package, also for
\* those ingested while it runs: they are mapped or have asked late enough.
NewReachAll ==
  (run.step = "completed" /\ faults = 0 /\ ~SkipOSV) =>
    \A s \in committed, x \in run.new : Found(s, x)

=============================================================================
