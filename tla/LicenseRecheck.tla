----------------------------- MODULE LicenseRecheck -----------------------------
(***************************************************************************)
(* Retroactive application of license exceptions: every worker replica     *)
(* watches the rules (internal/rulesource), asks the queue for a recheck   *)
(* when the latest one is not for its rules, and runs claimed rechecks     *)
(* over license_compliance, beside the ingest of new SBOMs                 *)
(* (cmd/parsing-worker/license_recheck.go and main.go).                    *)
(*                                                                         *)
(* One tick is the time in which every live replica polls its rules and    *)
(* the queue once.  A claim is exclusive here; IngestQueue is about that.  *)
(***************************************************************************)
EXTENDS Integers, FiniteSets

CONSTANTS
  Workers,
  Docs,           \* SBOM documents
  Digests,        \* versions of the exceptions document, by number
  First,          \* the version at the start
  Exempting,      \* versions that exempt the documents' packages ...
  Scoped,         \* ... by an exception for the project, found by document name
  Delay,          \* recheckDelay in ticks
  Stale,          \* recheckStaleAfter and staleClaimAfter in ticks
  RunTime,        \* ticks a live worker needs at most for a claimed recheck
  MaxChanges,     \* bound on changes of the rules
  MaxFaults,      \* bound on faults
  MaxJobs         \* bound on rechecks; the runs stay below it

ASSUME RecheckAssumption ==
  /\ Digests \subseteq Nat /\ First \in Digests /\ Scoped \subseteq Exempting /\ Exempting \subseteq Digests
  /\ Delay \in Nat /\ Stale \in Nat /\ RunTime \in Nat
  /\ MaxChanges \in Nat /\ MaxFaults \in Nat /\ MaxJobs \in Nat \ {0}

VARIABLES
  source,         \* the published version of the rules
  loaded,         \* per worker: the version of its current snapshot
  due,            \* per worker: the polls it still has to do in this tick
  asking,         \* per worker: the recheck requests between query and insert
  jobs,           \* the license_recheck jobs of the queue
  latest,         \* the newest of them, 0 if there is none
  act,            \* per worker: the job in hand
  stored,         \* per document: its row in license_compliance
  committed,      \* the documents with a row in sboms
  changes, faults \* bounds: changes and faults so far

queue == <<jobs, latest>>
results == <<stored, committed>>
bounds == <<changes, faults>>
vars == <<source, loaded, due, asking, queue, act, results, bounds>>

JobIds == 1..MaxJobs
NoJob == [prev |-> 0, digest |-> First, status |-> "absent", wait |-> 0, idle |-> 0]
Idle == [kind |-> "idle"]
Polls == {"refresh", "ensure"}

\* license.IsExempt for the document's packages: a project-scoped exception
\* matches the document name.
Exempt(d, named) == d \in Exempting /\ (d \in Scoped => named)
Outcome(d, named) == IF Exempt(d, named) THEN "exempted" ELSE "violation"

Init ==
  /\ source = First
  /\ loaded = [w \in Workers |-> First]
  /\ due = [w \in Workers |-> {"ensure"}]
  /\ asking = [w \in Workers |-> {}]
  /\ jobs = [j \in JobIds |-> NoJob]
  /\ latest = 0
  /\ act = [w \in Workers |-> Idle]
  /\ stored = [d \in Docs |-> "none"]
  /\ committed = {}
  /\ changes = 0
  /\ faults = 0

Faulty == faults < MaxFaults /\ faults' = faults + 1 /\ UNCHANGED changes

-----------------------------------------------------------------------------
(* The rules and their watchers.                                           *)

ChangeRules ==
  /\ changes < MaxChanges
  /\ \E d \in Digests \ {source} : source' = d
  /\ changes' = changes + 1
  /\ UNCHANGED <<loaded, due, asking, queue, act, results, faults>>

\* Watcher.Run: a change calls ensureLicenseRecheck at once.
Refresh(w) ==
  /\ "refresh" \in due[w]
  /\ loaded' = [loaded EXCEPT ![w] = source]
  /\ due' = [due EXCEPT ![w] = IF loaded[w] = source THEN @ \ {"refresh"}
                               ELSE (@ \ {"refresh"}) \cup {"ensure"}]
  /\ UNCHANGED <<source, asking, queue, act, results, bounds>>

\* The source is unreachable: the last good rules stay.
RefreshFails(w) ==
  /\ Faulty /\ "refresh" \in due[w]
  /\ due' = [due EXCEPT ![w] = @ \ {"refresh"}]
  /\ UNCHANGED <<source, loaded, asking, queue, act, results>>

-----------------------------------------------------------------------------
(* ensureLicenseRecheck: query, then insert.                               *)

NeedsRetry(j) ==
  \/ jobs[j].status = "failed"
  \/ jobs[j].status = "processing" /\ jobs[j].idle > Stale

\* Mutation: the latest recheck is trusted whatever became of it.
CoveredIfQueued(d) == latest # 0 /\ jobs[latest].digest = d

Covered(d) == latest # 0 /\ jobs[latest].digest = d /\ ~NeedsRetry(latest)

Ask(w) ==
  /\ "ensure" \in due[w]
  /\ due' = [due EXCEPT ![w] = @ \ {"ensure"}]
  /\ asking' = IF Covered(loaded[w]) THEN asking
               ELSE [asking EXCEPT ![w] = @ \cup {[prev |-> latest, digest |-> loaded[w]]}]
  /\ UNCHANGED <<source, loaded, queue, act, results, bounds>>

\* Mutation: no retry_after.
NoDelay == 0

RecheckDelay == Delay

\* The id is derived from the previous recheck and the digest: a second request
\* for it changes nothing.  Of jobs requested concurrently either may count as
\* the newest (created_at is each replica's clock before its query).
Enqueue(w) ==
  \E r \in asking[w] :
    /\ asking' = [asking EXCEPT ![w] = @ \ {r}]
    /\ IF \E j \in JobIds : jobs[j].status # "absent"
                            /\ jobs[j].prev = r.prev /\ jobs[j].digest = r.digest
         THEN UNCHANGED queue
         ELSE \E j \in JobIds :
                /\ jobs[j].status = "absent"
                /\ \A i \in JobIds : i < j => jobs[i].status # "absent"
                /\ jobs' = [jobs EXCEPT ![j] =
                              [prev |-> r.prev, digest |-> r.digest, status |-> "pending",
                               wait |-> RecheckDelay, idle |-> 0]]
                /\ latest' \in IF latest = r.prev THEN {j} ELSE {j, latest}
    /\ UNCHANGED <<source, loaded, due, act, results, bounds>>

\* The query or the insert fails; the next poll asks again.
AskFails(w) ==
  /\ Faulty
  /\ \/ "ensure" \in due[w] /\ due' = [due EXCEPT ![w] = @ \ {"ensure"}] /\ UNCHANGED asking
     \/ \E r \in asking[w] : asking' = [asking EXCEPT ![w] = @ \ {r}] /\ UNCHANGED due
  /\ UNCHANGED <<source, loaded, queue, act, results>>

-----------------------------------------------------------------------------
(* runLicenseRecheckJob on a claimed job.                                  *)

Status(j, status, wait) ==
  jobs' = [jobs EXCEPT ![j] = [prev |-> jobs[j].prev, digest |-> jobs[j].digest,
                               status |-> status, wait |-> wait, idle |-> 0]]

Claim(w) ==
  /\ act[w] = Idle
  /\ \E j \in JobIds :
       /\ jobs[j].status = "pending" /\ jobs[j].wait = 0
       /\ Status(j, "processing", 0)
       /\ act' = [act EXCEPT ![w] = [kind |-> "claimed", job |-> j, time |-> 0]]
  /\ UNCHANGED <<source, loaded, due, asking, latest, results, bounds>>

HasItsRules(w) == loaded[w] = jobs[act[w].job].digest

\* A worker without the job's rules: superseded, or handed back until its next
\* poll.
SkipOrDefer(w) ==
  /\ act[w].kind = "claimed" /\ ~HasItsRules(w)
  /\ IF latest # act[w].job
       THEN Status(act[w].job, "done", 0)
       ELSE Status(act[w].job, "pending", 1)
  /\ act' = [act EXCEPT ![w] = Idle]
  /\ UNCHANGED <<source, loaded, due, asking, latest, results, bounds>>

\* EachLicenseCompliance: the rows whose outcome changes under the worker's rules.
\* A row whose SBOM is not committed has no document name.
Changed(w) ==
  {[doc |-> d, outcome |-> Outcome(loaded[w], d \in committed)] :
     d \in {d \in Docs : /\ stored[d] # "none"
                         /\ stored[d] # Outcome(loaded[w], d \in committed)}}

Scan(w) ==
  /\ act[w].kind = "claimed" /\ HasItsRules(w)
  /\ act' = [act EXCEPT ![w] = [kind |-> "rewrite", job |-> act[w].job, time |-> act[w].time,
                                rows |-> Changed(w)]]
  /\ UNCHANGED <<source, loaded, due, asking, queue, results, bounds>>

\* One insert of changed rows.  checked_at is its time: the last insert wins.
Rewrite(w) ==
  /\ act[w].kind = "rewrite"
  /\ \E r \in act[w].rows :
       /\ stored' = [stored EXCEPT ![r.doc] = r.outcome]
       /\ act' = [act EXCEPT ![w].rows = @ \ {r}]
  /\ UNCHANGED <<source, loaded, due, asking, queue, committed, bounds>>

Complete(w) ==
  /\ act[w].kind = "rewrite" /\ act[w].rows = {}
  /\ Status(act[w].job, "done", 0)
  /\ act' = [act EXCEPT ![w] = Idle]
  /\ UNCHANGED <<source, loaded, due, asking, latest, results, bounds>>

\* A scan or an insert fails; a shutdown hands the job back.
RecheckFails(w) ==
  /\ Faulty /\ act[w].kind \in {"claimed", "rewrite"}
  /\ Status(act[w].job, "failed", 0) \/ Status(act[w].job, "pending", 0)
  /\ act' = [act EXCEPT ![w] = Idle]
  /\ UNCHANGED <<source, loaded, due, asking, latest, results>>

\* RequeueStaleJobs.
Requeue(j) ==
  /\ jobs[j].status = "processing" /\ jobs[j].idle > Stale
  /\ Status(j, "pending", 0)
  /\ UNCHANGED <<source, loaded, due, asking, latest, act, results, bounds>>

-----------------------------------------------------------------------------
(* processSBOMJob, from the license check on.                              *)

\* The rules are read, the packages checked with the document's own name.
Check(w) ==
  /\ act[w] = Idle
  /\ \E d \in Docs \ committed :
       /\ \A v \in Workers : act[v].kind \in {"insert", "commit"} => act[v].doc # d
       /\ act' = [act EXCEPT ![w] =
                    [kind |-> "insert", doc |-> d, outcome |-> Outcome(loaded[w], TRUE)]]
  /\ UNCHANGED <<source, loaded, due, asking, queue, results, bounds>>

InsertCompliance(w) ==
  /\ act[w].kind = "insert"
  /\ stored' = [stored EXCEPT ![act[w].doc] = act[w].outcome]
  /\ act' = [act EXCEPT ![w] = [kind |-> "commit", doc |-> act[w].doc]]
  /\ UNCHANGED <<source, loaded, due, asking, queue, committed, bounds>>

\* The sboms row is the commit marker.
InsertSBOM(w) ==
  /\ act[w].kind = "commit"
  /\ committed' = committed \cup {act[w].doc}
  /\ act' = [act EXCEPT ![w] = Idle]
  /\ UNCHANGED <<source, loaded, due, asking, queue, stored, bounds>>

\* The process dies; it restarts with a Refresh that has to succeed.
Crash(w) ==
  /\ Faulty
  /\ act' = [act EXCEPT ![w] = Idle]
  /\ asking' = [asking EXCEPT ![w] = {}]
  /\ loaded' = [loaded EXCEPT ![w] = source]
  /\ due' = [due EXCEPT ![w] = (@ \ {"refresh"}) \cup {"ensure"}]
  /\ UNCHANGED <<source, queue, results>>

-----------------------------------------------------------------------------
\* Environment: polls take place in every tick, an ingest inserts what it has
\* checked in the same tick, a recheck ends in RunTime.
InTime(w) ==
  /\ due[w] = {} /\ asking[w] = {}
  /\ act[w].kind # "insert"
  /\ act[w].kind \in {"claimed", "rewrite"} => act[w].time < RunTime

\* A request names the latest job at its query, and none is open at a tick: which
\* other job a job followed is forgotten.
Aged(job) ==
  [job EXCEPT !.wait = IF @ > 0 THEN @ - 1 ELSE 0,
              !.idle = IF job.status = "processing" /\ @ <= Stale THEN @ + 1 ELSE @,
              !.prev = IF @ = latest THEN @ ELSE 0]

\* Nobody refers to a finished job again that is not the newest: its data are
\* forgotten.
Over(j) == jobs[j].status \in {"done", "failed"} /\ j # latest

Tick ==
  /\ \A w \in Workers : InTime(w)
  /\ jobs' = [j \in JobIds |-> IF Over(j) THEN [NoJob EXCEPT !.status = "done"] ELSE Aged(jobs[j])]
  /\ due' = [w \in Workers |-> Polls]
  /\ act' = [w \in Workers |->
               IF act[w].kind \in {"claimed", "rewrite"} THEN [act[w] EXCEPT !.time = @ + 1]
               ELSE act[w]]
  /\ UNCHANGED <<source, loaded, asking, latest, results, bounds>>

JobStep(w) ==
  \/ Claim(w) \/ SkipOrDefer(w) \/ Scan(w) \/ Rewrite(w) \/ Complete(w)
  \/ InsertCompliance(w) \/ InsertSBOM(w)

Next ==
  \/ Tick \/ ChangeRules
  \/ \E j \in JobIds : Requeue(j)
  \/ \E w \in Workers :
       \/ Refresh(w) \/ Ask(w) \/ Enqueue(w) \/ JobStep(w) \/ Check(w)
       \/ RefreshFails(w) \/ AskFails(w) \/ RecheckFails(w) \/ Crash(w)

Spec == Init /\ [][Next]_vars

\* Polls, claimed jobs and sweeps go on.
Fairness ==
  /\ WF_vars(Tick) /\ \A j \in JobIds : WF_vars(Requeue(j))
  /\ \A w \in Workers :
       /\ WF_vars(Refresh(w)) /\ WF_vars(Ask(w)) /\ WF_vars(Enqueue(w)) /\ WF_vars(JobStep(w))

FairSpec == Spec /\ Fairness

\* No version of the rules comes back: they are numbered as they are published.
Onward == source' >= source
OnwardSpec == Init /\ [][Next /\ Onward]_vars

-----------------------------------------------------------------------------
\* The system has nothing left to do for the rules it has loaded.
Settled(d) ==
  /\ latest # 0 /\ jobs[latest].status = "done" /\ jobs[latest].digest = d
  /\ \A w \in Workers : loaded[w] = d /\ asking[w] = {} /\ act[w] = Idle

\* Once the latest recheck is done on rules every replica has, the stored results
\* of all committed SBOMs are what those rules say: no ingest on older rules, no
\* superseded, repeated or interrupted recheck is left behind.  (MaxJobs is enough:
\* a request without a free job would stop the clock, a deadlock.)
DoneMeansCurrent ==
  \A d \in Digests : Settled(d) => \A doc \in committed : stored[doc] = Outcome(d, TRUE)

\* A change of the rules reaches every committed SBOM in the end, whatever fails
\* on the way.
ChangesReachAll ==
  <>[](\A doc \in committed : stored[doc] = Outcome(source, TRUE))

=============================================================================
