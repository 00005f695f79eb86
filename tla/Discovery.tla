------------------------------- MODULE Discovery -------------------------------
(***************************************************************************)
(* How documents get into the queue: runs of the ingestion watcher, which  *)
(* look for new files and for files whose job failed, and uploads through  *)
(* the API gateway.  Both ask the queue for the hashes it knows and append *)
(* jobs later; nothing joins the two steps, and both look at one directory *)
(* unless uploads go to a bucket that is not scanned.                      *)
(*                                                                         *)
(* A path stands for its file, its hash and its place: a path under        *)
(* SBOM_DIR, an object of a scanned bucket, or an upload's own path, which *)
(* contains a fresh UUID.  The watcher takes an object's ETag for its      *)
(* hash, so Hash gives equal hashes to an upload and an object only if the *)
(* ETag is the SHA-256.  A job is queued, done or failed here: how workers *)
(* share the jobs is IngestQueue.                                          *)
(***************************************************************************)
EXTENDS Integers, FiniteSets, Sequences

CONSTANTS
  DirFiles,   \* paths of files that operators put under SBOM_DIR
  Objects,    \* objects in scanned buckets
  Uploads,    \* upload requests; also the path each one stores to
  Hash,       \* the hash of each path
  VEX,        \* the paths that are VEX documents by their name
  Pushed,     \* the uploads put into a skipScan bucket; others go under SBOM_DIR
  BatchSize,  \* enqueueBatchSize
  Limit,      \* SBOM_LIMIT, 0 for none
  None,
  MaxFaults   \* bound on faults

Paths == DirFiles \cup Objects \cup Uploads

ASSUME DiscoveryAssumption ==
  /\ DirFiles \cap Objects = {} /\ Uploads \cap (DirFiles \cup Objects) = {}
  /\ DOMAIN Hash = Paths /\ VEX \subseteq Paths /\ Pushed \subseteq Uploads
  /\ None \notin [path : Paths, origin : {"scan", "upload"}]
  /\ BatchSize \in Nat \ {0} /\ Limit \in Nat /\ MaxFaults \in Nat

VARIABLES
  stored,     \* the paths that hold a file
  jobs,       \* the jobs in the order in which they were inserted
  ingested,   \* per hash: path and origin of the job that made its rows
  req,        \* per upload request: how far it is, and its check of the hash
  watcher,    \* the run of the watcher
  faults      \* bound: faults so far

vars == <<stored, jobs, ingested, req, watcher, faults>>

Hashes == {Hash[p] : p \in Paths}
Fault == faults < MaxFaults /\ faults' = faults + 1
NoFault == UNCHANGED faults

NoRun == [step |-> "idle", known |-> {}, todo |-> {}, batch |-> <<>>, count |-> 0,
          asked |-> 0, listed |-> {}, added |-> {}, clean |-> FALSE]

Init ==
  /\ stored = {} /\ jobs = <<>>
  /\ ingested = [h \in Hashes |-> None]
  /\ req = [u \in Uploads |-> [step |-> "new", asked |-> 0]]
  /\ watcher = NoRun
  /\ faults = 0

-----------------------------------------------------------------------------
(* The queue.  `asked` is history: how many jobs there were when the one   *)
(* who inserts this job asked for the known hashes.                        *)

Job(p, origin, asked) == [path |-> p, origin |-> origin, asked |-> asked, status |-> "queued"]
HashOf(i) == Hash[jobs[i].path]

\* Mutation: what is done is forgotten.
KnownWhileQueued == {HashOf(i) : i \in {k \in DOMAIN jobs : jobs[k].status = "queued"}}

\* Mutation: a failed job's hash stays known.
KnownForever == {HashOf(i) : i \in DOMAIN jobs}

\* HashExists and KnownHashes: a hash is known by its jobs that did not fail.
KnownHashes == {HashOf(i) : i \in {k \in DOMAIN jobs : jobs[k].status # "failed"}}

\* A worker reads the file, and then skips an SBOM that is there already (VEX
\* documents with unscoped statements are done again: see VEXScope).  Reading,
\* parsing and the inserts can fail.
Process(i) ==
  /\ jobs[i].status = "queued"
  /\ \/ /\ jobs[i].path \in stored
        /\ jobs' = [jobs EXCEPT ![i].status = "done"]
        /\ ingested' = [ingested EXCEPT ![HashOf(i)] =
             IF @ = None THEN [path |-> jobs[i].path, origin |-> jobs[i].origin] ELSE @]
        /\ NoFault
     \/ /\ jobs' = [jobs EXCEPT ![i].status = "failed"]
        /\ IF jobs[i].path \in stored THEN Fault ELSE NoFault
        /\ UNCHANGED ingested
  /\ UNCHANGED <<stored, req, watcher>>

-----------------------------------------------------------------------------
(* The watcher.  A CronJob with concurrencyPolicy Forbid: one run at a     *)
(* time.  A run goes through SBOM_DIR and then through the buckets, with   *)
(* one set of known hashes and one counter of SBOMs.                       *)

InDir == DirFiles \cup (Uploads \ Pushed)

\* Mutation: the push bucket is scanned as well.
EveryObject == Objects \cup Pushed

Listable == Objects

\* The clock of the CronJob.  Without the known hashes the run ends at once.
StartRun ==
  /\ watcher.step = "idle"
  /\ watcher' = [NoRun EXCEPT !.step = "start", !.known = KnownHashes, !.asked = Len(jobs), !.clean = TRUE]
  /\ NoFault /\ UNCHANGED <<stored, jobs, ingested, req>>

\* What `from` holds is listed; a failure loses any part of it and is logged.
List(from, step) ==
  /\ \E found \in SUBSET (stored \cap from) :
       /\ watcher' = [watcher EXCEPT !.step = step, !.todo = found, !.listed = @ \cup (stored \cap from),
                                     !.clean = @ /\ found = stored \cap from]
       /\ IF found = stored \cap from THEN NoFault ELSE Fault
  /\ UNCHANGED <<stored, jobs, ingested, req>>

ScanDir == watcher.step = "start" /\ List(InDir, "dir")

SourceDone == watcher.todo = {} /\ watcher.batch = <<>>
ListBuckets == watcher.step = "dir" /\ SourceDone /\ List(Listable, "s3")

\* Mutation: VEX documents are limited as well.
OverAnyLimit(p) == Limit > 0 /\ watcher.count >= Limit

OverLimit(p) == p \notin VEX /\ Limit > 0 /\ watcher.count >= Limit

\* Mutation: a hash queued by this run is not added to the known ones.
TakeOnly(p) == [watcher EXCEPT !.todo = @ \ {p}, !.count = @ + (IF p \in VEX THEN 0 ELSE 1),
                               !.batch = Append(@, Job(p, "scan", watcher.asked))]

\* The document goes into the batch, with labels made from its path.
Take(p) == [watcher EXCEPT !.todo = @ \ {p}, !.count = @ + (IF p \in VEX THEN 0 ELSE 1),
                           !.batch = Append(@, Job(p, "scan", watcher.asked)),
                           !.known = @ \cup {Hash[p]}]

\* One document: over the limit, known, or new.  A known one counts too.
Look(p) ==
  /\ p \in watcher.todo /\ Len(watcher.batch) < BatchSize
  /\ watcher' = CASE OverLimit(p) -> [watcher EXCEPT !.todo = @ \ {p}]
                  [] ~OverLimit(p) /\ Hash[p] \notin watcher.known -> Take(p)
                  [] OTHER -> [watcher EXCEPT !.todo = @ \ {p}, !.count = @ + (IF p \in VEX THEN 0 ELSE 1)]
  /\ NoFault /\ UNCHANGED <<stored, jobs, ingested, req>>

FlushDue == watcher.batch # <<>> /\ (Len(watcher.batch) >= BatchSize \/ watcher.todo = {})

\* The batch is inserted.  An error is logged, whether the rows landed or not:
\* the hashes stay known to this run, and the batch is emptied.
Flush ==
  /\ FlushDue
  /\ \E landed, ok \in BOOLEAN :
       /\ ok => landed
       /\ IF ok THEN NoFault ELSE Fault
       /\ jobs' = IF landed THEN jobs \o watcher.batch ELSE jobs
       /\ watcher' = [watcher EXCEPT !.batch = <<>>, !.clean = @ /\ ok,
                        !.added = IF landed THEN @ \cup ((Len(jobs) + 1)..Len(jobs')) ELSE @]
  /\ UNCHANGED <<stored, ingested, req>>

EndRun ==
  /\ watcher.step = "s3" /\ SourceDone
  /\ watcher' = [watcher EXCEPT !.step = "idle", !.known = {}]
  /\ NoFault /\ UNCHANGED <<stored, jobs, ingested, req>>

WatcherDies ==
  /\ watcher.step # "idle" /\ watcher' = NoRun
  /\ Fault /\ UNCHANGED <<stored, jobs, ingested, req>>

-----------------------------------------------------------------------------
(* Uploads: uploadHandler, once the request is well formed and allowed.    *)

Reach(u, step) == req' = [req EXCEPT ![u].step = step]
At(u, step) == req[u].step = step

\* HashExists: what is known is answered with "duplicate".
Check(u) ==
  /\ At(u, "new")
  /\ \/ Hash[u] \in KnownHashes /\ Reach(u, "duplicate") /\ NoFault
     \/ /\ Hash[u] \notin KnownHashes
        /\ req' = [req EXCEPT ![u] = [step |-> "checked", asked |-> Len(jobs)]] /\ NoFault
     \/ Reach(u, "error") /\ Fault
  /\ UNCHANGED <<stored, jobs, ingested, watcher>>

\* The body is renamed to, or put at, its path.  A put that fails may have
\* stored it; a rename that fails has not.
Store(u) ==
  /\ At(u, "checked")
  /\ \/ stored' = stored \cup {u} /\ Reach(u, "stored") /\ NoFault
     \/ stored' = stored /\ Reach(u, "error") /\ Fault
     \/ u \in Pushed /\ stored' = stored \cup {u} /\ Reach(u, "error") /\ Fault
  /\ UNCHANGED <<jobs, ingested, watcher>>

\* The job is inserted, with the labels of the request; after an error,
\* which may have come after the row landed, the file is removed.
Enqueue(u) ==
  /\ At(u, "stored")
  /\ \E landed, ok \in BOOLEAN :
       /\ ok => landed
       /\ IF ok THEN NoFault ELSE Fault
       /\ jobs' = IF landed THEN Append(jobs, Job(u, "upload", req[u].asked)) ELSE jobs
       /\ Reach(u, IF ok THEN "accepted" ELSE "cleanup")
  /\ UNCHANGED <<stored, ingested, watcher>>

\* Mutation: the answer is the same whether the job was inserted or not.
AcceptAnyway(u) ==
  /\ At(u, "cleanup") /\ stored' = stored \ {u} /\ Reach(u, "accepted") /\ NoFault
  /\ UNCHANGED <<jobs, ingested, watcher>>

\* Best effort: the removal may fail.
CleanUp(u) ==
  /\ At(u, "cleanup") /\ Reach(u, "error")
  /\ \/ stored' = stored \ {u} /\ NoFault
     \/ stored' = stored /\ Fault
  /\ UNCHANGED <<jobs, ingested, watcher>>

\* The client sees a broken connection.
GatewayDies(u) ==
  /\ req[u].step \in {"checked", "stored", "cleanup"} /\ Reach(u, "error")
  /\ Fault /\ UNCHANGED <<stored, jobs, ingested, watcher>>

-----------------------------------------------------------------------------
\* An operator adds a file or an object.
Place(p) ==
  /\ p \in (DirFiles \cup Objects) \ stored /\ stored' = stored \cup {p}
  /\ NoFault /\ UNCHANGED <<jobs, ingested, req, watcher>>

Worker == \E i \in DOMAIN jobs : Process(i)
Scan == ScanDir \/ ListBuckets \/ (\E p \in watcher.todo : Look(p)) \/ Flush \/ EndRun
Handle(u) == Check(u) \/ Store(u) \/ Enqueue(u) \/ CleanUp(u)

Next ==
  \/ \E p \in Paths : Place(p)
  \/ Worker
  \/ StartRun \/ Scan \/ WatcherDies
  \/ \E u \in Uploads : Handle(u) \/ GatewayDies(u)

Spec == Init /\ [][Next]_vars
FairSpec ==
  /\ Spec /\ WF_vars(Worker) /\ WF_vars(StartRun) /\ WF_vars(Scan)
  /\ \A u \in Uploads : WF_vars(Store(u) \/ Enqueue(u) \/ CleanUp(u))

-----------------------------------------------------------------------------
JobType == [path : Paths, origin : {"scan", "upload"}, asked : Nat, status : {"queued", "done", "failed"}]

RunType == [step : {"idle", "start", "dir", "s3"}, known : SUBSET Hashes, todo : SUBSET Paths,
            batch : Seq(JobType), count : Nat, asked : Nat, listed : SUBSET Paths,
            added : SUBSET Nat, clean : BOOLEAN]
ReqType == [step : {"new", "checked", "stored", "cleanup", "accepted", "duplicate", "error"}, asked : Nat]

\* The shape of the state.
TypeOK ==
  /\ stored \in SUBSET Paths
  /\ jobs \in Seq(JobType)
  /\ ingested \in [Hashes -> {None} \cup [path : Paths, origin : {"scan", "upload"}]]
  /\ req \in [Uploads -> ReqType]
  /\ watcher \in RunType
  /\ Len(watcher.batch) <= BatchSize /\ watcher.added \subseteq DOMAIN jobs
  /\ faults \in 0..MaxFaults

\* A document is queued again only if its job failed, or by one who asked for
\* the known hashes before that job was there; and never twice by one run.
\* (uploadHandler accepts the race; KnownHashes is asked once per run.)
QueuedAgainForAReason ==
  /\ \A i, j \in DOMAIN jobs :
       i < j /\ HashOf(i) = HashOf(j) /\ jobs[i].status # "failed" => jobs[j].asked < i
  /\ \A i, j \in watcher.added : HashOf(i) = HashOf(j) => i = j

\* A run without a fault leaves no listed document without a job, other than
\* SBOMs of which it saw more than SBOM_LIMIT.  (The loops of the watcher with
\* their batches; VEX documents are never limited.)
CleanRunQueuesAll ==
  watcher.step = "idle" /\ watcher.clean =>
    \A p \in watcher.listed :
      \/ \E i \in DOMAIN jobs : HashOf(i) = Hash[p]
      \/ p \notin VEX /\ Limit > 0 /\ Cardinality(watcher.listed \ VEX) > Limit

\* A job without its file is one whose request was answered with an error.
\* (uploadHandler removes the file after an insert that may have landed.)
MissingFileIsReported ==
  \A i \in DOMAIN jobs :
    jobs[i].path \notin stored => jobs[i].path \in Uploads /\ At(jobs[i].path, "error")

\* Rows made from an upload that was put into the skipScan bucket and accepted
\* carry the labels of its request, not those derived from its path.  (Query
\* parameters of uploadHandler against the layout of the watcher.)
UploadsKeepTheirLabels ==
  \A u \in Pushed : At(u, "accepted") => ingested[Hash[u]] # [path |-> u, origin |-> "scan"]

\* A watcher run without a fault that leaves an SBOM without a job has queued
\* as many as SBOM_LIMIT.  (The limit as the documentation has it.)
LimitCountsQueued ==
  watcher.step = "idle" /\ watcher.clean =>
    \/ \A p \in watcher.listed : \E i \in DOMAIN jobs : HashOf(i) = Hash[p]
    \/ Cardinality({i \in watcher.added : jobs[i].path \notin VEX}) >= Limit

\* A document that is stored where the watcher looks is ingested in the end,
\* whatever failed before, unless it is removed again.  (A failed job's hash is
\* not in KnownHashes; a batch that was not flushed is found by the next run.)
FoundIsIngested ==
  \A p \in InDir \cup Objects : p \in stored ~> (ingested[Hash[p]] # None \/ p \notin stored)

\* An upload that was answered with "accepted" or "duplicate" is ingested in
\* the end, unless a job for the same hash is one whose request was answered
\* with an error: its file is gone, but while it waits its hash is known.  Or the
\* job failed and its file is where no watcher run finds it again.
\* (HashExists in uploadHandler, the cleanup after a failed insert, skipScan.)
AnsweredIsIngested ==
  \A u \in Uploads :
    req[u].step \in {"accepted", "duplicate"} ~>
      \/ ingested[Hash[u]] # None
      \/ \E v \in Uploads : Hash[v] = Hash[u] /\ At(v, "error") /\ \E i \in DOMAIN jobs : jobs[i].path = v
      \/ \E i \in DOMAIN jobs : HashOf(i) = Hash[u] /\ jobs[i].path \in Pushed /\ jobs[i].status = "failed"

\* An upload that was accepted is ingested in the end: a failed job's hash is
\* forgotten so that its file is queued again.  (KnownHashes and the watcher.)
AcceptedIsIngested ==
  \A u \in Uploads : At(u, "accepted") ~> ingested[Hash[u]] # None
================================================================================
