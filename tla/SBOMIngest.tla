------------------------------- MODULE SBOMIngest -------------------------------
(***************************************************************************)
(* Ingest of one SBOM document (one sbom_id) by the parsing workers:       *)
(* processSBOMJob with captureOriginal.  The same content may be queued    *)
(* several times (two uploads; an upload the watcher also found), each job *)
(* with its own source file and ownership labels.                          *)
(*                                                                         *)
(* A worker holds its job exclusively; IngestQueue is about that, and      *)
(* CVERefresh about the findings, which are left out here.                 *)
(***************************************************************************)
EXTENDS Integers, FiniteSets

CONSTANTS
  Workers,
  Jobs,           \* jobs with this content; each stands for its ownership too
  None,
  Source,         \* the blob key made of a job's source file (docstore.Key)
  Licenses,
  Findings,       \* the sets of licences that a pass over the document may end up
                  \* with: look-ups answer, fail or find the licence changed
  MaxDeferrals,   \* bound on GitHub rate limits
  MaxFaults       \* bound on faults

ASSUME IngestAssumption ==
  /\ Jobs # {} /\ None \notin Jobs /\ DOMAIN Source = Jobs /\ \A j \in Jobs : Source[j] # None
  /\ Findings # {} /\ Findings \subseteq SUBSET Licenses
  /\ MaxDeferrals \in Nat /\ MaxFaults \in Nat

VARIABLES
  queue,          \* the status of the jobs
  act,            \* per worker: the job in hand
  packages,       \* sbom_packages: the rows for the SBOM
  compliance,     \* license_compliance: per licence the owner of its row
  sboms,          \* sboms: the rows for the SBOM
  record,         \* document_store: the recorded blob
  blobs,          \* the blobs in the store
  clock,          \* the last ingested_at given out
  crossed,        \* history: a job passed the guard beside another one in hand
                  \* or although the SBOM was committed
  deferrals, faults \* bounds: deferrals and faults so far

tables == <<packages, compliance, sboms, record, blobs>>
bounds == <<deferrals, faults>>
vars == <<queue, act, tables, clock, crossed, bounds>>

Idle == [step |-> "idle"]
Sources == {Source[j] : j \in Jobs}

Init ==
  /\ queue = [j \in Jobs |-> "waiting"]
  /\ act = [w \in Workers |-> Idle]
  /\ packages = {} /\ compliance = [l \in Licenses |-> None] /\ sboms = {}
  /\ record = None /\ blobs = {}
  /\ clock = 0 /\ crossed = FALSE /\ deferrals = 0 /\ faults = 0

Fault == faults < MaxFaults /\ faults' = faults + 1 /\ UNCHANGED deferrals

At(w, step) == act[w].step = step
Goto(w, step) == act' = [act EXCEPT ![w].step = step] /\ UNCHANGED queue
Finish(w, status) ==
  /\ act' = [act EXCEPT ![w] = Idle]
  /\ queue' = [queue EXCEPT ![act[w].job] = status]

\* ReplacingMergeTree(ingested_at), which is when the document was parsed.
Row(w) == [owner |-> act[w].job, at |-> act[w].at]
PackagesRow(w) == [owner |-> act[w].job, at |-> act[w].at, found |-> act[w].found]
Shown(rows) == {r \in rows : \A q \in rows : q.at <= r.at}

-----------------------------------------------------------------------------
\* The document is read and parsed.
Claim(w) ==
  /\ act[w] = Idle
  /\ \E j \in Jobs :
       /\ queue[j] = "waiting"
       /\ queue' = [queue EXCEPT ![j] = "running"]
       /\ act' = [act EXCEPT ![w] = [job |-> j, step |-> "guard", at |-> clock + 1,
                                           prev |-> None, found |-> {}]]
  /\ clock' = clock + 1
  /\ UNCHANGED <<tables, bounds, crossed>>

\* Mutation: an SBOM with packages is skipped.
HasRows == packages # {}

Exists == sboms # {}

\* SBOMExists: a committed SBOM is skipped.  An error counts as "no".
Guard(w) ==
  /\ At(w, "guard")
  /\ \/ Exists /\ Finish(w, "done") /\ UNCHANGED <<crossed, bounds>>
     \/ /\ Goto(w, "lookup")
        /\ IF Exists THEN Fault ELSE UNCHANGED bounds
        /\ crossed' = (crossed \/ Exists \/ \E v \in Workers \ {w} : act[v] # Idle)
  /\ UNCHANGED <<tables, clock>>

-----------------------------------------------------------------------------
(* captureOriginal.                                                        *)

\* The previous capture; when it cannot be read the cleanup is left out.
Lookup(w) ==
  /\ At(w, "lookup")
  /\ \/ act' = [act EXCEPT ![w].step = "put", ![w].prev = record] /\ UNCHANGED bounds
     \/ record # None /\ act' = [act EXCEPT ![w].step = "put"] /\ Fault
  /\ UNCHANGED <<queue, tables, clock, crossed>>

Put(w) ==
  /\ At(w, "put")
  /\ blobs' = blobs \cup {Source[act[w].job]}
  /\ Goto(w, "record")
  /\ UNCHANGED <<packages, compliance, sboms, record, clock, bounds, crossed>>

\* stored_at is the time of the insert: the last capture wins.
Record(w) ==
  /\ At(w, "record")
  /\ record' = Source[act[w].job]
  /\ Goto(w, "clean")
  /\ UNCHANGED <<packages, compliance, sboms, blobs, clock, bounds, crossed>>

\* Mutation: the previous blob goes, whatever its key.
AnyPrevious(w) == act[w].prev # None

\* Mutation: nothing is cleaned up.
NoPrevious(w) == FALSE

Superseded(w) == act[w].prev \notin {None, Source[act[w].job]}

\* What was looked up is forgotten.
Return(w) ==
  /\ act' = [act EXCEPT ![w].step = "resolve", ![w].prev = None]
  /\ UNCHANGED queue

\* The superseded blob is deleted; a failure is only logged.
Clean(w) ==
  /\ At(w, "clean")
  /\ \/ /\ blobs' = IF Superseded(w) THEN blobs \ {act[w].prev} ELSE blobs
        /\ UNCHANGED bounds
     \/ Superseded(w) /\ Fault /\ UNCHANGED blobs
  /\ Return(w)
  /\ UNCHANGED <<packages, compliance, sboms, record, clock, crossed>>

-----------------------------------------------------------------------------
\* resolvePackageLicenses: the licences of the packages that count are what this
\* pass finds; a rate-limited GitHub hands the job back.
Resolve(w) ==
  /\ At(w, "resolve")
  /\ \/ /\ \E found \in Findings :
             act' = [act EXCEPT ![w].step = "packages", ![w].found = found]
        /\ UNCHANGED <<queue, bounds>>
     \/ /\ deferrals < MaxDeferrals /\ deferrals' = deferrals + 1 /\ UNCHANGED faults
        /\ Finish(w, "waiting")
  /\ UNCHANGED <<tables, clock, crossed>>

InsertPackages(w) ==
  /\ packages' = packages \cup {PackagesRow(w)}
  /\ UNCHANGED <<compliance, sboms>>

\* Mutation: rows that are there are not written again.
ComplianceOnce(w) ==
  /\ compliance' = [l \in Licenses |->
                      IF l \in act[w].found /\ compliance[l] = None THEN act[w].job ELSE compliance[l]]
  /\ UNCHANGED <<packages, sboms>>

\* A row per licence found and none without one.  The key is (sbom_id, license_id)
\* and checked_at the time of the insert: the last insert wins under each licence,
\* and what an earlier pass found besides stays.
InsertCompliance(w) ==
  /\ compliance' = [l \in Licenses |-> IF l \in act[w].found THEN act[w].job ELSE compliance[l]]
  /\ UNCHANGED <<packages, sboms>>

InsertSBOM(w) ==
  /\ sboms' = sboms \cup {Row(w)}
  /\ UNCHANGED <<packages, compliance>>

\* Mutation: the sboms row first.
CommitFirst(step, w) ==
  CASE step = "packages" -> InsertSBOM(w)
    [] step = "compliance" -> InsertPackages(w)
    [] OTHER -> InsertCompliance(w)

\* The sboms row is the commit marker and comes last.
InsertOf(step, w) ==
  CASE step = "packages" -> InsertPackages(w)
    [] step = "compliance" -> InsertCompliance(w)
    [] OTHER -> InsertSBOM(w)

InsertRows(w) ==
  /\ act[w].step \in {"packages", "compliance", "commit"}
  /\ InsertOf(act[w].step, w)
  /\ CASE At(w, "packages") -> Goto(w, "compliance")
       [] At(w, "compliance") -> Goto(w, "commit")
       [] OTHER -> Finish(w, "done")
  /\ UNCHANGED <<record, blobs, clock, bounds, crossed>>

-----------------------------------------------------------------------------
\* A store or a statement fails: the job fails; or the worker dies and a sweep
\* hands the job back.
FailsOrDies(w) ==
  /\ act[w] # Idle /\ Fault
  /\ \/ Finish(w, "waiting")
     \/ act[w].step \notin {"guard", "lookup", "clean"} /\ Finish(w, "failed")
  /\ UNCHANGED <<tables, clock, crossed>>

\* The watcher enqueues the file of a failed job again.
Retry(j) ==
  /\ queue[j] = "failed"
  /\ queue' = [queue EXCEPT ![j] = "waiting"]
  /\ UNCHANGED <<act, tables, clock, bounds, crossed>>

Step(w) ==
  \/ Claim(w) \/ Guard(w) \/ Lookup(w) \/ Put(w) \/ Record(w) \/ Clean(w)
  \/ Resolve(w) \/ InsertRows(w)

Next == (\E w \in Workers : Step(w) \/ FailsOrDies(w)) \/ (\E j \in Jobs : Retry(j))

Spec == Init /\ [][Next]_vars

\* Workers claim and work, the watcher comes back.
FairSpec ==
  Spec /\ (\A w \in Workers : WF_vars(Step(w))) /\ (\A j \in Jobs : WF_vars(Retry(j)))

-----------------------------------------------------------------------------
RowSet == [owner : Jobs, at : Nat]
PackagesRowSet == [owner : Jobs, at : Nat, found : SUBSET Licenses]
Steps == {"guard", "lookup", "put", "record", "clean", "resolve", "packages", "compliance", "commit"}
Activity == [job : Jobs, step : Steps, at : Nat, prev : Sources \cup {None},
             found : SUBSET Licenses]

TypeOK ==
  /\ queue \in [Jobs -> {"waiting", "running", "done", "failed"}]
  /\ act \in [Workers -> Activity \cup {Idle}]
  /\ packages \subseteq PackagesRowSet /\ sboms \subseteq RowSet
  /\ compliance \in [Licenses -> Jobs \cup {None}]
  /\ record \in Sources \cup {None} /\ blobs \subseteq Sources
  /\ clock \in Nat /\ crossed \in BOOLEAN
  /\ deferrals \in 0..MaxDeferrals /\ faults \in 0..MaxFaults

AllDone == \A j \in Jobs : queue[j] = "done"

HasOriginal == record \in blobs

\* The licences in a row of packages have their compliance rows.
Covered(row) == \A l \in row.found : compliance[l] # None

\* The commit marker means what it says, wherever jobs stop and however often they
\* run: a visible SBOM has packages whose licences have compliance rows; unless jobs
\* for the SBOM crossed, those are the packages that are shown, and the original
\* that document_store names is there.
CommittedIsComplete ==
  sboms # {} => /\ \E row \in packages : Covered(row)
                /\ crossed \/ (HasOriginal /\ \A row \in Shown(packages) : Covered(row))

\* captureOriginal says so without that exception: a blob "can be removed once the
\* new one is safely written and recorded".
OriginalIsKept == sboms # {} => HasOriginal

\* "re-processing never leaves orphans behind", unless jobs for the SBOM crossed.
NoOrphans == AllDone /\ faults = 0 /\ ~crossed => blobs = {record}

\* The rows that the committing pass wrote are the ones shown, unless jobs for the
\* SBOM crossed: the SBOM, its packages and the compliance row of each licence that
\* the packages have carry the ownership of one job.
OneOwner ==
  ~crossed =>
    \A r \in Shown(sboms), q \in Shown(packages) :
      r.owner = q.owner /\ \A l \in q.found : compliance[l] = r.owner

\* "so the retry's rows supersede the partial ones": the compliance rows of a visible
\* SBOM are those of the packages that are shown.  A pass that dies with another
\* licence in its rows refutes it.
RetrySupersedes ==
  sboms # {} /\ ~crossed =>
    \A row \in Shown(packages), l \in Licenses : compliance[l] # None => l \in row.found

\* A document that was queued becomes visible in the end.
BecomesVisible == <>(sboms # {})

=============================================================================
