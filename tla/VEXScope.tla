-------------------------------- MODULE VEXScope --------------------------------
(***************************************************************************)
(* Scoping VEX statements to the SBOM whose product they describe: the VEX *)
(* jobs (processVEXJob), the rescue pass after each SBOM ingest            *)
(* (rescueUnscopedVEX) and the vex_statements table they share, on several *)
(* parsing workers (cmd/parsing-worker, internal/clickhouse).              *)
(*                                                                         *)
(* A worker holds its job exclusively; IngestQueue is about that.          *)
(***************************************************************************)
EXTENDS Integers, FiniteSets, Functions

CONSTANTS
  Workers,
  None,           \* no SBOM: sbom_id = ''
  SBOMs,          \* one ingest job each
  VEXJobs,        \* jobs for VEX documents
  Statements,     \* statements of all documents
  Refs,           \* product @ids
  Doc,            \* the document of a job and of a statement
  Target,         \* the ?sbom_id= of a VEX job, or None
  Product,        \* the product @id of a statement
  VexID,          \* its vex_id
  Wide,           \* the statements without subcomponents
  Describes,      \* the product @ids that resolve to an SBOM
  Unsafe,         \* the jobs that may be hit by faults
  MaxFaults       \* bound on faults

Jobs == SBOMs \cup VEXJobs

ASSUME VEXAssumption ==
  /\ None \notin SBOMs /\ SBOMs \cap VEXJobs = {}
  /\ Target \in [VEXJobs -> SBOMs \cup {None}]
  /\ Product \in [Statements -> Refs]
  /\ VEXJobs \cup Statements \subseteq DOMAIN Doc /\ DOMAIN VexID = Statements
  /\ \A st \in Statements : \E j \in VEXJobs : Doc[j] = Doc[st]
  /\ Wide \subseteq Statements /\ Unsafe \subseteq Jobs
  /\ Describes \in [SBOMs -> SUBSET Refs]
  /\ MaxFaults \in Nat

VARIABLES
  queue,          \* the status of the jobs
  act,            \* per worker: the job in hand
  rows,           \* vex_statements: the rows on disk
  sboms,          \* the SBOMs with a row in sboms
  clock,          \* the last ingested_at given out
  faults,         \* bound: faults so far
  raced           \* history: statements a rescue pass and a VEX job crossed on

vars == <<queue, act, rows, sboms, clock, faults, raced>>

Idle == [step |-> "idle"]
Of(doc) == {st \in Statements : Doc[st] = doc}

-----------------------------------------------------------------------------
(* The table: ReplacingMergeTree(ingested_at).  product_purl, which becomes *)
(* '*' when a statement without subcomponents is scoped, is part of the key; *)
(* sbom_id is not.                                                          *)

Key(r) == <<VexID[r.st], r.st \in Wide /\ r.sbom # None>>

\* FINAL: the newest row of every key.
Final == {r \in rows : \A q \in rows : Key(q) = Key(r) => q.at <= r.at}

\* A background merge drops the rows FINAL does not show.
Merge == rows # Final /\ rows' = Final /\ UNCHANGED <<queue, act, sboms, clock, faults, raced>>

\* Rows with one key in one insert: the engine keeps one of them.
Inserted(new) ==
  \E kept \in SUBSET new :
    /\ \A r \in new : \E q \in kept : Key(q) = Key(r)
    /\ \A r, q \in kept : Key(q) = Key(r) => q = r
    /\ rows' = rows \cup kept

DeleteVEXDocument(doc) == rows' = {r \in rows : Doc[r.st] # doc}

\* Mutation: without sbom_id = '' in the predicate.
DeleteByID(old) == rows' = {r \in rows : VexID[r.st] \notin {VexID[q.st] : q \in old}}

DeleteUnscoped(old) ==
  rows' = {r \in rows : r.sbom # None \/ VexID[r.st] \notin {VexID[q.st] : q \in old}}

-----------------------------------------------------------------------------
Init ==
  /\ queue = [j \in Jobs |-> "waiting"]
  /\ act = [w \in Workers |-> Idle]
  /\ rows = {}
  /\ sboms = {}
  /\ clock = 0
  /\ faults = 0
  /\ raced = {}

Faulty(w) ==
  /\ act[w] # Idle /\ act[w].job \in Unsafe
  /\ faults < MaxFaults /\ faults' = faults + 1

Goto(w, step) == act' = [act EXCEPT ![w].step = step] /\ UNCHANGED queue
Finish(w, status) ==
  /\ act' = [act EXCEPT ![w] = Idle]
  /\ queue' = [queue EXCEPT ![act[w].job] = status]

At(w, step) == act[w].step = step

\* Mutation: statements for a whole product are left out.
RescuedComponents(w) ==
  {r \in act[w].found : act[w].scope[Product[r.st]] # None /\ r.st \notin Wide}

\* The rows whose product exists by now.
Rescued(w) == {r \in act[w].found : act[w].scope[Product[r.st]] # None}

\* ResolveSBOMByProductRef for a set of refs; a failing query counts as no match.
Resolve(w, next) ==
  /\ At(w, "resolve")
  /\ IF act[w].refs = {} THEN Goto(w, next) /\ UNCHANGED faults
     ELSE \E ref \in act[w].refs :
            LET found == {s \in sboms : ref \in Describes[s]} IN
            \E s \in found \cup {None} :
              /\ IF s \notin found /\ found # {} THEN Faulty(w) ELSE UNCHANGED faults
              /\ act' = [act EXCEPT ![w].refs = @ \ {ref}, ![w].scope[ref] = s]
              /\ UNCHANGED queue
  /\ UNCHANGED <<rows, sboms, clock, raced>>

-----------------------------------------------------------------------------
(* processVEXJob.                                                          *)

Fresh(j, step, refs) ==
  [job |-> j, step |-> step, at |-> clock + 1, replacing |-> FALSE, found |-> {},
   refs |-> refs, scope |-> [r \in Refs |-> None]]

\* The document is read and parsed.
ClaimVEX(w) ==
  /\ act[w] = Idle
  /\ \E j \in VEXJobs :
       /\ queue[j] = "waiting"
       /\ queue' = [queue EXCEPT ![j] = "running"]
       /\ act' = [act EXCEPT ![w] = Fresh(j, "exists", {Product[st] : st \in Of(Doc[j])})]
  /\ clock' = clock + 1
  /\ UNCHANGED <<rows, sboms, faults, raced>>

\* scopeVEXStatements: an explicit target needs no resolution.
ToScope(w, replacing) ==
  /\ act' = [act EXCEPT ![w].replacing = replacing,
               ![w].step = "resolve",
               ![w].refs = IF Target[act[w].job] = None THEN @ ELSE {},
               ![w].scope = IF Target[act[w].job] = None THEN @
                            ELSE [r \in Refs |-> Target[act[w].job]]]
  /\ UNCHANGED queue

\* VEXDocumentExists; its error is ignored.
Exists(w) ==
  /\ At(w, "exists")
  /\ \/ /\ \E r \in rows : Doc[r.st] = Doc[act[w].job]
        /\ Goto(w, "count") /\ UNCHANGED faults
     \/ /\ \A r \in rows : Doc[r.st] # Doc[act[w].job]
        /\ ToScope(w, FALSE) /\ UNCHANGED faults
     \/ Faulty(w) /\ ToScope(w, FALSE)
  /\ UNCHANGED <<rows, sboms, clock, raced>>

\* VEXDocumentUnscopedCount: a fully scoped document is skipped.
Count(w) ==
  /\ At(w, "count")
  /\ IF \E r \in Final : Doc[r.st] = Doc[act[w].job] /\ r.sbom = None
       THEN ToScope(w, TRUE) ELSE Finish(w, "done")
  /\ UNCHANGED <<rows, sboms, clock, faults, raced>>

ResolveVEX(w) ==
  /\ act[w] # Idle /\ act[w].job \in VEXJobs
  /\ Resolve(w, IF act[w].replacing THEN "delete" ELSE "insert")

\* A rescue pass has rows of doc in hand.
Rescuing(doc) == \E v \in Workers : act[v] # Idle /\ \E r \in act[v].found : Doc[r.st] = doc

Delete(w) ==
  /\ At(w, "delete")
  /\ DeleteVEXDocument(Doc[act[w].job])
  /\ raced' = IF Rescuing(Doc[act[w].job]) THEN raced \cup Of(Doc[act[w].job]) ELSE raced
  /\ Goto(w, "insert")
  /\ UNCHANGED <<sboms, clock, faults>>

Scoped(w, sts, at) == {[st |-> st, sbom |-> act[w].scope[Product[st]], at |-> at] : st \in sts}

\* The rescue pass of s has read the table, or there will be none.
PassRead(s) == s \in sboms /\ \A v \in Workers : act[v] # Idle /\ act[v].job = s => ~At(v, "query")

\* A rescue pass has inserted its copy of st and will delete what is not scoped.
Copied(st) == \E v \in Workers : At(v, "clean") /\ \E r \in Rescued(v) : r.st = st

Insert(w) ==
  /\ At(w, "insert")
  /\ Inserted(Scoped(w, Of(Doc[act[w].job]), act[w].at))
  /\ raced' = raced \cup {st \in Of(Doc[act[w].job]) :
                           /\ act[w].scope[Product[st]] = None
                           /\ \/ \E s \in SBOMs : Product[st] \in Describes[s] /\ PassRead(s)
                              \/ Copied(st)}
  /\ Goto(w, "complete")
  /\ UNCHANGED <<sboms, clock, faults>>

CompleteVEX(w) ==
  /\ At(w, "complete")
  /\ Finish(w, "done")
  /\ UNCHANGED <<rows, sboms, clock, faults, raced>>

-----------------------------------------------------------------------------
(* processSBOMJob: the commit, then rescueUnscopedVEX.                     *)

ClaimSBOM(w) ==
  /\ act[w] = Idle
  /\ \E s \in SBOMs :
       /\ queue[s] = "waiting"
       /\ queue' = [queue EXCEPT ![s] = "running"]
       /\ act' = [act EXCEPT ![w] = Fresh(s, "guard", {})]
  /\ UNCHANGED <<rows, sboms, clock, faults, raced>>

\* SBOMExists: a committed SBOM is skipped; an error is ignored.
Guard(w) ==
  /\ At(w, "guard")
  /\ \/ act[w].job \in sboms /\ Finish(w, "done") /\ UNCHANGED faults
     \/ act[w].job \notin sboms /\ Goto(w, "commit") /\ UNCHANGED faults
     \/ act[w].job \in sboms /\ Faulty(w) /\ Goto(w, "commit")
  /\ UNCHANGED <<rows, sboms, clock, raced>>

Commit(w) ==
  /\ At(w, "commit")
  /\ sboms' = sboms \cup {act[w].job}
  /\ Goto(w, "query")
  /\ UNCHANGED <<rows, clock, faults, raced>>

\* QueryUnscopedVEXStatements.
Query(w) ==
  /\ At(w, "query")
  /\ LET found == {r \in Final : r.sbom = None} IN
     IF found = {} THEN Finish(w, "done")
     ELSE /\ act' = [act EXCEPT ![w].step = "resolve", ![w].found = found,
                       ![w].refs = {Product[r.st] : r \in found}]
          /\ UNCHANGED queue
  /\ UNCHANGED <<rows, sboms, clock, faults, raced>>

ResolveRescue(w) ==
  act[w] # Idle /\ act[w].job \in SBOMs /\ Resolve(w, "rescue")

\* Corrected copies, with a new ingested_at.
Rescue(w) ==
  /\ At(w, "rescue")
  /\ IF Rescued(w) = {} THEN Finish(w, "done") /\ UNCHANGED <<rows, clock>>
     ELSE /\ Inserted(Scoped(w, {r.st : r \in Rescued(w)}, clock + 1))
          /\ clock' = clock + 1
          /\ Goto(w, "clean")
  /\ UNCHANGED <<sboms, faults, raced>>

Clean(w) ==
  /\ At(w, "clean")
  /\ DeleteUnscoped(Rescued(w))
  /\ Finish(w, "done")
  /\ UNCHANGED <<sboms, clock, faults, raced>>

-----------------------------------------------------------------------------
(* Faults.                                                                 *)

\* A statement fails: the VEX job fails, and so does an SBOM job that is not
\* committed; a failing rescue is only logged.
Fails(w) ==
  /\ Faulty(w)
  /\ act[w].step \in {"count", "delete", "insert", "commit", "query", "rescue", "clean"}
  /\ Finish(w, IF act[w].step \in {"query", "rescue", "clean"} THEN "done" ELSE "failed")
  /\ UNCHANGED <<rows, sboms, clock, raced>>

\* The worker dies; a sweep hands its job back.
Crash(w) ==
  /\ Faulty(w)
  /\ Finish(w, "waiting")
  /\ UNCHANGED <<rows, sboms, clock, raced>>

\* The watcher enqueues the file of a failed job again.
Retry(j) ==
  /\ queue[j] = "failed"
  /\ queue' = [queue EXCEPT ![j] = "waiting"]
  /\ UNCHANGED <<act, rows, sboms, clock, faults, raced>>

Next ==
  \/ Merge
  \/ \E j \in Jobs : Retry(j)
  \/ \E w \in Workers :
       \/ ClaimVEX(w) \/ Exists(w) \/ Count(w) \/ ResolveVEX(w) \/ Delete(w) \/ Insert(w) \/ CompleteVEX(w)
       \/ ClaimSBOM(w) \/ Guard(w) \/ Commit(w) \/ Query(w) \/ ResolveRescue(w) \/ Rescue(w) \/ Clean(w)
       \/ Fails(w) \/ Crash(w)

Spec == Init /\ [][Next]_vars

-----------------------------------------------------------------------------
Ingested(doc) == \A j \in VEXJobs : Doc[j] = doc => queue[j] = "done"

Survives(st) == Ingested(Doc[st]) => \E r \in Final : r.st = st

\* However rescues and jobs interleave and wherever one stops, an ingested document
\* has a row for each of its statements ("duplicated, never lost"), unless a job
\* deleted it while a rescue pass had its rows in hand, or brought it again unscoped
\* where a pass had just scoped it.
LostOnlyWhenRaced == \A st \in Statements \ raced : Survives(st)

\* What vex_rescue.go says, without that exception.
NeverLost == \A st \in Statements : Survives(st)

\* In whatever order documents and SBOMs arrive: when all are ingested and nothing
\* has failed, every statement whose product exists is scoped, unless a job inserted
\* it with what it had looked up before the product's rescue pass.
InertOnlyWhenRaced ==
  (faults = 0 /\ \A j \in Jobs : queue[j] = "done") =>
    \A st \in Statements \ raced : \A s \in SBOMs :
      Product[st] \in Describes[s] =>
        \E r \in Final : r.st = st /\ r.sbom # None

IsScoped(st) == \E r \in Final : r.st = st /\ r.sbom # None

\* Only a job that brings the document again takes the scope of a statement away;
\* no rescue, merge or fault does.
ScopeStays ==
  [][\A st \in Statements :
       IsScoped(st) /\ ~IsScoped(st)' =>
         \E w \in Workers : (At(w, "delete") \/ At(w, "insert")) /\ Doc[act[w].job] = Doc[st]]_vars

=============================================================================
