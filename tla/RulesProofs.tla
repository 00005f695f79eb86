------------------------------ MODULE RulesProofs ------------------------------
(***************************************************************************)
(* The rules on their way to the results.  A watcher reports a document    *)
(* that it cannot use (NotPaperedOver of RulesWatcher), for every source   *)
(* whose documents differ in their digests and any number of edits,        *)
(* failures and restarts.  A completed recheck leaves no result of older   *)
(* rules behind (DoneMeansCurrent of LicenseRecheck), for any workers,     *)
(* documents, versions of the rules, faults and jobs under Prompt.         *)
(***************************************************************************)
EXTENDS LicenseRecheck, RulesWatcher, TLAPS

-----------------------------------------------------------------------------
(* The watcher.                                                            *)

\* No source both may be missing and may be without content.  Without this a file that
\* was missing and is then empty has the digest in use and is never parsed.
DigestsDiffer == Remote \/ Emptied \notin Documents

\* The rules in use are those the fetcher's ETag names, and not known to be broken.
InUse == snap.ready /\ snap.value = etag /\ snap.err # "invalid"

\* What an ETag and a reply say about the rules in use and about the source.
Versions ==
  /\ etag # Nothing /\ reply \in {Nothing, Failure, NotModified} => InUse
  /\ etag # Nothing /\ reply \in Documents => reply = etag
  /\ reply = NotModified => etag # Nothing /\ polled = etag
  /\ reply \in Documents => polled = reply
  /\ reply = Failure => polled = Failure

\* A remote source never says that there is no document.
NeverMissing == Remote => reply # Missing /\ (snap.ready => snap.value # Missing)

WatcherInv == WatcherTypes /\ Versions /\ NeverMissing /\ NotPaperedOver

\* Under DigestsDiffer a document with the digest of the rules in use is the one they
\* were read from.
LEMMA SameRules ==
  ASSUME DigestsDiffer, WatcherTypes, NeverMissing,
         reply \in Documents, Known
  PROVE  snap.value = reply /\ Accepted
BY WatcherAssumption DEF DigestsDiffer, WatcherTypes, NeverMissing, Known,
       Digest, Accepted

LEMMA WatcherStarts == WatcherInit => WatcherInv
BY WatcherAssumption DEF WatcherInit, WatcherInv, WatcherTypes, Versions, NeverMissing,
       NotPaperedOver, InUse

\* Each step keeps the invariant.
LEMMA WatcherSteps ==
  DigestsDiffer /\ WatcherInv /\ [WatcherNext]_watcher
    => WatcherInv'
<1> SUFFICES ASSUME DigestsDiffer, WatcherInv, [WatcherNext]_watcher
             PROVE  WatcherInv'
  OBVIOUS
<1> USE WatcherAssumption DEF WatcherInv, InUse
<1>1. CASE Edit
  BY <1>1 DEF Edit, WatcherTypes, Versions, NeverMissing, NotPaperedOver, Answer
<1>2. CASE FetchFails
  BY <1>2 DEF FetchFails, WatcherTypes, Versions, NeverMissing, NotPaperedOver, Answer
<1>3. CASE Fetch
  <2>1. WatcherTypes'
    BY <1>3 DEF Fetch, WatcherTypes
  <2>2. Versions'
    BY <1>3 DEF Fetch, WatcherTypes, Versions
  <2>3. NeverMissing' /\ NotPaperedOver'
    BY <1>3 DEF Fetch, WatcherTypes, Versions, NeverMissing, NotPaperedOver
  <2> QED BY <2>1, <2>2, <2>3
<1>4. CASE Apply
  <2> USE <1>4 DEF Apply
  <2>1. CASE FetchFailed
    BY <2>1 DEF FetchFailed, WatcherTypes, Versions, NeverMissing, NotPaperedOver
  <2>2. CASE Unchanged
    <3>1. snap.ready /\ snap.value = polled /\ polled \in Good \cup {Missing}
      <4>1. CASE reply = NotModified
        BY <4>1 DEF WatcherTypes, Versions
      <4>2. CASE reply \in Documents /\ Known
        BY <4>2, SameRules DEF WatcherTypes, Versions, Known
      <4> QED BY <2>2, <4>1, <4>2 DEF Unchanged, WatcherTypes
    <3>2. etag # Nothing => snap.value = etag
      BY <2>2, <3>1 DEF Unchanged, WatcherTypes, Versions
    <3> QED BY <2>2, <3>1, <3>2 DEF Unchanged, WatcherTypes, Versions, NeverMissing,
                                    NotPaperedOver, Answer
  <2>3. CASE Rejected
    BY <2>3 DEF Rejected, Accepted, WatcherTypes, Versions, NeverMissing,
                NotPaperedOver, Answer
  <2>4. CASE Loaded
    <3>1. reply \in Documents /\ polled = reply /\ (etag # Nothing => etag = reply)
      BY <2>4 DEF Loaded, WatcherTypes, Versions
    <3> QED BY <2>4, <3>1 DEF Loaded, Accepted, WatcherTypes, Versions, NeverMissing,
                               NotPaperedOver, Answer
  <2> QED BY <2>1, <2>2, <2>3, <2>4
<1>5. CASE Restart
  BY <1>5 DEF Restart, WatcherTypes, Versions, NeverMissing, NotPaperedOver
<1>6. CASE UNCHANGED watcher
  BY <1>6 DEF watcher, WatcherTypes, Versions, NeverMissing, NotPaperedOver, Answer
<1> QED BY <1>1, <1>2, <1>3, <1>4, <1>5, <1>6 DEF WatcherNext

\* A broken document is reported and a good one is served, whatever was cached, lost
\* or reverted before (watcher.go:60-104, license_exceptions.go:33-46).
THEOREM BrokenRulesAreReported ==
  DigestsDiffer => (WatcherSpec => []NotPaperedOver)
<1> SUFFICES ASSUME DigestsDiffer PROVE WatcherSpec => []NotPaperedOver
  OBVIOUS
<1>1. WatcherInv /\ [WatcherNext]_watcher => WatcherInv'
  BY WatcherSteps
<1>2. WatcherInv => NotPaperedOver
  BY DEF WatcherInv
<1>3. WatcherInit => WatcherInv
  BY WatcherStarts
<1> QED BY <1>1, <1>2, <1>3, PTL DEF WatcherSpec

-----------------------------------------------------------------------------
(* The recheck.                                                            *)

\* No exception is for one project, and whoever misses a version of the rules, or
\* writes by an older one, is done before the recheck for it may be claimed: two
\* faults keep a worker from it for a tick.
Prompt == Scoped = {} /\ MaxFaults + 2 < 2 * (Delay - RunTime)

Ids == {0} \cup JobIds
Outcomes == {"exempted", "violation"}
Job == [prev : Ids, digest : Digests, status : {"absent", "pending", "processing", "done", "failed"},
        wait : Nat, idle : Nat]
Request == [prev : Ids, digest : Digests]
Row == [doc : Docs, outcome : Outcomes]

\* What a worker has in hand.
ClaimedJob == [kind : {"claimed"}, job : JobIds, time : 0..RunTime]
Rewriting == [kind : {"rewrite"}, job : JobIds, time : 0..RunTime, rows : SUBSET Row]
Inserting == [kind : {"insert"}, doc : Docs, outcome : Outcomes]
Committing == [kind : {"commit"}, doc : Docs]
Hand == {Idle} \cup ClaimedJob \cup Rewriting \cup Inserting \cup Committing

TypeOK ==
  /\ source \in Digests
  /\ loaded \in [Workers -> Digests]
  /\ due \in [Workers -> SUBSET Polls]
  /\ asking \in [Workers -> SUBSET Request]
  /\ jobs \in [JobIds -> Job]
  /\ latest \in Ids
  /\ act \in [Workers -> Hand]
  /\ stored \in [Docs -> {"none"} \cup Outcomes]
  /\ committed \subseteq Docs
  /\ faults \in 0..MaxFaults

\* Nobody has a version that is not published yet.
Published ==
  /\ First <= source
  /\ \A w \in Workers : loaded[w] <= source
  /\ \A w \in Workers : \A r \in asking[w] : r.digest <= source
  /\ \A j \in JobIds : jobs[j].status # "absent" => jobs[j].digest <= source

Holds(w, j) == act[w].kind \in {"claimed", "rewrite"} /\ act[w].job = j

\* What is referred to is there, and no recheck was requested after the latest one.
Present(j) == j # 0 => jobs[j].status # "absent"
Refs ==
  /\ Present(latest)
  /\ latest # 0 => \A j \in JobIds : jobs[j].prev # latest
  /\ \A j \in JobIds : Present(jobs[j].prev) /\ \A w \in Workers : Holds(w, j) => Present(j)
  /\ \A w \in Workers : \A r \in asking[w] : Present(r.prev)

\* A document that is committed, or about to be, has its compliance row.
Rows ==
  /\ \A d \in committed : stored[d] # "none"
  /\ \A w \in Workers : act[w].kind = "commit" => stored[act[w].doc] # "none"

\* The version the latest recheck is for, and what it says.  It is the newest anybody has.
Wanted == jobs[latest].digest
Right == Outcome(Wanted, TRUE)
Newest == latest # 0 /\ \A w \in Workers : loaded[w] <= Wanted

\* The latest recheck waits for its time; how long it has waited.
Untouched ==
  /\ jobs[latest].status = "pending" /\ jobs[latest].wait <= Delay
  /\ \A w \in Workers : ~Holds(w, latest)
Waited == Delay - jobs[latest].wait

\* The polls of a worker that came to nothing in this tick.
Missed(w) ==
  (IF "refresh" \in due[w] THEN 0 ELSE 1)
    + (IF "ensure" \in due[w] \/ \E r \in asking[w] : r.prev = latest THEN 0 ELSE 1)

\* A worker without the version has missed two polls in each tick since, by a fault each.
Behind(w) == loaded[w] < Wanted =>
  /\ Untouched
  /\ 2 * Waited <= faults + 2
  /\ Waited >= 1 => 2 * Waited + Missed(w) <= faults + 2

\* A worker about to store what another version says checked or scanned without it.
Insert(w) == act[w].kind = "insert" /\ act[w].outcome # Right
Rewrites(w) == act[w].kind = "rewrite" /\ \E r \in act[w].rows : r.outcome # Right
Older(w) ==
  /\ Insert(w) => Untouched /\ 2 * Waited <= faults + 2
  /\ Rewrites(w) => Untouched /\ 2 * (Waited - act[w].time) <= faults + 2

Late == Newest => \A w \in Workers : Behind(w) /\ Older(w)

\* When the latest recheck is done every row is right; while it is in hand, those that
\* are not are among the rows to be written.
AsRight(d) == stored[d] \in {"none", Right}
Served == Newest =>
  /\ jobs[latest].status = "done" => \A d \in Docs : AsRight(d)
  /\ \A w \in Workers : act[w].kind = "rewrite" /\ act[w].job = latest =>
       \A d \in Docs : AsRight(d) \/ \E r \in act[w].rows : r.doc = d

IInv == TypeOK /\ Published /\ Refs /\ Rows /\ Late /\ Served

-----------------------------------------------------------------------------
LEMMA Initially == Init => IInv
<1> SUFFICES ASSUME Init PROVE IInv
  OBVIOUS
<1> USE RecheckAssumption DEF Init
<1>1. NoJob \in Job
  BY DEF NoJob, Job, Ids
<1>2. TypeOK
  BY <1>1 DEF TypeOK, Hand, Ids, Polls
<1>3. Published
  BY DEF Published, NoJob
<1>4. Refs
  BY DEF Refs, Present, Holds, Idle, NoJob
<1>5. Rows
  BY DEF Rows, Idle
<1>6. Late /\ Served
  BY DEF Late, Served, Newest
<1> QED BY <1>2, <1>3, <1>4, <1>5, <1>6 DEF IInv

\* The shapes of what is in hand.
LEMMA Hands ==
  ASSUME TypeOK, NEW w \in Workers
  PROVE  /\ act[w] \in Hand
         /\ act[w].kind = "idle" => act[w] = Idle
         /\ act[w].kind = "claimed" => act[w] \in ClaimedJob
         /\ act[w].kind = "rewrite" => act[w] \in Rewriting
         /\ act[w].kind = "insert" => act[w] \in Inserting
         /\ act[w].kind = "commit" => act[w] \in Committing
         /\ act[w].kind \in {"claimed", "rewrite"} => act[w].job \in JobIds /\ act[w].time \in 0..RunTime
<1>1. act[w] \in Hand
  BY DEF TypeOK
<1> QED BY <1>1 DEF Hand, Idle, ClaimedJob, Rewriting, Inserting, Committing

LEMMA Numbers ==
  ASSUME TypeOK
  PROVE  /\ source \in Int /\ faults \in Int /\ MaxFaults \in Int /\ Delay \in Nat /\ RunTime \in Nat
         /\ \A w \in Workers : loaded[w] \in Int
         /\ \A j \in JobIds : jobs[j].digest \in Int /\ jobs[j].wait \in Nat
         /\ latest # 0 => latest \in JobIds /\ Wanted \in Int /\ Waited \in Int
<1>1. \A j \in JobIds : jobs[j] \in Job
  BY DEF TypeOK
<1>2. \A j \in JobIds : jobs[j].digest \in Digests /\ jobs[j].wait \in Nat
  BY <1>1 DEF Job
<1>3. latest # 0 => latest \in JobIds
  BY DEF TypeOK, Ids
<1>4. \A j \in JobIds : jobs[j].digest \in Int
  BY <1>2, RecheckAssumption
<1>5. \A w \in Workers : loaded[w] \in Digests
  BY DEF TypeOK
<1>6. source \in Int /\ \A w \in Workers : loaded[w] \in Int
  <2>1. source \in Digests
    BY DEF TypeOK
  <2>2. source \in Int
    BY <2>1, RecheckAssumption
  <2>3. ASSUME NEW w \in Workers PROVE loaded[w] \in Int
    <3>1. loaded[w] \in Digests
      BY <1>5
    <3>2. \A d \in Digests : d \in Int
      BY RecheckAssumption
    <3> QED BY <3>1, <3>2
  <2> QED BY <2>2, <2>3
<1>7. faults \in Int
  BY RecheckAssumption DEF TypeOK
<1>8. MaxFaults \in Int /\ Delay \in Nat /\ RunTime \in Nat
  BY RecheckAssumption
<1>9. latest # 0 => Wanted \in Int /\ Waited \in Int
  BY <1>2, <1>3, <1>4, <1>8 DEF Wanted, Waited
<1> QED BY <1>2, <1>3, <1>4, <1>6, <1>8, <1>9, <1>7

\* Only whoever has or checked another version is held to something; then the latest
\* recheck may not be claimed yet.
LEMMA NotYet ==
  ASSUME Prompt, IInv, Newest, NEW w \in Workers,
         loaded[w] < Wanted \/ Insert(w) \/ Rewrites(w)
  PROVE  Untouched /\ jobs[latest].wait > 0
<1>1. Behind(w) /\ Older(w)
  BY DEF IInv, Late
<1>2. Untouched /\ 2 * (Waited - RunTime) <= faults + 2
  <2>1. CASE Rewrites(w)
    <3>1. act[w].time \in 0..RunTime
      BY <2>1, Hands DEF IInv, Rewrites
    <3>2. Waited \in Int /\ RunTime \in Nat /\ faults \in Int
      BY Numbers DEF IInv, Newest
    <3> QED BY <1>1, <2>1, <3>1, <3>2 DEF Older
  <2>2. CASE loaded[w] < Wanted \/ Insert(w)
    <3>1. Untouched /\ 2 * Waited <= faults + 2
      BY <1>1, <2>2 DEF Behind, Older
    <3>2. Waited \in Int /\ RunTime \in Nat /\ faults \in Int
      BY Numbers DEF IInv, Newest
    <3> QED BY <3>1, <3>2
  <2> QED BY <2>1, <2>2
<1>3. faults <= MaxFaults
  BY RecheckAssumption DEF IInv, TypeOK
<1>4. Waited - RunTime < Delay - RunTime
  BY <1>2, <1>3, Numbers DEF IInv, Newest, Prompt
<1>5. jobs[latest].wait \in Nat /\ Waited = Delay - jobs[latest].wait
  BY Numbers DEF IInv, Newest, Waited
<1> QED BY <1>2, <1>4, <1>5, Numbers DEF IInv

\* Once the latest recheck is claimable or claimed, everybody has its version and
\* stores what it says.
LEMMA Unanimous ==
  ASSUME Prompt, IInv, Newest, ~Untouched \/ jobs[latest].wait = 0, NEW w \in Workers
  PROVE  loaded[w] = Wanted /\ ~Insert(w) /\ ~Rewrites(w)
<1>1. ~(loaded[w] < Wanted) /\ ~Insert(w) /\ ~Rewrites(w)
  BY NotYet
<1>2. loaded[w] <= Wanted /\ loaded[w] \in Int /\ Wanted \in Int
  BY Numbers DEF IInv, Newest
<1> QED BY <1>1, <1>2

\* Exceptions are for all projects.
LEMMA OneOutcome ==
  ASSUME Prompt, NEW d, NEW named \in BOOLEAN
  PROVE  Outcome(d, named) = Outcome(d, TRUE) /\ Outcome(d, named) \in Outcomes
BY DEF Prompt, Outcome, Exempt, Outcomes
-----------------------------------------------------------------------------
(* Types.                                                                  *)

LEMMA StatusTypes ==
  ASSUME TypeOK, NEW j \in JobIds, NEW status \in {"pending", "processing", "done", "failed"}, NEW wait \in Nat,
         Status(j, status, wait)
  PROVE  /\ jobs' \in [JobIds -> Job]
         /\ \A i \in JobIds : i # j => jobs'[i] = jobs[i]
         /\ jobs'[j] = [prev |-> jobs[j].prev, digest |-> jobs[j].digest, status |-> status,
                        wait |-> wait, idle |-> 0]
<1>1. jobs \in [JobIds -> Job] /\ jobs[j] \in Job
  BY DEF TypeOK
<1>2. jobs' = [jobs EXCEPT ![j] = [prev |-> jobs[j].prev, digest |-> jobs[j].digest, status |-> status,
                                   wait |-> wait, idle |-> 0]]
  BY DEF Status
<1>3. [prev |-> jobs[j].prev, digest |-> jobs[j].digest, status |-> status, wait |-> wait, idle |-> 0] \in Job
  BY <1>1 DEF Job
<1> QED BY <1>1, <1>2, <1>3

LEMMA Types == ASSUME IInv, Next PROVE TypeOK'
<1> DEFINE Others(w) == act' \in [Workers -> Hand] /\ \A v \in Workers : v # w => act'[v] = act[v]
<1> USE DEF IInv
<1>1. CASE Tick
  <2>1. \A j \in JobIds : jobs'[j] \in Job
    <3> TAKE j \in JobIds
    <3>1. jobs[j] \in Job
      BY DEF TypeOK
    <3>2. [NoJob EXCEPT !.status = "done"] \in Job
      BY RecheckAssumption DEF NoJob, Job, Ids
    <3>3. Aged(jobs[j]) \in Job
      <4> DEFINE job == jobs[j]
                 wait == IF job.wait > 0 THEN job.wait - 1 ELSE 0
                 idle == IF job.status = "processing" /\ job.idle <= Stale THEN job.idle + 1 ELSE job.idle
                 prev == IF job.prev = latest THEN job.prev ELSE 0
      <4>1. wait \in Nat /\ idle \in Nat /\ prev \in Ids
        BY <3>1 DEF Job, Ids
      <4>2. Aged(job) = [job EXCEPT !.wait = wait, !.idle = idle, !.prev = prev]
        BY DEF Aged
      <4> HIDE DEF wait, idle, prev
      <4> QED BY <3>1, <4>1, <4>2 DEF Job
    <3> QED BY <1>1, <3>2, <3>3 DEF Tick
  <2>2. jobs' \in [JobIds -> Job]
    BY <1>1, <2>1 DEF Tick
  <2>3. \A w \in Workers : act'[w] \in Hand
    <3> TAKE w \in Workers
    <3>1. CASE act[w].kind = "claimed"
      <4>1. act[w] \in ClaimedJob /\ act[w].time < RunTime
        BY <1>1, <3>1, Hands DEF Tick, InTime
      <4>2. act[w].time + 1 \in 0..RunTime
        BY <4>1, RecheckAssumption DEF ClaimedJob
      <4>3. act'[w] = [act[w] EXCEPT !.time = @ + 1]
        BY <1>1, <3>1 DEF Tick
      <4> QED BY <4>1, <4>2, <4>3 DEF ClaimedJob, Hand
    <3>2. CASE act[w].kind = "rewrite"
      <4>1. act[w] \in Rewriting /\ act[w].time < RunTime
        BY <1>1, <3>2, Hands DEF Tick, InTime
      <4>2. act[w].time + 1 \in 0..RunTime
        BY <4>1, RecheckAssumption DEF Rewriting
      <4>3. act'[w] = [act[w] EXCEPT !.time = @ + 1]
        BY <1>1, <3>2 DEF Tick
      <4> QED BY <4>1, <4>2, <4>3 DEF Rewriting, Hand
    <3>3. CASE act[w].kind \notin {"claimed", "rewrite"}
      BY <1>1, <3>3 DEF Tick, TypeOK
    <3> QED BY <3>1, <3>2, <3>3
  <2>4. act' \in [Workers -> Hand] /\ due' \in [Workers -> SUBSET Polls]
    BY <1>1, <2>3 DEF Tick
  <2> QED BY <1>1, <2>2, <2>4 DEF Tick, TypeOK, results, bounds
<1>2. CASE ChangeRules
  BY <1>2 DEF ChangeRules, TypeOK, queue, results
<1>3. ASSUME NEW j \in JobIds, Requeue(j) PROVE TypeOK'
  <2>1. jobs' \in [JobIds -> Job]
    BY <1>3, StatusTypes DEF Requeue
  <2> QED BY <1>3, <2>1 DEF Requeue, TypeOK, results, bounds
<1>4. ASSUME NEW w \in Workers, Refresh(w) PROVE TypeOK'
  BY <1>4 DEF Refresh, TypeOK, Polls, queue, results, bounds
<1>5. ASSUME NEW w \in Workers, Ask(w) PROVE TypeOK'
  BY <1>5 DEF Ask, TypeOK, Polls, Request, queue, results, bounds
<1>6. ASSUME NEW w \in Workers, Enqueue(w) PROVE TypeOK'
  <2>1. asking' \in [Workers -> SUBSET Request]
    BY <1>6 DEF Enqueue, TypeOK
  <2>2. jobs' \in [JobIds -> Job] /\ latest' \in Ids
    BY <1>6, RecheckAssumption DEF Enqueue, TypeOK, Request, Job, Ids, RecheckDelay, queue
  <2> QED BY <1>6, <2>1, <2>2 DEF Enqueue, TypeOK, results, bounds
<1>7. ASSUME NEW w \in Workers, Claim(w) PROVE TypeOK'
  <2> PICK j \in JobIds : /\ Status(j, "processing", 0)
                          /\ act' = [act EXCEPT ![w] = [kind |-> "claimed", job |-> j, time |-> 0]]
    BY <1>7 DEF Claim
  <2>1. jobs' \in [JobIds -> Job]
    BY StatusTypes
  <2>2. [kind |-> "claimed", job |-> j, time |-> 0] \in Hand
    BY RecheckAssumption DEF Hand, ClaimedJob
  <2> QED BY <1>7, <2>1, <2>2 DEF Claim, TypeOK, results, bounds
<1>8. ASSUME NEW w \in Workers, SkipOrDefer(w) \/ Complete(w) PROVE TypeOK'
  <2>1. act[w].job \in JobIds
    BY <1>8, Hands DEF SkipOrDefer, Complete
  <2>2. jobs' \in [JobIds -> Job]
    BY <1>8, <2>1, StatusTypes DEF SkipOrDefer, Complete
  <2>3. act' = [act EXCEPT ![w] = Idle] /\ UNCHANGED <<source, loaded, due, asking, latest, results, bounds>>
    BY <1>8 DEF SkipOrDefer, Complete
  <2> QED BY <2>2, <2>3 DEF TypeOK, Hand, results, bounds
<1>9. ASSUME NEW w \in Workers, Scan(w) PROVE TypeOK'
  <2>1. act[w] \in ClaimedJob
    BY <1>9, Hands DEF Scan
  <2>2. Changed(w) \subseteq Row
    BY DEF Changed, Row, Outcome, Outcomes
  <2>3. [kind |-> "rewrite", job |-> act[w].job, time |-> act[w].time, rows |-> Changed(w)] \in Rewriting
    BY <2>1, <2>2 DEF Rewriting, ClaimedJob
  <2> QED BY <1>9, <2>3 DEF Scan, TypeOK, Hand, queue, results, bounds
<1>10. ASSUME NEW w \in Workers, Rewrite(w) PROVE TypeOK'
  <2>1. act[w] \in Rewriting
    BY <1>10, Hands DEF Rewrite
  <2> PICK r \in act[w].rows : /\ stored' = [stored EXCEPT ![r.doc] = r.outcome]
                               /\ act' = [act EXCEPT ![w].rows = @ \ {r}]
    BY <1>10 DEF Rewrite
  <2>2. r \in Row
    BY <2>1 DEF Rewriting
  <2>3. stored' \in [Docs -> {"none"} \cup Outcomes]
    BY <2>2 DEF TypeOK, Row
  <2>4. [act[w] EXCEPT !.rows = @ \ {r}] \in Hand
    BY <2>1 DEF Rewriting, Hand
  <2>5. act' \in [Workers -> Hand]
    BY <2>4 DEF TypeOK
  <2> QED BY <1>10, <2>3, <2>5 DEF Rewrite, TypeOK, queue, bounds
<1>11. ASSUME NEW w \in Workers, Check(w) PROVE TypeOK'
  <2> PICK d \in Docs : act' = [act EXCEPT ![w] =
                              [kind |-> "insert", doc |-> d, outcome |-> Outcome(loaded[w], TRUE)]]
    BY <1>11 DEF Check
  <2>1. [kind |-> "insert", doc |-> d, outcome |-> Outcome(loaded[w], TRUE)] \in Hand
    BY DEF Hand, Inserting, Outcome, Outcomes
  <2> QED BY <1>11, <2>1 DEF Check, TypeOK, queue, results, bounds
<1>12. ASSUME NEW w \in Workers, InsertCompliance(w) PROVE TypeOK'
  <2>1. act[w] \in Inserting
    BY <1>12, Hands DEF InsertCompliance
  <2>2. [kind |-> "commit", doc |-> act[w].doc] \in Hand
    BY <2>1 DEF Inserting, Committing, Hand
  <2> QED BY <1>12, <2>1, <2>2 DEF InsertCompliance, TypeOK, Inserting, queue, bounds
<1>13. ASSUME NEW w \in Workers, InsertSBOM(w) PROVE TypeOK'
  <2>1. act[w] \in Committing
    BY <1>13, Hands DEF InsertSBOM
  <2> QED BY <1>13, <2>1 DEF InsertSBOM, TypeOK, Committing, Hand, queue, bounds
<1>14. ASSUME NEW w \in Workers, RefreshFails(w) PROVE TypeOK'
  BY <1>14, RecheckAssumption DEF RefreshFails, Faulty, TypeOK, queue, results
<1>15. ASSUME NEW w \in Workers, AskFails(w) PROVE TypeOK'
  BY <1>15, RecheckAssumption DEF AskFails, Faulty, TypeOK, queue, results
<1>16. ASSUME NEW w \in Workers, RecheckFails(w) PROVE TypeOK'
  <2>1. act[w].job \in JobIds
    BY <1>16, Hands DEF RecheckFails
  <2>2. jobs' \in [JobIds -> Job]
    BY <1>16, <2>1, StatusTypes DEF RecheckFails
  <2> QED BY <1>16, <2>2, RecheckAssumption DEF RecheckFails, Faulty, TypeOK, Hand, results
<1>17. ASSUME NEW w \in Workers, Crash(w) PROVE TypeOK'
  BY <1>17, RecheckAssumption DEF Crash, Faulty, TypeOK, Hand, Polls, queue, results
<1> QED BY <1>1, <1>2, <1>3, <1>4, <1>5, <1>6, <1>7, <1>8, <1>9, <1>10, <1>11, <1>12, <1>13, <1>14,
           <1>15, <1>16, <1>17 DEF Next, JobStep
-----------------------------------------------------------------------------
(* What the steps do to the queue.                                         *)

\* A job keeps what it was requested with, only its status and its clocks change.
Same(j) == jobs'[j].prev = jobs[j].prev /\ jobs'[j].digest = jobs[j].digest
           /\ (jobs'[j].status = "absent" <=> jobs[j].status = "absent")

LEMMA StatusKeeps ==
  ASSUME IInv, NEW j \in JobIds, NEW status \in {"pending", "processing", "done", "failed"}, NEW wait \in Nat,
         Status(j, status, wait), jobs[j].status # "absent"
  PROVE  \A i \in JobIds : Same(i)
<1>1. /\ \A i \in JobIds : i # j => jobs'[i] = jobs[i]
      /\ jobs'[j] = [prev |-> jobs[j].prev, digest |-> jobs[j].digest, status |-> status,
                     wait |-> wait, idle |-> 0]
  BY StatusTypes DEF IInv
<1>2. Same(j)
  BY <1>1 DEF Same
<1>3. \A i \in JobIds : i # j => Same(i)
  BY <1>1 DEF Same
<1> QED BY <1>2, <1>3

\* The steps that neither request a job nor are ticks.
LEMMA JobsKept ==
  ASSUME IInv, Next, ~Tick, ~(\E w \in Workers : Enqueue(w))
  PROVE  latest' = latest /\ \A j \in JobIds : Same(j)
<1> USE DEF IInv
<1>1. ASSUME UNCHANGED queue PROVE latest' = latest /\ \A j \in JobIds : Same(j)
  BY <1>1 DEF queue, Same
<1>2. ASSUME NEW j \in JobIds, Requeue(j) PROVE latest' = latest /\ \A i \in JobIds : Same(i)
  BY <1>2, StatusKeeps DEF Requeue
<1>3. ASSUME NEW w \in Workers, Claim(w) PROVE latest' = latest /\ \A i \in JobIds : Same(i)
  BY <1>3, StatusKeeps DEF Claim
<1>4. ASSUME NEW w \in Workers, SkipOrDefer(w) \/ Complete(w) \/ RecheckFails(w)
      PROVE  latest' = latest /\ \A i \in JobIds : Same(i)
  <2>1. act[w].job \in JobIds /\ jobs[act[w].job].status # "absent"
    <3>1. act[w].kind \in {"claimed", "rewrite"}
      BY <1>4 DEF SkipOrDefer, Complete, RecheckFails
    <3>2. act[w].job \in JobIds
      BY <3>1, Hands
    <3> QED BY <3>1, <3>2 DEF Refs, Present, Holds, JobIds
  <2> QED BY <1>4, <2>1, StatusKeeps DEF SkipOrDefer, Complete, RecheckFails
<1>5. ASSUME NEW w \in Workers,
             Refresh(w) \/ Ask(w) \/ Scan(w) \/ Rewrite(w) \/ Check(w) \/ InsertCompliance(w) \/ InsertSBOM(w)
               \/ RefreshFails(w) \/ AskFails(w) \/ Crash(w)
      PROVE  UNCHANGED queue
  BY <1>5 DEF Refresh, Ask, Scan, Rewrite, Check, InsertCompliance, InsertSBOM, RefreshFails, AskFails, Crash
<1>6. ChangeRules => UNCHANGED queue
  BY DEF ChangeRules
<1> QED BY <1>1, <1>2, <1>3, <1>4, <1>5, <1>6 DEF Next, JobStep

\* A tick forgets all but the newest job and those that are to be run.
LEMMA Ticked ==
  ASSUME IInv, Tick, NEW j \in JobIds
  PROVE  /\ jobs'[j].prev \in {0, jobs[j].prev} /\ jobs'[j].digest \in {First, jobs[j].digest}
         /\ jobs'[j].status = "absent" <=> jobs[j].status = "absent"
         /\ j = latest => /\ jobs'[j].digest = jobs[j].digest /\ jobs'[j].status = jobs[j].status
                          /\ jobs'[j].wait = IF jobs[j].wait > 0 THEN jobs[j].wait - 1 ELSE 0
<1>1. jobs[j] \in Job
  BY DEF IInv, TypeOK
<1>2. CASE Over(j)
  BY <1>2 DEF Tick, Over, NoJob
<1>3. CASE ~Over(j)
  <2>1. jobs'[j] = Aged(jobs[j])
    BY <1>3 DEF Tick
  <2>2. Aged(jobs[j]).prev \in {0, jobs[j].prev} /\ Aged(jobs[j]).digest = jobs[j].digest
    BY <1>1 DEF Aged, Job
  <2>3. /\ Aged(jobs[j]).status = jobs[j].status
        /\ Aged(jobs[j]).wait = IF jobs[j].wait > 0 THEN jobs[j].wait - 1 ELSE 0
    BY <1>1 DEF Aged, Job
  <2> QED BY <2>1, <2>2, <2>3
<1> QED BY <1>2, <1>3 DEF Over

\* A request is dropped if there is a job for it, else it takes a place of the queue;
\* that may become the newest job, and must if the newest is the one it was asked after.
Requested(w, r, j) ==
  /\ jobs[j].status = "absent"
  /\ jobs'[j] = [prev |-> r.prev, digest |-> r.digest, status |-> "pending", wait |-> Delay, idle |-> 0]
  /\ \A i \in JobIds : i # j => jobs'[i] = jobs[i]
  /\ latest' = j \/ (latest' = latest /\ latest # r.prev)

AlreadyAsked(r) ==
  \E j \in JobIds : jobs[j].status # "absent" /\ jobs[j].prev = r.prev /\ jobs[j].digest = r.digest

LEMMA Enqueued ==
  ASSUME IInv, NEW w \in Workers, Enqueue(w)
  PROVE  \E r \in asking[w] :
           /\ asking' = [asking EXCEPT ![w] = @ \ {r}]
           /\ \/ /\ UNCHANGED queue
                 /\ AlreadyAsked(r)
              \/ \E j \in JobIds : Requested(w, r, j)
<1>1. PICK r \in asking[w] :
        /\ asking' = [asking EXCEPT ![w] = @ \ {r}]
        /\ IF AlreadyAsked(r)
             THEN UNCHANGED queue
             ELSE \E j \in JobIds :
                    /\ jobs[j].status = "absent"
                    /\ jobs' = [jobs EXCEPT ![j] = [prev |-> r.prev, digest |-> r.digest, status |-> "pending",
                                                    wait |-> RecheckDelay, idle |-> 0]]
                    /\ latest' \in IF latest = r.prev THEN {j} ELSE {j, latest}
  BY DEF Enqueue, AlreadyAsked
<1>2. ASSUME ~AlreadyAsked(r)
      PROVE  \E j \in JobIds : Requested(w, r, j)
  <2>1. PICK j \in JobIds :
          /\ jobs[j].status = "absent"
          /\ jobs' = [jobs EXCEPT ![j] = [prev |-> r.prev, digest |-> r.digest, status |-> "pending",
                                          wait |-> RecheckDelay, idle |-> 0]]
          /\ latest' \in IF latest = r.prev THEN {j} ELSE {j, latest}
    BY <1>1, <1>2
  <2>2. jobs \in [JobIds -> Job]
    BY DEF IInv, TypeOK
  <2>3. Requested(w, r, j)
    BY <2>1, <2>2 DEF Requested, RecheckDelay
  <2> QED BY <2>3
<1> QED BY <1>1, <1>2
-----------------------------------------------------------------------------
(* References, versions and rows.                                          *)

\* What a worker comes to ask for, and what it comes to hold.
LEMMA Asked ==
  ASSUME IInv, Next, NEW w \in Workers, NEW r \in asking'[w]
  PROVE  r \in asking[w] \/ (r = [prev |-> latest, digest |-> loaded[w]] /\ latest' = latest)
<1> DEFINE New == r = [prev |-> latest, digest |-> loaded[w]] /\ latest' = latest
<1>1. ASSUME NEW v \in Workers, Enqueue(v) PROVE r \in asking[w]
  <2>1. PICK q \in asking[v] : asking' = [asking EXCEPT ![v] = @ \ {q}]
    BY <1>1, Enqueued
  <2> QED BY <2>1 DEF IInv, TypeOK
<1>2. ASSUME NEW v \in Workers, Ask(v) PROVE r \in asking[w] \/ New
  BY <1>2 DEF IInv, TypeOK, Ask, queue
<1>3. ASSUME NEW v \in Workers, AskFails(v) \/ Crash(v) PROVE r \in asking[w]
  BY <1>3 DEF IInv, TypeOK, AskFails, Crash
<1>4. ASSUME NEW v \in Workers, Refresh(v) \/ JobStep(v) \/ Check(v) \/ RefreshFails(v) \/ RecheckFails(v)
      PROVE  r \in asking[w]
  BY <1>4 DEF Refresh, JobStep, Claim, SkipOrDefer, Scan, Rewrite, Complete, InsertCompliance, InsertSBOM,
              Check, RefreshFails, RecheckFails
<1>5. ASSUME Tick \/ ChangeRules \/ \E j \in JobIds : Requeue(j) PROVE r \in asking[w]
  BY <1>5 DEF Tick, ChangeRules, Requeue
<1> HIDE DEF New
<1>6. r \in asking[w] \/ New
  BY <1>1, <1>2, <1>3, <1>4, <1>5 DEF Next
<1> QED BY <1>6 DEF New

LEMMA Held ==
  ASSUME IInv, Next, NEW w \in Workers, NEW j \in JobIds, Holds(w, j)'
  PROVE  Holds(w, j) \/ (jobs[j].status = "pending" /\ jobs[j].wait = 0 /\ act'[w].kind = "claimed")
<1> USE DEF IInv, TypeOK, Holds
<1> DEFINE New == jobs[j].status = "pending" /\ jobs[j].wait = 0 /\ act'[w].kind = "claimed"
<1>1. ASSUME Tick PROVE Holds(w, j)
  <2>1. CASE act[w].kind = "claimed"
    <3>1. act[w] \in ClaimedJob /\ act'[w] = [act[w] EXCEPT !.time = @ + 1]
      BY <1>1, <2>1, Hands DEF Tick
    <3>2. act'[w].job = act[w].job /\ act'[w].kind = act[w].kind
      BY <3>1 DEF ClaimedJob
    <3> QED BY <2>1, <3>2
  <2>2. CASE act[w].kind = "rewrite"
    <3>1. act[w] \in Rewriting /\ act'[w] = [act[w] EXCEPT !.time = @ + 1]
      BY <1>1, <2>2, Hands DEF Tick
    <3>2. act'[w].job = act[w].job /\ act'[w].kind = act[w].kind
      BY <3>1 DEF Rewriting
    <3> QED BY <2>2, <3>2
  <2>3. CASE act[w].kind \notin {"claimed", "rewrite"}
    BY <1>1, <2>3 DEF Tick
  <2> QED BY <2>1, <2>2, <2>3
<1>2. ASSUME NEW v \in Workers, Claim(v) PROVE Holds(w, j) \/ New
  <2>1. PICK i \in JobIds : /\ jobs[i].status = "pending" /\ jobs[i].wait = 0
                            /\ act' = [act EXCEPT ![v] = [kind |-> "claimed", job |-> i, time |-> 0]]
    BY <1>2 DEF Claim
  <2>2. CASE w = v
    <3>1. act'[w] = [kind |-> "claimed", job |-> i, time |-> 0]
      BY <2>1, <2>2
    <3> QED BY <2>1, <3>1
  <2>3. CASE w # v
    BY <2>1, <2>3
  <2> QED BY <2>2, <2>3
<1>3. ASSUME NEW v \in Workers, SkipOrDefer(v) \/ Complete(v) \/ RecheckFails(v) \/ InsertSBOM(v) \/ Crash(v)
      PROVE  Holds(w, j)
  BY <1>3 DEF SkipOrDefer, Complete, RecheckFails, InsertSBOM, Crash, Idle
<1>4. ASSUME NEW v \in Workers, Scan(v) PROVE Holds(w, j)
  BY <1>4 DEF Scan
<1>5. ASSUME NEW v \in Workers, Rewrite(v) PROVE Holds(w, j)
  <2>1. act[v] \in Rewriting
    BY <1>5, Hands DEF Rewrite
  <2>2. act'[v].kind = act[v].kind /\ act'[v].job = act[v].job
    BY <1>5, <2>1 DEF Rewrite, Rewriting
  <2>3. w # v => act'[w] = act[w]
    BY <1>5 DEF Rewrite
  <2> QED BY <2>2, <2>3
<1>6. ASSUME NEW v \in Workers, Check(v) \/ InsertCompliance(v) PROVE Holds(w, j)
  <2>1. Check(v) => \E d \in Docs : act'[v] = [kind |-> "insert", doc |-> d, outcome |-> Outcome(loaded[v], TRUE)]
    BY DEF Check
  <2>2. InsertCompliance(v) => act'[v] = [kind |-> "commit", doc |-> act[v].doc]
    BY DEF InsertCompliance
  <2>3. act'[v].kind \in {"insert", "commit"}
    <3>1. ASSUME Check(v) PROVE act'[v].kind = "insert"
      <4> PICK d \in Docs : act'[v] = [kind |-> "insert", doc |-> d, outcome |-> Outcome(loaded[v], TRUE)]
        BY <2>1, <3>1
      <4> HIDE DEF Outcome
      <4> QED OBVIOUS
    <3>2. InsertCompliance(v) => act'[v].kind = "commit"
      BY <2>2
    <3> QED BY <1>6, <3>1, <3>2
  <2>4. w # v => act'[w] = act[w]
    BY <1>6 DEF Check, InsertCompliance
  <2> QED BY <2>3, <2>4
<1>7. ASSUME NEW v \in Workers, Refresh(v) \/ Ask(v) \/ Enqueue(v) \/ RefreshFails(v) \/ AskFails(v)
      PROVE  Holds(w, j)
  BY <1>7 DEF Refresh, Ask, Enqueue, RefreshFails, AskFails
<1>8. ASSUME ChangeRules \/ \E i \in JobIds : Requeue(i) PROVE Holds(w, j)
  BY <1>8 DEF ChangeRules, Requeue
<1> HIDE DEF New, Holds, IInv, TypeOK
<1>9. Holds(w, j) \/ New
  BY <1>1, <1>2, <1>3, <1>4, <1>5, <1>6, <1>7, <1>8 DEF Next, JobStep
<1> QED BY <1>9 DEF New

LEMMA PresentStays ==
  ASSUME IInv, Next, NEW j \in JobIds, jobs[j].status # "absent"
  PROVE  jobs'[j].status # "absent"
<1>1. CASE Tick
  BY <1>1, Ticked
<1>2. ASSUME NEW w \in Workers, Enqueue(w) PROVE jobs'[j].status # "absent"
  BY <1>2, Enqueued DEF Requested, queue
<1>3. CASE ~Tick /\ ~(\E w \in Workers : Enqueue(w))
  BY <1>3, JobsKept DEF Same
<1> QED BY <1>1, <1>2, <1>3

\* A worker loads what is published.
LEMMA Loads == ASSUME IInv, Next PROVE \A w \in Workers : loaded'[w] \in {loaded[w], source}
<1>1. ASSUME NEW v \in Workers, Refresh(v) \/ Crash(v)
      PROVE  \A w \in Workers : loaded'[w] \in {loaded[w], source}
  BY <1>1 DEF Refresh, Crash, IInv, TypeOK
<1>2. ASSUME NEW v \in Workers, Ask(v) \/ Enqueue(v) \/ JobStep(v) \/ Check(v)
                                    \/ RefreshFails(v) \/ AskFails(v) \/ RecheckFails(v)
        PROVE loaded' = loaded
  BY <1>2 DEF Ask, Enqueue, JobStep, Claim, SkipOrDefer, Scan, Rewrite, Complete, InsertCompliance, InsertSBOM,
                Check, RefreshFails, AskFails, RecheckFails
<1>3. ASSUME Tick \/ ChangeRules \/ \E j \in JobIds : Requeue(j) PROVE loaded' = loaded
  BY <1>3 DEF Tick, ChangeRules, Requeue
<1> QED BY <1>1, <1>2, <1>3 DEF Next

\* No version comes before its publication.
LEMMA Publishes == ASSUME IInv, Next, Onward PROVE Published'
<1> USE DEF IInv, Published
<1>1. source <= source' /\ source \in Int /\ source' \in Int /\ First \in Int
  <2>1. source \in Digests /\ source' \in Digests /\ First \in Digests
    BY Types, RecheckAssumption DEF TypeOK
  <2>2. \A d \in Digests : d \in Int
    BY RecheckAssumption
  <2>3. source \in Int /\ source' \in Int /\ First \in Int
    BY <2>1, <2>2
  <2> QED BY <2>3 DEF Onward
<1>2. \A w \in Workers : loaded[w] \in Int
  BY Numbers
<1>3. \A w \in Workers : loaded'[w] \in {loaded[w], source}
  BY Loads
<1>4. \A w \in Workers : loaded'[w] <= source'
  BY <1>1, <1>2, <1>3
<1>5. ASSUME NEW w \in Workers, NEW r \in asking'[w] PROVE r.digest <= source'
  <2>1. r \in asking[w] \/ r.digest = loaded[w]
    BY Asked
  <2>2. r \in asking[w] => r.digest \in Digests
    BY DEF TypeOK, Request
  <2>3. \A d \in Digests : d \in Int
    BY RecheckAssumption
  <2> QED BY <1>1, <1>2, <2>1, <2>2, <2>3
<1>6. ASSUME NEW j \in JobIds, jobs'[j].status # "absent" PROVE jobs'[j].digest <= source'
  <2>1. ASSUME Tick PROVE jobs[j].status # "absent" /\ jobs'[j].digest \in {First, jobs[j].digest}
    BY <1>6, <2>1, Ticked
  <2>2. ASSUME NEW w \in Workers, Enqueue(w)
        PROVE  (jobs[j].status # "absent" /\ jobs'[j] = jobs[j]) \/ \E r \in asking[w] : jobs'[j].digest = r.digest
    <3>1. CASE UNCHANGED queue
      BY <1>6, <3>1 DEF queue
    <3>2. ASSUME NEW r \in asking[w], NEW i \in JobIds, Requested(w, r, i)
          PROVE  (jobs[j].status # "absent" /\ jobs'[j] = jobs[j]) \/ jobs'[j].digest = r.digest
      BY <1>6, <3>2 DEF Requested
    <3> QED BY <2>2, <3>1, <3>2, Enqueued
  <2>3. ASSUME ~Tick, ~(\E w \in Workers : Enqueue(w))
        PROVE  jobs[j].status # "absent" /\ jobs'[j].digest = jobs[j].digest
    BY <1>6, <2>3, JobsKept DEF Same
  <2>4. jobs'[j].digest <= source
    BY <2>1, <2>2, <2>3
  <2>5. jobs'[j].digest \in Digests
    BY Types DEF TypeOK, Job
  <2>6. \A d \in Digests : d \in Int
    BY RecheckAssumption
  <2> QED BY <1>1, <2>4, <2>5, <2>6
<1> QED BY <1>1, <1>4, <1>5, <1>6
\* References stay good, and the newest job stays the last one that was asked for.
LEMMA Refers == ASSUME IInv, Next PROVE Refs'
<1> DEFINE PresentNext(j) == j # 0 => jobs'[j].status # "absent"
           Last(j) == j # 0 => \A i \in JobIds : jobs'[i].prev # j
<1>1. \A j \in JobIds : j # 0
  BY DEF JobIds
<1>2. \A j \in Ids : Present(j) => PresentNext(j)
  BY PresentStays DEF Present, Ids
<1>3. /\ latest \in Ids /\ Present(latest) /\ \A j \in JobIds : Present(jobs[j].prev)
      /\ latest # 0 => \A j \in JobIds : jobs[j].prev # latest
  BY DEF IInv, Refs, TypeOK
<1>4. \A j \in JobIds : jobs[j].prev \in Ids
  <2>1. \A j \in JobIds : jobs[j] \in Job
    BY DEF IInv, TypeOK
  <2> QED BY <2>1 DEF Job
<1>5. ASSUME latest' = latest, \A j \in JobIds : jobs'[j].prev \in {0, jobs[j].prev}
      PROVE  PresentNext(latest') /\ Last(latest') /\ \A j \in JobIds : PresentNext(jobs'[j].prev)
  BY <1>2, <1>3, <1>4, <1>5
<1>6. ASSUME NEW w \in Workers, NEW r \in asking[w], NEW j \in JobIds, Requested(w, r, j)
      PROVE  PresentNext(latest') /\ Last(latest') /\ \A i \in JobIds : PresentNext(jobs'[i].prev)
  <2>1. r.prev \in Ids /\ Present(r.prev)
    <3>1. r \in Request
      BY DEF IInv, TypeOK
    <3> QED BY <3>1 DEF IInv, Refs, Request
  <2>2. jobs'[j].status = "pending" /\ jobs'[j].prev = r.prev /\ jobs[j].status = "absent"
        /\ (\A i \in JobIds : i # j => jobs'[i] = jobs[i]) /\ (latest' = j \/ (latest' = latest /\ latest # r.prev))
    BY <1>6 DEF Requested
  <2>3. \A i \in JobIds : jobs[i].prev # j /\ r.prev # j
    BY <1>1, <1>3, <2>1, <2>2 DEF Present
  <2>4. \A i \in JobIds : PresentNext(jobs'[i].prev)
    BY <1>2, <1>3, <1>4, <2>1, <2>2
  <2>5. PresentNext(latest')
    BY <1>2, <1>3, <2>2
  <2>6. Last(latest')
    <3>1. CASE latest' = j
      BY <2>2, <2>3, <3>1
    <3>2. CASE latest' = latest /\ latest # r.prev
      BY <1>3, <2>2, <3>2
    <3> QED BY <2>2, <3>1, <3>2
  <2> QED BY <2>4, <2>5, <2>6
<1>7. PresentNext(latest') /\ Last(latest') /\ \A j \in JobIds : PresentNext(jobs'[j].prev)
  <2>1. Tick => latest' = latest /\ \A j \in JobIds : jobs'[j].prev \in {0, jobs[j].prev}
    BY Ticked DEF Tick
  <2>2. UNCHANGED queue => latest' = latest /\ \A j \in JobIds : jobs'[j].prev \in {0, jobs[j].prev}
    BY DEF queue
  <2>3. ~Tick /\ ~(\E w \in Workers : Enqueue(w)) =>
          latest' = latest /\ \A j \in JobIds : jobs'[j].prev \in {0, jobs[j].prev}
    BY JobsKept DEF Same
  <2> HIDE DEF PresentNext, Last
  <2>4. ASSUME NEW w \in Workers, Enqueue(w)
        PROVE  PresentNext(latest') /\ Last(latest') /\ \A j \in JobIds : PresentNext(jobs'[j].prev)
    <3>1. PICK r \in asking[w] : UNCHANGED queue \/ \E j \in JobIds : Requested(w, r, j)
      BY <2>4, Enqueued
    <3>2. CASE UNCHANGED queue
      BY <1>5, <2>2, <3>2
    <3>3. ASSUME NEW j \in JobIds, Requested(w, r, j)
          PROVE  PresentNext(latest') /\ Last(latest') /\ \A i \in JobIds : PresentNext(jobs'[i].prev)
      BY <1>6, <3>3
    <3> QED BY <3>1, <3>2, <3>3
  <2> QED BY <1>5, <2>1, <2>3, <2>4
<1>8. ASSUME NEW w \in Workers, NEW j \in JobIds, Holds(w, j)' PROVE PresentNext(j)
  <2>1. Holds(w, j) \/ jobs[j].status = "pending"
    BY <1>8, Held
  <2>2. Present(j)
    BY <2>1 DEF IInv, Refs, Present
  <2> QED BY <1>2, <2>2 DEF Ids
<1>9. ASSUME NEW w \in Workers, NEW r \in asking'[w] PROVE PresentNext(r.prev)
  <2>1. r \in asking[w] \/ r.prev = latest
    BY Asked
  <2>2. r \in asking[w] => r.prev \in Ids /\ Present(r.prev)
    BY DEF IInv, Refs, TypeOK, Request
  <2> QED BY <1>2, <1>3, <2>1, <2>2
<1> QED BY <1>7, <1>8, <1>9 DEF Refs, Present
\* No row disappears, and a document is committed after its row.
LEMMA RowsStay == ASSUME IInv, Next PROVE Rows'
<1> USE DEF IInv
<1>1. ASSUME UNCHANGED results, \A w \in Workers : act'[w].kind = "commit" => act'[w] = act[w]
      PROVE  Rows'
  BY <1>1 DEF Rows, results
<1>2. CASE Tick
  <2>1. ASSUME NEW w \in Workers, act'[w].kind = "commit" PROVE act'[w] = act[w]
    <3>1. CASE act[w].kind = "claimed"
      <4>1. act[w] \in ClaimedJob /\ act'[w] = [act[w] EXCEPT !.time = @ + 1]
        BY <1>2, <3>1, Hands DEF Tick
      <4>2. act'[w].kind = act[w].kind
        BY <4>1 DEF ClaimedJob
      <4> QED BY <2>1, <3>1, <4>2
    <3>2. CASE act[w].kind = "rewrite"
      <4>1. act[w] \in Rewriting /\ act'[w] = [act[w] EXCEPT !.time = @ + 1]
        BY <1>2, <3>2, Hands DEF Tick
      <4>2. act'[w].kind = act[w].kind
        BY <4>1 DEF Rewriting
      <4> QED BY <2>1, <3>2, <4>2
    <3>3. CASE act[w].kind \notin {"claimed", "rewrite"}
      BY <1>2, <3>3 DEF Tick
    <3> QED BY <3>1, <3>2, <3>3
  <2> QED BY <1>1, <1>2, <2>1 DEF Tick
<1>3. ASSUME NEW w \in Workers, \A v \in Workers : v # w => act'[v] = act[v], act'[w].kind # "commit", UNCHANGED results
      PROVE  Rows'
  BY <1>1, <1>3
<1>4. ASSUME NEW w \in Workers, SkipOrDefer(w) \/ Complete(w) \/ RecheckFails(w) \/ Crash(w) PROVE Rows'
  <2>1. act' = [act EXCEPT ![w] = Idle] /\ UNCHANGED results
    BY <1>4 DEF SkipOrDefer, Complete, RecheckFails, Crash
  <2>2. act'[w].kind # "commit" /\ \A v \in Workers : v # w => act'[v] = act[v]
    BY <2>1 DEF TypeOK, Idle
  <2> QED BY <1>3, <2>1, <2>2
<1>5. ASSUME NEW w \in Workers, Claim(w) PROVE Rows'
  <2> PICK j \in JobIds : act' = [act EXCEPT ![w] = [kind |-> "claimed", job |-> j, time |-> 0]]
    BY <1>5 DEF Claim
  <2>1. act'[w].kind # "commit" /\ \A v \in Workers : v # w => act'[v] = act[v]
    BY DEF TypeOK
  <2> QED BY <1>3, <1>5, <2>1 DEF Claim
<1>6. ASSUME NEW w \in Workers, Scan(w) PROVE Rows'
  <2>1. act'[w].kind # "commit" /\ \A v \in Workers : v # w => act'[v] = act[v]
    BY <1>6 DEF TypeOK, Scan
  <2> QED BY <1>3, <1>6, <2>1 DEF Scan
<1>7. ASSUME NEW w \in Workers, Check(w) PROVE Rows'
  <2> PICK d \in Docs : act' = [act EXCEPT ![w] =
                              [kind |-> "insert", doc |-> d, outcome |-> Outcome(loaded[w], TRUE)]]
    BY <1>7 DEF Check
  <2>1. act'[w].kind # "commit" /\ \A v \in Workers : v # w => act'[v] = act[v]
    BY DEF TypeOK
  <2> QED BY <1>3, <1>7, <2>1 DEF Check
<1>8. ASSUME NEW w \in Workers, Rewrite(w) PROVE Rows'
  <2>1. act[w] \in Rewriting
    BY <1>8, Hands DEF Rewrite
  <2> PICK r \in act[w].rows : /\ stored' = [stored EXCEPT ![r.doc] = r.outcome]
                               /\ act' = [act EXCEPT ![w].rows = @ \ {r}]
    BY <1>8 DEF Rewrite
  <2>2. r \in Row
    BY <2>1 DEF Rewriting
  <2>3. \A d \in Docs : stored[d] # "none" => stored'[d] # "none"
    BY <2>2 DEF TypeOK, Row, Outcomes
  <2>4. \A v \in Workers : act'[v].kind = "commit" => act'[v] = act[v]
    <3>1. act'[w].kind = act[w].kind
      BY <2>1 DEF Rewriting, TypeOK
    <3> QED BY <1>8, <3>1 DEF TypeOK, Rewrite
  <2>5. \A v \in Workers : act[v].kind = "commit" => act[v].doc \in Docs
    BY Hands DEF Committing
  <2> QED BY <1>8, <2>3, <2>4, <2>5 DEF Rows, Rewrite, TypeOK
<1>9. ASSUME NEW w \in Workers, InsertCompliance(w) PROVE Rows'
  <2>1. act[w] \in Inserting
    BY <1>9, Hands DEF InsertCompliance
  <2>2. stored' = [stored EXCEPT ![act[w].doc] = act[w].outcome]
        /\ act' = [act EXCEPT ![w] = [kind |-> "commit", doc |-> act[w].doc]] /\ committed' = committed
    BY <1>9 DEF InsertCompliance
  <2>3. act[w].doc \in Docs /\ act[w].outcome # "none"
    BY <2>1 DEF Inserting, Outcomes
  <2>4. \A d \in Docs : stored[d] # "none" => stored'[d] # "none"
    BY <2>2, <2>3 DEF TypeOK
  <2>5. act'[w].kind = "commit" => stored'[act'[w].doc] # "none"
    BY <2>2, <2>3 DEF TypeOK
  <2>6. \A v \in Workers : act[v].kind = "commit" => act[v].doc \in Docs
    BY Hands DEF Committing
  <2>7. \A v \in Workers : v # w => act'[v] = act[v]
    BY <2>2 DEF TypeOK
  <2> QED BY <2>2, <2>4, <2>5, <2>6, <2>7 DEF Rows, TypeOK
<1>10. ASSUME NEW w \in Workers, InsertSBOM(w) PROVE Rows'
  BY <1>10 DEF InsertSBOM, TypeOK, Rows, Idle
<1>11. ASSUME NEW w \in Workers, Refresh(w) \/ Ask(w) \/ Enqueue(w) \/ RefreshFails(w) \/ AskFails(w)
       PROVE  Rows'
  BY <1>1, <1>11 DEF Refresh, Ask, Enqueue, RefreshFails, AskFails
<1>12. ASSUME ChangeRules \/ \E j \in JobIds : Requeue(j) PROVE Rows'
  BY <1>1, <1>12 DEF ChangeRules, Requeue
<1> QED BY <1>2, <1>4, <1>5, <1>6, <1>7, <1>8, <1>9, <1>10, <1>11, <1>12 DEF Next, JobStep
-----------------------------------------------------------------------------
(* The rules: who is behind, and who may still write what older rules say. *)

\* The latest recheck is not to be claimed yet.
Waits == Untouched /\ jobs[latest].wait > 0

\* The newest recheck is still the newest, for the same version.
Still == latest' = latest /\ Wanted' = Wanted

\* If it is for the newest version anybody has, it was.
LEMMA WasNewest ==
  ASSUME IInv, Next, Onward, Newest', Still
  PROVE  Newest /\ Right' = Right /\ Wanted \in Int /\ Wanted <= source
<1>1. latest \in JobIds
  BY DEF Newest, Still, IInv, TypeOK, Ids
<1>2. Wanted \in Int /\ Wanted <= source /\ source \in Int
  <2>1. jobs[latest].status # "absent"
    BY <1>1 DEF IInv, Refs, Present, Newest, Still
  <2>2. Wanted <= source
    BY <1>1, <2>1 DEF IInv, Published, Wanted
  <2> QED BY <1>1, <2>2, Numbers DEF IInv, Wanted
<1>3. ASSUME NEW w \in Workers PROVE loaded[w] <= Wanted
  <2>1. loaded'[w] <= Wanted /\ loaded'[w] \in {loaded[w], source}
    BY Loads DEF Newest, Still
  <2>2. loaded[w] <= source /\ loaded[w] \in Int
    BY Numbers DEF IInv, Published
  <2> QED BY <1>2, <2>1, <2>2
<1>4. Newest
  BY <1>3 DEF Newest, Still
<1>5. Right' = Right
  BY DEF Right, Still
<1> QED BY <1>2, <1>4, <1>5

\* While it waits, only ticks change it.
LEMMA StillWaits ==
  ASSUME IInv, Next, ~Tick, latest # 0, latest' = latest, Waits
  PROVE  jobs'[latest] = jobs[latest] /\ Waits'
<1>1. latest \in JobIds /\ jobs[latest].wait \in Nat /\ jobs[latest].wait > 0 /\ jobs[latest].status = "pending"
  BY Numbers DEF IInv, TypeOK, Ids, Waits, Untouched
<1>2. jobs'[latest] = jobs[latest]
  <2>1. ASSUME NEW j \in JobIds, j # latest, NEW status \in {"pending", "processing", "done", "failed"}, NEW wait \in Nat,
               Status(j, status, wait)
        PROVE  jobs'[latest] = jobs[latest]
    BY <1>1, <2>1, StatusTypes DEF IInv
  <2>2. ASSUME NEW j \in JobIds, Requeue(j) PROVE jobs'[latest] = jobs[latest]
    <3>1. j # latest
      BY <1>1, <2>2 DEF Requeue
    <3> QED BY <2>1, <2>2, <3>1 DEF Requeue
  <2>3. ASSUME NEW w \in Workers, Claim(w) PROVE jobs'[latest] = jobs[latest]
    <3> PICK j \in JobIds : jobs[j].wait = 0 /\ Status(j, "processing", 0)
      BY <2>3 DEF Claim
    <3>1. j # latest
      BY <1>1
    <3> QED BY <2>1, <3>1
  <2>4. ASSUME NEW w \in Workers, SkipOrDefer(w) \/ Complete(w) \/ RecheckFails(w)
        PROVE  jobs'[latest] = jobs[latest]
    <3>1. act[w].kind \in {"claimed", "rewrite"}
      BY <2>4 DEF SkipOrDefer, Complete, RecheckFails
    <3>2. act[w].job \in JobIds /\ act[w].job # latest
      BY <3>1, Hands DEF IInv, Waits, Untouched, Holds
    <3> QED BY <2>1, <2>4, <3>2 DEF SkipOrDefer, Complete, RecheckFails
  <2>5. ASSUME NEW w \in Workers, Enqueue(w) PROVE jobs'[latest] = jobs[latest]
    <3>1. CASE UNCHANGED queue
      BY <3>1 DEF queue
    <3>2. ASSUME NEW r \in asking[w], NEW j \in JobIds, Requested(w, r, j)
          PROVE  jobs'[latest] = jobs[latest]
      BY <1>1, <3>2 DEF Requested
    <3> QED BY <2>5, <3>1, <3>2, Enqueued
  <2>6. ASSUME NEW w \in Workers,
               Refresh(w) \/ Ask(w) \/ Scan(w) \/ Rewrite(w) \/ Check(w) \/ InsertCompliance(w) \/ InsertSBOM(w)
                 \/ RefreshFails(w) \/ AskFails(w) \/ Crash(w)
        PROVE  jobs'[latest] = jobs[latest]
    BY <2>6 DEF Refresh, Ask, Scan, Rewrite, Check, InsertCompliance, InsertSBOM, RefreshFails, AskFails, Crash, queue
  <2>7. ChangeRules => jobs'[latest] = jobs[latest]
    BY DEF ChangeRules, queue
  <2> QED BY <2>2, <2>3, <2>4, <2>5, <2>6, <2>7 DEF Next, JobStep
<1>3. ASSUME NEW w \in Workers PROVE ~Holds(w, latest)'
  <2>1. \A j \in JobIds : ~Holds(w, j) /\ ~(jobs[j].status = "pending" /\ jobs[j].wait = 0) => ~Holds(w, j)'
    BY Held
  <2>2. ~(act'[w].kind \in {"claimed", "rewrite"} /\ act'[w].job = latest)
    BY <1>1, <2>1 DEF Waits, Untouched, Holds
  <2> QED BY <2>2 DEF Holds
<1> QED BY <1>1, <1>2, <1>3 DEF Waits, Untouched
\* A poll comes to nothing by a fault only, or brings the newest version.
LEMMA PollsCount ==
  ASSUME IInv, Next, ~Tick, Newest, Newest', Still, Wanted \in Int, Wanted <= source,
         NEW w \in Workers, loaded'[w] < Wanted
  PROVE  loaded[w] < Wanted /\ faults' \in Int /\ faults <= faults' /\ Missed(w)' - faults' <= Missed(w) - faults
<1> USE DEF IInv
<1> DEFINE Goal == loaded[w] < Wanted /\ faults' \in Int /\ faults <= faults' /\ Missed(w)' - faults' <= Missed(w) - faults
<1>1. faults \in Int /\ source \in Int /\ loaded[w] \in Int /\ Missed(w) \in Int
  BY Numbers DEF Missed
<1>2. ASSUME loaded'[w] = loaded[w], due'[w] = due[w], \A r \in asking[w] : r.prev = latest => r \in asking'[w],
             faults' \in {faults, faults + 1}
      PROVE  Goal
  <2>1. Missed(w)' <= Missed(w) /\ Missed(w)' \in Int
    BY <1>2 DEF Missed, Still
  <2> QED BY <1>1, <1>2, <2>1
<1>3. ASSUME NEW v \in Workers, Refresh(v) PROVE Goal
  <2>1. v # w
    BY <1>1, <1>3 DEF Refresh, TypeOK
  <2> QED BY <1>2, <1>3, <2>1 DEF Refresh, bounds, TypeOK
<1>4. ASSUME NEW v \in Workers, Crash(v) PROVE Goal
  <2>1. v # w
    BY <1>1, <1>4 DEF Crash, TypeOK
  <2> QED BY <1>2, <1>4, <2>1 DEF Crash, Faulty, TypeOK
<1>5. ASSUME NEW v \in Workers, RefreshFails(v) PROVE Goal
  <2>1. CASE v # w
    BY <1>2, <1>5, <2>1 DEF RefreshFails, Faulty, TypeOK
  <2>2. CASE v = w
    <3>1. loaded' = loaded /\ faults' = faults + 1 /\ asking' = asking /\ due'[w] = due[w] \ {"refresh"}
      BY <1>5, <2>2 DEF RefreshFails, Faulty, TypeOK
    <3>2. Missed(w)' <= Missed(w) + 1 /\ Missed(w)' \in Int
      BY <3>1 DEF Missed, Still
    <3> QED BY <1>1, <3>1, <3>2
  <2> QED BY <2>1, <2>2
<1>6. ASSUME NEW v \in Workers, AskFails(v) PROVE Goal
  <2>1. CASE v # w
    BY <1>2, <1>6, <2>1 DEF AskFails, Faulty, TypeOK
  <2>2. CASE v = w
    <3>1. loaded' = loaded /\ faults' = faults + 1 /\ ("refresh" \in due'[w] <=> "refresh" \in due[w])
      BY <1>6, <2>2 DEF AskFails, Faulty, TypeOK
    <3>2. Missed(w)' <= Missed(w) + 1 /\ Missed(w)' \in Int
      BY <3>1 DEF Missed, Still
    <3> QED BY <1>1, <3>1, <3>2
  <2> QED BY <2>1, <2>2
<1>7. ASSUME NEW v \in Workers, Ask(v) PROVE Goal
  <2>1. CASE v # w
    BY <1>2, <1>7, <2>1 DEF Ask, bounds, TypeOK
  <2>2. CASE v = w
    <3>1. ~Covered(loaded[w])
      BY <1>1, <1>7, <2>2 DEF Covered, Wanted, Ask
    <3>2. loaded' = loaded /\ faults' = faults /\ due'[w] = due[w] \ {"ensure"} /\ "ensure" \in due[w]
          /\ asking'[w] = asking[w] \cup {[prev |-> latest, digest |-> loaded[w]]}
      BY <1>7, <2>2, <3>1 DEF Ask, bounds, TypeOK
    <3>3. \E r \in asking'[w] : r.prev = latest
      <4> DEFINE r == [prev |-> latest, digest |-> loaded[w]]
      <4>1. r.prev = latest
        OBVIOUS
      <4>2. r \in asking'[w]
        BY <3>2
      <4> HIDE DEF r
      <4> QED BY <4>1, <4>2
    <3>4. Missed(w)' = Missed(w)
      BY <3>2, <3>3 DEF Missed, Still
    <3> QED BY <1>1, <3>2, <3>4
  <2> QED BY <2>1, <2>2
<1>8. ASSUME NEW v \in Workers, Enqueue(v) PROVE Goal
  <2>1. PICK r \in asking[v] :
          /\ asking' = [asking EXCEPT ![v] = @ \ {r}]
          /\ \/ AlreadyAsked(r)
             \/ \E j \in JobIds : Requested(v, r, j)
    BY <1>8, Enqueued
  <2>2. r.prev # latest
    <3>1. \A j \in JobIds : jobs[j].prev # latest
      BY DEF Newest, Refs
    <3>2. ASSUME NEW j \in JobIds, Requested(v, r, j) PROVE latest # r.prev
      <4>1. latest' = latest /\ latest \in JobIds /\ jobs[latest].status # "absent"
        BY DEF Still, Newest, Refs, Present, TypeOK, Ids
      <4> QED BY <3>2, <4>1 DEF Requested
    <3> QED BY <2>1, <3>1, <3>2 DEF AlreadyAsked
  <2>3. \A q \in asking[w] : q.prev = latest => q \in asking'[w]
    BY <2>1, <2>2 DEF TypeOK
  <2> QED BY <1>2, <1>8, <2>3 DEF Enqueue, bounds
<1>9. ASSUME NEW v \in Workers, JobStep(v) \/ Check(v) \/ RecheckFails(v) PROVE Goal
  <2>1. loaded' = loaded /\ due' = due /\ asking' = asking /\ faults' \in {faults, faults + 1}
    BY <1>9 DEF JobStep, Claim, SkipOrDefer, Scan, Rewrite, Complete, InsertCompliance, InsertSBOM, Check,
                RecheckFails, Faulty, bounds
  <2> QED BY <1>2, <2>1
<1>10. ASSUME ChangeRules \/ \E j \in JobIds : Requeue(j) PROVE Goal
  <2>1. loaded' = loaded /\ due' = due /\ asking' = asking /\ faults' = faults
    BY <1>10 DEF ChangeRules, Requeue, bounds
  <2> QED BY <1>2, <2>1
<1> HIDE DEF Goal
<1>11. Goal
  BY <1>3, <1>4, <1>5, <1>6, <1>7, <1>8, <1>9, <1>10 DEF Next
<1> QED BY <1>11 DEF Goal
\* Who stores what another version says had it in hand already, or has that version.
LEMMA HandsChange ==
  ASSUME Prompt, IInv, Next, ~Tick, Newest, Still, NEW w \in Workers, loaded[w] <= Wanted
  PROVE  /\ Insert(w)' => Insert(w) \/ loaded[w] < Wanted
         /\ Rewrites(w)' => (Rewrites(w) /\ act'[w].time = act[w].time) \/ (loaded[w] < Wanted /\ act'[w].time \in Nat)
<1> USE DEF IInv
<1> DEFINE Goal == /\ Insert(w)' => Insert(w) \/ loaded[w] < Wanted
                   /\ Rewrites(w)' => (Rewrites(w) /\ act'[w].time = act[w].time)
                                      \/ (loaded[w] < Wanted /\ act'[w].time \in Nat)
<1>1. Right' = Right /\ loaded[w] \in Int /\ Wanted \in Int
  BY Numbers DEF Right, Still, Newest
<1>2. loaded[w] # Wanted => loaded[w] < Wanted
  BY <1>1
<1>3. ASSUME act'[w] = act[w] PROVE Goal
  BY <1>1, <1>3 DEF Insert, Rewrites
<1>4. ASSUME act'[w].kind \in {"idle", "claimed", "commit"} PROVE Goal
  BY <1>4 DEF Insert, Rewrites
<1>5. ASSUME NEW v \in Workers, Claim(v) PROVE Goal
  <2> PICK j \in JobIds : act' = [act EXCEPT ![v] = [kind |-> "claimed", job |-> j, time |-> 0]]
    BY <1>5 DEF Claim
  <2>1. CASE v = w
    <3>1. act'[w] = [kind |-> "claimed", job |-> j, time |-> 0]
      BY <2>1 DEF TypeOK
    <3> QED BY <1>4, <3>1
  <2>2. CASE v # w
    BY <1>3, <2>2 DEF TypeOK
  <2> QED BY <2>1, <2>2
<1>6. ASSUME NEW v \in Workers, SkipOrDefer(v) \/ Complete(v) \/ RecheckFails(v) \/ InsertSBOM(v) \/ Crash(v)
      PROVE  Goal
  <2>1. act' = [act EXCEPT ![v] = Idle]
    BY <1>6 DEF SkipOrDefer, Complete, RecheckFails, InsertSBOM, Crash
  <2>2. act'[w] \in {act[w], Idle}
    BY <2>1 DEF TypeOK
  <2> QED BY <1>3, <1>4, <2>2 DEF Idle
<1>7. ASSUME NEW v \in Workers, InsertCompliance(v) PROVE Goal
  <2>1. CASE v = w
    <3>1. act'[w] = [kind |-> "commit", doc |-> act[v].doc]
      BY <1>7, <2>1 DEF InsertCompliance, TypeOK
    <3> QED BY <1>4, <3>1
  <2>2. CASE v # w
    BY <1>3, <1>7, <2>2 DEF InsertCompliance, TypeOK
  <2> QED BY <2>1, <2>2
<1>8. ASSUME NEW v \in Workers, Check(v) PROVE Goal
  <2> PICK d \in Docs : act' = [act EXCEPT ![v] =
                              [kind |-> "insert", doc |-> d, outcome |-> Outcome(loaded[v], TRUE)]]
    BY <1>8 DEF Check
  <2>1. CASE v = w
    <3>1. act'[w] = [kind |-> "insert", doc |-> d, outcome |-> Outcome(loaded[w], TRUE)]
      BY <2>1 DEF TypeOK
    <3>2. act'[w].kind = "insert" /\ act'[w].outcome = Outcome(loaded[w], TRUE)
      <4> DEFINE o == Outcome(loaded[w], TRUE)
                 a == act'[w]
      <4>1. a = [kind |-> "insert", doc |-> d, outcome |-> o]
        BY <3>1
      <4> HIDE DEF o, a
      <4>2. a.kind = "insert" /\ a.outcome = o
        BY <4>1
      <4> QED BY <4>2 DEF o, a
    <3> QED BY <1>1, <1>2, <3>2 DEF Insert, Rewrites, Right
  <2>2. CASE v # w
    BY <1>3, <2>2 DEF TypeOK
  <2> QED BY <2>1, <2>2
<1>9. ASSUME NEW v \in Workers, Scan(v) PROVE Goal
  <2>1. CASE v = w
    <3>1. act'[w] = [kind |-> "rewrite", job |-> act[w].job, time |-> act[w].time, rows |-> Changed(w)]
      BY <1>9, <2>1 DEF Scan, TypeOK
    <3>2. act'[w].kind = "rewrite" /\ act'[w].rows = Changed(w) /\ act'[w].time = act[w].time
      BY <3>1
    <3>3. act[w].time \in Nat
      BY <1>9, <2>1, Hands DEF Scan
    <3>4. \A r \in Changed(w) : r.outcome = Outcome(loaded[w], TRUE)
      BY DEF Changed, Prompt, Outcome, Exempt
    <3> QED BY <1>1, <1>2, <3>2, <3>3, <3>4 DEF Insert, Rewrites, Right
  <2>2. CASE v # w
    BY <1>3, <1>9, <2>2 DEF Scan, TypeOK
  <2> QED BY <2>1, <2>2
<1>10. ASSUME NEW v \in Workers, Rewrite(v) PROVE Goal
  <2>1. CASE v = w
    <3>1. act[w] \in Rewriting
      BY <1>10, <2>1, Hands DEF Rewrite
    <3> PICK r \in act[w].rows : act' = [act EXCEPT ![w].rows = @ \ {r}]
      BY <1>10, <2>1 DEF Rewrite
    <3>2. act'[w].kind = "rewrite" /\ act'[w].rows \subseteq act[w].rows /\ act'[w].time = act[w].time /\ act[w].kind = "rewrite"
      BY <3>1 DEF Rewriting, TypeOK
    <3> QED BY <1>1, <3>2 DEF Insert, Rewrites
  <2>2. CASE v # w
    BY <1>3, <1>10, <2>2 DEF Rewrite, TypeOK
  <2> QED BY <2>1, <2>2
<1>11. ASSUME NEW v \in Workers, Refresh(v) \/ Ask(v) \/ Enqueue(v) \/ RefreshFails(v) \/ AskFails(v)
       PROVE  Goal
  BY <1>3, <1>11 DEF Refresh, Ask, Enqueue, RefreshFails, AskFails
<1>12. ASSUME ChangeRules \/ \E j \in JobIds : Requeue(j) PROVE Goal
  BY <1>3, <1>12 DEF ChangeRules, Requeue
<1> HIDE DEF Goal
<1>13. Goal
  BY <1>5, <1>6, <1>7, <1>8, <1>9, <1>10, <1>11, <1>12 DEF Next, JobStep
<1> QED BY <1>13 DEF Goal
\* The newest recheck is the same, or a new one that nobody has in hand.
New(j) ==
  /\ j \in JobIds /\ latest' = j /\ jobs[j].status = "absent"
  /\ jobs'[j].status = "pending" /\ jobs'[j].wait = Delay
  /\ act' = act /\ faults' = faults

LEMMA Moves ==
  ASSUME IInv, Next, latest' # 0
  PROVE  (Still /\ latest # 0) \/ \E j \in JobIds : New(j)
<1> USE DEF IInv
<1>1. latest # 0 => latest \in JobIds /\ jobs[latest].status # "absent"
  BY DEF Refs, Present, TypeOK, Ids
<1>2. CASE Tick
  <2>1. latest' = latest
    BY <1>2 DEF Tick
  <2>2. jobs'[latest].digest = jobs[latest].digest
    BY <1>1, <1>2, <2>1, Ticked
  <2> QED BY <2>1, <2>2 DEF Still, Wanted
<1>3. CASE ~Tick /\ ~\E w \in Workers : Enqueue(w)
  <2>1. latest' = latest /\ \A j \in JobIds : jobs'[j].digest = jobs[j].digest
    BY <1>3, JobsKept DEF Same
  <2> QED BY <1>1, <2>1 DEF Still, Wanted
<1>4. ASSUME NEW w \in Workers, Enqueue(w) PROVE (Still /\ latest # 0) \/ \E j \in JobIds : New(j)
  <2>1. PICK r \in asking[w] : UNCHANGED queue \/ \E j \in JobIds : Requested(w, r, j)
    BY <1>4, Enqueued
  <2>2. CASE UNCHANGED queue
    BY <2>2 DEF Still, Wanted, queue
  <2>3. ASSUME NEW j \in JobIds, Requested(w, r, j) PROVE (Still /\ latest # 0) \/ New(j)
    <3>1. CASE latest' = j
      <4>1. jobs'[j].status = "pending" /\ jobs'[j].wait = Delay /\ jobs[j].status = "absent"
        BY <2>3 DEF Requested
      <4>2. act' = act /\ faults' = faults
        BY <1>4 DEF Enqueue, bounds
      <4> QED BY <3>1, <4>1, <4>2 DEF New
    <3>2. CASE latest' = latest
      <4>1. latest # j /\ latest \in JobIds
        BY <1>1, <2>3, <3>2 DEF Requested
      <4>2. jobs'[latest] = jobs[latest]
        BY <2>3, <4>1 DEF Requested
      <4> QED BY <3>2, <4>2 DEF Still, Wanted
    <3> QED BY <2>3, <3>1, <3>2 DEF Requested
  <2> QED BY <2>1, <2>2, <2>3
<1> QED BY <1>2, <1>3, <1>4

\* Nobody had the new one in hand.
LEMMA NewIsFree ==
  ASSUME IInv, NEW j \in JobIds, New(j), NEW w \in Workers
  PROVE  ~Holds(w, latest)'
<1>1. ~Holds(w, j)
  BY DEF IInv, Refs, Present, New, JobIds
<1> QED BY <1>1 DEF Holds, New

LEMMA LateWhenNew ==
  ASSUME IInv, NEW j \in JobIds, New(j), NEW w \in Workers
  PROVE  Behind(w)' /\ Older(w)'
<1> USE DEF IInv
<1>1. Untouched'
  <2>1. \A v \in Workers : ~Holds(v, latest)'
    BY NewIsFree
  <2>2. Delay \in Int
    BY Numbers
  <2> QED BY <2>1, <2>2 DEF Untouched, New
<1>2. Waited' = 0 /\ faults' \in Nat
  BY Numbers, RecheckAssumption DEF Waited, New, TypeOK
<1>3. Rewrites(w)' => act'[w].time \in Nat
  <2>1. act[w].kind = "rewrite" => act[w].time \in Nat
    BY Hands
  <2> QED BY <2>1 DEF Rewrites, New
<1>4. 2 * Waited' <= faults' + 2 /\ ~(Waited' >= 1)
  <2> DEFINE waited == Waited'
             f == faults'
  <2>1. waited = 0 /\ f \in Nat
    BY <1>2
  <2> HIDE DEF waited, f
  <2>2. 2 * waited <= f + 2 /\ ~(waited >= 1)
    BY <2>1
  <2> QED BY <2>2 DEF waited, f
<1>5. Rewrites(w)' => 2 * (Waited' - act'[w].time) <= faults' + 2
  BY <1>2, <1>3
<1>6. Behind(w)'
  BY <1>1, <1>4 DEF Behind
<1> QED BY <1>1, <1>4, <1>5, <1>6 DEF Older

\* A tick keeps what is in hand and counts the time of rechecks.
LEMMA TickHands ==
  ASSUME IInv, Tick, NEW w \in Workers
  PROVE  /\ act'[w].kind = act[w].kind
         /\ act[w].kind \in {"claimed", "rewrite"} =>
              act'[w].job = act[w].job /\ act'[w].time = act[w].time + 1 /\ act[w].time \in Nat
         /\ act[w].kind = "rewrite" => act'[w].rows = act[w].rows
<1>1. CASE act[w].kind = "claimed"
  <2>1. act[w] \in ClaimedJob /\ act'[w] = [act[w] EXCEPT !.time = @ + 1]
    BY <1>1, Hands DEF Tick, IInv
  <2>2. act'[w].kind = act[w].kind /\ act'[w].job = act[w].job /\ act'[w].time = act[w].time + 1 /\ act[w].time \in Nat
    BY <2>1 DEF ClaimedJob
  <2> QED BY <1>1, <2>2
<1>2. CASE act[w].kind = "rewrite"
  <2>1. act[w] \in Rewriting /\ act'[w] = [act[w] EXCEPT !.time = @ + 1]
    BY <1>2, Hands DEF Tick, IInv
  <2>2. act'[w].kind = act[w].kind /\ act'[w].job = act[w].job /\ act'[w].time = act[w].time + 1 /\ act[w].time \in Nat
        /\ act'[w].rows = act[w].rows
    BY <2>1 DEF Rewriting
  <2> QED BY <1>2, <2>2
<1>3. CASE act[w].kind \notin {"claimed", "rewrite"}
  BY <1>3 DEF Tick
<1> QED BY <1>1, <1>2, <1>3

\* A tick finds that nobody is about to insert, and that whoever is behind missed both
\* polls of the time before; a scan that goes on is as much older.
LEMMA LateWhenTick ==
  ASSUME Prompt, IInv, Tick, Newest, Newest', Still, NEW w \in Workers
  PROVE  Behind(w)' /\ Older(w)'
<1> USE DEF IInv
<1>1. latest \in JobIds /\ loaded' = loaded /\ faults' = faults /\ asking' = asking
  BY DEF Newest, TypeOK, Ids, Tick, bounds
<1>2. faults \in Nat /\ jobs[latest].wait \in Nat /\ Delay \in Nat /\ Wanted \in Int /\ loaded[w] \in Int
  BY <1>1, Numbers, RecheckAssumption DEF TypeOK, Newest
<1>3. jobs'[latest].wait = (IF jobs[latest].wait > 0 THEN jobs[latest].wait - 1 ELSE 0)
      /\ jobs'[latest].status = jobs[latest].status
  BY <1>1, Ticked
<1>4. ASSUME Untouched PROVE Untouched'
  <2>1. \A v \in Workers : ~Holds(v, latest)'
    BY <1>4, TickHands DEF Untouched, Holds, Still
  <2>2. jobs'[latest'].status = "pending" /\ jobs'[latest'].wait <= Delay
    BY <1>2, <1>3, <1>4 DEF Untouched, Still
  <2> QED BY <2>1, <2>2 DEF Untouched
<1>5. Waited' <= Waited + 1 /\ Waited' \in Int /\ Waited \in Int
  BY <1>1, <1>2, <1>3 DEF Waited, Still
<1>6. Behind(w) /\ Older(w) /\ Right' = Right
  BY DEF Late, Right, Still
<1>7. Behind(w)'
  <2>1. SUFFICES ASSUME loaded[w] < Wanted
                 PROVE  Untouched' /\ 2 * Waited' <= faults' + 2
                        /\ (Waited' >= 1 => 2 * Waited' + Missed(w)' <= faults' + 2)
    BY <1>1 DEF Behind, Still
  <2>2. Untouched /\ (Waited >= 1 => 2 * Waited + Missed(w) <= faults + 2)
    BY <1>6, <2>1 DEF Behind
  <2>3. Missed(w) = 2
    BY DEF Tick, InTime, Missed
  <2>4. Missed(w)' = 0
    BY DEF Tick, Polls, Missed
  <2>5. 2 * Waited' <= faults + 2
    BY <1>2, <1>5, <2>2, <2>3
  <2>6. 2 * Waited' + Missed(w)' <= faults + 2
    <3> DEFINE waited == Waited'
               missed == Missed(w)'
    <3>1. missed = 0
      BY <2>4
    <3>2. waited \in Int /\ faults \in Int
      BY <1>2, <1>5
    <3>3. 2 * waited <= faults + 2
      BY <2>5
    <3> HIDE DEF waited, missed
    <3>4. 2 * waited + missed <= faults + 2
      BY <3>1, <3>2, <3>3
    <3> QED BY <3>4 DEF waited, missed
  <2> QED BY <1>1, <1>4, <2>2, <2>5, <2>6
<1>8. Older(w)'
  <2>1. ~Insert(w)'
    BY TickHands DEF Insert, Tick, InTime
  <2>2. ASSUME Rewrites(w)' PROVE Untouched' /\ 2 * (Waited' - act'[w].time) <= faults' + 2
    <3>1. Rewrites(w) /\ act'[w].time = act[w].time + 1 /\ act[w].time \in Nat
      BY <1>6, <2>2, TickHands DEF Rewrites
    <3>2. Untouched /\ 2 * (Waited - act[w].time) <= faults + 2
      BY <1>6, <3>1 DEF Older
    <3> QED BY <1>1, <1>2, <1>4, <1>5, <3>1, <3>2
  <2> QED BY <2>1, <2>2 DEF Older
<1> QED BY <1>7, <1>8

\* Any other step gives at most one more chance away, by a fault.
LEMMA LateWhenStill ==
  ASSUME Prompt, IInv, Next, ~Tick, Newest, Newest', Still, Wanted <= source, NEW w \in Workers
  PROVE  Behind(w)' /\ Older(w)'
<1> USE DEF IInv
<1>1. /\ Behind(w) /\ Older(w) /\ loaded[w] <= Wanted /\ latest # 0
      /\ Wanted \in Int /\ Waited \in Int /\ faults \in Int /\ Missed(w) \in Int
  BY Numbers DEF Late, Newest, Missed
<1>2. Waits => Untouched' /\ Waited' = Waited
  BY StillWaits DEF Waits, Waited, Newest, Still
<1>3. loaded[w] < Wanted \/ Insert(w) \/ Rewrites(w) => Waits
  BY NotYet DEF Waits
<1>4. faults' \in Int /\ faults <= faults'
  <2>1. faults' = faults \/ faults' = faults + 1
    BY DEF Next, JobStep, ChangeRules, Requeue, Refresh, Ask, Enqueue, Claim, SkipOrDefer, Scan, Rewrite, Complete,
           InsertCompliance, InsertSBOM, Check, RefreshFails, AskFails, RecheckFails, Crash, Faulty, bounds
  <2> QED BY <1>1, <2>1
<1>5. Behind(w)'
  <2>1. SUFFICES ASSUME loaded'[w] < Wanted
                 PROVE  Untouched' /\ 2 * Waited' <= faults' + 2
                        /\ (Waited' >= 1 => 2 * Waited' + Missed(w)' <= faults' + 2)
    BY DEF Behind, Still
  <2>2. loaded[w] < Wanted /\ Missed(w)' - faults' <= Missed(w) - faults
    BY <1>1, <2>1, PollsCount
  <2>3. Missed(w)' \in Int
    BY DEF Missed
  <2> QED BY <1>1, <1>2, <1>3, <1>4, <2>2, <2>3 DEF Behind
<1>6. Older(w)'
  <2>1. Insert(w)' => Insert(w) \/ loaded[w] < Wanted
    BY <1>1, HandsChange
  <2>2. Insert(w)' => Untouched' /\ 2 * Waited' <= faults' + 2
    BY <1>1, <1>2, <1>3, <1>4, <2>1 DEF Behind, Older
  <2>3. ASSUME Rewrites(w)' PROVE Untouched' /\ 2 * (Waited' - act'[w].time) <= faults' + 2
    <3>1. (Rewrites(w) /\ act'[w].time = act[w].time) \/ (loaded[w] < Wanted /\ act'[w].time \in Nat)
      BY <1>1, <2>3, HandsChange
    <3>2. Rewrites(w) => act[w].time \in Nat
      BY Hands DEF Rewrites
    <3> QED BY <1>1, <1>2, <1>3, <1>4, <3>1, <3>2 DEF Behind, Older
  <2> QED BY <2>2, <2>3 DEF Older
<1> QED BY <1>5, <1>6

LEMMA LateStays == ASSUME Prompt, IInv, Next, Onward PROVE Late'
<1> SUFFICES ASSUME Newest', NEW w \in Workers PROVE Behind(w)' /\ Older(w)'
  BY DEF Late
<1>1. (Still /\ latest # 0) \/ \E j \in JobIds : New(j)
  BY Moves DEF Newest
<1>2. CASE Still
  <2>1. Newest /\ Wanted <= source
    BY <1>2, WasNewest
  <2> QED BY <1>2, <2>1, LateWhenTick, LateWhenStill
<1> QED BY <1>1, <1>2, LateWhenNew
-----------------------------------------------------------------------------
(* The results: what is stored once the latest recheck is done.            *)

\* While it is in hand or done, whatever is stored is right.
LEMMA Agreed ==
  ASSUME Prompt, IInv, Newest, NEW w \in Workers,
         jobs[latest].status # "pending" \/ \E v \in Workers : Holds(v, latest)
  PROVE  /\ loaded[w] = Wanted
         /\ act[w].kind = "insert" => act[w].outcome = Right
         /\ act[w].kind = "rewrite" => \A r \in act[w].rows : r.outcome = Right
<1>1. ~Untouched
  BY DEF Untouched
<1>2. loaded[w] = Wanted /\ ~Insert(w) /\ ~Rewrites(w)
  BY <1>1, Unanimous
<1> QED BY <1>2 DEF Insert, Rewrites

\* What a step stores is in somebody's hands before.
LEMMA Stores ==
  ASSUME IInv, Next, NEW d \in Docs
  PROVE  \/ stored'[d] = stored[d]
         \/ \E w \in Workers : act[w].kind = "insert" /\ stored'[d] = act[w].outcome
         \/ \E w \in Workers : act[w].kind = "rewrite" /\ \E r \in act[w].rows : stored'[d] = r.outcome
<1> USE DEF IInv
<1> DEFINE Goal == \/ stored'[d] = stored[d]
                   \/ \E w \in Workers : act[w].kind = "insert" /\ stored'[d] = act[w].outcome
                   \/ \E w \in Workers : act[w].kind = "rewrite" /\ \E r \in act[w].rows : stored'[d] = r.outcome
<1>1. ASSUME NEW w \in Workers, InsertCompliance(w) PROVE Goal
  BY <1>1 DEF InsertCompliance, TypeOK
<1>2. ASSUME NEW w \in Workers, Rewrite(w) PROVE Goal
  <2> PICK r \in act[w].rows : stored' = [stored EXCEPT ![r.doc] = r.outcome]
    BY <1>2 DEF Rewrite
  <2>1. stored'[d] \in {stored[d], r.outcome}
    BY DEF TypeOK
  <2> QED BY <1>2, <2>1 DEF Rewrite
<1>3. ASSUME NEW w \in Workers, Refresh(w) \/ Ask(w) \/ Enqueue(w) \/ Claim(w) \/ SkipOrDefer(w) \/ Scan(w)
               \/ Complete(w) \/ InsertSBOM(w) \/ Check(w) \/ RefreshFails(w) \/ AskFails(w) \/ RecheckFails(w) \/ Crash(w)
      PROVE  stored' = stored
  BY <1>3 DEF Refresh, Ask, Enqueue, Claim, SkipOrDefer, Scan, Complete, InsertSBOM, Check, RefreshFails, AskFails,
              RecheckFails, Crash, results
<1>4. ASSUME Tick \/ ChangeRules \/ \E j \in JobIds : Requeue(j) PROVE stored' = stored
  BY <1>4 DEF Tick, ChangeRules, Requeue, results
<1>5. stored' = stored => Goal
  OBVIOUS
<1> HIDE DEF Goal
<1>6. Goal
  BY <1>1, <1>2, <1>3, <1>4, <1>5 DEF Next, JobStep
<1> QED BY <1>6 DEF Goal

LEMMA RightStaysRight ==
  ASSUME Prompt, IInv, Next, Newest, Still, jobs[latest].status # "pending" \/ \E v \in Workers : Holds(v, latest),
         NEW d \in Docs, AsRight(d)
  PROVE  AsRight(d)'
<1>1. stored'[d] = stored[d] \/ stored'[d] = Right
  BY Stores, Agreed
<1>2. Right' = Right
  BY DEF Right, Still
<1> QED BY <1>1, <1>2 DEF AsRight
\* A recheck that is done has been completed, or passed over for a newer one.
LEMMA Finishes ==
  ASSUME IInv, Next, latest # 0, latest' = latest, jobs'[latest].status = "done"
  PROVE  jobs[latest].status = "done" \/ \E w \in Workers : Complete(w) /\ act[w].job = latest
<1> USE DEF IInv
<1> DEFINE Goal == jobs[latest].status = "done" \/ \E w \in Workers : Complete(w) /\ act[w].job = latest
<1>1. latest \in JobIds
  BY DEF TypeOK, Ids
<1>2. ASSUME jobs'[latest] = jobs[latest] PROVE Goal
  BY <1>2
<1>3. ASSUME NEW j \in JobIds, NEW status \in {"pending", "processing", "failed"}, NEW wait \in Nat, Status(j, status, wait)
      PROVE  Goal
  <2>1. j # latest => jobs'[latest] = jobs[latest]
    BY <1>1, <1>3, StatusTypes
  <2>2. jobs'[j] = [prev |-> jobs[j].prev, digest |-> jobs[j].digest, status |-> status,
                    wait |-> wait, idle |-> 0]
    BY <1>3, StatusTypes
  <2>3. jobs'[j].status = status
    BY <2>2
  <2> QED BY <1>2, <2>1, <2>3
<1>4. ASSUME NEW w \in Workers, Complete(w) \/ SkipOrDefer(w) PROVE Goal
  <2>1. act[w].job \in JobIds
    BY <1>4, Hands DEF Complete, SkipOrDefer
  <2>2. CASE act[w].job = latest
    BY <1>3, <1>4, <2>1, <2>2 DEF SkipOrDefer
  <2>3. CASE act[w].job # latest
    <3>1. jobs'[latest] = jobs[latest]
      BY <1>1, <1>4, <2>1, <2>3, StatusTypes DEF Complete, SkipOrDefer
    <3> QED BY <1>2, <3>1
  <2> QED BY <2>2, <2>3
<1>5. ASSUME NEW w \in Workers, RecheckFails(w) PROVE Goal
  <2>1. act[w].job \in JobIds
    BY <1>5, Hands DEF RecheckFails
  <2> QED BY <1>3, <1>5, <2>1 DEF RecheckFails
<1>6. ASSUME NEW w \in Workers, Claim(w) PROVE Goal
  BY <1>3, <1>6 DEF Claim
<1>7. ASSUME NEW j \in JobIds, Requeue(j) PROVE Goal
  BY <1>3, <1>7 DEF Requeue
<1>8. ASSUME Tick PROVE Goal
  BY <1>1, <1>8, Ticked
<1>9. ASSUME NEW w \in Workers, Enqueue(w) PROVE Goal
  <2>1. CASE UNCHANGED queue
    BY <1>2, <2>1 DEF queue
  <2>2. ASSUME NEW r \in asking[w], NEW j \in JobIds, Requested(w, r, j) PROVE Goal
    <3>1. latest # j
      BY <2>2 DEF Requested, Refs, Present
    <3> QED BY <1>1, <1>2, <2>2, <3>1 DEF Requested
  <2> QED BY <1>9, <2>1, <2>2, Enqueued
<1>10. ASSUME NEW w \in Workers,
              Refresh(w) \/ Ask(w) \/ Scan(w) \/ Rewrite(w) \/ Check(w) \/ InsertCompliance(w) \/ InsertSBOM(w)
                \/ RefreshFails(w) \/ AskFails(w) \/ Crash(w)
       PROVE  Goal
  <2>1. UNCHANGED queue
    BY <1>10 DEF Refresh, Ask, Scan, Rewrite, Check, InsertCompliance, InsertSBOM, RefreshFails, AskFails, Crash
  <2> QED BY <1>2, <2>1 DEF queue
<1>11. ChangeRules => Goal
  BY <1>2 DEF ChangeRules, queue
<1> HIDE DEF Goal
<1>12. Goal
  BY <1>4, <1>5, <1>6, <1>7, <1>8, <1>9, <1>10, <1>11 DEF Next, JobStep
<1> QED BY <1>12 DEF Goal

\* Whoever rewrites has just scanned, has just written a row, or goes on.
LEMMA Rewriters ==
  ASSUME IInv, Next, NEW v \in Workers, act'[v].kind = "rewrite"
  PROVE  \/ Scan(v) \/ Rewrite(v)
         \/ act[v].kind = "rewrite" /\ act'[v].job = act[v].job /\ act'[v].rows = act[v].rows
<1> USE DEF IInv
<1> DEFINE Goal == \/ Scan(v) \/ Rewrite(v)
                   \/ act[v].kind = "rewrite" /\ act'[v].job = act[v].job /\ act'[v].rows = act[v].rows
<1>1. ASSUME act'[v] = act[v] PROVE Goal
  BY <1>1
<1>2. ASSUME NEW w \in Workers, Claim(w) PROVE Goal
  <2> PICK j \in JobIds : act' = [act EXCEPT ![w] = [kind |-> "claimed", job |-> j, time |-> 0]]
    BY <1>2 DEF Claim
  <2>1. w # v
    <3>1. w = v => act'[v] = [kind |-> "claimed", job |-> j, time |-> 0]
      BY DEF TypeOK
    <3> QED BY <3>1
  <2> QED BY <1>1, <2>1 DEF TypeOK
<1>3. ASSUME NEW w \in Workers, SkipOrDefer(w) \/ Complete(w) \/ RecheckFails(w) \/ InsertSBOM(w) \/ Crash(w)
      PROVE  Goal
  <2>1. act' = [act EXCEPT ![w] = Idle]
    BY <1>3 DEF SkipOrDefer, Complete, RecheckFails, InsertSBOM, Crash
  <2> QED BY <1>1, <2>1 DEF TypeOK, Idle
<1>4. ASSUME NEW w \in Workers, InsertCompliance(w) PROVE Goal
  <2>1. act' = [act EXCEPT ![w] = [kind |-> "commit", doc |-> act[w].doc]]
    BY <1>4 DEF InsertCompliance
  <2> QED BY <1>1, <2>1 DEF TypeOK
<1>5. ASSUME NEW w \in Workers, Check(w) PROVE Goal
  <2> PICK d \in Docs : act' = [act EXCEPT ![w] =
                              [kind |-> "insert", doc |-> d, outcome |-> Outcome(loaded[w], TRUE)]]
    BY <1>5 DEF Check
  <2>1. w # v
    <3>1. w = v => act'[v] = [kind |-> "insert", doc |-> d, outcome |-> Outcome(loaded[w], TRUE)]
      BY DEF TypeOK
    <3> QED BY <3>1
  <2> QED BY <1>1, <2>1 DEF TypeOK
<1>6. ASSUME NEW w \in Workers, Scan(w) \/ Rewrite(w) PROVE Goal
  <2>1. w # v => act'[v] = act[v]
    BY <1>6 DEF Scan, Rewrite, TypeOK
  <2> QED BY <1>1, <1>6, <2>1
<1>7. ASSUME Tick PROVE Goal
  BY <1>7, TickHands
<1>8. ASSUME NEW w \in Workers, Refresh(w) \/ Ask(w) \/ Enqueue(w) \/ RefreshFails(w) \/ AskFails(w)
      PROVE  Goal
  BY <1>1, <1>8 DEF Refresh, Ask, Enqueue, RefreshFails, AskFails
<1>9. ASSUME ChangeRules \/ \E j \in JobIds : Requeue(j) PROVE Goal
  BY <1>1, <1>9 DEF ChangeRules, Requeue
<1> HIDE DEF Goal
<1>10. Goal
  BY <1>2, <1>3, <1>4, <1>5, <1>6, <1>7, <1>8, <1>9 DEF Next, JobStep
<1> QED BY <1>10 DEF Goal

LEMMA ServedStays == ASSUME Prompt, IInv, Next, Onward PROVE Served'
<1> USE DEF IInv
<1> SUFFICES ASSUME Newest'
             PROVE  /\ jobs'[latest'].status = "done" => \A d \in Docs : AsRight(d)'
                    /\ \A v \in Workers : act'[v].kind = "rewrite" /\ act'[v].job = latest' =>
                         \A d \in Docs : AsRight(d)' \/ \E r \in act'[v].rows : r.doc = d
  BY DEF Served
<1>1. ASSUME NEW j \in JobIds, New(j)
      PROVE  jobs'[latest'].status # "done" /\ \A v \in Workers : ~(act'[v].kind = "rewrite" /\ act'[v].job = latest')
  BY <1>1, NewIsFree DEF New, Holds
<1>2. ASSUME Still, latest # 0, jobs'[latest].status = "done", NEW d \in Docs PROVE AsRight(d)'
  <2>1. Newest
    BY <1>2, WasNewest
  <2>2. CASE jobs[latest].status = "done"
    BY <1>2, <2>1, <2>2, RightStaysRight DEF Served
  <2>3. ASSUME NEW w \in Workers, Complete(w), act[w].job = latest PROVE AsRight(d)'
    <3>1. AsRight(d) /\ Holds(w, latest)
      BY <2>1, <2>3 DEF Served, Complete, Holds
    <3> QED BY <1>2, <2>1, <3>1, RightStaysRight
  <2> QED BY <1>2, <2>2, <2>3, Finishes DEF Still
<1>3. ASSUME Still, latest # 0, NEW v \in Workers, act'[v].kind = "rewrite", act'[v].job = latest, NEW d \in Docs
      PROVE  AsRight(d)' \/ \E r \in act'[v].rows : r.doc = d
  <2>1. Newest /\ Right' = Right
    BY <1>3, WasNewest
  <2>2. CASE Scan(v)
    <3>1. act'[v] = [kind |-> "rewrite", job |-> act[v].job, time |-> act[v].time, rows |-> Changed(v)]
          /\ act[v].kind = "claimed" /\ stored' = stored
      BY <2>2 DEF Scan, TypeOK, results
    <3>2. act'[v].job = act[v].job /\ act'[v].rows = Changed(v)
      BY <3>1
    <3>3. Holds(v, latest)
      BY <1>3, <3>1, <3>2 DEF Holds
    <3>4. loaded[v] = Wanted
      BY <2>1, <3>3, Agreed
    <3>5. Outcome(loaded[v], d \in committed) = Right
      BY <3>4 DEF Prompt, Right, Outcome, Exempt
    <3>6. ASSUME ~AsRight(d) PROVE \E r \in Changed(v) : r.doc = d
      <4> DEFINE outcome == Outcome(loaded[v], d \in committed)
      <4>1. [doc |-> d, outcome |-> outcome] \in Changed(v)
        BY <3>5, <3>6 DEF Changed, AsRight
      <4> HIDE DEF outcome
      <4> QED BY <4>1
    <3> QED BY <2>1, <3>1, <3>2, <3>6 DEF AsRight
  <2>3. CASE Rewrite(v)
    <3>1. act[v] \in Rewriting
      BY <2>3, Hands DEF Rewrite
    <3>2. PICK r \in act[v].rows : /\ stored' = [stored EXCEPT ![r.doc] = r.outcome]
                                   /\ act' = [act EXCEPT ![v].rows = @ \ {r}]
      BY <2>3 DEF Rewrite
    <3>3. act[v].kind = "rewrite" /\ act'[v].job = act[v].job /\ act'[v].rows = act[v].rows \ {r}
      BY <3>1, <3>2 DEF Rewriting, TypeOK
    <3>4. Holds(v, latest) /\ act[v].job = latest
      BY <1>3, <3>3 DEF Holds
    <3>5. r.outcome = Right
      BY <2>1, <3>3, <3>4, Agreed
    <3>6. AsRight(d) => AsRight(d)'
      BY <1>3, <2>1, <3>4, RightStaysRight
    <3>7. r.doc = d => AsRight(d)'
      BY <2>1, <3>2, <3>5 DEF AsRight, TypeOK
    <3>8. AsRight(d) \/ \E q \in act[v].rows : q.doc = d
      BY <2>1, <3>3, <3>4 DEF Served
    <3> QED BY <3>3, <3>6, <3>7, <3>8
  <2>4. CASE act[v].kind = "rewrite" /\ act'[v].job = act[v].job /\ act'[v].rows = act[v].rows
    <3>1. Holds(v, latest)
      BY <1>3, <2>4 DEF Holds
    <3>2. AsRight(d) => AsRight(d)'
      BY <1>3, <2>1, <3>1, RightStaysRight
    <3>3. AsRight(d) \/ \E r \in act[v].rows : r.doc = d
      BY <1>3, <2>1, <2>4 DEF Served
    <3> QED BY <2>4, <3>2, <3>3
  <2> QED BY <1>3, <2>2, <2>3, <2>4, Rewriters
<1>4. (Still /\ latest # 0) \/ \E j \in JobIds : New(j)
  BY Moves DEF Newest
<1> QED BY <1>1, <1>2, <1>3, <1>4 DEF Still

-----------------------------------------------------------------------------
LEMMA Inductive == Prompt /\ IInv /\ [Next /\ Onward]_vars => IInv'
<1> SUFFICES ASSUME Prompt, IInv, [Next /\ Onward]_vars PROVE IInv'
  OBVIOUS
<1>1. CASE Next /\ Onward
  BY <1>1, Types, Publishes, Refers, RowsStay, LateStays, ServedStays DEF IInv
<1>2. CASE UNCHANGED vars
  <2>1. TypeOK' /\ Published' /\ Rows'
    BY <1>2 DEF IInv, TypeOK, Published, Rows, vars, queue, results, bounds
  <2>2. Refs'
    BY <1>2 DEF IInv, Refs, Present, Holds, vars, queue, results, bounds
  <2>3. Late'
    BY <1>2 DEF IInv, Late, Newest, Behind, Older, Untouched, Waited, Missed, Insert, Rewrites, Wanted, Right, Holds,
                vars, queue, results, bounds
  <2>4. Served'
    BY <1>2 DEF IInv, Served, AsRight, Newest, Wanted, Right, vars, queue, results, bounds
  <2> QED BY <2>1, <2>2, <2>3, <2>4 DEF IInv
<1> QED BY <1>1, <1>2

\* Once the latest recheck is done and every replica has its rules, no committed document
\* keeps a result of older ones: not from an ingest that read the rules before, nor from
\* a superseded, repeated or interrupted recheck (license_recheck.go:38-190).
THEOREM RechecksReachEveryRow == Prompt => (OnwardSpec => []DoneMeansCurrent)
<1> SUFFICES ASSUME Prompt PROVE OnwardSpec => []DoneMeansCurrent
  OBVIOUS
<1>1. IInv /\ [Next /\ Onward]_vars => IInv'
  BY Inductive
<1>2. IInv => DoneMeansCurrent
  <2> SUFFICES ASSUME IInv, NEW d \in Digests, Settled(d), NEW doc \in committed PROVE stored[doc] = Outcome(d, TRUE)
    BY DEF DoneMeansCurrent
  <2>1. latest # 0 /\ jobs[latest].status = "done" /\ Wanted = d /\ \A w \in Workers : loaded[w] = d
    BY DEF Settled, Wanted
  <2>2. d \in Int
    BY RecheckAssumption
  <2>3. Newest
    BY <2>1, <2>2 DEF Newest
  <2>4. doc \in Docs /\ stored[doc] # "none"
    BY DEF IInv, TypeOK, Rows
  <2>5. AsRight(doc)
    BY <2>1, <2>3, <2>4 DEF IInv, Served
  <2> QED BY <2>1, <2>4, <2>5 DEF AsRight, Right
<1> QED BY Initially, <1>1, <1>2, PTL DEF OnwardSpec
=============================================================================
