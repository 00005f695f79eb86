---------------------------- MODULE DiscoveryProofs ----------------------------
(***************************************************************************)
(* Invariants of Discovery for any files, requests, batch size, limit and  *)
(* number of faults.                                                       *)
(***************************************************************************)
EXTENDS Discovery, FiniteSetTheorems, TLAPS

LEMMA JobHasType ==
  ASSUME NEW p \in Paths, NEW o \in {"scan", "upload"}, NEW n \in Nat
  PROVE  Job(p, o, n) \in JobType
BY DEF Job, JobType

LEMMA HashInHashes == \A p \in Paths : Hash[p] \in Hashes
BY DEF Hashes

LEMMA RunFields ==
  ASSUME watcher \in RunType
  PROVE  /\ watcher.known \in SUBSET Hashes /\ watcher.todo \in SUBSET Paths
         /\ watcher.batch \in Seq(JobType) /\ watcher.count \in Nat /\ watcher.asked \in Nat
         /\ watcher.listed \in SUBSET Paths /\ watcher.added \in SUBSET Nat /\ watcher.clean \in BOOLEAN
BY DEF RunType

\* What Take does with the run.
LEMMA TypeOfTake ==
  ASSUME TypeOK, NEW p \in watcher.todo, Len(watcher.batch) < BatchSize
  PROVE  Take(p) \in RunType /\ Len(Take(p).batch) <= BatchSize /\ Take(p).added = watcher.added
<1>1. p \in Paths /\ Hash[p] \in Hashes
  BY RunFields, HashInHashes DEF TypeOK
<1>2. Job(p, "scan", watcher.asked) \in JobType
  BY <1>1, RunFields, JobHasType DEF TypeOK
<1> DEFINE b == Append(watcher.batch, Job(p, "scan", watcher.asked))
           t == watcher.todo \ {p}
           c == watcher.count + (IF p \in VEX THEN 0 ELSE 1)
           k == watcher.known \cup {Hash[p]}
<1>3. b \in Seq(JobType) /\ Len(b) = Len(watcher.batch) + 1
  BY <1>2, RunFields DEF TypeOK
<1>4. Len(b) <= BatchSize
  BY <1>3, RunFields, DiscoveryAssumption DEF TypeOK
<1>5. t \in SUBSET Paths /\ c \in Nat /\ k \in SUBSET Hashes
  BY <1>1, RunFields DEF TypeOK
<1>6. Take(p) = [watcher EXCEPT !.todo = t, !.count = c, !.batch = b, !.known = k]
  BY DEF Take
<1> HIDE DEF b, t, c, k
<1>7. watcher \in RunType
  BY DEF TypeOK
<1>8. [watcher EXCEPT !.todo = t, !.count = c, !.batch = b, !.known = k] \in RunType
  BY <1>3, <1>5, <1>7 DEF RunType
<1>9. Take(p).batch = b /\ Take(p).added = watcher.added
  BY <1>6, <1>7 DEF RunType
<1> QED BY <1>4, <1>6, <1>8, <1>9

LEMMA TypeInitially == Init => TypeOK
<1> SUFFICES ASSUME Init PROVE TypeOK
  OBVIOUS
<1>1. <<>> \in Seq(JobType) /\ Len(<<>>) = 0
  OBVIOUS
<1> QED BY <1>1, DiscoveryAssumption DEF Init, TypeOK, NoRun, RunType, ReqType

LEMMA KnownAreHashes == TypeOK => KnownHashes \in SUBSET Hashes
<1> SUFFICES ASSUME TypeOK, NEW i \in DOMAIN jobs PROVE Hash[jobs[i].path] \in Hashes
  BY DEF KnownHashes, HashOf
<1>1. jobs[i] \in JobType
  BY DEF TypeOK
<1>2. jobs[i].path \in Paths
  BY <1>1 DEF JobType
<1> QED BY <1>2, HashInHashes

LEMMA EmptyBatch == <<>> \in Seq(JobType) /\ Len(<<>>) = 0 /\ DOMAIN <<>> = {}
OBVIOUS

LEMMA NoRunHasType ==
  NoRun \in RunType /\ NoRun.batch = <<>> /\ NoRun.added = {} /\ NoRun.todo = {} /\ NoRun.step = "idle"
BY EmptyBatch DEF NoRun, RunType

Counted == faults \in 0..MaxFaults /\ MaxFaults \in Nat

LEMMA FaultsBounded == Counted /\ (Fault \/ NoFault) => faults' \in 0..MaxFaults
BY DEF Counted, Fault, NoFault

\* Each step keeps the types.
LEMMA TypeStep == TypeOK /\ [Next]_vars => TypeOK'
<1> SUFFICES ASSUME TypeOK, [Next]_vars PROVE TypeOK'
  OBVIOUS
<1>a. Counted
  BY DiscoveryAssumption DEF TypeOK, Counted
<1>b. watcher \in RunType /\ jobs \in Seq(JobType) /\ watcher.added \subseteq DOMAIN jobs
  BY DEF TypeOK
<1>1. ASSUME NEW p \in Paths, Place(p) PROVE TypeOK'
  BY <1>1 DEF Place, TypeOK, NoFault
<1>2. ASSUME NEW i \in DOMAIN jobs, Process(i) PROVE TypeOK'
  <2>1. jobs[i] \in JobType
    BY DEF TypeOK
  <2>2. jobs[i].path \in Paths /\ jobs[i].origin \in {"scan", "upload"}
    BY <2>1 DEF JobType
  <2>3. HashOf(i) \in Hashes
    BY <2>2, HashInHashes DEF HashOf
  <2>4. \A s \in {"done", "failed"} :
          /\ [jobs EXCEPT ![i].status = s] \in Seq(JobType)
          /\ DOMAIN [jobs EXCEPT ![i].status = s] = DOMAIN jobs
    <3> TAKE s \in {"done", "failed"}
    <3>1. [jobs[i] EXCEPT !.status = s] \in JobType
      BY <2>1 DEF JobType
    <3> QED BY <3>1 DEF TypeOK
  <2>5. jobs' \in Seq(JobType) /\ DOMAIN jobs' = DOMAIN jobs
    BY <1>2, <2>4 DEF Process
  <2> DEFINE Rows == {None} \cup [path : Paths, origin : {"scan", "upload"}]
             row == [path |-> jobs[i].path, origin |-> jobs[i].origin]
  <2>6. row \in Rows
    BY <2>2
  <2>7. ingested \in [Hashes -> Rows]
    BY DEF TypeOK
  <2>8. ingested' \in [Hashes -> Rows]
    <3>1. ingested' = ingested \/
          ingested' = [ingested EXCEPT ![HashOf(i)] = IF ingested[HashOf(i)] = None THEN row ELSE ingested[HashOf(i)]]
      BY <1>2 DEF Process
    <3> HIDE DEF Rows, row
    <3> QED BY <2>3, <2>6, <2>7, <3>1
  <2>9. faults' \in 0..MaxFaults
    BY <1>2, <1>a, FaultsBounded DEF Process
  <2> HIDE DEF row
  <2> QED BY <1>2, <2>5, <2>8, <2>9 DEF Process, TypeOK
<1>3. CASE StartRun
  <2> DEFINE k == KnownHashes
             n == Len(jobs)
  <2>1. k \in SUBSET Hashes /\ n \in Nat
    BY KnownAreHashes DEF TypeOK
  <2>2. watcher' = [NoRun EXCEPT !.step = "start", !.known = k, !.asked = n, !.clean = TRUE]
    BY <1>3 DEF StartRun
  <2> HIDE DEF k, n
  <2>3. watcher' \in RunType /\ watcher'.batch = <<>> /\ watcher'.added = {}
    BY <2>1, <2>2, NoRunHasType DEF RunType
  <2> QED BY <1>3, <2>3, EmptyBatch, DiscoveryAssumption DEF StartRun, NoFault, TypeOK
<1>4. ASSUME NEW from \in SUBSET Paths, NEW step \in {"dir", "s3"}, List(from, step) PROVE TypeOK'
  <2>1. PICK found \in SUBSET (stored \cap from) :
          watcher' = [watcher EXCEPT !.step = step, !.todo = found, !.listed = @ \cup (stored \cap from),
                                     !.clean = @ /\ found = stored \cap from]
    BY <1>4 DEF List
  <2> DEFINE l == watcher.listed \cup (stored \cap from)
             c == watcher.clean /\ found = stored \cap from
  <2>2. found \in SUBSET Paths /\ l \in SUBSET Paths /\ c \in BOOLEAN
    BY <1>b, RunFields DEF TypeOK
  <2>3. watcher' = [watcher EXCEPT !.step = step, !.todo = found, !.listed = l, !.clean = c]
    BY <2>1
  <2> HIDE DEF l, c
  <2>4. watcher' \in RunType /\ watcher'.batch = watcher.batch /\ watcher'.added = watcher.added
    BY <1>b, <2>2, <2>3 DEF RunType
  <2>5. faults' \in 0..MaxFaults
    BY <1>4, <1>a, FaultsBounded DEF List
  <2> QED BY <1>4, <2>4, <2>5 DEF List, TypeOK
<1>5. ASSUME NEW p \in watcher.todo, Look(p) PROVE TypeOK'
  <2> DEFINE t == watcher.todo \ {p}
             c == watcher.count + (IF p \in VEX THEN 0 ELSE 1)
  <2>1. t \in SUBSET Paths /\ c \in Nat
    BY <1>b, RunFields
  <2>2. \/ watcher' = Take(p)
        \/ watcher' = [watcher EXCEPT !.todo = t]
        \/ watcher' = [watcher EXCEPT !.todo = t, !.count = c]
    BY <1>5 DEF Look
  <2>3. watcher' \in RunType /\ Len(watcher'.batch) <= BatchSize /\ watcher'.added = watcher.added
    <3>1. CASE watcher' = Take(p)
      <4>1. Len(watcher.batch) < BatchSize
        BY <1>5 DEF Look
      <4>2. Take(p) \in RunType /\ Len(Take(p).batch) <= BatchSize /\ Take(p).added = watcher.added
        BY <4>1, TypeOfTake
      <4> HIDE DEF t, c
      <4> QED BY <3>1, <4>2
    <3>2. CASE watcher' # Take(p)
      <4> HIDE DEF t, c
      <4>1. watcher' \in RunType /\ watcher'.batch = watcher.batch /\ watcher'.added = watcher.added
        BY <1>b, <2>1, <2>2, <3>2 DEF RunType
      <4> QED BY <4>1 DEF TypeOK
    <3> QED BY <3>1, <3>2
  <2> QED BY <1>5, <2>3 DEF Look, NoFault, TypeOK
<1>6. CASE Flush
  <2>1. watcher.batch \in Seq(JobType) /\ watcher.clean \in BOOLEAN /\ watcher.added \in SUBSET Nat
    BY <1>b, RunFields
  <2>2. PICK landed \in BOOLEAN, ok \in BOOLEAN :
          /\ jobs' = IF landed THEN jobs \o watcher.batch ELSE jobs
          /\ watcher' = [watcher EXCEPT !.batch = <<>>, !.clean = @ /\ ok,
                           !.added = IF landed THEN @ \cup ((Len(jobs) + 1)..Len(jobs')) ELSE @]
    BY <1>6 DEF Flush
  <2>3. jobs \o watcher.batch \in Seq(JobType) /\ Len(jobs \o watcher.batch) = Len(jobs) + Len(watcher.batch)
    BY <1>b, <2>1
  <2>4. jobs' \in Seq(JobType) /\ Len(jobs) <= Len(jobs')
    BY <1>b, <2>1, <2>2, <2>3
  <2> DEFINE a == IF landed THEN watcher.added \cup ((Len(jobs) + 1)..Len(jobs')) ELSE watcher.added
             c == watcher.clean /\ ok
  <2>5. a \in SUBSET Nat /\ a \subseteq DOMAIN jobs' /\ c \in BOOLEAN
    BY <1>b, <2>1, <2>4
  <2>6. watcher' = [watcher EXCEPT !.batch = <<>>, !.clean = c, !.added = a]
    BY <2>2
  <2> HIDE DEF a, c
  <2>7. watcher' \in RunType /\ watcher'.batch = <<>> /\ watcher'.added = a
    BY <1>b, <2>5, <2>6, EmptyBatch DEF RunType
  <2>8. faults' \in 0..MaxFaults
    BY <1>6, <1>a, FaultsBounded DEF Flush
  <2> QED BY <1>6, <2>4, <2>5, <2>7, <2>8, EmptyBatch, DiscoveryAssumption DEF Flush, TypeOK
<1>7. CASE EndRun
  <2>1. watcher' \in RunType /\ watcher'.batch = watcher.batch /\ watcher'.added = watcher.added
    BY <1>7, <1>b DEF EndRun, RunType
  <2> QED BY <1>7, <2>1 DEF EndRun, NoFault, TypeOK
<1>8. CASE WatcherDies
  <2>1. faults' \in 0..MaxFaults
    BY <1>8, <1>a, FaultsBounded DEF WatcherDies
  <2> QED BY <1>8, <2>1, NoRunHasType, EmptyBatch, DiscoveryAssumption DEF WatcherDies, TypeOK
<1>9. ASSUME NEW u \in Uploads, Check(u) \/ Store(u) \/ CleanUp(u) \/ GatewayDies(u) PROVE TypeOK'
  <2>1. faults' \in 0..MaxFaults
    BY <1>9, <1>a, FaultsBounded DEF Check, Store, CleanUp, GatewayDies
  <2>2. req[u] \in ReqType /\ req \in [Uploads -> ReqType] /\ Len(jobs) \in Nat
    BY <1>b DEF TypeOK
  <2>3. req' \in [Uploads -> ReqType]
    <3>1. \A s \in {"duplicate", "error", "stored"} : [req[u] EXCEPT !.step = s] \in ReqType
      BY <2>2 DEF ReqType
    <3>2. [step |-> "checked", asked |-> Len(jobs)] \in ReqType
      BY <2>2 DEF ReqType
    <3> QED BY <1>9, <2>2, <3>1, <3>2 DEF Check, Store, CleanUp, GatewayDies, Reach
  <2>4. stored' \in SUBSET Paths
    BY <1>9 DEF Check, Store, CleanUp, GatewayDies, TypeOK, Paths
  <2> QED BY <1>9, <2>1, <2>3, <2>4 DEF Check, Store, CleanUp, GatewayDies, TypeOK
<1>10. ASSUME NEW u \in Uploads, Enqueue(u) PROVE TypeOK'
  <2>1. req[u] \in ReqType /\ req \in [Uploads -> ReqType]
    BY DEF TypeOK
  <2>2. Job(u, "upload", req[u].asked) \in JobType
    BY <2>1, JobHasType DEF ReqType, Paths
  <2>3. jobs' \in Seq(JobType) /\ DOMAIN jobs \subseteq DOMAIN jobs'
    <3> DEFINE j == Job(u, "upload", req[u].asked)
    <3>1. jobs' = jobs \/ jobs' = Append(jobs, j)
      BY <1>10 DEF Enqueue
    <3> HIDE DEF j
    <3>2. j \in JobType
      BY <2>2 DEF j
    <3> QED BY <1>b, <3>1, <3>2
  <2>4. req' \in [Uploads -> ReqType]
    <3>1. \A s \in {"accepted", "cleanup"} : [req[u] EXCEPT !.step = s] \in ReqType
      BY <2>1 DEF ReqType
    <3> QED BY <1>10, <2>1, <3>1 DEF Enqueue, Reach
  <2>5. faults' \in 0..MaxFaults
    BY <1>10, <1>a, FaultsBounded DEF Enqueue
  <2> QED BY <1>10, <2>3, <2>4, <2>5 DEF Enqueue, TypeOK
<1>11. CASE UNCHANGED vars
  BY <1>11 DEF vars, TypeOK
<1>12. InDir \in SUBSET Paths /\ Listable \in SUBSET Paths
  BY DEF InDir, Listable, Paths
<1> QED BY <1>1, <1>2, <1>3, <1>4, <1>5, <1>6, <1>7, <1>8, <1>9, <1>10, <1>11, <1>12
       DEF Next, Worker, Scan, Handle, ScanDir, ListBuckets

\* The values of the variables have their types.  (All of Discovery.)
THEOREM TypeCorrect == Spec => []TypeOK
<1> QED BY TypeInitially, TypeStep, PTL DEF Spec

-----------------------------------------------------------------------------
(* Jobs are only added, and stay what they are but for their status.       *)

Grown ==
  /\ Len(jobs) <= Len(jobs')
  /\ \A i \in DOMAIN jobs :
       /\ jobs'[i].path = jobs[i].path /\ jobs'[i].origin = jobs[i].origin /\ jobs'[i].asked = jobs[i].asked
       /\ jobs[i].status = "failed" => jobs'[i].status = "failed"

\* Where new jobs come from: the watcher's batch, or one request.
New(i) ==
  \/ /\ Flush /\ i - Len(jobs) \in DOMAIN watcher.batch /\ jobs'[i] = watcher.batch[i - Len(jobs)]
     /\ i \in watcher.added'
  \/ \E u \in Uploads :
       /\ At(u, "stored") /\ At(u, "stored")' = FALSE /\ jobs'[i] = Job(u, "upload", req[u].asked)
       /\ i = Len(jobs) + 1 /\ UNCHANGED <<stored, watcher>>

LEMMA JobsGrow ==
  ASSUME TypeOK, [Next]_vars
  PROVE  Grown /\ \A i \in (DOMAIN jobs') \ DOMAIN jobs : New(i)
<1> USE DEF TypeOK
<1>0. ASSUME UNCHANGED jobs PROVE Grown /\ DOMAIN jobs' = DOMAIN jobs
  BY <1>0 DEF Grown
<1>1. ASSUME NEW i \in DOMAIN jobs, Process(i) PROVE Grown /\ DOMAIN jobs' = DOMAIN jobs
  <2>1. PICK s \in {"done", "failed"} : jobs' = [jobs EXCEPT ![i].status = s]
    BY <1>1 DEF Process
  <2>2. jobs[i].status = "queued" /\ jobs[i] \in JobType
    BY <1>1 DEF Process
  <2>3. DOMAIN jobs' = DOMAIN jobs /\ Len(jobs') = Len(jobs)
    BY <2>1
  <2>4. \A k \in DOMAIN jobs : k # i => jobs'[k] = jobs[k]
    BY <2>1
  <2>5. jobs'[i] = [jobs[i] EXCEPT !.status = s]
    BY <2>1
  <2>6. /\ jobs'[i].path = jobs[i].path /\ jobs'[i].origin = jobs[i].origin
        /\ jobs'[i].asked = jobs[i].asked
    BY <2>2, <2>5 DEF JobType
  <2> QED BY <2>2, <2>3, <2>4, <2>6 DEF Grown
<1>2. CASE Flush
  <2>1. PICK landed \in BOOLEAN, ok \in BOOLEAN :
          /\ jobs' = IF landed THEN jobs \o watcher.batch ELSE jobs
          /\ watcher' = [watcher EXCEPT !.batch = <<>>, !.clean = @ /\ ok,
                           !.added = IF landed THEN @ \cup ((Len(jobs) + 1)..Len(jobs')) ELSE @]
    BY <1>2 DEF Flush
  <2>2. watcher.batch \in Seq(JobType)
    BY RunFields
  <2>3. CASE landed
    <3>1. jobs' = jobs \o watcher.batch
      BY <2>1, <2>3
    <3>2. /\ Len(jobs') = Len(jobs) + Len(watcher.batch) /\ DOMAIN jobs' = 1..Len(jobs')
          /\ \A i \in DOMAIN jobs : jobs'[i] = jobs[i]
          /\ \A i \in (DOMAIN jobs') \ DOMAIN jobs : jobs'[i] = watcher.batch[i - Len(jobs)]
      BY <2>2, <3>1
    <3>3. watcher'.added = watcher.added \cup ((Len(jobs) + 1)..Len(jobs'))
      BY <2>1, <2>3 DEF RunType
    <3>4. Grown
      BY <2>2, <3>2 DEF Grown
    <3>5. ASSUME NEW i \in (DOMAIN jobs') \ DOMAIN jobs PROVE New(i)
      <4>1. i - Len(jobs) \in DOMAIN watcher.batch /\ i \in (Len(jobs) + 1)..Len(jobs')
        BY <2>2, <3>2
      <4> QED BY <1>2, <3>2, <3>3, <4>1 DEF New
    <3> QED BY <3>4, <3>5
  <2> QED BY <1>0, <2>1, <2>3
<1>3. ASSUME NEW u \in Uploads, Enqueue(u) PROVE Grown /\ \A i \in (DOMAIN jobs') \ DOMAIN jobs : New(i)
  <2> DEFINE j == Job(u, "upload", req[u].asked)
  <2>1. jobs' = jobs \/ jobs' = Append(jobs, j)
    BY <1>3 DEF Enqueue
  <2>2. At(u, "stored") /\ At(u, "stored")' = FALSE /\ UNCHANGED <<stored, watcher>>
    BY <1>3 DEF Enqueue, At, Reach, ReqType
  <2>3. ASSUME jobs' = Append(jobs, j)
        PROVE /\ Grown /\ DOMAIN jobs' = 1..(Len(jobs) + 1)
              /\ jobs'[Len(jobs) + 1] = j
    BY <2>3 DEF Grown
  <2>4. ASSUME NEW i \in (DOMAIN jobs') \ DOMAIN jobs PROVE New(i)
    <3>1. jobs' = Append(jobs, j)
      BY <2>1
    <3>2. i = Len(jobs) + 1
      BY <2>3, <3>1
    <3> QED BY <2>2, <2>3, <3>1, <3>2 DEF New
  <2> QED BY <1>0, <2>1, <2>3, <2>4
<1>4. CASE ~(\/ \E i \in DOMAIN jobs : Process(i)
             \/ Flush
             \/ \E u \in Uploads : Enqueue(u))
  BY <1>0, <1>4 DEF Next, Worker, Scan, Handle, Place, StartRun, ScanDir, ListBuckets, List, Look,
       EndRun, WatcherDies, Check, Store, CleanUp, GatewayDies, vars
<1> QED BY <1>0, <1>1, <1>2, <1>3, <1>4

-----------------------------------------------------------------------------
(* MissingFileIsReported.                                                  *)

\* A path that is spoken of holds a file, or its request was answered with an error.
Kept(p) == p \in stored \/ (p \in Uploads /\ At(p, "error"))

Files ==
  /\ \A i \in DOMAIN jobs : Kept(jobs[i].path)
  /\ \A p \in watcher.todo : Kept(p)
  /\ \A k \in DOMAIN watcher.batch : Kept(watcher.batch[k].path)
  /\ \A u \in Uploads : At(u, "stored") => u \in stored

LEMMA FilesImply == Files => MissingFileIsReported
BY DEF Files, Kept, MissingFileIsReported

KeptAfter(p) == p \in stored' \/ (p \in Uploads /\ req'[p].step = "error")

\* What a request does to its own step and to the files.
LEMMA RequestStep ==
  ASSUME TypeOK, NEW v \in Uploads, Handle(v) \/ GatewayDies(v)
  PROVE  /\ \A u \in Uploads \ {v} : req'[u] = req[u]
         /\ req[v].step # "error"
         /\ req'[v].step = "stored" => v \in stored' /\ req[v].step = "checked" /\ req'[v].asked = req[v].asked
         /\ req'[v].step = "checked" => req'[v].asked = Len(jobs) /\ Hash[v] \notin KnownHashes
         /\ req'[v].step \in {"checked", "stored"} => UNCHANGED jobs
         /\ stored \subseteq stored' \/ (stored' = stored \ {v} /\ req'[v].step = "error")
<1> USE DEF Reach, At, TypeOK, ReqType
<1>1. CASE Check(v)
  BY <1>1 DEF Check
<1>2. CASE Store(v)
  BY <1>2 DEF Store
<1>3. CASE Enqueue(v)
  BY <1>3 DEF Enqueue
<1>4. CASE CleanUp(v)
  BY <1>4 DEF CleanUp
<1>5. CASE GatewayDies(v)
  BY <1>5 DEF GatewayDies
<1> QED BY <1>1, <1>2, <1>3, <1>4, <1>5 DEF Handle

\* The steps that are not a request's leave the requests alone and remove no file.
LEMMA OtherSteps ==
  ASSUME [Next]_vars, ~ \E v \in Uploads : Handle(v) \/ GatewayDies(v)
  PROVE  UNCHANGED req /\ stored \subseteq stored'
BY DEF Next, Place, Worker, Process, StartRun, Scan, ScanDir, ListBuckets, List,
       Look, Flush, EndRun, WatcherDies, vars

\* A file is only removed by its own request, which then ends with an error.
LEMMA KeptStays == TypeOK /\ [Next]_vars => \A p : Kept(p) => KeptAfter(p)
<1> SUFFICES ASSUME TypeOK, [Next]_vars, NEW p, Kept(p) PROVE KeptAfter(p)
  OBVIOUS
<1>1. ASSUME NEW v \in Uploads, Handle(v) \/ GatewayDies(v) PROVE KeptAfter(p)
  BY <1>1, RequestStep DEF Kept, KeptAfter, At
<1> QED BY <1>1, OtherSteps DEF Kept, KeptAfter, At

LEMMA FilesStep == TypeOK /\ Files /\ [Next]_vars => Files'
<1> SUFFICES ASSUME TypeOK, Files, [Next]_vars PROVE Files'
  OBVIOUS
<1>1. ASSUME NEW i \in DOMAIN jobs' PROVE KeptAfter(jobs'[i].path)
  <2>1. CASE i \in DOMAIN jobs
    <3>1. Kept(jobs[i].path) /\ jobs'[i].path = jobs[i].path
      BY <2>1, JobsGrow DEF Files, Grown
    <3> QED BY <3>1, KeptStays
  <2>2. CASE i \notin DOMAIN jobs
    <3>1. New(i)
      BY <2>2, JobsGrow
    <3>2. Kept(jobs'[i].path)
      <4>1. CASE \E u \in Uploads : At(u, "stored") /\ jobs'[i] = Job(u, "upload", req[u].asked)
        BY <4>1 DEF Files, Kept, Job
      <4> QED BY <3>1, <4>1 DEF New, Files
    <3> QED BY <3>2, KeptStays
  <2> QED BY <2>1, <2>2
<1>2. ASSUME NEW u \in Uploads, At(u, "stored")' PROVE u \in stored'
  <2>1. ASSUME NEW v \in Uploads, Handle(v) \/ GatewayDies(v) PROVE u \in stored'
    BY <1>2, <2>1, RequestStep DEF Files, At
  <2> QED BY <1>2, <2>1, OtherSteps DEF Files, At
<1>3. (\A p \in watcher'.todo : Kept(p)) /\ (\A k \in DOMAIN watcher'.batch : Kept(watcher'.batch[k].path))
  <2>1. CASE UNCHANGED watcher
    BY <2>1 DEF Files
  <2>2. CASE StartRun \/ WatcherDies
    <3>1. watcher'.todo = {} /\ watcher'.batch = <<>>
      BY <2>2, NoRunHasType DEF StartRun, WatcherDies, RunType
    <3> QED BY <3>1, EmptyBatch
  <2>3. ASSUME NEW from, NEW step, List(from, step) PROVE <1>3
    <3>1. watcher'.todo \subseteq stored /\ watcher'.batch = watcher.batch
      BY <2>3 DEF List, TypeOK, RunType
    <3> QED BY <3>1 DEF Files, Kept
  <2>4. ASSUME NEW p \in watcher.todo, Look(p) PROVE <1>3
    <3>1. CASE watcher' = Take(p)
      <4> DEFINE j == Job(p, "scan", watcher.asked)
      <4>1. watcher'.todo = watcher.todo \ {p} /\ watcher'.batch = Append(watcher.batch, j)
        BY <3>1 DEF Take, TypeOK, RunType
      <4>2. j.path = p
        BY DEF Job
      <4> HIDE DEF j
      <4>3. watcher.batch \in Seq(JobType)
        BY RunFields DEF TypeOK
      <4>4. \A k \in DOMAIN watcher'.batch : (k \in DOMAIN watcher.batch /\ watcher'.batch[k] = watcher.batch[k]) \/ watcher'.batch[k] = j
        BY <4>1, <4>3
      <4> QED BY <4>1, <4>2, <4>4 DEF Files
    <3>2. CASE watcher' # Take(p)
      <4>1. watcher'.todo = watcher.todo \ {p} /\ watcher'.batch = watcher.batch
        BY <2>4, <3>2 DEF Look, TypeOK, RunType
      <4> QED BY <4>1 DEF Files
    <3> QED BY <3>1, <3>2
  <2>5. CASE Flush
    <3>1. watcher'.todo = watcher.todo /\ watcher'.batch = <<>>
      BY <2>5 DEF Flush, TypeOK, RunType
    <3> QED BY <3>1, EmptyBatch DEF Files
  <2>6. CASE EndRun
    <3>1. watcher'.todo = watcher.todo /\ watcher'.batch = watcher.batch
      BY <2>6 DEF EndRun, TypeOK, RunType
    <3> QED BY <3>1 DEF Files
  <2> QED BY <2>1, <2>2, <2>3, <2>4, <2>5, <2>6 DEF Next, Worker, Process, Scan, ScanDir, ListBuckets,
             Handle, Place, Check, Store, Enqueue, CleanUp, GatewayDies, vars
<1>4. (\A p \in watcher'.todo : KeptAfter(p)) /\ (\A k \in DOMAIN watcher'.batch : KeptAfter(watcher'.batch[k].path))
  BY <1>3, KeptStays
<1>5. \A p : Kept(p)' <=> KeptAfter(p)
  BY DEF Kept, KeptAfter, At
<1> QED BY <1>1, <1>2, <1>4, <1>5 DEF Files, Kept, KeptAfter, At

\* A job without its file is one whose request was answered with an error, for
\* any number of requests, runs and faults.  (uploadHandler's cleanup.)
THEOREM MissingFilesAreReported == Spec => []MissingFileIsReported
<1>1. Init => Files
  BY DEF Init, Files, NoRun, At
<1>2. TypeOK /\ Files /\ [Next]_vars => Files'
  BY FilesStep
<1> QED BY <1>1, <1>2, TypeCorrect, FilesImply, PTL DEF Spec

-----------------------------------------------------------------------------
(* QueuedAgainForAReason.                                                  *)

\* Of the first n jobs those for h have failed.
Failed(h, n) ==
  /\ n <= Len(jobs)
  /\ \A i \in DOMAIN jobs : i <= n /\ HashOf(i) = h => jobs[i].status = "failed"

FailedAfter(h, n) ==
  /\ n <= Len(jobs')
  /\ \A i \in DOMAIN jobs' : i <= n /\ Hash[jobs'[i].path] = h => jobs'[i].status = "failed"

\* Who means to insert a job asked when the jobs for its hash had failed.
Asked ==
  \A u \in Uploads : req[u].step \in {"checked", "stored"} => Failed(Hash[u], req[u].asked)

\* A run knows every hash but those whose jobs had failed when it began, ...
Knows ==
  IF watcher.step = "idle" THEN watcher.todo = {} /\ watcher.batch = <<>>
  ELSE /\ \A h \in Hashes \ watcher.known : Failed(h, watcher.asked)
       /\ \A i \in watcher.added : HashOf(i) \in watcher.known

\* ... and its batch has each hash once, not one it queued before.
Once ==
  /\ \A k \in DOMAIN watcher.batch :
       LET b == watcher.batch[k]
       IN  b.asked = watcher.asked /\ Failed(Hash[b.path], b.asked) /\ Hash[b.path] \in watcher.known
  /\ \A k, l \in DOMAIN watcher.batch : Hash[watcher.batch[k].path] = Hash[watcher.batch[l].path] => k = l
  /\ \A i \in watcher.added, k \in DOMAIN watcher.batch : HashOf(i) # Hash[watcher.batch[k].path]

History == Asked /\ Knows /\ Once /\ QueuedAgainForAReason

LEMMA FailedStays ==
  TypeOK /\ [Next]_vars => \A h : \A n \in Nat : Failed(h, n) => FailedAfter(h, n)
<1> SUFFICES ASSUME TypeOK, [Next]_vars, NEW h, NEW n \in Nat, Failed(h, n) PROVE FailedAfter(h, n)
  OBVIOUS
<1>1. Grown /\ TypeOK'
  BY JobsGrow, TypeStep
<1>2. Len(jobs) \in Nat /\ Len(jobs') \in Nat /\ DOMAIN jobs = 1..Len(jobs) /\ DOMAIN jobs' = 1..Len(jobs')
  BY <1>1 DEF TypeOK
<1> QED BY <1>1, <1>2 DEF Grown, Failed, FailedAfter, HashOf

\* The hashes that are not known are those whose jobs have failed.
LEMMA Unknown ==
  ASSUME TypeOK, NEW h, h \notin KnownHashes
  PROVE  Failed(h, Len(jobs))
BY DEF KnownHashes, Failed, TypeOK

LEMMA AskedStep ==
  TypeOK /\ Asked /\ [Next]_vars =>
    \A u \in Uploads : req'[u].step \in {"checked", "stored"} => FailedAfter(Hash[u], req'[u].asked)
<1> SUFFICES ASSUME TypeOK, Asked, [Next]_vars,
                    NEW u \in Uploads, req'[u].step \in {"checked", "stored"}
             PROVE  FailedAfter(Hash[u], req'[u].asked)
  OBVIOUS
<1>1. req[u].asked \in Nat /\ Len(jobs) \in Nat
  BY DEF TypeOK, ReqType
<1>2. CASE req'[u] = req[u]
  BY <1>1, <1>2, FailedStays DEF Asked
<1>3. CASE Handle(u) \/ GatewayDies(u)
  <2>1. CASE req'[u].step = "checked"
    <3>1. req'[u].asked = Len(jobs) /\ Hash[u] \notin KnownHashes
      BY <1>3, <2>1, RequestStep
    <3> QED BY <1>1, <3>1, Unknown, FailedStays
  <2>2. CASE req'[u].step = "stored"
    <3>1. req[u].step = "checked" /\ req'[u].asked = req[u].asked
      BY <1>3, <2>2, RequestStep
    <3> QED BY <1>1, <3>1, FailedStays DEF Asked
  <2> QED BY <2>1, <2>2
<1>4. ASSUME NEW v \in Uploads \ {u}, Handle(v) \/ GatewayDies(v) PROVE req'[u] = req[u]
  BY <1>4, RequestStep
<1> QED BY <1>2, <1>3, <1>4, OtherSteps

\* What a new job is: its sender asked when the jobs for its hash had failed.
LEMMA NewAfterFailures ==
  ASSUME TypeOK, Asked, Once, [Next]_vars, NEW j \in (DOMAIN jobs') \ DOMAIN jobs
  PROVE  Failed(Hash[jobs'[j].path], jobs'[j].asked)
<1>1. New(j)
  BY JobsGrow
<1>2. CASE \E u \in Uploads : At(u, "stored") /\ jobs'[j] = Job(u, "upload", req[u].asked)
  BY <1>2 DEF Asked, At, Job
<1>3. CASE j - Len(jobs) \in DOMAIN watcher.batch /\ jobs'[j] = watcher.batch[j - Len(jobs)]
  BY <1>3 DEF Once
<1> QED BY <1>1, <1>2, <1>3 DEF New

LEMMA AgainStep ==
  ASSUME TypeOK, Asked, Once, QueuedAgainForAReason, [Next]_vars,
         NEW i \in DOMAIN jobs', NEW j \in DOMAIN jobs',
         i < j, Hash[jobs'[i].path] = Hash[jobs'[j].path], jobs'[i].status # "failed"
  PROVE  jobs'[j].asked < i
<1>1. Grown /\ TypeOK'
  BY JobsGrow, TypeStep
<1>2. Len(jobs) \in Nat /\ DOMAIN jobs = 1..Len(jobs) /\ DOMAIN jobs' = 1..Len(jobs') /\ Len(jobs') \in Nat
  BY <1>1 DEF TypeOK
<1>3. jobs'[j].asked \in Nat
  <2>1. jobs'[j] \in JobType
    BY <1>1 DEF TypeOK
  <2> QED BY <2>1 DEF JobType
<1>4. CASE j \in DOMAIN jobs
  <2>1. i \in DOMAIN jobs
    BY <1>2, <1>4
  <2> QED BY <1>1, <1>4, <2>1 DEF Grown, QueuedAgainForAReason, HashOf
<1>5. CASE j \notin DOMAIN jobs
  <2>1. FailedAfter(Hash[jobs'[j].path], jobs'[j].asked)
    BY <1>3, <1>5, NewAfterFailures, FailedStays
  <2> QED BY <1>2, <1>3, <2>1 DEF FailedAfter
<1> QED BY <1>4, <1>5

\* The steps that leave the watcher alone.
LEMMA WatcherRests ==
  ASSUME TypeOK, Knows, Once, [Next]_vars, UNCHANGED watcher
  PROVE  Knows' /\ Once'
<1>1. Grown
  BY JobsGrow
<1>2. watcher.asked \in Nat /\ watcher.batch \in Seq(JobType) /\ watcher.added \subseteq DOMAIN jobs
  BY RunFields DEF TypeOK
<1>3. \A i \in watcher.added : HashOf(i)' = HashOf(i)
  BY <1>1, <1>2 DEF Grown, HashOf
<1>4. \A k \in DOMAIN watcher.batch : watcher.batch[k].asked = watcher.asked
  BY DEF Once
<1>5. \A h : Failed(h, watcher.asked) => FailedAfter(h, watcher.asked)
  BY <1>2, FailedStays
<1>6. Knows'
  BY <1>3, <1>5 DEF Knows, Failed, FailedAfter, HashOf
<1>7. \A k \in DOMAIN watcher.batch : FailedAfter(Hash[watcher.batch[k].path], watcher.batch[k].asked)
  BY <1>4, <1>5 DEF Once
<1>8. \A i \in watcher.added, k \in DOMAIN watcher.batch : Hash[jobs'[i].path] # Hash[watcher.batch[k].path]
  BY <1>3 DEF Once, HashOf
<1>9. Once'
  BY <1>7, <1>8 DEF Once, Failed, FailedAfter, HashOf
<1> QED BY <1>6, <1>9

\* The steps that leave the queue alone and only make the batch empty, or keep it.
LEMMA WatcherLists ==
  ASSUME TypeOK, Knows, Once, NEW from, NEW step \in {"dir", "s3"}, List(from, step), watcher.step # "idle"
  PROVE  Knows' /\ Once'
<1>1. /\ watcher'.step = step /\ UNCHANGED jobs
      /\ watcher'.batch = watcher.batch /\ watcher'.known = watcher.known
      /\ watcher'.asked = watcher.asked /\ watcher'.added = watcher.added
  BY DEF List, TypeOK, RunType
<1> QED BY <1>1 DEF Knows, Once, Failed, HashOf

LEMMA WatcherLooks ==
  ASSUME TypeOK, Knows, Once, NEW p \in watcher.todo, Look(p)
  PROVE  Knows' /\ Once'
<1>1. watcher.step # "idle" /\ UNCHANGED jobs /\ watcher.batch \in Seq(JobType) /\ p \in Paths
  BY RunFields DEF Knows, Look, TypeOK
<1>2. CASE watcher' # Take(p)
  <2>1. /\ watcher'.step = watcher.step
        /\ watcher'.batch = watcher.batch /\ watcher'.known = watcher.known
        /\ watcher'.asked = watcher.asked /\ watcher'.added = watcher.added
    BY <1>2 DEF Look, TypeOK, RunType
  <2> QED BY <1>1, <2>1 DEF Knows, Once, Failed, HashOf
<1>3. CASE watcher' = Take(p) /\ Hash[p] \in watcher.known
  <2>1. watcher' = [watcher EXCEPT !.todo = @ \ {p}] \/
        watcher' = [watcher EXCEPT !.todo = @ \ {p}, !.count = @ + (IF p \in VEX THEN 0 ELSE 1)]
    BY <1>3 DEF Look
  <2>2. /\ watcher'.step = watcher.step
        /\ watcher'.batch = watcher.batch /\ watcher'.known = watcher.known
        /\ watcher'.asked = watcher.asked /\ watcher'.added = watcher.added
    BY <2>1 DEF TypeOK, RunType
  <2> QED BY <1>1, <2>2 DEF Knows, Once, Failed, HashOf
<1>4. CASE watcher' = Take(p) /\ Hash[p] \notin watcher.known
  <2> DEFINE b == Job(p, "scan", watcher.asked)
  <2>1. /\ watcher'.step = watcher.step /\ watcher'.batch = Append(watcher.batch, b)
        /\ watcher'.known = watcher.known \cup {Hash[p]}
        /\ watcher'.asked = watcher.asked /\ watcher'.added = watcher.added
    BY <1>4 DEF Take, TypeOK, RunType
  <2>2. b.path = p /\ b.asked = watcher.asked
    BY DEF Job
  <2>3. Failed(Hash[p], watcher.asked)
    BY <1>1, <1>4, HashInHashes DEF Knows
  <2>4. /\ \A i \in watcher.added : HashOf(i) # Hash[p]
        /\ \A k \in DOMAIN watcher.batch : Hash[watcher.batch[k].path] # Hash[p]
    BY <1>1, <1>4 DEF Knows, Once
  <2> HIDE DEF b
  <2>5. /\ DOMAIN watcher'.batch = 1..(Len(watcher.batch) + 1)
        /\ DOMAIN watcher.batch = 1..Len(watcher.batch) /\ Len(watcher.batch) \in Nat
        /\ \A k \in DOMAIN watcher.batch : watcher'.batch[k] = watcher.batch[k]
        /\ watcher'.batch[Len(watcher.batch) + 1] = b
    BY <1>1, <2>1
  <2>6. \A k \in DOMAIN watcher'.batch : k \in DOMAIN watcher.batch \/ k = Len(watcher.batch) + 1
    BY <2>5
  <2>7. Knows'
    BY <1>1, <2>1 DEF Knows, Failed, HashOf
  <2>8. \A h, n : Failed(h, n)' <=> Failed(h, n)
    BY <1>1 DEF Failed, HashOf
  <2>9. ASSUME NEW k \in DOMAIN watcher'.batch
        PROVE  LET c == watcher'.batch[k]
               IN  c.asked = watcher'.asked /\ Failed(Hash[c.path], c.asked) /\ Hash[c.path] \in watcher'.known
    BY <2>1, <2>2, <2>3, <2>5, <2>6 DEF Once
  <2>10. ASSUME NEW k \in DOMAIN watcher'.batch, NEW l \in DOMAIN watcher'.batch,
                Hash[watcher'.batch[k].path] = Hash[watcher'.batch[l].path]
         PROVE  k = l
    <3>1. CASE k \in DOMAIN watcher.batch /\ l \in DOMAIN watcher.batch
      BY <2>5, <2>10, <3>1 DEF Once
    <3>2. CASE k \in DOMAIN watcher.batch /\ l \notin DOMAIN watcher.batch
      BY <2>2, <2>4, <2>5, <2>6, <2>10, <3>2
    <3>3. CASE k \notin DOMAIN watcher.batch /\ l \in DOMAIN watcher.batch
      BY <2>2, <2>4, <2>5, <2>6, <2>10, <3>3
    <3>4. CASE k \notin DOMAIN watcher.batch /\ l \notin DOMAIN watcher.batch
      BY <2>6, <3>4
    <3> QED BY <3>1, <3>2, <3>3, <3>4
  <2>11. ASSUME NEW i \in watcher'.added, NEW k \in DOMAIN watcher'.batch
         PROVE  Hash[jobs'[i].path] # Hash[watcher'.batch[k].path]
    BY <1>1, <2>1, <2>2, <2>4, <2>5, <2>6 DEF Once, HashOf
  <2>12. Once'
    BY <1>1, <2>9, <2>10, <2>11 DEF Once, Failed, HashOf
  <2> QED BY <2>7, <2>12
<1> QED BY <1>2, <1>3, <1>4

\* A batch that is inserted has hashes that are known and that this run had not queued.
LEMMA WatcherFlushes ==
  ASSUME TypeOK, Knows, Once, QueuedAgainForAReason, [Next]_vars, Flush
  PROVE  /\ Knows' /\ Once'
         /\ \A i, j \in watcher'.added : Hash[jobs'[i].path] = Hash[jobs'[j].path] => i = j
<1>1. Grown /\ TypeOK' /\ UNCHANGED req
  BY JobsGrow, TypeStep DEF Flush
<1>2. watcher.step # "idle" /\ watcher.asked \in Nat /\ watcher.batch \in Seq(JobType)
      /\ watcher.added \subseteq DOMAIN jobs /\ Len(jobs) \in Nat
      /\ DOMAIN jobs = 1..Len(jobs) /\ DOMAIN jobs' = 1..Len(jobs')
  BY <1>1, RunFields DEF Flush, FlushDue, Knows, TypeOK
<1>3. /\ watcher'.step = watcher.step /\ watcher'.batch = <<>> /\ watcher'.known = watcher.known
      /\ watcher'.asked = watcher.asked
      /\ watcher'.added \subseteq watcher.added \cup ((DOMAIN jobs') \ DOMAIN jobs)
  BY <1>1, <1>2 DEF Flush, TypeOK, RunType
<1>4. \A i \in (DOMAIN jobs') \ DOMAIN jobs :
        i - Len(jobs) \in DOMAIN watcher.batch /\ jobs'[i] = watcher.batch[i - Len(jobs)]
  BY <1>1, JobsGrow DEF New, At
<1>5. \A i \in watcher.added : Hash[jobs'[i].path] = HashOf(i)
  BY <1>1, <1>2 DEF Grown, HashOf
<1>6. \A i \in watcher'.added : Hash[jobs'[i].path] \in watcher.known
  BY <1>2, <1>3, <1>4, <1>5 DEF Knows, Once
<1>7. \A h : Failed(h, watcher.asked) => FailedAfter(h, watcher.asked)
  BY <1>2, FailedStays
<1>8. Knows'
  BY <1>2, <1>3, <1>6, <1>7 DEF Knows, Failed, FailedAfter, HashOf
<1>9. Once'
  BY <1>3, EmptyBatch DEF Once
<1>10. ASSUME NEW i \in watcher'.added, NEW j \in watcher'.added,
              Hash[jobs'[i].path] = Hash[jobs'[j].path]
       PROVE  i = j
  <2>1. CASE i \in watcher.added /\ j \in watcher.added
    BY <1>5, <1>10, <2>1 DEF QueuedAgainForAReason
  <2>2. CASE i \in watcher.added /\ j \notin watcher.added
    BY <1>3, <1>4, <1>5, <1>10, <2>2 DEF Once
  <2>3. CASE i \notin watcher.added /\ j \in watcher.added
    BY <1>3, <1>4, <1>5, <1>10, <2>3 DEF Once
  <2>4. CASE i \notin watcher.added /\ j \notin watcher.added
    <3>1. i - Len(jobs) = j - Len(jobs)
      BY <1>3, <1>4, <1>10, <2>4 DEF Once
    <3> QED BY <1>2, <1>3, <2>4, <3>1
  <2> QED BY <2>1, <2>2, <2>3, <2>4
<1> QED BY <1>8, <1>9, <1>10

LEMMA HistoryStep == TypeOK /\ History /\ [Next]_vars => History'
<1> SUFFICES ASSUME TypeOK, History, [Next]_vars PROVE History'
  OBVIOUS
<1> USE DEF History
<1>1. Asked'
  BY AskedStep DEF Asked, Failed, FailedAfter, HashOf
<1>2. /\ Knows' /\ Once'
      /\ \A i, j \in watcher'.added : Hash[jobs'[i].path] = Hash[jobs'[j].path] => i = j
  <2>0. ASSUME watcher'.added = watcher.added
        PROVE  \A i, j \in watcher'.added : Hash[jobs'[i].path] = Hash[jobs'[j].path] => i = j
    BY <2>0, JobsGrow DEF Grown, QueuedAgainForAReason, HashOf, TypeOK
  <2>1. CASE UNCHANGED watcher
    BY <2>0, <2>1, WatcherRests
  <2>2. CASE StartRun
    <3>1. /\ watcher'.step = "start" /\ watcher'.todo = {} /\ watcher'.batch = <<>> /\ watcher'.added = {}
          /\ watcher'.asked = Len(jobs) /\ watcher'.known = KnownHashes /\ UNCHANGED jobs
      BY <2>2, NoRunHasType DEF StartRun, RunType
    <3>2. Knows'
      BY <3>1, Unknown DEF Knows, Failed, HashOf
    <3> QED BY <3>1, <3>2, EmptyBatch DEF Once
  <2>3. CASE WatcherDies
    <3>1. watcher'.step = "idle" /\ watcher'.todo = {} /\ watcher'.batch = <<>> /\ watcher'.added = {}
      BY <2>3, NoRunHasType DEF WatcherDies
    <3> QED BY <3>1, EmptyBatch DEF Knows, Once
  <2>4. CASE ScanDir \/ ListBuckets
    <3>1. PICK from \in {InDir, Listable}, step \in {"dir", "s3"} : List(from, step) /\ watcher.step # "idle"
      BY <2>4 DEF ScanDir, ListBuckets
    <3>2. watcher'.added = watcher.added
      BY <3>1 DEF List, TypeOK, RunType
    <3> QED BY <2>0, <3>1, <3>2, WatcherLists
  <2>5. ASSUME NEW p \in watcher.todo, Look(p) PROVE <1>2
    <3>1. watcher'.added = watcher.added
      BY <2>5, TypeOfTake DEF Look, TypeOK, RunType
    <3> QED BY <2>0, <2>5, <3>1, WatcherLooks
  <2>6. CASE Flush
    BY <2>6, WatcherFlushes
  <2>7. CASE EndRun
    <3>1. /\ watcher'.step = "idle" /\ watcher'.todo = {} /\ watcher'.batch = <<>>
          /\ watcher'.added = watcher.added
      BY <2>7 DEF EndRun, SourceDone, TypeOK, RunType
    <3> QED BY <2>0, <3>1, EmptyBatch DEF Knows, Once
  <2> QED BY <2>1, <2>2, <2>3, <2>4, <2>5, <2>6, <2>7 DEF Next, Worker, Process, Scan,
             Handle, Place, Check, Store, Enqueue, CleanUp, GatewayDies, vars
<1>3. QueuedAgainForAReason'
  BY <1>2, AgainStep DEF QueuedAgainForAReason, HashOf
<1> QED BY <1>1, <1>2, <1>3

\* A document is queued again only after its job failed, or by one who had asked
\* before; never twice by one run.  (uploadHandler, KnownHashes and the watcher.)
THEOREM QueuedOnceUnlessFailedOrCrossed == Spec => []QueuedAgainForAReason
<1>1. Init => History
  BY DEF Init, NoRun, History, Asked, Knows, Once, QueuedAgainForAReason
<1>2. TypeOK /\ History /\ [Next]_vars => History'
  BY HistoryStep
<1>3. History => QueuedAgainForAReason
  BY DEF History
<1> QED BY <1>1, <1>2, <1>3, TypeCorrect, PTL DEF Spec

-----------------------------------------------------------------------------
(* UploadsKeepTheirLabels: nothing is pulled from a bucket that is not     *)
(* scanned.                                                                *)

Pulled ==
  /\ watcher.todo \cap Pushed = {}
  /\ \A k \in DOMAIN watcher.batch : watcher.batch[k].path \notin Pushed
  /\ \A i \in DOMAIN jobs : jobs[i].origin = "scan" => jobs[i].path \notin Pushed
  /\ \A h \in Hashes : \A u \in Pushed : ingested[h] # [path |-> u, origin |-> "scan"]

LEMMA PulledImplies == Pulled => UploadsKeepTheirLabels
BY DiscoveryAssumption DEF Pulled, UploadsKeepTheirLabels, Hashes, Paths

LEMMA PulledStep == TypeOK /\ Pulled /\ [Next]_vars => Pulled'
<1> SUFFICES ASSUME TypeOK, Pulled, [Next]_vars PROVE Pulled'
  OBVIOUS
<1>1. \A i \in DOMAIN jobs' : jobs'[i].origin = "scan" => jobs'[i].path \notin Pushed
  <2>1. ASSUME NEW i \in DOMAIN jobs, jobs'[i].origin = "scan" PROVE jobs'[i].path \notin Pushed
    BY <2>1, JobsGrow DEF Grown, Pulled
  <2>2. ASSUME NEW i \in (DOMAIN jobs') \ DOMAIN jobs, jobs'[i].origin = "scan" PROVE jobs'[i].path \notin Pushed
    <3>1. New(i)
      BY JobsGrow
    <3>2. ~ \E u \in Uploads : jobs'[i] = Job(u, "upload", req[u].asked)
      BY <2>2 DEF Job
    <3> QED BY <3>1, <3>2 DEF New, Pulled
  <2> QED BY <2>1, <2>2
<1>2. \A h \in Hashes : \A u \in Pushed : ingested'[h] # [path |-> u, origin |-> "scan"]
  <2>1. ASSUME NEW i \in DOMAIN jobs, Process(i),
               NEW h \in Hashes, NEW u \in Pushed, ingested'[h] = [path |-> u, origin |-> "scan"]
        PROVE  FALSE
    <3>1. ingested'[h] = ingested[h] \/ ingested'[h] = [path |-> jobs[i].path, origin |-> jobs[i].origin]
      BY <2>1 DEF Process, TypeOK
    <3>2. jobs[i].path = u /\ jobs[i].origin = "scan"
      BY <2>1, <3>1 DEF Pulled
    <3> QED BY <3>2 DEF Pulled
  <2>2. CASE UNCHANGED ingested
    BY <2>2 DEF Pulled
  <2> QED BY <2>1, <2>2 DEF Next, Worker, Scan, StartRun, ScanDir, ListBuckets, List, Look, Flush, EndRun,
             WatcherDies, Handle, Place, Check, Store, Enqueue, CleanUp, GatewayDies, vars
<1>3. watcher'.todo \cap Pushed = {} /\ \A k \in DOMAIN watcher'.batch : watcher'.batch[k].path \notin Pushed
  <2>1. CASE UNCHANGED watcher
    BY <2>1 DEF Pulled
  <2>2. CASE StartRun \/ WatcherDies
    <3>1. watcher'.todo = {} /\ watcher'.batch = <<>>
      BY <2>2, NoRunHasType DEF StartRun, WatcherDies, RunType
    <3> QED BY <3>1, EmptyBatch
  <2>3. CASE ScanDir \/ ListBuckets
    <3>1. PICK from \in {InDir, Listable}, step \in {"dir", "s3"} : List(from, step)
      BY <2>3 DEF ScanDir, ListBuckets
    <3>2. watcher'.todo \subseteq from /\ watcher'.batch = watcher.batch
      BY <3>1 DEF List, TypeOK, RunType
    <3>3. from \cap Pushed = {}
      BY <3>1, DiscoveryAssumption DEF InDir, Listable
    <3> QED BY <3>2, <3>3 DEF Pulled
  <2>4. ASSUME NEW p \in watcher.todo, Look(p) PROVE <1>3
    <3>1. CASE watcher' = Take(p)
      <4> DEFINE b == Job(p, "scan", watcher.asked)
      <4>1. watcher'.todo = watcher.todo \ {p} /\ watcher'.batch = Append(watcher.batch, b)
        BY <3>1 DEF Take, TypeOK, RunType
      <4>2. b.path = p /\ watcher.batch \in Seq(JobType)
        BY RunFields DEF Job, TypeOK
      <4> HIDE DEF b
      <4>3. \A k \in DOMAIN watcher'.batch :
              (k \in DOMAIN watcher.batch /\ watcher'.batch[k] = watcher.batch[k]) \/ watcher'.batch[k] = b
        BY <4>1, <4>2
      <4> QED BY <4>1, <4>2, <4>3 DEF Pulled
    <3>2. CASE watcher' # Take(p)
      <4>1. watcher'.todo = watcher.todo \ {p} /\ watcher'.batch = watcher.batch
        BY <2>4, <3>2 DEF Look, TypeOK, RunType
      <4> QED BY <4>1 DEF Pulled
    <3> QED BY <3>1, <3>2
  <2>5. CASE Flush \/ EndRun
    <3>1. watcher'.todo = watcher.todo /\ (watcher'.batch = <<>> \/ watcher'.batch = watcher.batch)
      BY <2>5 DEF Flush, EndRun, TypeOK, RunType
    <3> QED BY <3>1, EmptyBatch DEF Pulled
  <2> QED BY <2>1, <2>2, <2>3, <2>4, <2>5 DEF Next, Worker, Process, Scan,
             Handle, Place, Check, Store, Enqueue, CleanUp, GatewayDies, vars
<1> QED BY <1>1, <1>2, <1>3 DEF Pulled

\* No upload that was accepted and put into a skipScan bucket is ingested with
\* labels made from its path.  (ListObjects leaves the bucket out.)
THEOREM PushedKeepTheirLabels == Spec => []UploadsKeepTheirLabels
<1>1. Init => Pulled
  <2> SUFFICES ASSUME Init PROVE Pulled
    OBVIOUS
  <2>1. watcher.todo = {} /\ watcher.batch = <<>> /\ jobs = <<>> /\ ingested = [h \in Hashes |-> None]
    BY NoRunHasType DEF Init
  <2>2. \A u \in Pushed : None # [path |-> u, origin |-> "scan"]
    BY DiscoveryAssumption DEF Paths
  <2> QED BY <2>1, <2>2, EmptyBatch DEF Pulled
<1>2. TypeOK /\ Pulled /\ [Next]_vars => Pulled'
  BY PulledStep
<1> QED BY <1>1, <1>2, TypeCorrect, PulledImplies, PTL DEF Spec

-----------------------------------------------------------------------------
(* CleanRunQueuesAll.                                                      *)

Queued(h) == \E i \in DOMAIN jobs : HashOf(i) = h
Batched(h) == \E k \in DOMAIN watcher.batch : Hash[watcher.batch[k].path] = h

\* What the run has been through, and the SBOMs of that.
Seen == watcher.listed \ watcher.todo
SBOMsSeen == Seen \ VEX

\* Where the run is: it lists the buckets after the directory, each once.
Listing ==
  /\ IsFiniteSet(stored)
  /\ watcher.step \in {"idle", "start"} => watcher.todo = {} /\ watcher.batch = <<>>
  /\ watcher.step = "start" => watcher.listed = {} /\ watcher.count = 0
  /\ watcher.step = "dir" => watcher.listed \subseteq InDir

\* A clean run has queued, or has in its batch, what it knows and what it has been through;
\* its counter says how many SBOMs that were at most, so one that is over the limit makes
\* more than the limit.
Complete ==
  watcher.clean =>
    /\ watcher.todo \subseteq watcher.listed /\ IsFiniteSet(watcher.listed)
    /\ \A h \in watcher.known : Queued(h) \/ Batched(h)
    /\ watcher.count <= Cardinality(SBOMsSeen)
    /\ \A p \in Seen : \/ Queued(Hash[p]) \/ Batched(Hash[p])
                       \/ p \notin VEX /\ Limit > 0 /\ Cardinality(SBOMsSeen) > Limit

LEMMA QueuedStays ==
  ASSUME TypeOK, [Next]_vars, NEW h, Queued(h)
  PROVE  Queued(h)'
<1>1. PICK i \in DOMAIN jobs : HashOf(i) = h
  BY DEF Queued
<1>2. Grown
  BY JobsGrow
<1>3. i \in DOMAIN jobs' /\ jobs'[i].path = jobs[i].path
  <2>1. TypeOK'
    BY TypeStep
  <2> QED BY <1>2, <2>1 DEF Grown, TypeOK
<1> QED BY <1>1, <1>3 DEF Queued, HashOf

LEMMA StoredFinite ==
  ASSUME IsFiniteSet(stored), [Next]_vars
  PROVE  IsFiniteSet(stored')
<1>1. (\E p : stored' \in {stored \cup {p}, stored \ {p}}) \/ stored' = stored
  BY DEF Next, Worker, Process, StartRun, Scan, ScanDir, ListBuckets, List, Look, Flush, EndRun, WatcherDies,
         Place, Handle, Check, Store, Enqueue, CleanUp, GatewayDies, vars
<1> QED BY <1>1, FS_AddElement, FS_RemoveElement

\* A listing, the directory's before the buckets'.
LEMMA ListingCompletes ==
  ASSUME TypeOK, Listing, Complete, NEW from, NEW step \in {"dir", "s3"}, List(from, step),
         watcher.todo = {}, watcher.listed \cap from = {}
  PROVE  /\ Complete' /\ watcher'.listed \subseteq watcher.listed \cup from
         /\ watcher'.step = step
<1>1. PICK found \in SUBSET (stored \cap from) :
        watcher' = [watcher EXCEPT !.step = step, !.todo = found, !.listed = @ \cup (stored \cap from),
                                   !.clean = @ /\ found = stored \cap from]
  BY DEF List
<1>2. /\ watcher'.step = step /\ watcher'.todo = found /\ watcher'.listed = watcher.listed \cup (stored \cap from)
      /\ watcher'.clean = (watcher.clean /\ found = stored \cap from)
      /\ watcher'.known = watcher.known /\ watcher'.batch = watcher.batch /\ watcher'.count = watcher.count
  BY <1>1 DEF TypeOK, RunType
<1>3. ASSUME watcher'.clean PROVE Complete'
  <2>1. watcher.clean /\ watcher'.todo = stored \cap from
    BY <1>2, <1>3
  <2>2. Seen' = Seen /\ SBOMsSeen' = SBOMsSeen
    BY <1>2, <2>1 DEF Seen, SBOMsSeen
  <2>3. IsFiniteSet(watcher'.listed)
    <3>1. IsFiniteSet(stored \cap from)
      BY FS_Subset DEF Listing
    <3>2. IsFiniteSet(watcher.listed)
      BY <2>1 DEF Complete
    <3>3. IsFiniteSet(watcher.listed \cup (stored \cap from))
      BY <3>1, <3>2, FS_Union
    <3> QED BY <1>2, <3>3
  <2>4. \A h : (Queued(h) <=> Queued(h)') /\ (Batched(h) <=> Batched(h)')
    BY <1>2 DEF List, Queued, HashOf, Batched
  <2> QED BY <1>2, <2>1, <2>2, <2>3, <2>4 DEF Complete
<1> QED BY <1>2, <1>3 DEF Complete

\* One more document is seen.
LEMMA SeeingOne ==
  ASSUME TypeOK, Complete, watcher.clean, NEW p \in watcher.todo,
         watcher'.listed = watcher.listed, watcher'.todo = watcher.todo \ {p}
  PROVE  /\ Seen' = Seen \cup {p} /\ IsFiniteSet(SBOMsSeen)
         /\ Cardinality(SBOMsSeen) \in Nat /\ Cardinality(SBOMsSeen') \in Nat
         /\ p \in VEX => SBOMsSeen' = SBOMsSeen
         /\ p \notin VEX => Cardinality(SBOMsSeen') = Cardinality(SBOMsSeen) + 1
<1>1. p \in watcher.listed /\ p \notin Seen /\ IsFiniteSet(watcher.listed)
  BY DEF Complete, Seen
<1>2. Seen' = Seen \cup {p}
  BY <1>1 DEF Seen
<1>3. IsFiniteSet(SBOMsSeen)
  BY <1>1, FS_Subset DEF SBOMsSeen, Seen
<1>4. /\ p \in VEX => SBOMsSeen' = SBOMsSeen
      /\ p \notin VEX => SBOMsSeen' = SBOMsSeen \cup {p} /\ p \notin SBOMsSeen
  BY <1>1, <1>2 DEF SBOMsSeen
<1>5. Cardinality(SBOMsSeen) \in Nat
  BY <1>3, FS_CardinalityType
<1>6. p \notin VEX => Cardinality(SBOMsSeen') = Cardinality(SBOMsSeen) + 1
  BY <1>3, <1>4, FS_AddElement
<1> QED BY <1>2, <1>3, <1>4, <1>5, <1>6

LEMMA LookCompletes ==
  ASSUME TypeOK, Complete, NEW p \in watcher.todo, Look(p)
  PROVE  Complete'
<1> SUFFICES ASSUME watcher'.clean PROVE Complete'
  BY DEF Complete
<1>1. /\ watcher.count \in Nat /\ watcher.batch \in Seq(JobType) /\ jobs' = jobs /\ Limit \in Nat
  BY RunFields, DiscoveryAssumption DEF Look, TypeOK
<1>2. \A h : Queued(h) <=> Queued(h)'
  BY <1>1 DEF Queued, HashOf
<1>3. CASE watcher' = [watcher EXCEPT !.todo = @ \ {p}] /\ OverLimit(p)
  <2>1. /\ watcher'.todo = watcher.todo \ {p} /\ watcher'.listed = watcher.listed
        /\ watcher'.clean = watcher.clean /\ watcher'.known = watcher.known
        /\ watcher'.batch = watcher.batch /\ watcher'.count = watcher.count
    BY <1>3 DEF TypeOK, RunType
  <2>2. p \notin VEX /\ Limit > 0 /\ watcher.count >= Limit
    BY <1>3 DEF OverLimit
  <2>3. /\ Seen' = Seen \cup {p} /\ Cardinality(SBOMsSeen) \in Nat
        /\ Cardinality(SBOMsSeen') = Cardinality(SBOMsSeen) + 1
    BY <2>1, <2>2, SeeingOne
  <2>4. watcher.count <= Cardinality(SBOMsSeen)
    BY <2>1 DEF Complete
  <2>5. watcher'.count <= Cardinality(SBOMsSeen') /\ Cardinality(SBOMsSeen') > Limit
    BY <1>1, <2>1, <2>2, <2>3, <2>4
  <2>6. \A h : Batched(h) <=> Batched(h)'
    BY <2>1 DEF Batched
  <2> QED BY <1>2, <2>1, <2>2, <2>3, <2>5, <2>6 DEF Complete
<1>4. ASSUME watcher'.todo = watcher.todo \ {p}, watcher'.listed = watcher.listed, watcher.clean,
             watcher'.count = watcher.count + (IF p \in VEX THEN 0 ELSE 1),
             \A h : Batched(h) => Batched(h)',
             \A h \in watcher'.known : h \in watcher.known \/ Batched(h)',
             Queued(Hash[p]) \/ Batched(Hash[p])'
      PROVE  Complete'
  <2>1. /\ Seen' = Seen \cup {p} /\ Cardinality(SBOMsSeen) \in Nat /\ Cardinality(SBOMsSeen') \in Nat
        /\ p \in VEX => SBOMsSeen' = SBOMsSeen
        /\ p \notin VEX => Cardinality(SBOMsSeen') = Cardinality(SBOMsSeen) + 1
    BY <1>4, SeeingOne
  <2>2. watcher.count <= Cardinality(SBOMsSeen)
    BY <1>4 DEF Complete
  <2>3. watcher'.count <= Cardinality(SBOMsSeen')
    BY <1>1, <1>4, <2>1, <2>2
  <2>4. Cardinality(SBOMsSeen) > Limit => Cardinality(SBOMsSeen') > Limit
    BY <1>1, <2>1
  <2>5. \A q \in Seen' : \/ Queued(Hash[q])' \/ Batched(Hash[q])'
                         \/ q \notin VEX /\ Limit > 0 /\ Cardinality(SBOMsSeen') > Limit
    BY <1>2, <1>4, <2>1, <2>4 DEF Complete
  <2>6. \A h \in watcher'.known : Queued(h)' \/ Batched(h)'
    BY <1>2, <1>4 DEF Complete
  <2>7. watcher'.todo \subseteq watcher'.listed /\ IsFiniteSet(watcher'.listed)
    BY <1>4 DEF Complete
  <2> QED BY <2>3, <2>5, <2>6, <2>7 DEF Complete
<1>5. CASE watcher' = Take(p)
  <2> DEFINE b == Job(p, "scan", watcher.asked)
  <2>1. /\ watcher'.todo = watcher.todo \ {p} /\ watcher'.listed = watcher.listed
        /\ watcher'.clean = watcher.clean /\ watcher'.known = watcher.known \cup {Hash[p]}
        /\ watcher'.batch = Append(watcher.batch, b)
        /\ watcher'.count = watcher.count + (IF p \in VEX THEN 0 ELSE 1)
    BY <1>5 DEF Take, TypeOK, RunType
  <2>2. b.path = p
    BY DEF Job
  <2> HIDE DEF b
  <2>3. /\ \A k \in DOMAIN watcher.batch : k \in DOMAIN watcher'.batch /\ watcher'.batch[k] = watcher.batch[k]
        /\ Len(watcher.batch) + 1 \in DOMAIN watcher'.batch /\ watcher'.batch[Len(watcher.batch) + 1] = b
    BY <1>1, <2>1
  <2>4. Batched(Hash[p])' /\ \A h : Batched(h) => Batched(h)'
    BY <2>2, <2>3 DEF Batched
  <2> QED BY <1>4, <2>1, <2>4
<1>6. CASE /\ watcher' = [watcher EXCEPT !.todo = @ \ {p}, !.count = @ + (IF p \in VEX THEN 0 ELSE 1)]
           /\ Hash[p] \in watcher.known
  <2>1. /\ watcher'.todo = watcher.todo \ {p} /\ watcher'.listed = watcher.listed
        /\ watcher'.clean = watcher.clean /\ watcher'.known = watcher.known
        /\ watcher'.batch = watcher.batch /\ watcher'.count = watcher.count + (IF p \in VEX THEN 0 ELSE 1)
    BY <1>6 DEF TypeOK, RunType
  <2>2. \A h : Batched(h) <=> Batched(h)'
    BY <2>1 DEF Batched
  <2>3. Queued(Hash[p]) \/ Batched(Hash[p])'
    BY <1>6, <2>1, <2>2 DEF Complete
  <2> QED BY <1>4, <2>1, <2>2, <2>3
<1> QED BY <1>3, <1>5, <1>6 DEF Look

\* The batch becomes jobs, or the run is not clean.
LEMMA FlushCompletes ==
  ASSUME TypeOK, Complete, [Next]_vars, Flush
  PROVE  Complete'
<1> SUFFICES ASSUME watcher'.clean PROVE Complete'
  BY DEF Complete
<1>1. /\ jobs' = jobs \o watcher.batch /\ watcher.clean /\ watcher'.batch = <<>>
      /\ watcher'.todo = watcher.todo /\ watcher'.listed = watcher.listed
      /\ watcher'.known = watcher.known /\ watcher'.count = watcher.count
  BY DEF Flush, TypeOK, RunType
<1>2. jobs \in Seq(JobType) /\ watcher.batch \in Seq(JobType)
  BY RunFields DEF TypeOK
<1>3. ASSUME NEW h, Batched(h) PROVE Queued(h)'
  <2>1. PICK k \in DOMAIN watcher.batch : Hash[watcher.batch[k].path] = h
    BY <1>3 DEF Batched
  <2>2. Len(jobs) + k \in DOMAIN jobs' /\ jobs'[Len(jobs) + k] = watcher.batch[k]
    BY <1>1, <1>2
  <2> QED BY <2>1, <2>2 DEF Queued, HashOf
<1>4. \A h : Queued(h) => Queued(h)'
  BY QueuedStays
<1>5. Seen' = Seen /\ SBOMsSeen' = SBOMsSeen
  BY <1>1 DEF Seen, SBOMsSeen
<1> QED BY <1>1, <1>3, <1>4, <1>5 DEF Complete

LEMMA CompleteStep == TypeOK /\ Listing /\ Complete /\ [Next]_vars => Listing' /\ Complete'
<1> SUFFICES ASSUME TypeOK, Listing, Complete, [Next]_vars PROVE Listing' /\ Complete'
  OBVIOUS
<1>1. IsFiniteSet(stored')
  BY StoredFinite DEF Listing
<1>2. CASE UNCHANGED watcher
  <2>1. Seen' = Seen /\ SBOMsSeen' = SBOMsSeen /\ \A h : Batched(h) => Batched(h)'
    BY <1>2 DEF Seen, SBOMsSeen, Batched
  <2>2. \A h : Queued(h) => Queued(h)'
    BY QueuedStays
  <2>3. Complete'
    BY <1>2, <2>1, <2>2 DEF Complete
  <2> QED BY <1>1, <1>2, <2>3 DEF Listing
<1>3. CASE StartRun
  <2>1. /\ watcher'.step = "start" /\ watcher'.todo = {} /\ watcher'.batch = <<>> /\ watcher'.listed = {}
        /\ watcher'.count = 0 /\ watcher'.known = KnownHashes /\ UNCHANGED jobs
    BY <1>3 DEF StartRun, NoRun
  <2>2. \A h \in watcher'.known : Queued(h)'
    BY <2>1 DEF KnownHashes, Queued, HashOf
  <2>3. Seen' = {} /\ SBOMsSeen' = {} /\ Cardinality(SBOMsSeen') = 0 /\ IsFiniteSet(watcher'.listed)
    BY <2>1, FS_EmptySet DEF Seen, SBOMsSeen
  <2>4. Complete'
    BY <2>1, <2>2, <2>3 DEF Complete
  <2> QED BY <1>1, <2>1, <2>4 DEF Listing
<1>4. CASE WatcherDies
  <2>1. watcher' = NoRun /\ NoRun.clean = FALSE
    BY <1>4 DEF WatcherDies, NoRun
  <2> QED BY <1>1, <2>1, NoRunHasType DEF Listing, Complete
<1>5. CASE ScanDir
  <2>1. watcher.step = "start" /\ List(InDir, "dir") /\ watcher.todo = {} /\ watcher.listed = {}
    BY <1>5 DEF ScanDir, Listing
  <2>2. Complete' /\ watcher'.listed \subseteq InDir /\ watcher'.step = "dir"
    BY <2>1, ListingCompletes
  <2> QED BY <1>1, <2>2 DEF Listing
<1>6. CASE ListBuckets
  <2>1. List(Listable, "s3") /\ watcher.todo = {} /\ watcher.listed \subseteq InDir
    BY <1>6 DEF ListBuckets, SourceDone, Listing
  <2>2. watcher.listed \cap Listable = {}
    BY <2>1, DiscoveryAssumption DEF InDir, Listable
  <2>3. Complete' /\ watcher'.step = "s3"
    BY <2>1, <2>2, ListingCompletes
  <2> QED BY <1>1, <2>3 DEF Listing
<1>7. ASSUME NEW p \in watcher.todo, Look(p) PROVE Listing' /\ Complete'
  <2>1. watcher'.step = watcher.step /\ watcher'.listed = watcher.listed
    BY <1>7 DEF Look, Take, TypeOK, RunType
  <2>2. watcher.step \notin {"idle", "start"}
    BY <1>7 DEF Listing
  <2> QED BY <1>1, <1>7, <2>1, <2>2, LookCompletes DEF Listing
<1>8. CASE Flush
  <2>1. watcher'.step = watcher.step /\ watcher'.listed = watcher.listed
    BY <1>8 DEF Flush, TypeOK, RunType
  <2>2. watcher.step \notin {"idle", "start"}
    BY <1>8 DEF Flush, FlushDue, Listing
  <2> QED BY <1>1, <1>8, <2>1, <2>2, FlushCompletes DEF Listing
<1>9. CASE EndRun
  <2>1. /\ watcher'.step = "idle" /\ watcher'.todo = {} /\ watcher.todo = {} /\ watcher'.batch = <<>>
        /\ watcher.batch = <<>> /\ watcher'.listed = watcher.listed /\ watcher'.known = {}
        /\ watcher'.count = watcher.count /\ watcher'.clean = watcher.clean /\ UNCHANGED jobs
    BY <1>9 DEF EndRun, SourceDone, TypeOK, RunType
  <2>2. Seen' = Seen /\ SBOMsSeen' = SBOMsSeen
    BY <2>1 DEF Seen, SBOMsSeen
  <2>3. \A h : (Queued(h) <=> Queued(h)') /\ (Batched(h) <=> Batched(h)')
    BY <2>1 DEF Queued, HashOf, Batched
  <2>4. Complete'
    BY <2>1, <2>2, <2>3 DEF Complete
  <2> QED BY <1>1, <2>1, <2>4 DEF Listing
<1> QED BY <1>2, <1>3, <1>4, <1>5, <1>6, <1>7, <1>8, <1>9 DEF Next, Worker, Process, Scan,
           Handle, Place, Check, Store, Enqueue, CleanUp, GatewayDies, vars

\* CleanRunQueuesAll: a run of the watcher in which nothing fails leaves a listed document
\* without a job only if it is an SBOM and the run saw more of them than SBOM_LIMIT, for
\* any batch size: no batch is left behind and no hash taken for known that has no job.
THEOREM CleanRunsAreComplete == Spec => []CleanRunQueuesAll
<1>1. Init => Listing /\ Complete
  BY FS_EmptySet DEF Init, NoRun, Listing, Complete
<1>2. TypeOK /\ Listing /\ Complete /\ [Next]_vars => Listing' /\ Complete'
  BY CompleteStep
<1>3. Listing /\ Complete => CleanRunQueuesAll
  <2> SUFFICES ASSUME Listing, Complete, watcher.step = "idle", watcher.clean, NEW p \in watcher.listed
               PROVE  \/ \E i \in DOMAIN jobs : HashOf(i) = Hash[p]
                      \/ p \notin VEX /\ Limit > 0 /\ Cardinality(watcher.listed \ VEX) > Limit
    BY DEF CleanRunQueuesAll
  <2>1. watcher.todo = {} /\ watcher.batch = <<>>
    BY DEF Listing
  <2>2. Seen = watcher.listed /\ SBOMsSeen = watcher.listed \ VEX /\ ~Batched(Hash[p])
    BY <2>1, EmptyBatch DEF Seen, SBOMsSeen, Batched
  <2> QED BY <2>2 DEF Complete, Queued
<1> QED BY <1>1, <1>2, <1>3, TypeCorrect, PTL DEF Spec

===============================================================================
