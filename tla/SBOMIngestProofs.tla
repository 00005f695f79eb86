--------------------------- MODULE SBOMIngestProofs ---------------------------
(***************************************************************************)
(* CommittedIsComplete, NoOrphans and OneOwner of SBOMIngest, for any      *)
(* workers, jobs for one content, source files, licences that their        *)
(* passes find, deferrals and faults.                                      *)
(***************************************************************************)
EXTENDS SBOMIngest, TLAPS

\* A worker with a job in hand; one that is past the guard.
Working(w) == act[w].step # "idle"
Busy(w) == act[w].step \notin {"idle", "guard"}

\* A job is in one worker's hands, and one that is done has left an SBOM.
Holding ==
  /\ \A w \in Workers : Working(w) => queue[act[w].job] = "running"
  /\ \A v, w \in Workers : Working(v) /\ Working(w) /\ act[v].job = act[w].job => v = w
  /\ \A j \in Jobs : queue[j] = "done" => sboms # {}

\* The rows a worker has written are there when it goes on.
Written ==
  /\ \A w \in Workers :
       /\ act[w].step \in {"compliance", "commit"} => PackagesRow(w) \in packages
       /\ act[w].step = "commit" => Covered(PackagesRow(w))
  /\ sboms # {} => \E row \in packages : Covered(row)

\* Unless jobs crossed, one worker at most is past the guard, and none once the
\* SBOM is there.
Alone == ~crossed => \A w \in Workers : Busy(w) => sboms = {} /\ \A v \in Workers : Busy(v) => v = w

\* Then what the worker past the guard has stored and recorded is what there is.
Captured == ~crossed =>
  /\ \A w \in Workers :
       /\ act[w].step = "record" => Source[act[w].job] \in blobs
       /\ act[w].step \in {"clean", "resolve", "packages", "compliance", "commit"} =>
            record = Source[act[w].job] /\ HasOriginal
  /\ sboms # {} => HasOriginal

\* A worker whose packages are written.
Inserted(w) == act[w].step \in {"compliance", "commit"}

\* No row is from the future; unless jobs crossed, whoever is past the guard claimed
\* before anybody else in hand, and each worker is newer than the rows of others.
Past ==
  /\ \A w \in Workers : Working(w) => act[w].at <= clock
  /\ \A r \in packages : r.at <= clock
Newer == ~crossed => \A w \in Workers : Working(w) =>
  /\ \A v \in Workers : Busy(v) /\ v # w => act[v].at < act[w].at
  /\ \A r \in packages : r.at < act[w].at \/ (Inserted(w) /\ r = PackagesRow(w))

\* r is the newest row of the packages.
Leads(r) == r \in packages /\ \A q \in packages : q = r \/ q.at < r.at

\* The compliance rows of the licences in r have the owner of r.
Labelled(r) == \A l \in r.found : compliance[l] = r.owner

\* Unless jobs crossed, the rows that are shown are those of one pass.
Owned == ~crossed =>
  /\ \A w \in Workers :
       /\ Inserted(w) => PackagesRow(w) \in packages
       /\ act[w].step = "commit" => Labelled(PackagesRow(w))
  /\ sboms # {} => \E r \in packages :
       sboms = {[owner |-> r.owner, at |-> r.at]} /\ Leads(r) /\ Labelled(r)

\* Without faults either, a blob that is not recorded is about to be, or to be deleted.
Changing(w) == act[w].step \in {"record", "clean"}
Kept(key) == {key} \ {None}
Tidy == ~crossed /\ faults = 0 =>
  /\ \A w \in Workers :
       /\ act[w].step \in {"put", "record"} => act[w].prev = record
       /\ Changing(w) => blobs = Kept(act[w].prev) \cup {Source[act[w].job]}
  /\ (\A w \in Workers : ~Changing(w)) => blobs = Kept(record)

IInv == TypeOK /\ Holding /\ Written /\ Alone /\ Captured /\ Past /\ Newer /\ Owned /\ Tidy

LEMMA Initially == Init => IInv
<1> SUFFICES ASSUME Init PROVE IInv
  OBVIOUS
<1> USE DEF Init
<1>1. TypeOK
  <2>1. queue \in [Jobs -> {"waiting", "running", "done", "failed"}] /\ act \in [Workers -> Activity \cup {Idle}]
    OBVIOUS
  <2>2. crossed \in BOOLEAN
    OBVIOUS
  <2>3. clock \in Nat /\ deferrals \in 0..MaxDeferrals /\ faults \in 0..MaxFaults
    BY IngestAssumption
  <2> QED BY <2>1, <2>2, <2>3 DEF TypeOK
<1>2. \A w \in Workers : act[w].step = "idle"
  BY DEF Idle
<1>3. Holding /\ Written
  BY <1>2 DEF Holding, Written, Working
<1>4. Alone /\ Captured
  BY <1>2 DEF Alone, Captured, Busy
<1>5. Past /\ Newer /\ Owned
  BY <1>2 DEF Past, Newer, Owned, Inserted, Working, Busy
<1>6. Tidy
  BY <1>2 DEF Tidy, Changing, Kept
<1> QED BY <1>1, <1>3, <1>4, <1>5, <1>6 DEF IInv

\* A worker without a job, and one with a job.
LEMMA InHand ==
  ASSUME TypeOK, NEW w \in Workers
  PROVE  /\ Working(w) <=> act[w] # Idle
         /\ Working(w) => /\ act[w].job \in Jobs /\ act[w].step \in Steps
                          /\ act[w].at \in Nat /\ act[w].prev \in Sources \cup {None}
                          /\ act[w].found \in SUBSET Licenses
BY DEF TypeOK, Working, Activity, Steps, Idle

\* What a worker that goes on or stops does to the activities and to the queue.
LEMMA Goes ==
  ASSUME TypeOK, NEW w \in Workers, Working(w), NEW step \in Steps, Goto(w, step)
  PROVE  /\ queue' = queue /\ act' \in [Workers -> Activity \cup {Idle}]
         /\ act'[w].step = step /\ act'[w].job = act[w].job /\ act'[w].at = act[w].at
         /\ act'[w].prev = act[w].prev /\ act'[w].found = act[w].found
         /\ \A v \in Workers \ {w} : act'[v] = act[v]
BY InHand DEF TypeOK, Goto, Activity

LEMMA Stops ==
  ASSUME TypeOK, NEW w \in Workers, Working(w),
         NEW status \in {"waiting", "done", "failed"}, Finish(w, status)
  PROVE  /\ queue' \in [Jobs -> {"waiting", "running", "done", "failed"}]
         /\ queue'[act[w].job] = status /\ \A j \in Jobs \ {act[w].job} : queue'[j] = queue[j]
         /\ act' \in [Workers -> Activity \cup {Idle}]
         /\ act'[w] = Idle /\ \A v \in Workers \ {w} : act'[v] = act[v]
BY InHand DEF TypeOK, Finish

LEMMA LooksUp ==
  ASSUME TypeOK, NEW w \in Workers, Lookup(w)
  PROVE  /\ Working(w) /\ queue' = queue /\ act' \in [Workers -> Activity \cup {Idle}]
         /\ act'[w].step = "put" /\ act'[w].job = act[w].job /\ act'[w].at = act[w].at
         /\ act'[w].prev = record \/ faults' = faults + 1
         /\ \A v \in Workers \ {w} : act'[v] = act[v]
BY InHand DEF TypeOK, Lookup, At, Working, Activity, Steps, Fault

LEMMA Returns ==
  ASSUME TypeOK, NEW w \in Workers, Working(w), Return(w)
  PROVE  /\ queue' = queue /\ act' \in [Workers -> Activity \cup {Idle}]
         /\ act'[w].step = "resolve" /\ act'[w].job = act[w].job /\ act'[w].at = act[w].at
         /\ \A v \in Workers \ {w} : act'[v] = act[v]
<1>1. act[w] \in Activity /\ queue' = queue
  BY InHand DEF TypeOK, Return
<1>2. act' = [act EXCEPT ![w] = [act[w] EXCEPT !.step = "resolve", !.prev = None]]
  BY DEF Return
<1>3. [act[w] EXCEPT !.step = "resolve", !.prev = None] \in Activity
  BY <1>1 DEF Activity, Steps
<1>4. act'[w] = [act[w] EXCEPT !.step = "resolve", !.prev = None]
  BY <1>2 DEF TypeOK
<1> QED BY <1>1, <1>2, <1>3, <1>4 DEF TypeOK, Activity

LEMMA Resolves ==
  ASSUME TypeOK, NEW w \in Workers, Resolve(w)
  PROVE  /\ Working(w)
         /\ \/ Finish(w, "waiting")
            \/ /\ queue' = queue /\ act' \in [Workers -> Activity \cup {Idle}]
               /\ act'[w].step = "packages" /\ act'[w].job = act[w].job /\ act'[w].at = act[w].at
               /\ \A v \in Workers \ {w} : act'[v] = act[v]
BY InHand, IngestAssumption DEF TypeOK, Resolve, At, Working, Activity, Steps

\* Who passes the guard uncrossed finds no SBOM and nobody else with a job in hand.
LEMMA Passes ==
  ASSUME TypeOK, NEW w \in Workers, Guard(w)
  PROVE  \/ Exists /\ Finish(w, "done") /\ crossed' = crossed
         \/ /\ Goto(w, "lookup")
            /\ ~crossed' => ~crossed /\ sboms = {} /\ \A v \in Workers \ {w} : ~Working(v)
<1>1. \A v \in Workers : act[v] = Idle => ~Working(v)
  BY DEF Idle, Working
<1> QED BY <1>1, Zenon DEF Guard, Exists

-----------------------------------------------------------------------------
(* What each step keeps.                                                   *)

LEMMA Typed == TypeOK /\ [Next]_vars => TypeOK'
<1> SUFFICES ASSUME TypeOK, [Next]_vars PROVE TypeOK'
  OBVIOUS
<1> USE IngestAssumption DEF TypeOK
<1>1. ASSUME NEW w \in Workers, Claim(w) PROVE TypeOK'
  BY <1>1 DEF Claim, tables, bounds, Activity, Steps
<1>2. ASSUME NEW w \in Workers, Guard(w) PROVE TypeOK'
  <2>1. crossed' \in BOOLEAN
    BY <1>2 DEF Guard
  <2> QED BY <1>2, <2>1, InHand, Goes, Stops DEF Guard, Exists, At, Working, Fault, tables, bounds, Steps
<1>3. ASSUME NEW w \in Workers, Lookup(w) PROVE TypeOK'
  BY <1>3, InHand DEF Lookup, At, Working, Fault, tables, bounds, Activity, Steps
<1>4. ASSUME NEW w \in Workers, Put(w) PROVE TypeOK'
  BY <1>4, InHand, Goes DEF Put, At, Working, Sources, bounds, Steps
<1>5. ASSUME NEW w \in Workers, Record(w) PROVE TypeOK'
  BY <1>5, InHand, Goes DEF Record, At, Working, Sources, bounds, Steps
<1>6. ASSUME NEW w \in Workers, Clean(w) PROVE TypeOK'
  BY <1>6, InHand, Returns DEF Clean, At, Working, Fault, bounds
<1>7. ASSUME NEW w \in Workers, Resolve(w) PROVE TypeOK'
  BY <1>7, InHand, Resolves, Stops DEF Resolve, At, Working, tables, bounds, Steps
<1>8. ASSUME NEW w \in Workers, InsertRows(w) PROVE TypeOK'
  <2>1. Row(w) \in RowSet /\ PackagesRow(w) \in PackagesRowSet /\ Working(w)
    BY <1>8, InHand DEF InsertRows, Row, RowSet, PackagesRow, PackagesRowSet, Working
  <2> QED BY <1>8, <2>1, InHand, Goes, Stops
           DEF InsertRows, InsertOf, InsertPackages, InsertCompliance, InsertSBOM, At, bounds, Steps
<1>9. ASSUME NEW w \in Workers, FailsOrDies(w) PROVE TypeOK'
  BY <1>9, InHand, Stops DEF FailsOrDies, Fault, tables
<1>10. ASSUME NEW j \in Jobs, Retry(j) PROVE TypeOK'
  BY <1>10 DEF Retry, tables, bounds
<1>11. CASE UNCHANGED vars
  BY <1>11 DEF vars, tables, bounds
<1> QED BY <1>1, <1>2, <1>3, <1>4, <1>5, <1>6, <1>7, <1>8, <1>9, <1>10, <1>11 DEF Next, Step

LEMMA HoldingKept == TypeOK /\ Holding /\ [Next]_vars => Holding'
<1> SUFFICES ASSUME TypeOK, Holding, [Next]_vars PROVE Holding'
  OBVIOUS
<1> USE InHand DEF TypeOK, Holding, At, Steps, tables, bounds
<1>1. ASSUME NEW w \in Workers, Claim(w) PROVE Holding'
  BY <1>1 DEF Claim, Working
<1>2. ASSUME NEW w \in Workers, Guard(w) PROVE Holding'
  BY <1>2, Goes, Stops DEF Guard, Exists, Working, Idle
<1>3. ASSUME NEW w \in Workers, Lookup(w) PROVE Holding'
  BY <1>3, LooksUp DEF Lookup, Working
<1>4. ASSUME NEW w \in Workers, Put(w) PROVE Holding'
  BY <1>4, Goes DEF Put, Working
<1>5. ASSUME NEW w \in Workers, Record(w) PROVE Holding'
  BY <1>5, Goes DEF Record, Working
<1>6. ASSUME NEW w \in Workers, Clean(w) PROVE Holding'
  BY <1>6, Returns DEF Clean, Working
<1>7. ASSUME NEW w \in Workers, Resolve(w) PROVE Holding'
  BY <1>7, Resolves, Stops DEF Resolve, Working, Idle
<1>8. ASSUME NEW w \in Workers, InsertRows(w) PROVE Holding'
  BY <1>8, Goes, Stops DEF InsertRows, InsertOf, InsertPackages, InsertCompliance, InsertSBOM, Working, Idle
<1>9. ASSUME NEW w \in Workers, FailsOrDies(w) PROVE Holding'
  BY <1>9, Stops DEF FailsOrDies, Working, Idle
<1>10. ASSUME NEW j \in Jobs, Retry(j) PROVE Holding'
  BY <1>10 DEF Retry, Working
<1>11. CASE UNCHANGED vars
  BY <1>11 DEF vars, Working
<1> QED BY <1>1, <1>2, <1>3, <1>4, <1>5, <1>6, <1>7, <1>8, <1>9, <1>10, <1>11 DEF Next, Step

LEMMA WrittenKept == TypeOK /\ Written /\ [Next]_vars => Written'
<1> SUFFICES ASSUME TypeOK, Written, [Next]_vars PROVE Written'
  OBVIOUS
<1> USE InHand DEF TypeOK, Written, Covered, PackagesRow, Working, At, Steps, tables, bounds
<1>1. ASSUME NEW w \in Workers, Claim(w) PROVE Written'
  BY <1>1 DEF Claim
<1>2. ASSUME NEW w \in Workers, Guard(w) PROVE Written'
  BY <1>2, Goes, Stops DEF Guard, Idle
<1>3. ASSUME NEW w \in Workers, Lookup(w) PROVE Written'
  BY <1>3, LooksUp DEF Lookup
<1>4. ASSUME NEW w \in Workers, Put(w) PROVE Written'
  BY <1>4, Goes DEF Put
<1>5. ASSUME NEW w \in Workers, Record(w) PROVE Written'
  BY <1>5, Goes DEF Record
<1>6. ASSUME NEW w \in Workers, Clean(w) PROVE Written'
  BY <1>6, Returns DEF Clean
<1>7. ASSUME NEW w \in Workers, Resolve(w) PROVE Written'
  BY <1>7, Resolves, Stops DEF Resolve, Idle
<1>8. ASSUME NEW w \in Workers, InsertRows(w) PROVE Written'
  <2> USE IngestAssumption DEF InsertRows, InsertOf
  <2>1. CASE At(w, "packages")
    BY <1>8, <2>1, Goes DEF InsertPackages
  <2>2. CASE At(w, "compliance")
    <3>1. /\ packages' = packages /\ sboms' = sboms /\ Goto(w, "commit")
          /\ compliance' = [l \in Licenses |-> IF l \in act[w].found THEN act[w].job ELSE compliance[l]]
      BY <1>8, <2>2 DEF InsertCompliance
    <3>2. \A l \in Licenses : compliance[l] # None => compliance'[l] # None
      BY <2>2, <3>1
    <3>3. \A l \in act[w].found : compliance'[l] # None
      BY <2>2, <3>1
    <3> QED BY <2>2, <3>1, <3>2, <3>3, Goes DEF PackagesRowSet
  <2>3. CASE At(w, "commit")
    <3>1. packages' = packages /\ compliance' = compliance /\ Finish(w, "done")
      BY <1>8, <2>3 DEF InsertSBOM
    <3>2. \E row \in packages : Covered(row)
      BY <2>3
    <3>3. act'[w] = Idle /\ \A v \in Workers \ {w} : act'[v] = act[v]
      BY <2>3, <3>1, Stops
    <3>4. \A v \in Workers : act'[v].step \in {"compliance", "commit"} => v # w /\ act'[v] = act[v]
      BY <3>3 DEF Idle
    <3>5. \E row \in packages' : Covered(row)'
      BY <3>1, <3>2
    <3>6. \A v \in Workers :
            /\ act'[v].step \in {"compliance", "commit"} => PackagesRow(v)' \in packages'
            /\ act'[v].step = "commit" => Covered(PackagesRow(v))'
      BY <3>1, <3>4
    <3> QED BY <3>5, <3>6
  <2> QED BY <1>8, <2>1, <2>2, <2>3
<1>9. ASSUME NEW w \in Workers, FailsOrDies(w) PROVE Written'
  BY <1>9, Stops DEF FailsOrDies, Idle
<1>10. ASSUME NEW j \in Jobs, Retry(j) PROVE Written'
  BY <1>10 DEF Retry
<1>11. CASE UNCHANGED vars
  BY <1>11 DEF vars
<1> QED BY <1>1, <1>2, <1>3, <1>4, <1>5, <1>6, <1>7, <1>8, <1>9, <1>10, <1>11 DEF Next, Step

LEMMA AloneKept == TypeOK /\ Alone /\ [Next]_vars => Alone'
<1> SUFFICES ASSUME TypeOK, Alone, [Next]_vars PROVE Alone'
  OBVIOUS
<1> USE InHand DEF TypeOK, Alone, Working, Busy, At, Steps, tables, bounds
<1>1. ASSUME NEW w \in Workers, Claim(w) PROVE Alone'
  BY <1>1 DEF Claim
<1>2. ASSUME NEW w \in Workers, Guard(w) PROVE Alone'
  BY <1>2, Passes, Goes, Stops DEF Guard, Idle
<1>3. ASSUME NEW w \in Workers, Lookup(w) PROVE Alone'
  BY <1>3, LooksUp DEF Lookup
<1>4. ASSUME NEW w \in Workers, Put(w) PROVE Alone'
  BY <1>4, Goes DEF Put
<1>5. ASSUME NEW w \in Workers, Record(w) PROVE Alone'
  BY <1>5, Goes DEF Record
<1>6. ASSUME NEW w \in Workers, Clean(w) PROVE Alone'
  BY <1>6, Returns DEF Clean
<1>7. ASSUME NEW w \in Workers, Resolve(w) PROVE Alone'
  BY <1>7, Resolves, Stops DEF Resolve, Idle
<1>8. ASSUME NEW w \in Workers, InsertRows(w) PROVE Alone'
  BY <1>8, Goes, Stops DEF InsertRows, InsertOf, InsertPackages, InsertCompliance, InsertSBOM, Idle
<1>9. ASSUME NEW w \in Workers, FailsOrDies(w) PROVE Alone'
  BY <1>9, Stops DEF FailsOrDies, Idle
<1>10. ASSUME NEW j \in Jobs, Retry(j) PROVE Alone'
  BY <1>10 DEF Retry
<1>11. CASE UNCHANGED vars
  BY <1>11 DEF vars
<1> QED BY <1>1, <1>2, <1>3, <1>4, <1>5, <1>6, <1>7, <1>8, <1>9, <1>10, <1>11 DEF Next, Step

LEMMA CapturedKept == TypeOK /\ Alone /\ Captured /\ [Next]_vars => Captured'
<1> SUFFICES ASSUME TypeOK, Alone, Captured, [Next]_vars PROVE Captured'
  OBVIOUS
<1> USE InHand DEF TypeOK, Alone, Captured, HasOriginal, Working, Busy, At, Steps, tables, bounds
<1>1. ASSUME NEW w \in Workers, Claim(w) PROVE Captured'
  BY <1>1 DEF Claim
<1>2. ASSUME NEW w \in Workers, Guard(w) PROVE Captured'
  BY <1>2, Passes, Goes, Stops DEF Guard, Idle
<1>3. ASSUME NEW w \in Workers, Lookup(w) PROVE Captured'
  BY <1>3, LooksUp DEF Lookup
<1>4. ASSUME NEW w \in Workers, Put(w) PROVE Captured'
  BY <1>4, Goes DEF Put
<1>5. ASSUME NEW w \in Workers, Record(w) PROVE Captured'
  BY <1>5, Goes DEF Record
<1>6. ASSUME NEW w \in Workers, Clean(w) PROVE Captured'
  BY <1>6, Returns DEF Clean, Superseded
<1>7. ASSUME NEW w \in Workers, Resolve(w) PROVE Captured'
  BY <1>7, Resolves, Stops DEF Resolve, Idle
<1>8. ASSUME NEW w \in Workers, InsertRows(w) PROVE Captured'
  BY <1>8, Goes, Stops DEF InsertRows, InsertOf, InsertPackages, InsertCompliance, InsertSBOM, Idle
<1>9. ASSUME NEW w \in Workers, FailsOrDies(w) PROVE Captured'
  BY <1>9, Stops DEF FailsOrDies, Idle
<1>10. ASSUME NEW j \in Jobs, Retry(j) PROVE Captured'
  BY <1>10 DEF Retry
<1>11. CASE UNCHANGED vars
  BY <1>11 DEF vars
<1> QED BY <1>1, <1>2, <1>3, <1>4, <1>5, <1>6, <1>7, <1>8, <1>9, <1>10, <1>11 DEF Next, Step

LEMMA PastKept == TypeOK /\ Past /\ [Next]_vars => Past'
<1> SUFFICES ASSUME TypeOK, Past, [Next]_vars PROVE Past'
  OBVIOUS
<1> USE InHand DEF TypeOK, Past, Working, At, Steps, tables, bounds, PackagesRowSet, PackagesRow
<1>1. ASSUME NEW w \in Workers, Claim(w) PROVE Past'
  BY <1>1 DEF Claim
<1>2. ASSUME NEW w \in Workers, Guard(w) PROVE Past'
  BY <1>2, Passes, Goes, Stops DEF Guard, Idle
<1>3. ASSUME NEW w \in Workers, Lookup(w) PROVE Past'
  BY <1>3, LooksUp DEF Lookup
<1>4. ASSUME NEW w \in Workers, Put(w) PROVE Past'
  BY <1>4, Goes DEF Put
<1>5. ASSUME NEW w \in Workers, Record(w) PROVE Past'
  BY <1>5, Goes DEF Record
<1>6. ASSUME NEW w \in Workers, Clean(w) PROVE Past'
  BY <1>6, Returns DEF Clean, Superseded
<1>7. ASSUME NEW w \in Workers, Resolve(w) PROVE Past'
  BY <1>7, Resolves, Stops DEF Resolve, Idle
<1>8. ASSUME NEW w \in Workers, InsertRows(w) PROVE Past'
  BY <1>8, Goes, Stops DEF InsertRows, InsertOf, InsertPackages, InsertCompliance, InsertSBOM, Idle
<1>9. ASSUME NEW w \in Workers, FailsOrDies(w) PROVE Past'
  BY <1>9, Stops DEF FailsOrDies, Idle
<1>10. ASSUME NEW j \in Jobs, Retry(j) PROVE Past'
  BY <1>10 DEF Retry
<1>11. CASE UNCHANGED vars
  BY <1>11 DEF vars
<1> QED BY <1>1, <1>2, <1>3, <1>4, <1>5, <1>6, <1>7, <1>8, <1>9, <1>10, <1>11 DEF Next, Step

LEMMA NewerKept == TypeOK /\ Alone /\ Past /\ Newer /\ [Next]_vars => Newer'
<1> SUFFICES ASSUME TypeOK, Alone, Past, Newer, [Next]_vars PROVE Newer'
  OBVIOUS
<1> USE InHand DEF TypeOK, Alone, Past, Newer, Inserted, Working, Busy, PackagesRow, At, Steps, tables, bounds, PackagesRowSet
<1>1. ASSUME NEW w \in Workers, Claim(w) PROVE Newer'
  BY <1>1 DEF Claim
<1>2. ASSUME NEW w \in Workers, Guard(w) PROVE Newer'
  BY <1>2, Passes, Goes, Stops DEF Guard, Idle
<1>3. ASSUME NEW w \in Workers, Lookup(w) PROVE Newer'
  BY <1>3, LooksUp DEF Lookup
<1>4. ASSUME NEW w \in Workers, Put(w) PROVE Newer'
  BY <1>4, Goes DEF Put
<1>5. ASSUME NEW w \in Workers, Record(w) PROVE Newer'
  BY <1>5, Goes DEF Record
<1>6. ASSUME NEW w \in Workers, Clean(w) PROVE Newer'
  BY <1>6, Returns DEF Clean, Superseded
<1>7. ASSUME NEW w \in Workers, Resolve(w) PROVE Newer'
  BY <1>7, Resolves, Stops DEF Resolve, Idle
<1>8. ASSUME NEW w \in Workers, InsertRows(w) PROVE Newer'
  BY <1>8, Goes, Stops DEF InsertRows, InsertOf, InsertPackages, InsertCompliance, InsertSBOM, Idle
<1>9. ASSUME NEW w \in Workers, FailsOrDies(w) PROVE Newer'
  BY <1>9, Stops DEF FailsOrDies, Idle
<1>10. ASSUME NEW j \in Jobs, Retry(j) PROVE Newer'
  BY <1>10 DEF Retry
<1>11. CASE UNCHANGED vars
  BY <1>11 DEF vars
<1> QED BY <1>1, <1>2, <1>3, <1>4, <1>5, <1>6, <1>7, <1>8, <1>9, <1>10, <1>11 DEF Next, Step

LEMMA OwnedKept == TypeOK /\ Alone /\ Newer /\ Owned /\ [Next]_vars => Owned'
<1> SUFFICES ASSUME TypeOK, Alone, Newer, Owned, [Next]_vars PROVE Owned'
  OBVIOUS
<1> USE InHand DEF TypeOK, Alone, Newer, Owned, Leads, Labelled, Inserted, Working, Busy, Row, PackagesRow, At, Steps, tables, bounds, PackagesRowSet
<1>1. ASSUME NEW w \in Workers, Claim(w) PROVE Owned'
  BY <1>1 DEF Claim
<1>2. ASSUME NEW w \in Workers, Guard(w) PROVE Owned'
  BY <1>2, Passes, Goes, Stops DEF Guard, Idle
<1>3. ASSUME NEW w \in Workers, Lookup(w) PROVE Owned'
  BY <1>3, LooksUp DEF Lookup
<1>4. ASSUME NEW w \in Workers, Put(w) PROVE Owned'
  BY <1>4, Goes DEF Put
<1>5. ASSUME NEW w \in Workers, Record(w) PROVE Owned'
  BY <1>5, Goes DEF Record
<1>6. ASSUME NEW w \in Workers, Clean(w) PROVE Owned'
  BY <1>6, Returns DEF Clean, Superseded
<1>7. ASSUME NEW w \in Workers, Resolve(w) PROVE Owned'
  BY <1>7, Resolves, Stops DEF Resolve, Idle
<1>8. ASSUME NEW w \in Workers, InsertRows(w) PROVE Owned'
  <2> SUFFICES ASSUME ~crossed PROVE Owned'
    BY <1>8 DEF InsertRows
  <2>1. /\ crossed' = crossed /\ sboms = {} /\ Busy(w)
        /\ \A v \in Workers \ {w} : ~Busy(v)
    BY <1>8 DEF InsertRows
  <2> USE DEF InsertRows, InsertOf
  <2>2. CASE At(w, "packages")
    BY <1>8, <2>1, <2>2, Goes DEF InsertPackages
  <2>3. CASE At(w, "compliance")
    <3>1. /\ packages' = packages /\ sboms' = sboms /\ Goto(w, "commit")
          /\ compliance' = [l \in Licenses |-> IF l \in act[w].found THEN act[w].job ELSE compliance[l]]
      BY <1>8, <2>3 DEF InsertCompliance
    <3>2. \A l \in act[w].found : compliance'[l] = act[w].job
      BY <2>3, <3>1
    <3> QED BY <2>1, <2>3, <3>1, <3>2, Goes
  <2>4. CASE At(w, "commit")
    <3>1. packages' = packages /\ compliance' = compliance /\ sboms' = {Row(w)}
      BY <1>8, <2>1, <2>4 DEF InsertSBOM
    <3>2. Leads(PackagesRow(w)) /\ Labelled(PackagesRow(w))
      BY <2>1, <2>4
    <3> QED BY <1>8, <2>1, <2>4, <3>1, <3>2, Stops DEF Idle
  <2> QED BY <1>8, <2>2, <2>3, <2>4
<1>9. ASSUME NEW w \in Workers, FailsOrDies(w) PROVE Owned'
  BY <1>9, Stops DEF FailsOrDies, Idle
<1>10. ASSUME NEW j \in Jobs, Retry(j) PROVE Owned'
  BY <1>10 DEF Retry
<1>11. CASE UNCHANGED vars
  BY <1>11 DEF vars
<1> QED BY <1>1, <1>2, <1>3, <1>4, <1>5, <1>6, <1>7, <1>8, <1>9, <1>10, <1>11 DEF Next, Step

LEMMA TidyKept == TypeOK /\ Alone /\ Captured /\ Tidy /\ [Next]_vars => Tidy'
<1> SUFFICES ASSUME TypeOK, Alone, Captured, Tidy, [Next]_vars PROVE Tidy'
  OBVIOUS
<1> USE IngestAssumption, InHand DEF TypeOK, Alone, Captured, HasOriginal, Tidy, Kept, Changing, Working, Busy, At, Steps, tables, bounds, Sources, Fault
<1>1. ASSUME NEW w \in Workers, Claim(w) PROVE Tidy'
  BY <1>1 DEF Claim
<1>2. ASSUME NEW w \in Workers, Guard(w) PROVE Tidy'
  BY <1>2, Passes, Goes, Stops DEF Guard, Idle
<1>3. ASSUME NEW w \in Workers, Lookup(w) PROVE Tidy'
  BY <1>3, LooksUp DEF Lookup
<1>4. ASSUME NEW w \in Workers, Put(w) PROVE Tidy'
  BY <1>4, Goes DEF Put
<1>5. ASSUME NEW w \in Workers, Record(w) PROVE Tidy'
  BY <1>5, Goes DEF Record
<1>6. ASSUME NEW w \in Workers, Clean(w) PROVE Tidy'
  <2> SUFFICES ASSUME ~crossed', faults' = 0 PROVE Tidy'
    BY DEF Tidy
  <2>1. ~crossed /\ faults = 0 /\ record' = record /\ blobs' = IF Superseded(w) THEN blobs \ {act[w].prev} ELSE blobs
    BY <1>6 DEF Clean
  <2>2. record = Source[act[w].job] /\ blobs = Kept(act[w].prev) \cup {record}
    BY <1>6, <2>1 DEF Clean
  <2>3. blobs' = Kept(record)
    BY <1>6, <2>1, <2>2 DEF Clean, Superseded
  <2>4. \A v \in Workers : act'[v].step \notin {"put", "record"} /\ ~Changing(v)'
    BY <1>6, <2>1, Returns DEF Clean
  <2> QED BY <2>1, <2>3, <2>4
<1>7. ASSUME NEW w \in Workers, Resolve(w) PROVE Tidy'
  BY <1>7, Resolves, Stops DEF Resolve, Idle
<1>8. ASSUME NEW w \in Workers, InsertRows(w) PROVE Tidy'
  BY <1>8, Goes, Stops DEF InsertRows, InsertOf, InsertPackages, InsertCompliance, InsertSBOM, Idle
<1>9. ASSUME NEW w \in Workers, FailsOrDies(w) PROVE Tidy'
  BY <1>9, Stops DEF FailsOrDies, Idle
<1>10. ASSUME NEW j \in Jobs, Retry(j) PROVE Tidy'
  BY <1>10 DEF Retry
<1>11. CASE UNCHANGED vars
  BY <1>11 DEF vars
<1> QED BY <1>1, <1>2, <1>3, <1>4, <1>5, <1>6, <1>7, <1>8, <1>9, <1>10, <1>11 DEF Next, Step

-----------------------------------------------------------------------------
LEMMA Inductive == IInv /\ [Next]_vars => IInv'
BY Typed, HoldingKept, WrittenKept, AloneKept, CapturedKept, PastKept, NewerKept, OwnedKept, TidyKept DEF IInv

LEMMA Invariance == Spec => []IInv
BY Initially, Inductive, PTL DEF Spec

\* Unless jobs crossed, the packages that are shown are those of the committing pass.
LEMMA ShownIsThePass ==
  ASSUME IInv, ~crossed, sboms # {}, NEW q \in Shown(packages)
  PROVE  q \in packages /\ Labelled(q) /\ sboms = {[owner |-> q.owner, at |-> q.at]}
<1>1. PICK r \in packages : sboms = {[owner |-> r.owner, at |-> r.at]} /\ Leads(r) /\ Labelled(r)
  BY DEF IInv, Owned
<1>2. q = r
  BY <1>1 DEF IInv, TypeOK, PackagesRowSet, Leads, Shown
<1> QED BY <1>1, <1>2

\* The rows, activities and counters are of their types.
THEOREM IngestTyped == Spec => []TypeOK
<1>1. IInv => TypeOK
  BY DEF IInv
<1> QED BY Invariance, <1>1, PTL

\* Wherever jobs fail, die or are handed back, a visible SBOM has packages whose licences
\* have compliance rows; they are the packages that are shown, and the original is
\* there, unless jobs crossed (main.go:437-452, 514-652).
THEOREM VisibleMeansComplete == Spec => []CommittedIsComplete
<1>1. IInv => CommittedIsComplete
  <2> SUFFICES ASSUME IInv, sboms # {}
               PROVE  /\ \E row \in packages : Covered(row)
                      /\ ~crossed => HasOriginal /\ \A row \in Shown(packages) : Covered(row)
    BY DEF CommittedIsComplete
  <2>1. \E row \in packages : Covered(row)
    BY DEF IInv, Written
  <2>2. ASSUME ~crossed PROVE HasOriginal
    BY <2>2 DEF IInv, Captured
  <2>3. ASSUME ~crossed, NEW row \in Shown(packages) PROVE Covered(row)
    <3>1. row \in packages /\ row.owner # None /\ Labelled(row)
      BY <2>3, ShownIsThePass, IngestAssumption DEF IInv, TypeOK, PackagesRowSet
    <3> QED BY <3>1 DEF Labelled, Covered
  <2> QED BY <2>1, <2>2, <2>3
<1> QED BY Invariance, <1>1, PTL

\* Each pass replaces the blob of the one before, for any number of passes and source
\* files (main.go:671-720).
THEOREM PassesLeaveNoOrphans == Spec => []NoOrphans
<1>1. IInv => NoOrphans
  <2> SUFFICES ASSUME IInv, AllDone, faults = 0, ~crossed PROVE blobs = {record}
    BY DEF NoOrphans
  <2>1. sboms # {} /\ \A w \in Workers : ~Working(w)
    <3>1. \A w \in Workers : ~Working(w)
      BY InHand DEF IInv, Holding, AllDone
    <3>2. sboms # {}
      BY IngestAssumption DEF IInv, Holding, AllDone
    <3> QED BY <3>1, <3>2
  <2>2. blobs = Kept(record)
    BY <2>1 DEF IInv, Tidy, Changing, Working
  <2>3. record # None
    BY <2>1, <2>2 DEF IInv, Captured, HasOriginal, Kept
  <2> QED BY <2>2, <2>3 DEF Kept
<1> QED BY Invariance, <1>1, PTL

\* The SBOM that is shown, its packages and the compliance row of each licence they have
\* carry the labels of one job, however many passes of however many jobs wrote rows
\* before (main.go:437-452, 514-652).
THEOREM CommittedRowsHaveOneOwner == Spec => []OneOwner
<1>1. IInv => OneOwner
  <2> SUFFICES ASSUME IInv, ~crossed, NEW r \in Shown(sboms), NEW q \in Shown(packages)
               PROVE  r.owner = q.owner /\ \A l \in q.found : compliance[l] = r.owner
    BY DEF OneOwner
  <2>1. Labelled(q) /\ sboms = {[owner |-> q.owner, at |-> q.at]}
    BY ShownIsThePass DEF Shown
  <2> QED BY <2>1 DEF Shown, Labelled
<1> QED BY Invariance, <1>1, PTL

=============================================================================
