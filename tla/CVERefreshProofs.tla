--------------------------- MODULE CVERefreshProofs ---------------------------
(***************************************************************************)
(* CatchesUpUnlessKnown and NewReachAll of CVERefresh, for any SBOMs,      *)
(* packages, vulnerabilities, runs and faults.                             *)
(***************************************************************************)
EXTENDS CVERefresh, TLAPS

Known(x) == \E t \in SBOMs : <<t, x[1], x[2]>> \in findings

\* What a run began with is there still, and its keys are known.
Began == run # NoRun => /\ run.since \subseteq disclosed /\ run.base \subseteq packages
                        /\ \A x \in run.keys : Known(x)

\* A disclosed pair that a run must not miss: the package is in an SBOM of its start.
Due(x) == x[1] \in run.since /\ x[2] \in Affects[x[1]] /\ \E s \in run.base : x[2] \in Packages[s]

\* Where such a pair is while nothing has failed in the run.
Pursued == run # NoRun /\ run.clean =>
  \A x \in Pairs : Due(x) =>
    /\ run.step = "keys" => x[2] \in run.todo
    /\ run.step = "query" => x[2] \in run.todo \/ x \in run.new \/ Known(x)
    /\ run.step = "map" => \/ Known(x)
                           \/ x \in run.new /\ (x[2] \in run.todo \/ \E t \in SBOMs : <<t, x[1], x[2]>> \in run.rows)
    /\ run.step = "completed" => Known(x)

\* Without faults an SBOM without packages has not been asked about, and a committed
\* one is done.
Ordered == faults = 0 => \A s \in SBOMs :
  /\ s \notin packages => job[s] = Waiting
  /\ s \in committed => job[s].step = "done"

\* The job of s has the row for x, or will: it has not asked about x yet, or has the answer.
Covers(s, x) ==
  \/ job[s] = Waiting
  \/ job[s].step = "query" /\ (x[2] \in job[s].todo \/ x \in job[s].found)
  \/ <<s, x[1], x[2]>> \in findings

\* Without faults, what a run has found new and mapped is a row, is about to be one, or
\* is left to a job that asks late enough.
Mapped == faults = 0 /\ ~SkipOSV /\ run # NoRun =>
  \A x \in run.new :
    /\ x[1] \in disclosed /\ x[2] \in Affects[x[1]]
    /\ run.step \in {"map", "completed"} /\ x[2] \notin run.todo =>
         \A s \in SBOMs : x[2] \in Packages[s] => Covers(s, x) \/ <<s, x[1], x[2]>> \in run.rows
    /\ run.step = "completed" => run.todo = {} /\ run.rows = {}

IInv == TypeOK /\ Began /\ Pursued /\ Ordered /\ Mapped

LEMMA Initially == Init => IInv
<1> SUFFICES ASSUME Init PROVE IInv
  OBVIOUS
<1> USE DEF Init
<1>1. TypeOK
  BY RefreshAssumption DEF TypeOK
<1>2. Began /\ Pursued /\ Ordered /\ Mapped
  BY DEF Began, Pursued, Ordered, Mapped
<1> QED BY <1>1, <1>2 DEF IInv

\* What is known of a run and of an answer by their types.
LEMMA InRun ==
  ASSUME TypeOK, run # NoRun
  PROVE  run \in Running
BY DEF TypeOK

LEMMA Answers == \A p \in PURLs : TypeOK => Answer(p) \subseteq Pairs
BY RefreshAssumption DEF TypeOK, Answer, Pairs

\* The steps of a run that leave it a run and change nothing but faults beside it.
LEMMA QueryBatchTyped ==
  ASSUME TypeOK, QueryBatch
  PROVE  run' \in Running /\ faults' \in Nat /\ UNCHANGED <<disclosed, packages, findings, committed, job, runs>>
<1>1. faults' \in Nat /\ UNCHANGED <<disclosed, packages, findings, committed, job, runs>>
  BY DEF TypeOK, QueryBatch, Fault, tables
<1>2. run \in Running
  BY DEF TypeOK, QueryBatch, NoRun
<1>3. PICK p \in run.todo : \/ run' = [run EXCEPT !.todo = @ \ {p}, !.new = @ \cup (Answer(p) \ run.keys)]
                           \/ run' = [run EXCEPT !.todo = @ \ {p}, !.clean = FALSE]
  BY DEF QueryBatch
<1>4. p \in PURLs
  BY <1>2 DEF Running
<1>5. Answer(p) \subseteq Pairs
  BY <1>4, Answers
<1> QED BY <1>1, <1>2, <1>3, <1>5 DEF Running

LEMMA HydrateTyped ==
  ASSUME TypeOK, Hydrate
  PROVE  run' \in Running /\ faults' \in Nat /\ UNCHANGED <<disclosed, packages, findings, committed, job, runs>>
<1>1. faults' \in Nat /\ UNCHANGED <<disclosed, packages, findings, committed, job, runs>>
  BY DEF TypeOK, Hydrate, Hydrated, Fault, tables
<1>2. run \in Running
  BY DEF TypeOK, Hydrate, NoRun
<1>3. PICK kept \in Kept(run.new) :
        run' = [run EXCEPT !.step = "map", !.todo = {x[2] : x \in kept}, !.new = kept, !.clean = @ /\ kept = run.new]
  BY DEF Hydrate
<1>4. kept \subseteq Pairs
  BY <1>2 DEF Kept, Running
<1>5. {x[2] : x \in kept} \subseteq PURLs
  BY <1>4 DEF Pairs
<1> QED BY <1>1, <1>2, <1>3, <1>4, <1>5 DEF Running

LEMMA MapTyped ==
  ASSUME TypeOK, Map
  PROVE  run' \in Running /\ faults' \in Nat /\ UNCHANGED <<disclosed, packages, findings, committed, job, runs>>
<1>1. faults' \in Nat /\ UNCHANGED <<disclosed, packages, findings, committed, job, runs>>
  BY DEF TypeOK, Map, tables
<1>2. run \in Running
  BY DEF TypeOK, Map, NoRun
<1>3. PICK p \in run.todo : run' = [run EXCEPT !.todo = @ \ {p}, !.rows = @ \cup buildRows(p)]
  BY DEF Map
<1>4. buildRows(p) \subseteq Rows
  BY <1>2, <1>3 DEF TypeOK, Running, buildRows, SBOMsWith, Rows, Pairs
<1> QED BY <1>1, <1>2, <1>3, <1>4 DEF Running

\* A run has all its fields.
LEMMA Fields ==
  ASSUME TypeOK, run # NoRun
  PROVE  run = [step |-> run.step, todo |-> run.todo, keys |-> run.keys, new |-> run.new, rows |-> run.rows,
                since |-> run.since, base |-> run.base, clean |-> run.clean]
BY InRun DEF Running

-----------------------------------------------------------------------------
(* What each step keeps.                                                   *)

LEMMA Typed == TypeOK /\ [Next]_vars => TypeOK'
<1> SUFFICES ASSUME TypeOK, [Next]_vars PROVE TypeOK'
  OBVIOUS
<1> USE RefreshAssumption DEF TypeOK, tables, Fault
<1>1. CASE Disclose
  BY <1>1 DEF Disclose
<1>2. ASSUME NEW s \in SBOMs, InsertPackages(s) PROVE TypeOK'
  BY <1>2 DEF InsertPackages, Asking, Pairs
<1>3. ASSUME NEW s \in SBOMs, Query(s) PROVE TypeOK'
  <2>1. job[s] \in Asking
    BY <1>3 DEF Query, Waiting
  <2>2. PICK p \in job[s].todo : \/ job' = [job EXCEPT ![s].todo = @ \ {p}, ![s].found = @ \cup Answer(p)]
                               \/ job' = [job EXCEPT ![s].todo = @ \ {p}]
    BY <1>3 DEF Query
  <2>3. job'[s] \in Asking
    BY <2>1, <2>2, Answers DEF Asking
  <2>4. job' \in [SBOMs -> {Waiting} \cup Asking \cup [step : {"commit", "done"}]]
    BY <2>2, <2>3
  <2> QED BY <1>3, <2>4 DEF Query
<1>4. ASSUME NEW s \in SBOMs, InsertFindings(s) PROVE TypeOK'
  <2>1. job[s].found \subseteq Pairs
    BY <1>4 DEF InsertFindings, Asking, Waiting
  <2>2. findings' \subseteq Rows /\ faults' \in Nat
    BY <1>4, <2>1 DEF InsertFindings, Kept, Hydrated, Pairs, Rows
  <2> QED BY <1>4, <2>2 DEF InsertFindings
<1>5. ASSUME NEW s \in SBOMs, Commit(s) PROVE TypeOK'
  BY <1>5 DEF Commit
<1>6. ASSUME NEW s \in SBOMs, JobFails(s) PROVE TypeOK'
  BY <1>6 DEF JobFails
<1>7. CASE Start
  BY <1>7 DEF Start, Running, NoRun
<1>8. CASE LoadKeys
  <2>1. ExistingKeys \subseteq Pairs
    BY DEF ExistingKeys, Pairs, Rows
  <2>2. run \in Running /\ run' = [run EXCEPT !.step = "query", !.keys = ExistingKeys]
    BY <1>8 DEF LoadKeys, NoRun
  <2> HIDE DEF TypeOK
  <2>3. run' \in Running
    BY <2>1, <2>2 DEF Running
  <2> QED BY <1>8, <2>3 DEF LoadKeys, TypeOK
<1>9. CASE QueryBatch
  BY <1>9, QueryBatchTyped
<1>10. CASE Hydrate
  BY <1>10, HydrateTyped
<1>11. CASE Map
  BY <1>11, MapTyped
<1>12. CASE InsertBatch
  BY <1>12 DEF InsertBatch, NoRun, Running
<1>13. CASE Complete
  BY <1>13 DEF Complete, NoRun, Running
<1>14. CASE RunFails
  BY <1>14 DEF RunFails, NoRun, Running
<1>15. CASE UNCHANGED vars
  BY <1>15 DEF vars
<1> QED BY <1>1, <1>2, <1>3, <1>4, <1>5, <1>6, <1>7, <1>8, <1>9, <1>10, <1>11, <1>12, <1>13, <1>14, <1>15 DEF Next

LEMMA BeganKept == TypeOK /\ Began /\ [Next]_vars => Began'
<1> SUFFICES ASSUME TypeOK, Began, [Next]_vars PROVE Began'
  OBVIOUS
<1> USE DEF Began, Known, NoRun, tables
<1>1. CASE Disclose
  BY <1>1 DEF Disclose
<1>2. ASSUME NEW s \in SBOMs, InsertPackages(s) PROVE Began'
  BY <1>2 DEF InsertPackages
<1>3. ASSUME NEW s \in SBOMs, Query(s) PROVE Began'
  BY <1>3 DEF Query
<1>4. ASSUME NEW s \in SBOMs, InsertFindings(s) PROVE Began'
  BY <1>4 DEF InsertFindings
<1>5. ASSUME NEW s \in SBOMs, Commit(s) PROVE Began'
  BY <1>5 DEF Commit
<1>6. ASSUME NEW s \in SBOMs, JobFails(s) PROVE Began'
  BY <1>6 DEF JobFails
<1>7. CASE Start
  BY <1>7, Fields DEF Start
<1>8. CASE LoadKeys
  <2>1. ASSUME NEW x \in ExistingKeys PROVE Known(x)
    <3>1. PICK f \in findings : x = <<f[2], f[3]>>
      BY DEF ExistingKeys
    <3>2. PICK t \in SBOMs, v \in Vulns, p \in PURLs : f = <<t, v, p>>
      BY DEF TypeOK, Rows
    <3> QED BY <3>1, <3>2
  <2> QED BY <1>8, <2>1, Fields DEF LoadKeys
<1>9. CASE QueryBatch
  BY <1>9, Fields DEF QueryBatch
<1>10. CASE Hydrate
  BY <1>10, Fields DEF Hydrate
<1>11. CASE Map
  BY <1>11, Fields DEF Map
<1>12. CASE InsertBatch
  BY <1>12, Fields DEF InsertBatch
<1>13. CASE Complete
  BY <1>13, Fields DEF Complete
<1>14. CASE RunFails
  BY <1>14, Fields DEF RunFails
<1>15. CASE UNCHANGED vars
  BY <1>15 DEF vars
<1> QED BY <1>1, <1>2, <1>3, <1>4, <1>5, <1>6, <1>7, <1>8, <1>9, <1>10, <1>11, <1>12, <1>13, <1>14, <1>15 DEF Next

LEMMA PursuedKept == TypeOK /\ Began /\ Pursued /\ [Next]_vars => Pursued'
<1> SUFFICES ASSUME TypeOK, Began, Pursued, [Next]_vars PROVE Pursued'
  OBVIOUS
<1> USE DEF Pursued, Due, Known, NoRun, tables
<1>1. CASE Disclose
  BY <1>1 DEF Disclose
<1>2. ASSUME NEW s \in SBOMs, InsertPackages(s) PROVE Pursued'
  BY <1>2 DEF InsertPackages
<1>3. ASSUME NEW s \in SBOMs, Query(s) PROVE Pursued'
  BY <1>3 DEF Query
<1>4. ASSUME NEW s \in SBOMs, InsertFindings(s) PROVE Pursued'
  BY <1>4 DEF InsertFindings
<1>5. ASSUME NEW s \in SBOMs, Commit(s) PROVE Pursued'
  BY <1>5 DEF Commit
<1>6. ASSUME NEW s \in SBOMs, JobFails(s) PROVE Pursued'
  BY <1>6 DEF JobFails
<1>7. CASE Start
  BY <1>7 DEF Start, TypeOK
<1>8. CASE LoadKeys
  BY <1>8, Fields DEF LoadKeys
<1>9. CASE QueryBatch
  <2> SUFFICES ASSUME run'.clean, NEW x \in Pairs, Due(x)'
               PROVE  run'.step = "query" /\ (x[2] \in run'.todo \/ x \in run'.new \/ Known(x)')
    OBVIOUS
  <2>1. PICK p \in run.todo : run' = [run EXCEPT !.todo = @ \ {p}, !.new = @ \cup (Answer(p) \ run.keys)]
    BY <1>9, Fields DEF QueryBatch
  <2>2. /\ run'.step = "query" /\ run'.todo = run.todo \ {p} /\ run'.new = run.new \cup (Answer(p) \ run.keys)
        /\ run.clean /\ Due(x)
    BY <1>9, <2>1, Fields DEF QueryBatch
  <2>3. x[2] \in run.todo \/ x \in run.new \/ Known(x)
    BY <1>9, <2>2 DEF QueryBatch
  <2>4. x[2] = p => x \in Answer(p)
    BY <1>9, <2>2 DEF Began, QueryBatch, Answer, Pairs
  <2>5. x \in run.keys => Known(x)
    BY <1>9 DEF Began, QueryBatch
  <2> QED BY <1>9, <2>2, <2>3, <2>4, <2>5 DEF QueryBatch
<1>10. CASE Hydrate
  <2> SUFFICES ASSUME run'.clean, NEW x \in Pairs, Due(x)'
               PROVE  run'.step = "map" /\ (Known(x)' \/ (x \in run'.new /\ x[2] \in run'.todo))
    OBVIOUS
  <2>1. PICK kept \in Kept(run.new) : run' = [run EXCEPT !.step = "map", !.todo = {y[2] : y \in kept}, !.new = kept,
                                              !.clean = @ /\ kept = run.new]
    BY <1>10 DEF Hydrate
  <2>2. run \in Running
    BY <1>10, InRun DEF Hydrate
  <2>3. /\ run'.step = "map" /\ run'.todo = {y[2] : y \in kept} /\ run'.new = kept
        /\ run'.since = run.since /\ run'.base = run.base /\ run'.clean = (run.clean /\ kept = run.new)
    BY <2>2, <2>1 DEF Running
  <2>4. run.clean /\ kept = run.new /\ Due(x)
    BY <2>3
  <2>5. x \in run.new \/ Known(x)
    BY <1>10, <2>4 DEF Hydrate
  <2>6. findings' = findings
    BY <1>10 DEF Hydrate
  <2> QED BY <2>3, <2>5, <2>4, <2>6
<1>11. CASE Map
  <2>1. PICK p \in run.todo : run' = [run EXCEPT !.todo = @ \ {p}, !.rows = @ \cup buildRows(p)]
    BY <1>11 DEF Map
  <2>2. run \in Running /\ run.step = "map"
    BY <1>11, InRun DEF Map
  <2>3. /\ run'.step = "map" /\ run'.todo = run.todo \ {p} /\ run'.rows = run.rows \cup buildRows(p)
        /\ run'.new = run.new /\ run'.since = run.since /\ run'.base = run.base
    BY <2>2, <2>1 DEF Running
  <2>4. run'.clean => run.clean
    BY <2>2, <2>1 DEF Running
  <2>5. ASSUME NEW x \in run.new, Due(x), x[2] = p PROVE \E t \in SBOMs : <<t, x[1], x[2]>> \in buildRows(p)
    BY <1>11, <2>5 DEF Map, Began, TypeOK, buildRows, SBOMsWith
  <2>6. findings' = findings
    BY <1>11 DEF Map
  <2> QED BY <1>11, <2>3, <2>5, <2>4, <2>6 DEF Map
<1>12. CASE InsertBatch
  BY <1>12, Fields DEF InsertBatch
<1>13. CASE Complete
  BY <1>13, Fields DEF Complete
<1>14. CASE RunFails
  BY <1>14, Fields DEF RunFails
<1>15. CASE UNCHANGED vars
  BY <1>15 DEF vars
<1> QED BY <1>1, <1>2, <1>3, <1>4, <1>5, <1>6, <1>7, <1>8, <1>9, <1>10, <1>11, <1>12, <1>13, <1>14, <1>15 DEF Next

LEMMA OrderedKept == TypeOK /\ Ordered /\ [Next]_vars => Ordered'
<1> SUFFICES ASSUME TypeOK, Ordered, [Next]_vars PROVE Ordered'
  OBVIOUS
<1> USE DEF TypeOK, Ordered, Waiting, Fault, Hydrated, tables
<1>1. CASE Disclose
  BY <1>1 DEF Disclose
<1>2. ASSUME NEW s \in SBOMs, InsertPackages(s) PROVE Ordered'
  BY <1>2 DEF InsertPackages
<1>3. ASSUME NEW s \in SBOMs, Query(s) PROVE Ordered'
  BY <1>3 DEF Query
<1>4. ASSUME NEW s \in SBOMs, InsertFindings(s) PROVE Ordered'
  BY <1>4 DEF InsertFindings
<1>5. ASSUME NEW s \in SBOMs, Commit(s) PROVE Ordered'
  BY <1>5 DEF Commit
<1>6. ASSUME NEW s \in SBOMs, JobFails(s) PROVE Ordered'
  BY <1>6 DEF JobFails
<1>7. CASE Start
  BY <1>7 DEF Start
<1>8. CASE LoadKeys
  BY <1>8 DEF LoadKeys
<1>9. CASE QueryBatch
  BY <1>9 DEF QueryBatch
<1>10. CASE Hydrate
  BY <1>10 DEF Hydrate
<1>11. CASE Map
  BY <1>11 DEF Map
<1>12. CASE InsertBatch
  BY <1>12 DEF InsertBatch
<1>13. CASE Complete
  BY <1>13 DEF Complete
<1>14. CASE RunFails
  BY <1>14 DEF RunFails
<1>15. CASE UNCHANGED vars
  BY <1>15 DEF vars
<1> QED BY <1>1, <1>2, <1>3, <1>4, <1>5, <1>6, <1>7, <1>8, <1>9, <1>10, <1>11, <1>12, <1>13, <1>14, <1>15 DEF Next

LEMMA MappedKept == TypeOK /\ Ordered /\ Mapped /\ [Next]_vars => Mapped'
<1> SUFFICES ASSUME TypeOK, Ordered, Mapped, [Next]_vars PROVE Mapped'
  OBVIOUS
<1> USE DEF NoRun
<1>1. CASE Disclose
  BY <1>1 DEF Disclose, Mapped, Covers, tables
<1>2. ASSUME NEW s \in SBOMs, InsertPackages(s) PROVE Mapped'
  BY <1>2 DEF InsertPackages, Mapped, Covers, Waiting, TypeOK, tables
<1>3. ASSUME NEW s \in SBOMs, Query(s) PROVE Mapped'
  <2> SUFFICES ASSUME faults' = 0, ~SkipOSV, run # NoRun,
                      NEW x \in run.new, x[1] \in disclosed, x[2] \in Affects[x[1]],
                      NEW t \in SBOMs, x[2] \in Packages[t], Covers(t, x)
               PROVE  Covers(t, x)'
    BY <1>3 DEF TypeOK, Mapped, Query, Fault, Hydrated, tables
  <2>1. PICK p \in job[s].todo : \/ job' = [job EXCEPT ![s].todo = @ \ {p}, ![s].found = @ \cup Answer(p)]
                               \/ faults' = faults + 1
    BY <1>3 DEF Query, Fault
  <2>2. faults' # faults + 1
    BY DEF TypeOK
  <2>3. job[s] \in Asking /\ findings' = findings
    BY <1>3 DEF Query, TypeOK, Waiting, tables
  <2>4. /\ \A u \in SBOMs \ {s} : job'[u] = job[u]
        /\ job'[s].step = "query" /\ job'[s].todo = job[s].todo \ {p} /\ job'[s].found = job[s].found \cup Answer(p)
    BY <2>1, <2>3, <2>2 DEF Asking, TypeOK
  <2>5. x[2] = p => x \in Answer(p)
    <3>1. x \in Pairs
      BY InRun DEF Running
    <3> QED BY <3>1 DEF Answer, Pairs
  <2> QED BY <2>3, <2>4, <2>5 DEF Covers, Asking, Waiting
<1>4. ASSUME NEW s \in SBOMs, InsertFindings(s) PROVE Mapped'
  <2> SUFFICES ASSUME faults' = 0, ~SkipOSV, run # NoRun,
                      NEW x \in run.new, x[1] \in disclosed, x[2] \in Affects[x[1]],
                      NEW t \in SBOMs, x[2] \in Packages[t], Covers(t, x)
               PROVE  Covers(t, x)'
    BY <1>4 DEF TypeOK, Mapped, InsertFindings, Fault, Hydrated, tables
  <2>1. findings' = findings \cup {<<s, y[1], y[2]>> : y \in job[s].found} /\ job' = [job EXCEPT ![s] = [step |-> "commit"]]
    BY <1>4 DEF InsertFindings, Hydrated, Fault, TypeOK
  <2>2. job[s].step = "query" /\ job[s] # Waiting /\ job[s].todo = {}
    BY <1>4 DEF InsertFindings, Waiting
  <2>3. \A u \in SBOMs \ {s} : job'[u] = job[u]
    BY <2>1 DEF TypeOK
  <2> QED BY <2>1, <2>2, <2>3 DEF Covers
<1>5. ASSUME NEW s \in SBOMs, Commit(s) PROVE Mapped'
  <2> SUFFICES ASSUME faults' = 0, ~SkipOSV, run # NoRun,
                      NEW x \in run.new, x[1] \in disclosed, x[2] \in Affects[x[1]],
                      NEW t \in SBOMs, x[2] \in Packages[t], Covers(t, x)
               PROVE  Covers(t, x)'
    BY <1>5 DEF TypeOK, Mapped, Commit, Fault, Hydrated, tables
  <2> QED BY <1>5 DEF Commit, Covers, Waiting, TypeOK, tables
<1>6. ASSUME NEW s \in SBOMs, JobFails(s) PROVE Mapped'
  BY <1>6 DEF JobFails, Fault, TypeOK, Mapped
<1>7. CASE Start
  BY <1>7, Fields DEF Start, Mapped, Covers, tables
<1>8. CASE LoadKeys
  BY <1>8, Fields DEF LoadKeys, Mapped, Covers, tables
<1>9. CASE QueryBatch
  <2>1. run \in Running
    BY <1>9, InRun DEF QueryBatch
  <2>2. PICK p \in run.todo : \/ run' = [run EXCEPT !.todo = @ \ {p}, !.new = @ \cup (Answer(p) \ run.keys)]
                             \/ faults' = faults + 1
    BY <1>9 DEF QueryBatch, Fault
  <2>3. SUFFICES ASSUME faults' = 0, ~SkipOSV, NEW x \in run'.new
                 PROVE  x[1] \in disclosed /\ x[2] \in Affects[x[1]] /\ run'.step = "query"
    BY <1>9 DEF QueryBatch, Mapped
  <2>4. run.step = "query" /\ faults = 0 /\ faults' # faults + 1
    BY <1>9, <2>3 DEF QueryBatch, Fault, TypeOK
  <2>5. run'.step = "query" /\ run'.new = run.new \cup (Answer(p) \ run.keys)
    BY <2>1, <2>2, <2>4 DEF Running
  <2>6. x \in Answer(p) => x[1] \in disclosed /\ x[2] \in Affects[x[1]]
    BY DEF Answer
  <2> QED BY <1>9, <2>3, <2>5, <2>6, <2>4 DEF QueryBatch, Mapped
<1>10. CASE Hydrate
  <2>1. run \in Running
    BY <1>10, InRun DEF Hydrate
  <2>2. PICK kept \in Kept(run.new) : run' = [run EXCEPT !.step = "map", !.todo = {y[2] : y \in kept}, !.new = kept,
                                              !.clean = @ /\ kept = run.new]
    BY <1>10 DEF Hydrate
  <2>3. kept \subseteq run.new /\ run'.step = "map" /\ run'.todo = {y[2] : y \in kept} /\ run'.new = kept
    BY <2>1, <2>2 DEF Running, Kept
  <2>4. UNCHANGED disclosed /\ (faults' = 0 => faults = 0) /\ run # NoRun
    BY <1>10 DEF Hydrate, Hydrated, Fault, TypeOK
  <2> QED BY <2>3, <2>4 DEF Mapped
<1>11. CASE Map
  <2>1. run \in Running /\ run.step = "map"
    BY <1>11, InRun DEF Map
  <2>2. PICK p \in run.todo : run' = [run EXCEPT !.todo = @ \ {p}, !.rows = @ \cup buildRows(p)]
    BY <1>11 DEF Map
  <2>3. /\ run'.step = "map" /\ run'.todo = run.todo \ {p} /\ run'.rows = run.rows \cup buildRows(p) /\ run'.new = run.new
        /\ UNCHANGED <<disclosed, job, findings, faults>>
    BY <1>11, <2>1, <2>2 DEF Running, Map, tables
  <2>4. ASSUME faults = 0, NEW x \in run.new, x[2] = p, NEW t \in SBOMs, p \in Packages[t]
        PROVE  job[t] = Waiting \/ <<t, x[1], x[2]>> \in buildRows(p)
    BY <2>4 DEF Ordered, buildRows, SBOMsWith
  <2> QED BY <2>1, <2>3, <2>4 DEF Mapped, Covers
<1>12. CASE InsertBatch
  BY <1>12, Fields DEF InsertBatch, Mapped, Covers, tables
<1>13. CASE Complete
  BY <1>13, Fields DEF Complete, Mapped, Covers, tables
<1>14. CASE RunFails
  BY <1>14 DEF RunFails, Fault, TypeOK, Mapped
<1>15. CASE UNCHANGED vars
  BY <1>15 DEF vars, Mapped, Covers, tables
<1> QED BY <1>1, <1>2, <1>3, <1>4, <1>5, <1>6, <1>7, <1>8, <1>9, <1>10, <1>11, <1>12, <1>13, <1>14, <1>15 DEF Next

-----------------------------------------------------------------------------
LEMMA Inductive == IInv /\ [Next]_vars => IInv'
BY Typed, BeganKept, PursuedKept, OrderedKept, MappedKept DEF IInv

LEMMA Invariance == Spec => []IInv
BY Initially, Inductive, PTL DEF Spec

\* After a run in which nothing failed, whatever failed in ingests and runs before and
\* goes on beside it, no disclosed vulnerability of a package that was there is unknown
\* (cve-refresher/main.go:67-237).
THEOREM CleanRunsCatchUp == Spec => []CatchesUpUnlessKnown
<1>1. IInv => CatchesUpUnlessKnown
  <2> SUFFICES ASSUME IInv, run.step = "completed", run.clean,
                      NEW s \in run.base \cap committed, NEW v \in run.since, NEW x \in Affected(s, v)
               PROVE  Found(s, x) \/ \E t \in SBOMs \ {s} : <<t, x[1], x[2]>> \in findings
    BY DEF CatchesUpUnlessKnown
  <2>1. run \in Running
    BY InRun DEF IInv, NoRun
  <2>2. s \in SBOMs /\ v \in Vulns
    BY <2>1 DEF Running
  <2>3. PICK p \in Affects[v] \cap Packages[s] : x = <<v, p>>
    BY DEF Affected
  <2>4. x \in Pairs /\ Due(x)
    BY <2>2, <2>3, RefreshAssumption DEF Pairs, Due
  <2>5. Known(x)
    BY <2>1, <2>4 DEF IInv, Pursued, NoRun
  <2> QED BY <2>2, <2>5 DEF Known, Found
<1> QED BY Invariance, <1>1, PTL

\* Without failures, each new pair of a run has its row for every committed SBOM with the
\* package: mapped, or ingested late enough to have been told by OSV
\* (cve-refresher/main.go:179-220, parsing-worker/main.go:502-608).
THEOREM NewFindingsReachAll == Spec => []NewReachAll
<1>1. IInv => NewReachAll
  <2> SUFFICES ASSUME IInv, run.step = "completed", faults = 0, ~SkipOSV,
                      NEW s \in committed, NEW x \in run.new, x[2] \in Packages[s]
               PROVE  <<s, x[1], x[2]>> \in findings
    BY DEF NewReachAll, Found
  <2>1. s \in SBOMs /\ job[s].step = "done"
    BY DEF IInv, TypeOK, Ordered
  <2>2. Covers(s, x) \/ <<s, x[1], x[2]>> \in run.rows
    BY <2>1 DEF IInv, Mapped, NoRun
  <2>3. run.rows = {}
    BY DEF IInv, Mapped, NoRun
  <2> QED BY <2>1, <2>2, <2>3 DEF Covers, Waiting
<1> QED BY Invariance, <1>1, PTL

=============================================================================
