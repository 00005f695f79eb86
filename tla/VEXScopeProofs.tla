----------------------------- MODULE VEXScopeProofs -----------------------------
(***************************************************************************)
(* LostOnlyWhenRaced, ScopeStays and InertOnlyWhenRaced of VEXScope, for   *)
(* any workers, documents, statements, SBOMs and faults, where statements  *)
(* have vex_ids of their own.                                              *)
(***************************************************************************)
EXTENDS VEXScope, TLAPS

\* vex_id is made of the document, the vulnerability and the component: it is a
\* statement's own unless a document says the same about one component of two products.
OwnIDs == \A st1, st2 \in Statements : VexID[st1] = VexID[st2] => st1 = st2

Steps == {"exists", "count", "resolve", "delete", "insert", "complete",
          "guard", "commit", "query", "rescue", "clean"}
VEXSteps == {"exists", "count", "delete", "insert", "complete"}
SBOMSteps == {"guard", "commit", "query", "rescue", "clean"}

Row == [st : Statements, sbom : SBOMs \cup {None}, at : Nat]
Activity ==
  [job : Jobs, step : Steps, at : Nat, replacing : BOOLEAN, found : SUBSET Row, refs : SUBSET Refs,
   scope : [Refs -> SBOMs \cup {None}]]

TypeOK ==
  /\ queue \in [Jobs -> {"waiting", "running", "done", "failed"}]
  /\ act \in [Workers -> Activity \cup {Idle}]
  /\ rows \in SUBSET Row
  /\ sboms \in SUBSET SBOMs
  /\ clock \in Nat
  /\ faults \in Nat
  /\ raced \in SUBSET Statements

Working(w) == act[w] # Idle

\* A job is in one worker's hands, and its steps are those of its kind.
Holding ==
  \A w \in Workers : Working(w) =>
    /\ queue[act[w].job] = "running"
    /\ \A v \in Workers : Working(v) /\ act[v].job = act[w].job => v = w
    /\ act[w].step \in VEXSteps => act[w].job \in VEXJobs
    /\ act[w].step \in SBOMSteps => act[w].job \in SBOMs
    /\ act[w].job \in VEXJobs => act[w].found = {}

\* No row is from the future, and what a rescue pass has in hand is unscoped.
Past ==
  /\ \A r \in rows : r.at <= clock
  /\ \A w \in Workers : Working(w) => /\ act[w].job \in VEXJobs => act[w].at <= clock
                                      /\ \A r \in act[w].found : r.sbom = None

\* The rows of one statement that are scoped, and those that are not, have a newest one.
Alike(r, q) == q.st = r.st /\ (q.sbom = None <=> r.sbom = None)
Newest ==
  \A r \in rows : \E q \in rows : Alike(r, q) /\ \A p \in rows : Alike(r, p) => p.at <= q.at

\* What a rescue pass is about to delete has a newer copy with its scope.
CopiedFirst ==
  \A st \in Statements \ raced : Copied(st) => IsScoped(st)

Present(st) == \E r \in rows : r.st = st

\* A job of the document waits to be run, or will insert it.
Pending(doc) ==
  \E j \in VEXJobs :
    /\ Doc[j] = doc
    /\ \/ queue[j] \in {"waiting", "failed"}
       \/ \E w \in Workers : /\ Working(w) /\ act[w].job = j
                             /\ act[w].step \in {"exists", "resolve", "delete", "insert"}

\* A statement without a row was never inserted, or deleted with its document by a job
\* that will bring it again; no rescue pass knows of it.
WholeOrPending ==
  \A st \in Statements \ raced :
    \/ Present(st)
    \/ /\ Pending(Doc[st]) /\ ~Rescuing(Doc[st])
       /\ \A r \in rows : Doc[r.st] # Doc[st]

\* A rescue pass follows the commit.  Without faults an SBOM job before its commit finds no
\* row in sboms, and one without a row has not been run or is before its commit.
Committing ==
  /\ \A w \in Workers : Working(w) =>
       /\ act[w].step \in {"query", "resolve", "rescue", "clean"} /\ act[w].job \in SBOMs => act[w].job \in sboms
       /\ faults = 0 /\ act[w].step \in {"guard", "commit"} => act[w].job \notin sboms
  /\ faults = 0 => \A s \in SBOMs :
       /\ queue[s] = "waiting" => s \notin sboms
       /\ queue[s] # "failed"
       /\ s \notin sboms => \/ queue[s] = "waiting"
                            \/ \E w \in Workers : /\ Working(w) /\ act[w].job = s
                                                  /\ act[w].step \in {"guard", "commit"}

\* A rescue pass has st in hand and will scope it.
WillScope(st) ==
  \E w \in Workers :
    /\ Working(w) /\ act[w].job \in SBOMs /\ act[w].step \in {"resolve", "rescue"}
    /\ \E r \in act[w].found : r.st = st
    /\ (act[w].step = "resolve" /\ Product[st] \in act[w].refs) \/ act[w].scope[Product[st]] # None

\* Without faults a statement whose product exists is scoped, or the rescue pass of the
\* product is still to read the table, or a pass has the statement in hand.
ScopedOrPending ==
  faults = 0 =>
    \A st \in Statements \ raced : \A s \in SBOMs : Product[st] \in Describes[s] =>
      \/ ~Present(st) \/ IsScoped(st) \/ ~PassRead(s)
      \/ s \in sboms /\ WillScope(st)

IInv == /\ TypeOK /\ Holding /\ Past /\ Newest /\ CopiedFirst /\ WholeOrPending
        /\ Committing /\ ScopedOrPending

LEMMA Initially == Init => IInv
<1> SUFFICES ASSUME Init PROVE IInv
  OBVIOUS
<1>1. TypeOK
  BY DEF Init, TypeOK
<1>2. \A w \in Workers : ~Working(w) /\ ~At(w, "clean")
  BY DEF Init, Working, At, Idle
<1>3. rows = {} /\ raced = {} /\ sboms = {} /\ \A j \in Jobs : queue[j] = "waiting"
  BY DEF Init
<1>4. Holding /\ Past /\ Newest
  BY <1>2, <1>3 DEF Holding, Past, Newest
<1>5. CopiedFirst
  BY <1>2 DEF CopiedFirst, Copied
<1>6. WholeOrPending
  <2> SUFFICES ASSUME NEW st \in Statements PROVE Pending(Doc[st]) /\ ~Rescuing(Doc[st])
    BY <1>3 DEF WholeOrPending
  <2>1. Pending(Doc[st])
    BY <1>3, VEXAssumption DEF Pending, Jobs
  <2> QED
    BY <1>2, <2>1 DEF Rescuing, Working
<1>7. Committing
  BY <1>2, <1>3 DEF Committing, Jobs
<1>8. ScopedOrPending
  BY <1>3 DEF ScopedOrPending, Present
<1> QED
  BY <1>1, <1>4, <1>5, <1>6, <1>7, <1>8 DEF IInv

-----------------------------------------------------------------------------
(* What the actions do to the activities and the queue.                    *)

Acts == act' \in [Workers -> Activity \cup {Idle}]
Queues == queue' \in [Jobs -> {"waiting", "running", "done", "failed"}]
Others(w) == \A v \in Workers \ {w} : act'[v] = act[v]

Starts(w, j, step) ==
  /\ Acts /\ Queues /\ Others(w) /\ ~Working(w) /\ Working(w)'
  /\ queue[j] = "waiting" /\ queue' = [queue EXCEPT ![j] = "running"]
  /\ act'[w].job = j /\ act'[w].step = step /\ act'[w].at = clock + 1 /\ act'[w].found = {}

Goes(w, steps) ==
  /\ Acts /\ queue' = queue /\ Others(w) /\ Working(w) /\ Working(w)'
  /\ act'[w].step \in steps
  /\ act'[w].job = act[w].job /\ act'[w].at = act[w].at /\ act'[w].found = act[w].found

Stops(w, statuses) ==
  /\ Acts /\ Queues /\ Others(w) /\ Working(w) /\ act'[w] = Idle
  /\ \E status \in statuses : queue' = [queue EXCEPT ![act[w].job] = status]

\* A worker with a job, and the step it is at.
LEMMA InHand ==
  ASSUME TypeOK, NEW w \in Workers
  PROVE  /\ Working(w) <=> act[w].step # "idle"
         /\ Working(w) => act[w] \in Activity /\ act[w].step \in Steps /\ act[w].job \in Jobs
         /\ \A step \in Steps : At(w, step) => Working(w) /\ act[w].step = step
BY DEF TypeOK, Working, Activity, Steps, Idle, At

LEMMA Idles ==
  ASSUME NEW w \in Workers, act[w] = Idle PROVE act[w].step = "idle"
BY DEF Idle

LEMMA GotoGoes ==
  ASSUME TypeOK, NEW w \in Workers, Working(w), NEW step \in Steps, Goto(w, step)
  PROVE  Goes(w, {step}) /\ act'[w].scope = act[w].scope /\ act'[w].refs = act[w].refs
<1>1. act[w] \in Activity
  BY InHand
<1>2. act' = [act EXCEPT ![w] = [act[w] EXCEPT !.step = step]] /\ queue' = queue
  BY DEF Goto
<1>3. [act[w] EXCEPT !.step = step] \in Activity
  BY <1>1 DEF Activity
<1>4. act'[w] = [act[w] EXCEPT !.step = step] /\ Others(w) /\ Acts
  BY <1>2, <1>3 DEF TypeOK, Others, Acts
<1>5. /\ act'[w].step = step /\ act'[w].job = act[w].job /\ act'[w].at = act[w].at
      /\ act'[w].found = act[w].found /\ act'[w].scope = act[w].scope /\ act'[w].refs = act[w].refs
  BY <1>1, <1>4 DEF Activity
<1>6. Working(w)'
  BY <1>5 DEF Working, Idle, Steps
<1> QED
  BY <1>2, <1>4, <1>5, <1>6 DEF Goes

LEMMA FinishStops ==
  ASSUME TypeOK, NEW w \in Workers, Working(w),
         NEW status \in {"waiting", "done", "failed"}, Finish(w, status)
  PROVE  Stops(w, {status})
BY InHand DEF TypeOK, Finish, Stops, Acts, Queues, Others

LEMMA ClaimVEXStarts ==
  ASSUME TypeOK, NEW w \in Workers, ClaimVEX(w)
  PROVE  \E j \in VEXJobs : Starts(w, j, "exists")
<1>1. PICK j \in VEXJobs :
        /\ queue[j] = "waiting" /\ queue' = [queue EXCEPT ![j] = "running"]
        /\ act' = [act EXCEPT ![w] = Fresh(j, "exists", {Product[st] : st \in Of(Doc[j])})]
  BY DEF ClaimVEX
<1> DEFINE fresh == Fresh(j, "exists", {Product[st] : st \in Of(Doc[j])})
<1>2. {Product[st] : st \in Of(Doc[j])} \in SUBSET Refs
  BY VEXAssumption DEF Of
<1>3. fresh \in Activity
  BY <1>2 DEF Fresh, Activity, TypeOK, Jobs, Steps
<1>4. fresh.job = j /\ fresh.step = "exists" /\ fresh.at = clock + 1 /\ fresh.found = {}
  BY DEF Fresh
<1> HIDE DEF fresh
<1>5. act'[w] = fresh /\ Others(w) /\ Acts
  BY <1>1, <1>3 DEF TypeOK, Others, Acts, fresh
<1>6. ~Working(w) /\ Working(w)'
  BY <1>4, <1>5 DEF ClaimVEX, Working, Idle
<1>7. Queues
  BY <1>1 DEF TypeOK, Queues
<1> QED
  BY <1>1, <1>4, <1>5, <1>6, <1>7 DEF Starts

LEMMA ClaimSBOMStarts ==
  ASSUME TypeOK, NEW w \in Workers, ClaimSBOM(w)
  PROVE  \E s \in SBOMs : Starts(w, s, "guard")
<1>1. PICK s \in SBOMs :
        /\ queue[s] = "waiting" /\ queue' = [queue EXCEPT ![s] = "running"]
        /\ act' = [act EXCEPT ![w] = Fresh(s, "guard", {})]
  BY DEF ClaimSBOM
<1> DEFINE fresh == Fresh(s, "guard", {})
<1>2. fresh \in Activity
  BY DEF Fresh, Activity, TypeOK, Jobs, Steps
<1>3. fresh.job = s /\ fresh.step = "guard" /\ fresh.at = clock + 1 /\ fresh.found = {}
  BY DEF Fresh
<1> HIDE DEF fresh
<1>4. act'[w] = fresh /\ Others(w) /\ Acts
  BY <1>1, <1>2 DEF TypeOK, Others, Acts, fresh
<1>5. ~Working(w) /\ Working(w)'
  BY <1>3, <1>4 DEF ClaimSBOM, Working, Idle
<1>6. Queues
  BY <1>1 DEF TypeOK, Queues
<1> QED
  BY <1>1, <1>3, <1>4, <1>5, <1>6 DEF Starts

LEMMA ToScopeGoes ==
  ASSUME TypeOK, NEW w \in Workers, Working(w), act[w].job \in VEXJobs,
         NEW replacing \in BOOLEAN, ToScope(w, replacing)
  PROVE  Goes(w, {"resolve"})
<1> DEFINE refs == IF Target[act[w].job] = None THEN act[w].refs ELSE {}
           scope == IF Target[act[w].job] = None THEN act[w].scope ELSE [r \in Refs |-> Target[act[w].job]]
           next == [act[w] EXCEPT !.replacing = replacing, !.step = "resolve", !.refs = refs, !.scope = scope]
<1>1. act[w] \in Activity
  BY InHand
<1>2. act' = [act EXCEPT ![w] = next] /\ queue' = queue
  BY DEF ToScope
<1>3. refs \in SUBSET Refs /\ scope \in [Refs -> SBOMs \cup {None}]
  BY <1>1, VEXAssumption DEF Activity
<1> HIDE DEF refs, scope
<1>4. next \in Activity
  BY <1>1, <1>3 DEF Activity, Steps
<1>5. next.step = "resolve" /\ next.job = act[w].job /\ next.at = act[w].at /\ next.found = act[w].found
  BY <1>1 DEF Activity
<1> HIDE DEF next
<1>6. act'[w] = next /\ Others(w) /\ Acts
  BY <1>2, <1>4 DEF TypeOK, Others, Acts
<1>7. Working(w)'
  BY <1>5, <1>6 DEF Working, Idle
<1> QED
  BY <1>2, <1>5, <1>6, <1>7 DEF Goes

\* One look-up, or the end of them.
LEMMA ResolveGoes ==
  ASSUME TypeOK, NEW w \in Workers, NEW next \in Steps, Resolve(w, next)
  PROVE  /\ Goes(w, {"resolve", next}) /\ act[w].step = "resolve"
         /\ UNCHANGED <<rows, sboms, clock, raced>>
         /\ \/ act[w].refs = {} /\ act'[w].scope = act[w].scope /\ act'[w].refs = act[w].refs /\ faults' = faults
            \/ \E ref \in act[w].refs : \E s \in SBOMs \cup {None} :
                 /\ act'[w].step = "resolve" /\ act'[w].refs = act[w].refs \ {ref}
                 /\ act'[w].scope = [act[w].scope EXCEPT ![ref] = s]
                 /\ faults' = faults /\ (\E t \in sboms : ref \in Describes[t]) => s # None
                 /\ faults' \in {faults, faults + 1}
<1>1. Working(w) /\ act[w].step = "resolve" /\ act[w] \in Activity
  BY InHand DEF Resolve, Steps
<1>2. UNCHANGED <<rows, sboms, clock, raced>>
  BY DEF Resolve
<1>3. CASE act[w].refs = {}
  BY <1>1, <1>2, <1>3, GotoGoes DEF Resolve, Goes
<1>4. CASE act[w].refs # {}
  <2>0. PICK ref \in act[w].refs : \E s \in {t \in sboms : ref \in Describes[t]} \cup {None} :
          /\ IF s \notin {t \in sboms : ref \in Describes[t]} /\ {t \in sboms : ref \in Describes[t]} # {}
               THEN Faulty(w) ELSE UNCHANGED faults
          /\ act' = [act EXCEPT ![w].refs = @ \ {ref}, ![w].scope[ref] = s]
          /\ queue' = queue
    BY <1>4 DEF Resolve
  <2>1. PICK s \in {t \in sboms : ref \in Describes[t]} \cup {None} :
          /\ IF s \notin {t \in sboms : ref \in Describes[t]} /\ {t \in sboms : ref \in Describes[t]} # {}
               THEN Faulty(w) ELSE UNCHANGED faults
          /\ act' = [act EXCEPT ![w].refs = @ \ {ref}, ![w].scope[ref] = s]
          /\ queue' = queue
    BY <2>0
  <2> DEFINE scope == [act[w].scope EXCEPT ![ref] = s]
             after == [act[w] EXCEPT !.refs = act[w].refs \ {ref}, !.scope = scope]
  <2>2. s \in SBOMs \cup {None}
    BY <2>1 DEF TypeOK
  <2>3. act' = [act EXCEPT ![w] = after]
    BY <1>1, <2>1 DEF Activity, TypeOK
  <2>4. scope \in [Refs -> SBOMs \cup {None}]
    BY <1>1, <2>2 DEF Activity
  <2> HIDE DEF scope
  <2>5. after \in Activity
    BY <1>1, <2>4 DEF Activity
  <2>6. /\ after.step = "resolve" /\ after.job = act[w].job /\ after.at = act[w].at
        /\ after.found = act[w].found /\ after.refs = act[w].refs \ {ref} /\ after.scope = scope
    BY <1>1 DEF Activity
  <2> HIDE DEF after
  <2>7. act'[w] = after /\ Others(w) /\ Acts
    BY <2>3, <2>5 DEF TypeOK, Others, Acts
  <2>8. Working(w)'
    BY <2>6, <2>7 DEF Working, Idle
  <2>9. Goes(w, {"resolve", next})
    BY <1>1, <2>1, <2>6, <2>7, <2>8 DEF Goes
  <2>10. /\ faults' \in {faults, faults + 1}
         /\ faults' = faults /\ (\E t \in sboms : ref \in Describes[t]) => s # None
    <3>1. None \notin sboms /\ faults \in Nat
      BY VEXAssumption DEF TypeOK
    <3> QED
      BY <2>1, <3>1 DEF Faulty
  <2>11. act'[w].scope = [act[w].scope EXCEPT ![ref] = s]
    BY <2>6, <2>7 DEF scope
  <2> QED
    BY <1>1, <1>2, <2>1, <2>2, <2>6, <2>7, <2>9, <2>10, <2>11
<1> QED
  BY <1>3, <1>4

LEMMA ExistsDoes ==
  ASSUME TypeOK, Holding, NEW w \in Workers, Exists(w)
  PROVE  /\ act[w].step = "exists" /\ Working(w) /\ UNCHANGED <<rows, sboms, clock, raced>>
         /\ faults' \in {faults, faults + 1}
         /\ \/ Goes(w, {"count"}) /\ \E r \in rows : Doc[r.st] = Doc[act[w].job]
            \/ Goes(w, {"resolve"})
<1>1. Working(w) /\ act[w].step = "exists" /\ act[w].job \in VEXJobs
  BY InHand DEF Exists, Steps, Holding, VEXSteps
<1>2. ToScope(w, FALSE) => Goes(w, {"resolve"})
  BY <1>1, ToScopeGoes
<1>3. Goto(w, "count") => Goes(w, {"count"})
  BY <1>1, GotoGoes DEF Steps
<1> QED
  BY <1>1, <1>2, <1>3 DEF Exists, Faulty

LEMMA CountDoes ==
  ASSUME TypeOK, Holding, NEW w \in Workers, Count(w)
  PROVE  /\ act[w].step = "count" /\ Working(w) /\ UNCHANGED <<rows, sboms, clock, faults, raced>>
         /\ Goes(w, {"resolve"}) \/ Stops(w, {"done"})
<1>1. Working(w) /\ act[w].step = "count" /\ act[w].job \in VEXJobs
  BY InHand DEF Count, Steps, Holding, VEXSteps
<1>2. ToScope(w, TRUE) => Goes(w, {"resolve"})
  BY <1>1, ToScopeGoes
<1>3. Finish(w, "done") => Stops(w, {"done"})
  BY <1>1, FinishStops
<1> QED
  BY <1>1, <1>2, <1>3 DEF Count

LEMMA ResolveVEXDoes ==
  ASSUME TypeOK, NEW w \in Workers, ResolveVEX(w)
  PROVE  /\ act[w].step = "resolve" /\ act[w].job \in VEXJobs /\ UNCHANGED <<rows, sboms, clock, raced>>
         /\ faults' \in {faults, faults + 1} /\ Goes(w, {"resolve", "delete", "insert"})
<1>1. PICK next \in {"delete", "insert"} : Resolve(w, next) /\ act[w].job \in VEXJobs
  BY DEF ResolveVEX
<1>2. next \in Steps
  BY DEF Steps
<1> QED
  BY <1>1, <1>2, ResolveGoes DEF Goes

LEMMA DeleteDoes ==
  ASSUME TypeOK, Holding, NEW w \in Workers, Delete(w)
  PROVE  /\ act[w].step = "delete" /\ act[w].job \in VEXJobs /\ UNCHANGED <<sboms, clock, faults>>
         /\ Goes(w, {"insert"})
<1>1. Working(w) /\ act[w].step = "delete" /\ act[w].job \in VEXJobs
  BY InHand DEF Delete, Steps, Holding, VEXSteps
<1> QED
  BY <1>1, GotoGoes DEF Delete, Steps

LEMMA InsertDoes ==
  ASSUME TypeOK, Holding, NEW w \in Workers, Insert(w)
  PROVE  /\ act[w].step = "insert" /\ act[w].job \in VEXJobs /\ UNCHANGED <<sboms, clock, faults>>
         /\ Goes(w, {"complete"})
<1>1. Working(w) /\ act[w].step = "insert" /\ act[w].job \in VEXJobs
  BY InHand DEF Insert, Steps, Holding, VEXSteps
<1> QED
  BY <1>1, GotoGoes DEF Insert, Steps

LEMMA CompleteVEXDoes ==
  ASSUME TypeOK, NEW w \in Workers, CompleteVEX(w)
  PROVE  /\ act[w].step = "complete" /\ UNCHANGED <<rows, sboms, clock, faults, raced>>
         /\ Stops(w, {"done"})
<1>1. Working(w) /\ act[w].step = "complete"
  BY InHand DEF CompleteVEX, Steps
<1> QED
  BY <1>1, FinishStops DEF CompleteVEX

LEMMA GuardDoes ==
  ASSUME TypeOK, NEW w \in Workers, Guard(w)
  PROVE  /\ act[w].step = "guard" /\ UNCHANGED <<rows, sboms, clock, raced>>
         /\ \/ faults' = faults /\ act[w].job \in sboms /\ Stops(w, {"done"})
            \/ faults' = faults /\ act[w].job \notin sboms /\ Goes(w, {"commit"})
            \/ faults' = faults + 1 /\ Goes(w, {"commit"})
<1>1. Working(w) /\ act[w].step = "guard"
  BY InHand DEF Guard, Steps
<1>2. Goto(w, "commit") => Goes(w, {"commit"})
  BY <1>1, GotoGoes DEF Steps
<1>3. Finish(w, "done") => Stops(w, {"done"})
  BY <1>1, FinishStops
<1> QED
  BY <1>1, <1>2, <1>3 DEF Guard, Faulty

LEMMA CommitDoes ==
  ASSUME TypeOK, Holding, NEW w \in Workers, Commit(w)
  PROVE  /\ act[w].step = "commit" /\ act[w].job \in SBOMs /\ UNCHANGED <<rows, clock, faults, raced>>
         /\ sboms' = sboms \cup {act[w].job} /\ Goes(w, {"query"})
<1>1. Working(w) /\ act[w].step = "commit" /\ act[w].job \in SBOMs
  BY InHand DEF Commit, Steps, Holding, SBOMSteps
<1> QED
  BY <1>1, GotoGoes DEF Commit, Steps

\* The rows a rescue pass takes up.
Unscoped == {r \in Final : r.sbom = None}

LEMMA QueryDoes ==
  ASSUME TypeOK, Holding, NEW w \in Workers, Query(w)
  PROVE  /\ act[w].step = "query" /\ act[w].job \in SBOMs /\ UNCHANGED <<rows, sboms, clock, faults, raced>>
         /\ \/ Unscoped = {} /\ Stops(w, {"done"})
            \/ /\ Unscoped # {}
               /\ Acts /\ queue' = queue /\ Others(w) /\ Working(w) /\ Working(w)'
               /\ act'[w].step = "resolve" /\ act'[w].job = act[w].job /\ act'[w].at = act[w].at
               /\ act'[w].found = Unscoped /\ \A r \in Unscoped : Product[r.st] \in act'[w].refs
<1>1. Working(w) /\ act[w].step = "query" /\ act[w].job \in SBOMs /\ act[w] \in Activity
  BY InHand DEF Query, Steps, Holding, SBOMSteps
<1>2. UNCHANGED <<rows, sboms, clock, faults, raced>>
  BY DEF Query
<1>3. CASE Unscoped = {}
  BY <1>1, <1>2, <1>3, FinishStops DEF Query, Unscoped
<1>4. CASE Unscoped # {}
  <2> DEFINE refs == {Product[r.st] : r \in Unscoped}
             after == [act[w] EXCEPT !.step = "resolve", !.found = Unscoped, !.refs = refs]
  <2>1. act' = [act EXCEPT ![w] = after] /\ queue' = queue
    BY <1>4 DEF Query, Unscoped
  <2>2. Unscoped \in SUBSET Row
    BY DEF Unscoped, Final, TypeOK
  <2>3. refs \in SUBSET Refs
    BY <2>2, VEXAssumption DEF Row
  <2>4. \A r \in Unscoped : Product[r.st] \in refs
    OBVIOUS
  <2> HIDE DEF refs
  <2>5. after \in Activity
    BY <1>1, <2>2, <2>3 DEF Activity, Steps
  <2>6. /\ after.step = "resolve" /\ after.job = act[w].job /\ after.at = act[w].at
        /\ after.found = Unscoped /\ after.refs = refs
    BY <1>1 DEF Activity
  <2> HIDE DEF after
  <2>7. act'[w] = after /\ Others(w) /\ Acts
    BY <2>1, <2>5 DEF TypeOK, Others, Acts
  <2>8. Working(w)'
    BY <2>6, <2>7 DEF Working, Idle
  <2> QED
    BY <1>1, <1>2, <1>4, <2>1, <2>4, <2>6, <2>7, <2>8
<1> QED
  BY <1>3, <1>4

LEMMA ResolveRescueDoes ==
  ASSUME TypeOK, NEW w \in Workers, ResolveRescue(w)
  PROVE  act[w].job \in SBOMs /\ Resolve(w, "rescue")
BY DEF ResolveRescue

LEMMA RescueDoes ==
  ASSUME TypeOK, Holding, NEW w \in Workers, Rescue(w)
  PROVE  /\ act[w].step = "rescue" /\ act[w].job \in SBOMs /\ UNCHANGED <<sboms, faults, raced>>
         /\ \/ Rescued(w) = {} /\ UNCHANGED <<rows, clock>> /\ Stops(w, {"done"})
            \/ /\ Rescued(w) # {}
               /\ Inserted(Scoped(w, {r.st : r \in Rescued(w)}, clock + 1)) /\ clock' = clock + 1
               /\ Goes(w, {"clean"}) /\ act'[w].scope = act[w].scope
<1>1. Working(w) /\ act[w].step = "rescue" /\ act[w].job \in SBOMs
  BY InHand DEF Rescue, Steps, Holding, SBOMSteps
<1>2. Goto(w, "clean") => Goes(w, {"clean"}) /\ act'[w].scope = act[w].scope
  BY <1>1, GotoGoes DEF Steps
<1>3. Finish(w, "done") => Stops(w, {"done"})
  BY <1>1, FinishStops
<1> QED
  BY <1>1, <1>2, <1>3 DEF Rescue

LEMMA CleanDoes ==
  ASSUME TypeOK, Holding, NEW w \in Workers, Clean(w)
  PROVE  /\ act[w].step = "clean" /\ act[w].job \in SBOMs /\ UNCHANGED <<sboms, clock, faults, raced>>
         /\ Stops(w, {"done"})
<1>1. Working(w) /\ act[w].step = "clean" /\ act[w].job \in SBOMs
  BY InHand DEF Clean, Steps, Holding, SBOMSteps
<1> QED
  BY <1>1, FinishStops DEF Clean

\* A statement fails, or the worker dies.
LEMMA FaultDoes ==
  ASSUME TypeOK, NEW w \in Workers, Fails(w) \/ Crash(w)
  PROVE  /\ UNCHANGED <<rows, sboms, clock, raced>> /\ faults' = faults + 1
         /\ \/ act[w].step \in {"query", "rescue", "clean"} /\ Stops(w, {"done"})
            \/ Stops(w, {"waiting", "failed"})
<1>1. Working(w)
  BY DEF Fails, Crash, Faulty, Working
<1>2. \A status \in {"waiting", "done", "failed"} : Finish(w, status) => Stops(w, {status})
  BY <1>1, FinishStops
<1> QED
  BY <1>2 DEF Fails, Crash, Faulty, Stops

-----------------------------------------------------------------------------
(* What the actions do to vex_statements.                                  *)

\* Rows with one key are about one statement.
LEMMA KeyOfOne ==
  ASSUME OwnIDs, NEW r \in Row, NEW q \in Row, Key(q) = Key(r)
  PROVE  q.st = r.st
BY DEF OwnIDs, Row, Key

\* What a job and a rescue pass insert: one row of each statement.
LEMMA ScopedRows ==
  ASSUME TypeOK, NEW w \in Workers, Working(w), NEW sts \in SUBSET Statements, NEW at \in Nat
  PROVE  /\ Scoped(w, sts, at) \in SUBSET Row
         /\ \A r \in Scoped(w, sts, at) : r.st \in sts /\ r.sbom = act[w].scope[Product[r.st]] /\ r.at = at
         /\ \A st \in sts : \E r \in Scoped(w, sts, at) : r.st = st
         /\ \A r, q \in Scoped(w, sts, at) : r.st = q.st => r = q
<1> DEFINE row(st) == [st |-> st, sbom |-> act[w].scope[Product[st]], at |-> at]
<1>1. act[w].scope \in [Refs -> SBOMs \cup {None}]
  BY InHand DEF Activity
<1>2. \A st \in sts : act[w].scope[Product[st]] \in SBOMs \cup {None}
  BY <1>1, VEXAssumption
<1>3. \A st \in sts : row(st) \in Row
  BY <1>2 DEF Row
<1>4. Scoped(w, sts, at) = {row(st) : st \in sts}
  BY DEF Scoped
<1>5. \A st \in sts : row(st).st = st /\ row(st).sbom = act[w].scope[Product[st]] /\ row(st).at = at
  OBVIOUS
<1> HIDE DEF row
<1> QED
  BY <1>3, <1>4, <1>5

\* The engine keeps them all.
LEMMA InsertsAll ==
  ASSUME OwnIDs, TypeOK, NEW w \in Workers, Working(w), NEW sts \in SUBSET Statements, NEW at \in Nat,
         Inserted(Scoped(w, sts, at))
  PROVE  rows' = rows \cup Scoped(w, sts, at)
<1> DEFINE new == Scoped(w, sts, at)
<1>1. new \in SUBSET Row /\ \A r, q \in new : r.st = q.st => r = q
  BY ScopedRows
<1> HIDE DEF new
<1>2. PICK kept \in SUBSET new : /\ \A r \in new : \E q \in kept : Key(q) = Key(r)
                                 /\ rows' = rows \cup kept
  BY DEF Inserted, new
<1>3. ASSUME NEW r \in new PROVE r \in kept
  <2>1. PICK q \in kept : Key(q) = Key(r)
    BY <1>2, <1>3
  <2>2. r \in Row /\ q \in Row
    BY <1>1
  <2>3. q.st = r.st
    BY <2>1, <2>2, KeyOfOne
  <2> QED
    BY <1>1, <2>1, <2>3
<1> QED
  BY <1>2, <1>3 DEF new

LEMMA InsertRows ==
  ASSUME OwnIDs, TypeOK, Holding, NEW w \in Workers, Insert(w)
  PROVE  /\ rows' \in SUBSET Row /\ rows \subseteq rows'
         /\ \A r \in rows' \ rows : /\ Doc[r.st] = Doc[act[w].job] /\ r.at = act[w].at
                                    /\ r.sbom = act[w].scope[Product[r.st]]
         /\ \A st \in Statements : Doc[st] = Doc[act[w].job] =>
              \E r \in rows' : r.st = st /\ r.at = act[w].at /\ r.sbom = act[w].scope[Product[st]]
<1>1. Working(w) /\ act[w].at \in Nat
  BY InsertDoes, InHand DEF Goes, Activity
<1>2. Of(Doc[act[w].job]) \in SUBSET Statements
  BY DEF Of
<1>3. rows' = rows \cup Scoped(w, Of(Doc[act[w].job]), act[w].at)
  BY <1>1, <1>2, InsertsAll DEF Insert
<1> DEFINE new == Scoped(w, Of(Doc[act[w].job]), act[w].at)
<1>4. /\ new \in SUBSET Row
      /\ \A r \in new : /\ r.st \in Of(Doc[act[w].job]) /\ r.at = act[w].at
                        /\ r.sbom = act[w].scope[Product[r.st]]
      /\ \A st \in Of(Doc[act[w].job]) : \E r \in new : r.st = st
  BY <1>1, <1>2, ScopedRows
<1> HIDE DEF new
<1>5. rows' = rows \cup new /\ rows \in SUBSET Row
  BY <1>3 DEF new, TypeOK
<1>6. ASSUME NEW st \in Statements, Doc[st] = Doc[act[w].job]
      PROVE  \E r \in rows' : r.st = st /\ r.at = act[w].at /\ r.sbom = act[w].scope[Product[st]]
  BY <1>4, <1>5, <1>6 DEF Of
<1> QED
  BY <1>4, <1>5, <1>6 DEF Of

\* What a rescue pass has in hand, and what of it can be scoped.
LEMMA RescuedRows ==
  ASSUME TypeOK, NEW w \in Workers, Working(w)
  PROVE  /\ Rescued(w) \in SUBSET Row /\ Rescued(w) \subseteq act[w].found
         /\ \A r \in Rescued(w) : r.st \in Statements /\ act[w].scope[Product[r.st]] # None
BY InHand DEF Rescued, Activity, Row

LEMMA RescueRows ==
  ASSUME OwnIDs, TypeOK, Holding, NEW w \in Workers, Rescue(w), Rescued(w) # {}
  PROVE  /\ rows' \in SUBSET Row /\ rows \subseteq rows'
         /\ \A r \in rows' \ rows : /\ \E q \in Rescued(w) : q.st = r.st
                                    /\ r.at = clock + 1 /\ r.sbom # None
         /\ \A q \in Rescued(w) : \E r \in rows' : r.st = q.st /\ r.at = clock + 1 /\ r.sbom # None
<1>1. Working(w) /\ clock + 1 \in Nat
  <2>1. clock + 1 \in Nat
    BY DEF TypeOK
  <2>2. Working(w)
    BY InHand DEF Rescue, Steps
  <2> QED
    BY <2>1, <2>2
<1> DEFINE sts == {r.st : r \in Rescued(w)}
<1>2. sts \in SUBSET Statements
  BY <1>1, RescuedRows
<1>3. Inserted(Scoped(w, sts, clock + 1))
  BY RescueDoes
<1>4. /\ \A st \in sts : \E q \in Rescued(w) : q.st = st /\ act[w].scope[Product[st]] # None
      /\ \A q \in Rescued(w) : q.st \in sts
  BY <1>1, RescuedRows
<1> HIDE DEF sts
<1>5. rows' = rows \cup Scoped(w, sts, clock + 1)
  BY <1>1, <1>2, <1>3, InsertsAll
<1> QED
  BY <1>1, <1>2, <1>4, <1>5, ScopedRows DEF TypeOK

LEMMA CleanRows ==
  ASSUME OwnIDs, TypeOK, Holding, NEW w \in Workers, Clean(w)
  PROVE  /\ rows' \in SUBSET Row /\ rows' \subseteq rows
         /\ \A r \in rows \ rows' : r.sbom = None /\ \E q \in Rescued(w) : q.st = r.st
         /\ \A r \in rows' : r.sbom # None \/ \A q \in Rescued(w) : q.st # r.st
<1>1. \A q \in Rescued(w) : q.st \in Statements
  BY CleanDoes, RescuedRows DEF Stops
<1>2. rows' = {r \in rows : r.sbom # None \/ VexID[r.st] \notin {VexID[q.st] : q \in Rescued(w)}}
  BY DEF Clean, DeleteUnscoped
<1>3. \A r \in rows : r.st \in Statements
  BY DEF TypeOK, Row
<1> QED
  BY <1>1, <1>2, <1>3 DEF OwnIDs, TypeOK

LEMMA DeleteRows ==
  ASSUME TypeOK, NEW w \in Workers, Delete(w)
  PROVE  rows' = {r \in rows : Doc[r.st] # Doc[act[w].job]} /\ rows' \in SUBSET Row
BY DEF Delete, DeleteVEXDocument, TypeOK

\* A merge changes nothing one sees.
LEMMA MergeRows ==
  ASSUME Merge
  PROVE  /\ rows' \subseteq rows /\ Final' = Final
         /\ \A r \in rows' : \A q \in rows : Key(q) = Key(r) => q.at <= r.at
<1>1. rows' = Final
  BY DEF Merge
<1> QED
  BY <1>1 DEF Final

\* A statement with a row is shown.
LEMMA ShowsRows ==
  ASSUME OwnIDs, TypeOK, Newest, NEW r \in rows
  PROVE  \E q \in Final : Key(q) = Key(r) /\ q.st = r.st
<1>1. rows \in SUBSET Row /\ \A p \in rows : p.at \in Int
  BY DEF TypeOK, Row
<1>2. PICK a \in rows : Alike(r, a) /\ \A p \in rows : Alike(r, p) => p.at <= a.at
  BY DEF Newest
<1>3. Key(a) = Key(r) /\ a.st = r.st
  BY <1>2 DEF Alike, Key
<1>4. \A p \in rows : Key(p) = Key(r) => p.st = r.st
  BY <1>1, KeyOfOne
<1>5. CASE \A p \in rows : Key(p) = Key(r) => Alike(r, p)
  BY <1>2, <1>3, <1>5 DEF Final
<1>6. CASE \E p \in rows : Key(p) = Key(r) /\ ~Alike(r, p)
  <2>1. PICK o \in rows : Key(o) = Key(r) /\ ~Alike(r, o)
    BY <1>6
  <2>2. PICK b \in rows : Alike(o, b) /\ \A p \in rows : Alike(o, p) => p.at <= b.at
    BY DEF Newest
  <2>3. Key(b) = Key(r) /\ b.st = r.st
    BY <1>4, <2>1, <2>2 DEF Alike, Key
  <2>4. \A p \in rows : Key(p) = Key(r) => Alike(r, p) \/ Alike(o, p)
    BY <1>4, <2>1 DEF Alike
  <2>5. \A p \in rows : Key(p) = Key(r) => p.at <= a.at \/ p.at <= b.at
    BY <1>2, <2>2, <2>4
  <2>6. CASE a.at <= b.at
    BY <1>1, <2>3, <2>5, <2>6 DEF Final
  <2>7. CASE b.at <= a.at
    BY <1>1, <1>3, <2>5, <2>7 DEF Final
  <2> QED
    BY <1>1, <2>6, <2>7
<1> QED
  BY <1>5, <1>6

-----------------------------------------------------------------------------
(* IInv is inductive.                                                      *)

LEMMA TypeKept ==
  ASSUME OwnIDs, TypeOK, Holding, [Next]_vars
  PROVE  TypeOK'
<1>1. clock \in Nat /\ faults \in Nat /\ raced \in SUBSET Statements /\ sboms \in SUBSET SBOMs
  BY DEF TypeOK
<1>2. Acts /\ (queue' = queue \/ Queues) /\ rows' \in SUBSET Row /\ UNCHANGED <<sboms, raced>>
        /\ clock' \in {clock, clock + 1} /\ faults' \in {faults, faults + 1} => TypeOK'
  BY <1>1 DEF TypeOK, Acts, Queues
<1>3. rows \in SUBSET Row
  BY DEF TypeOK
<1>4. CASE Merge
  BY <1>4 DEF Merge, Final, TypeOK
<1>5. ASSUME NEW j \in Jobs, Retry(j) PROVE TypeOK'
  BY <1>5 DEF Retry, TypeOK
<1>6. ASSUME NEW w \in Workers, ClaimVEX(w) PROVE TypeOK'
  BY <1>2, <1>3, <1>6, ClaimVEXStarts DEF Starts, ClaimVEX
<1>7. ASSUME NEW w \in Workers, Exists(w) PROVE TypeOK'
  BY <1>2, <1>3, <1>7, ExistsDoes DEF Goes
<1>8. ASSUME NEW w \in Workers, Count(w) PROVE TypeOK'
  BY <1>2, <1>3, <1>8, CountDoes DEF Goes, Stops
<1>9. ASSUME NEW w \in Workers, ResolveVEX(w) PROVE TypeOK'
  BY <1>2, <1>3, <1>9, ResolveVEXDoes DEF Goes
<1>10. ASSUME NEW w \in Workers, Delete(w) PROVE TypeOK'
  <2>1. raced' \in SUBSET Statements
    BY <1>1, <1>10 DEF Delete, Of
  <2> QED
    BY <1>1, <1>10, <2>1, DeleteDoes, DeleteRows DEF Goes, TypeOK, Acts
<1>11. ASSUME NEW w \in Workers, Insert(w) PROVE TypeOK'
  <2>1. raced' \in SUBSET Statements
    BY <1>1, <1>11 DEF Insert, Of
  <2> QED
    BY <1>1, <1>11, <2>1, InsertDoes, InsertRows DEF Goes, TypeOK, Acts
<1>12. ASSUME NEW w \in Workers, CompleteVEX(w) PROVE TypeOK'
  BY <1>2, <1>3, <1>12, CompleteVEXDoes DEF Stops
<1>13. ASSUME NEW w \in Workers, ClaimSBOM(w) PROVE TypeOK'
  BY <1>2, <1>3, <1>13, ClaimSBOMStarts DEF Starts, ClaimSBOM
<1>14. ASSUME NEW w \in Workers, Guard(w) PROVE TypeOK'
  BY <1>2, <1>3, <1>14, GuardDoes DEF Goes, Stops
<1>15. ASSUME NEW w \in Workers, Commit(w) PROVE TypeOK'
  BY <1>1, <1>3, <1>15, CommitDoes DEF Goes, TypeOK, Acts
<1>16. ASSUME NEW w \in Workers, Query(w) PROVE TypeOK'
  BY <1>2, <1>3, <1>16, QueryDoes DEF Stops
<1>17. ASSUME NEW w \in Workers, ResolveRescue(w) PROVE TypeOK'
  <2>1. Resolve(w, "rescue") /\ "rescue" \in Steps
    BY <1>17 DEF ResolveRescue, Steps
  <2> QED
    BY <1>2, <1>3, <2>1, ResolveGoes DEF Goes
<1>18. ASSUME NEW w \in Workers, Rescue(w) PROVE TypeOK'
  <2>1. rows' \in SUBSET Row
    <3>1. CASE Rescued(w) = {}
      BY <1>3, <1>18, <3>1 DEF Rescue
    <3>2. CASE Rescued(w) # {}
      BY <1>18, <3>2, RescueRows
    <3> QED
      BY <3>1, <3>2
  <2> QED
    BY <1>2, <1>18, <2>1, RescueDoes DEF Goes, Stops
<1>19. ASSUME NEW w \in Workers, Clean(w) PROVE TypeOK'
  BY <1>2, <1>19, CleanDoes, CleanRows DEF Stops
<1>20. ASSUME NEW w \in Workers, Fails(w) \/ Crash(w) PROVE TypeOK'
  BY <1>2, <1>3, <1>20, FaultDoes DEF Stops
<1>21. CASE UNCHANGED vars
  BY <1>21 DEF vars, TypeOK
<1> QED
  BY <1>4, <1>5, <1>6, <1>7, <1>8, <1>9, <1>10, <1>11, <1>12, <1>13, <1>14, <1>15, <1>16, <1>17,
     <1>18, <1>19, <1>20, <1>21 DEF Next

\* A worker goes on with its job.
LEMMA HoldingGoes ==
  ASSUME TypeOK, Holding, NEW w \in Workers, Others(w), Working(w), queue' = queue, act'[w].job = act[w].job,
         act'[w].step \in VEXSteps => act[w].job \in VEXJobs,
         act'[w].step \in SBOMSteps => act[w].job \in SBOMs,
         act[w].job \in VEXJobs => act'[w].found = {}
  PROVE  Holding'
<1>1. \A v \in Workers : Working(v)' => Working(v) /\ act'[v].job = act[v].job
  BY DEF Others, Working
<1> QED
  BY <1>1 DEF Holding, Others

LEMMA HoldingStarts ==
  ASSUME TypeOK, Holding, NEW w \in Workers, NEW j \in Jobs, NEW step \in {"exists", "guard"}, Starts(w, j, step),
         step = "exists" => j \in VEXJobs, step = "guard" => j \in SBOMs
  PROVE  Holding'
<1>1. \A v \in Workers \ {w} : Working(v)' => Working(v) /\ act'[v] = act[v] /\ act[v].job # j
  BY DEF Starts, Others, Working, Holding
<1>2. act'[w].job = j /\ act'[w].step = step /\ act'[w].found = {} /\ queue' = [queue EXCEPT ![j] = "running"]
  BY DEF Starts
<1>3. queue'[j] = "running" /\ \A i \in Jobs \ {j} : queue'[i] = queue[i]
  BY <1>2 DEF TypeOK
<1>4. \A v \in Workers : Working(v) => act[v].job \in Jobs
  BY InHand
<1> QED
  BY <1>1, <1>2, <1>3, <1>4 DEF Holding, VEXSteps, SBOMSteps

LEMMA HoldingStops ==
  ASSUME TypeOK, Holding, NEW w \in Workers, NEW statuses, Stops(w, statuses)
  PROVE  Holding'
<1>1. \A v \in Workers : Working(v)' => v # w /\ Working(v) /\ act'[v] = act[v] /\ act[v].job # act[w].job
  BY DEF Stops, Others, Working, Holding
<1>2. \A j \in Jobs \ {act[w].job} : queue'[j] = queue[j]
  BY DEF Stops, TypeOK
<1>3. \A v \in Workers : Working(v) => act[v].job \in Jobs
  BY InHand
<1> QED
  BY <1>1, <1>2, <1>3 DEF Holding

LEMMA HoldingKept ==
  ASSUME TypeOK, Holding, [Next]_vars
  PROVE  Holding'
<1>1. ASSUME NEW w \in Workers, ClaimVEX(w) PROVE Holding'
  BY <1>1, ClaimVEXStarts, HoldingStarts DEF Jobs
<1>2. ASSUME NEW w \in Workers, ClaimSBOM(w) PROVE Holding'
  BY <1>2, ClaimSBOMStarts, HoldingStarts DEF Jobs
<1>3. ASSUME NEW w \in Workers,
             \/ Exists(w) \/ Count(w) \/ ResolveVEX(w) \/ Delete(w) \/ Insert(w) \/ CompleteVEX(w)
      PROVE  Holding'
  <2>1. act[w].job \in VEXJobs
    BY <1>3, ExistsDoes, CountDoes, ResolveVEXDoes, DeleteDoes, InsertDoes, CompleteVEXDoes
       DEF Holding, Goes, Stops, VEXSteps
  <2>2. (\E steps : Goes(w, steps) /\ steps \cap SBOMSteps = {}) \/ Stops(w, {"done"})
    BY <1>3, ExistsDoes, CountDoes, ResolveVEXDoes, DeleteDoes, InsertDoes, CompleteVEXDoes
       DEF SBOMSteps
  <2>3. ASSUME NEW steps, Goes(w, steps), steps \cap SBOMSteps = {} PROVE Holding'
    BY <2>1, <2>3, HoldingGoes DEF Goes, Holding
  <2> QED
    BY <2>2, <2>3, HoldingStops
<1>4. ASSUME NEW w \in Workers,
             \/ Guard(w) \/ Commit(w) \/ Query(w) \/ ResolveRescue(w) \/ Rescue(w) \/ Clean(w)
      PROVE  Holding'
  <2>1. ResolveRescue(w) => Goes(w, {"resolve", "rescue"}) /\ act[w].job \in SBOMs
    BY ResolveGoes DEF ResolveRescue, Steps
  <2>2. act[w].job \in SBOMs /\ act[w].job \notin VEXJobs
    <3>1. act[w].job \in SBOMs
      BY <1>4, <2>1, GuardDoes, CommitDoes, QueryDoes, RescueDoes, CleanDoes
         DEF Holding, Goes, Stops, SBOMSteps
    <3> QED
      BY <3>1, VEXAssumption
  <2>3. CASE \E steps : Goes(w, steps) /\ steps \cap VEXSteps = {}
    BY <2>2, <2>3, HoldingGoes DEF Goes
  <2>4. CASE Query(w) /\ Unscoped # {}
    BY <2>2, <2>4, QueryDoes, HoldingGoes DEF Stops, VEXSteps
  <2>5. CASE Stops(w, {"done"})
    BY <2>5, HoldingStops
  <2>6. ASSUME NEW steps \in {{"commit"}, {"query"}, {"resolve", "rescue"}, {"clean"}}, Goes(w, steps) PROVE Holding'
    BY <2>3, <2>6 DEF VEXSteps
  <2>7. CASE Guard(w)
    BY <2>5, <2>6, <2>7, GuardDoes
  <2>8. CASE Commit(w)
    BY <2>6, <2>8, CommitDoes
  <2>9. CASE Query(w)
    BY <2>4, <2>5, <2>9, QueryDoes
  <2>10. CASE ResolveRescue(w)
    BY <2>1, <2>6, <2>10
  <2>11. CASE Rescue(w) \/ Clean(w)
    BY <2>5, <2>6, <2>11, RescueDoes, CleanDoes
  <2> QED
    BY <1>4, <2>7, <2>8, <2>9, <2>10, <2>11
<1>5. ASSUME NEW w \in Workers, Fails(w) \/ Crash(w) PROVE Holding'
  BY <1>5, FaultDoes, HoldingStops
<1>6. ASSUME NEW j \in Jobs, Retry(j) PROVE Holding'
  <2>1. act' = act /\ queue[j] = "failed" /\ queue' = [queue EXCEPT ![j] = "waiting"]
    BY <1>6 DEF Retry
  <2>2. \A v \in Workers : Working(v) => act[v].job # j /\ act[v].job \in Jobs
    BY <2>1, InHand DEF Holding
  <2>3. \A i \in Jobs \ {j} : queue'[i] = queue[i]
    BY <2>1 DEF TypeOK
  <2> QED
    BY <2>1, <2>2, <2>3 DEF Holding, Working
<1>7. CASE Merge \/ UNCHANGED vars
  BY <1>7 DEF Merge, vars, Holding, Working
<1> QED
  BY <1>1, <1>2, <1>3, <1>4, <1>5, <1>6, <1>7 DEF Next

\* A step changes the table, or it is none of these.
Storing(w) == Delete(w) \/ Insert(w) \/ Rescue(w) \/ Clean(w)

LEMMA OthersKeepRows ==
  ASSUME TypeOK, Holding, [Next]_vars, \A w \in Workers : ~Storing(w)
  PROVE  /\ raced' = raced /\ clock' \in {clock, clock + 1}
         /\ Merge \/ rows' = rows
<1>1. ASSUME NEW w \in Workers,
             Exists(w) \/ Count(w) \/ ResolveVEX(w) \/ CompleteVEX(w) \/ Guard(w) \/ Commit(w) \/ Query(w)
      PROVE  rows' = rows /\ clock' = clock /\ raced' = raced
  BY <1>1 DEF Exists, Count, ResolveVEX, Resolve, CompleteVEX, Guard, Commit, Query
<1>2. ASSUME NEW w \in Workers, ClaimVEX(w) \/ ClaimSBOM(w) \/ ResolveRescue(w) \/ Fails(w) \/ Crash(w)
      PROVE  rows' = rows /\ clock' \in {clock, clock + 1} /\ raced' = raced
  BY <1>2 DEF ClaimVEX, ClaimSBOM, ResolveRescue, Resolve, Fails, Crash
<1>3. ASSUME NEW j \in Jobs, Retry(j) PROVE rows' = rows /\ clock' = clock /\ raced' = raced
  BY <1>3 DEF Retry
<1>4. CASE Merge \/ UNCHANGED vars
  BY <1>4 DEF Merge, vars
<1> QED
  BY <1>1, <1>2, <1>3, <1>4 DEF Next, Storing

\* A step of worker w.
Step(w) ==
  \/ ClaimVEX(w) \/ Exists(w) \/ Count(w) \/ ResolveVEX(w) \/ Delete(w) \/ Insert(w) \/ CompleteVEX(w)
  \/ ClaimSBOM(w) \/ Guard(w) \/ Commit(w) \/ Query(w) \/ ResolveRescue(w) \/ Rescue(w) \/ Clean(w)
  \/ Fails(w) \/ Crash(w)

\* Who has a job in hand changes what it does by its own steps.
LEMMA OwnSteps ==
  ASSUME TypeOK, Holding, [Next]_vars, NEW v \in Workers, act'[v] # act[v]
  PROVE  Step(v)
<1>1. CASE Merge \/ (\E j \in Jobs : Retry(j)) \/ UNCHANGED vars
  BY <1>1 DEF Merge, Retry, vars
<1>2. ASSUME NEW w \in Workers, Step(w) PROVE Others(w)
  <2>1. CASE \/ ClaimVEX(w) \/ Exists(w) \/ Count(w) \/ ResolveVEX(w) \/ Delete(w) \/ Insert(w)
             \/ CompleteVEX(w) \/ ClaimSBOM(w)
    BY <2>1, ClaimVEXStarts, ExistsDoes, CountDoes, ResolveVEXDoes, DeleteDoes, InsertDoes,
       CompleteVEXDoes,
       ClaimSBOMStarts DEF Starts, Goes, Stops
  <2>2. CASE \/ Guard(w) \/ Commit(w) \/ Query(w) \/ Rescue(w) \/ Clean(w) \/ Fails(w) \/ Crash(w)
    BY <2>2, GuardDoes, CommitDoes, QueryDoes, RescueDoes, CleanDoes, FaultDoes DEF Goes, Stops
  <2>3. CASE ResolveRescue(w)
    <3>1. Resolve(w, "rescue") /\ "rescue" \in Steps
      BY <2>3 DEF ResolveRescue, Steps
    <3> QED
      BY <3>1, ResolveGoes DEF Goes
  <2> QED
    BY <1>2, <2>1, <2>2, <2>3 DEF Step
<1>3. ASSUME NEW w \in Workers, Step(w) PROVE Step(v)
  <2>1. v = w
    BY <1>2, <1>3 DEF Others
  <2> QED
    BY <1>3, <2>1
<1>4. (\E w \in Workers : Step(w)) \/ Merge \/ (\E j \in Jobs : Retry(j)) \/ UNCHANGED vars
  BY DEF Next, Step
<1> QED
  BY <1>1, <1>3, <1>4

\* What becomes of the activities: a worker keeps what it has, starts, goes on with its job
\* or is idle.
LEMMA Moves ==
  ASSUME TypeOK, Holding, [Next]_vars
  PROVE  \A v \in Workers : Working(v)' =>
           \/ act'[v] = act[v]
           \/ ~Working(v) /\ act'[v].found = {} /\ act'[v].at = clock + 1
                /\ act'[v].step \in {"exists", "guard"} /\ (act'[v].job \in VEXJobs => clock' = clock + 1)
           \/ /\ Working(v) /\ act'[v].job = act[v].job /\ act'[v].at = act[v].at
              /\ act'[v].found = act[v].found \/ (act'[v].found = Unscoped /\ act'[v].step = "resolve" /\ Query(v))
              /\ act'[v].step = "clean" => Rescue(v) /\ Rescued(v) # {} /\ act'[v].scope = act[v].scope
<1> SUFFICES ASSUME NEW v \in Workers, Working(v)', act'[v] # act[v]
             PROVE  \/ ~Working(v) /\ act'[v].found = {} /\ act'[v].at = clock + 1
                         /\ act'[v].step \in {"exists", "guard"} /\ (act'[v].job \in VEXJobs => clock' = clock + 1)
                    \/ /\ Working(v) /\ act'[v].job = act[v].job /\ act'[v].at = act[v].at
                       /\ \/ act'[v].found = act[v].found
                          \/ act'[v].found = Unscoped /\ act'[v].step = "resolve" /\ Query(v)
                       /\ act'[v].step = "clean" => Rescue(v) /\ Rescued(v) # {} /\ act'[v].scope = act[v].scope
  OBVIOUS
<1>2. ASSUME NEW w \in Workers, ClaimVEX(w), v = w
      PROVE  ~Working(v) /\ act'[v].found = {} /\ act'[v].at = clock + 1 /\ act'[v].step = "exists" /\ clock' = clock + 1
  BY <1>2, ClaimVEXStarts DEF Starts, ClaimVEX
<1>3. ASSUME NEW w \in Workers, ClaimSBOM(w), v = w
      PROVE  ~Working(v) /\ act'[v].found = {} /\ act'[v].at = clock + 1 /\ act'[v].step = "guard"
               /\ act'[v].job \notin VEXJobs
  BY <1>3, ClaimSBOMStarts, VEXAssumption DEF Starts
<1>4. ASSUME NEW w \in Workers, NEW steps, Goes(w, steps), "clean" \notin steps, v = w
      PROVE  /\ Working(v) /\ act'[v].job = act[v].job /\ act'[v].at = act[v].at /\ act'[v].found = act[v].found
             /\ act'[v].step # "clean"
  BY <1>4 DEF Goes
<1>5. ASSUME NEW w \in Workers, NEW statuses, Stops(w, statuses) PROVE v # w
  BY <1>5 DEF Stops, Working
<1>6. ASSUME NEW w \in Workers, Rescue(w), v = w
      PROVE  /\ Working(v) /\ act'[v].job = act[v].job /\ act'[v].at = act[v].at /\ act'[v].found = act[v].found
             /\ Rescued(v) # {} /\ act'[v].scope = act[v].scope
  BY <1>5, <1>6, RescueDoes DEF Goes
<1>7. ASSUME NEW w \in Workers, ResolveRescue(w)
      PROVE  Goes(w, {"resolve", "rescue"})
  BY <1>7, ResolveGoes DEF ResolveRescue, Steps
<1>8. ASSUME NEW w \in Workers,
             \/ Exists(w) \/ Count(w) \/ ResolveVEX(w) \/ Delete(w) \/ Insert(w) \/ CompleteVEX(w)
             \/ Guard(w) \/ Commit(w)
      PROVE  \/ \E steps : Goes(w, steps) /\ "clean" \notin steps
             \/ Stops(w, {"done"})
  BY <1>8, ExistsDoes, CountDoes, ResolveVEXDoes, DeleteDoes, InsertDoes, CompleteVEXDoes,
     GuardDoes, CommitDoes
<1>9. ASSUME NEW w \in Workers, Query(w), v = w
      PROVE  /\ Working(v) /\ act'[v].job = act[v].job /\ act'[v].at = act[v].at
             /\ act'[v].found = Unscoped /\ act'[v].step = "resolve"
  BY <1>5, <1>9, QueryDoes
<1>10. ASSUME NEW w \in Workers, Clean(w) \/ Fails(w) \/ Crash(w) PROVE v # w
  BY <1>5, <1>10, CleanDoes, FaultDoes
<1>11. CASE ClaimVEX(v) \/ ClaimSBOM(v)
  BY <1>2, <1>3, <1>11
<1>12. CASE \/ Exists(v) \/ Count(v) \/ ResolveVEX(v) \/ Delete(v) \/ Insert(v) \/ CompleteVEX(v)
            \/ Guard(v) \/ Commit(v) \/ ResolveRescue(v)
  BY <1>4, <1>5, <1>7, <1>8, <1>12
<1>13. CASE Query(v) \/ Rescue(v)
  BY <1>6, <1>9, <1>13
<1> QED
  BY <1>10, <1>11, <1>12, <1>13, OwnSteps DEF Step

LEMMA PastKept ==
  ASSUME OwnIDs, TypeOK, Holding, Past, [Next]_vars
  PROVE  Past'
<1>1. clock \in Nat /\ rows \in SUBSET Row /\ \A r \in rows : r.at \in Nat
  BY DEF TypeOK, Row
<1>2. clock <= clock' /\ clock' \in Nat /\ \A r \in rows' : r.at <= clock'
  <2>1. ASSUME NEW w \in Workers, Insert(w) PROVE clock' = clock /\ \A r \in rows' : r.at <= clock
    BY <2>1, InsertRows, InsertDoes DEF Past, Goes
  <2>2. ASSUME NEW w \in Workers, Rescue(w), Rescued(w) # {}
        PROVE  clock' = clock + 1 /\ \A r \in rows' : r.at <= clock'
    <3>1. clock' = clock + 1
      BY <2>2 DEF Rescue
    <3> QED
      BY <1>1, <2>2, <3>1, RescueRows DEF Past
  <2>3. ASSUME NEW w \in Workers, Rescue(w), Rescued(w) = {} PROVE clock' = clock /\ rows' = rows
    BY <2>3 DEF Rescue
  <2>4. ASSUME NEW w \in Workers, Delete(w) \/ Clean(w) PROVE clock' = clock /\ rows' \subseteq rows
    BY <2>4, DeleteRows, CleanRows, CleanDoes, DeleteDoes
  <2>5. CASE \A w \in Workers : ~Storing(w)
    BY <1>1, <2>5, OthersKeepRows, MergeRows DEF Past
  <2> QED
    BY <1>1, <2>1, <2>2, <2>3, <2>4, <2>5 DEF Storing, Past
<1>3. ASSUME NEW v \in Workers, Working(v)'
      PROVE  /\ act'[v].job \in VEXJobs => act'[v].at <= clock'
             /\ \A r \in act'[v].found : r.sbom = None
  <2>1. act'[v] = act[v] => Working(v)
    BY <1>3 DEF Working
  <2>2. Working(v) => act[v].at \in Nat /\ (act[v].job \in VEXJobs => act[v].at <= clock)
                        /\ \A r \in act[v].found : r.sbom = None
    BY InHand DEF Past, Activity
  <2>3. \A r \in Unscoped : r.sbom = None
    BY DEF Unscoped
  <2> QED
    BY <1>1, <1>2, <1>3, <2>1, <2>2, <2>3, Moves
<1> QED
  BY <1>2, <1>3 DEF Past

\* Rows of one time are added.
LEMMA NewestAdds ==
  ASSUME TypeOK, Newest, NEW at \in Nat, rows' \in SUBSET Row, rows \subseteq rows',
         \A r \in rows' \ rows : r.at = at
  PROVE  Newest'
<1> SUFFICES ASSUME NEW r \in rows'
             PROVE  \E q \in rows' : Alike(r, q) /\ \A p \in rows' : Alike(r, p) => p.at <= q.at
  BY DEF Newest
<1>1. \A p \in rows' : p.at \in Nat
  BY DEF Row
<1>2. \A p, q, o : Alike(p, q) /\ Alike(p, o) => Alike(q, o)
  BY DEF Alike
<1>3. \A p, q : Alike(p, q) <=> Alike(q, p)
  BY DEF Alike
<1>4. CASE \A o \in rows : ~Alike(r, o)
  <2>1. Alike(r, r) /\ \A p \in rows' : Alike(r, p) => p.at = at
    BY <1>4 DEF Alike
  <2> QED
    BY <1>1, <2>1
<1>5. CASE \E o \in rows : Alike(r, o)
  <2>1. PICK o \in rows : Alike(r, o)
    BY <1>5
  <2>2. PICK q \in rows : Alike(o, q) /\ \A p \in rows : Alike(o, p) => p.at <= q.at
    BY DEF Newest
  <2>3. Alike(r, q) /\ \A p \in rows : Alike(r, p) => p.at <= q.at
    BY <1>2, <1>3, <2>1, <2>2
  <2>4. CASE \E n \in rows' \ rows : Alike(r, n) /\ q.at <= n.at
    <3>1. PICK n \in rows' \ rows : Alike(r, n) /\ q.at <= n.at
      BY <2>4
    <3> QED
      BY <1>1, <2>3, <3>1
  <2>5. CASE \A n \in rows' \ rows : Alike(r, n) => ~(q.at <= n.at)
    BY <1>1, <2>3, <2>5
  <2> QED
    BY <2>4, <2>5
<1> QED
  BY <1>4, <1>5

LEMMA NewestKept ==
  ASSUME OwnIDs, TypeOK, Holding, Newest, [Next]_vars
  PROVE  Newest'
<1>1. ASSUME NEW w \in Workers, Insert(w) PROVE Newest'
  <2>1. act[w].at \in Nat
    BY <1>1, InHand, InsertDoes DEF Goes, Activity
  <2> QED
    BY <1>1, <2>1, InsertRows, NewestAdds
<1>2. ASSUME NEW w \in Workers, Rescue(w) PROVE Newest'
  <2>1. clock + 1 \in Nat
    BY DEF TypeOK
  <2>2. CASE Rescued(w) # {}
    BY <1>2, <2>1, <2>2, RescueRows, NewestAdds
  <2>3. CASE Rescued(w) = {}
    BY <1>2, <2>3 DEF Rescue, Newest
  <2> QED
    BY <2>2, <2>3
<1>3. ASSUME rows' \subseteq rows, \A r \in rows' : \A q \in rows : Alike(r, q) => q \in rows' PROVE Newest'
  BY <1>3 DEF Newest
<1>4. ASSUME NEW w \in Workers, Delete(w) PROVE Newest'
  BY <1>3, <1>4, DeleteRows DEF Alike
<1>5. ASSUME NEW w \in Workers, Clean(w) PROVE Newest'
  BY <1>3, <1>5, CleanRows DEF Alike
<1>6. CASE Merge
  <2>1. \A r \in rows' : Alike(r, r)
    BY DEF Alike
  <2>2. \A r, q \in rows' : Alike(r, q) => Key(q) = Key(r)
    BY DEF Alike, Key
  <2> QED
    BY <1>6, <2>1, <2>2, MergeRows DEF Newest
<1>7. CASE rows' = rows
  BY <1>7 DEF Newest
<1> QED
  BY <1>1, <1>2, <1>4, <1>5, <1>6, <1>7, OthersKeepRows DEF Storing

-----------------------------------------------------------------------------
(* The scope of a statement.                                               *)

\* Newer rows that are scoped, or about others, leave it.
LEMMA ScopeAdds ==
  ASSUME OwnIDs, TypeOK, NEW at \in Nat, rows' \in SUBSET Row, rows \subseteq rows',
         \A r \in rows' \ rows : r.at = at,
         NEW st \in Statements, IsScoped(st), \A r \in rows' \ rows : r.st = st => r.sbom # None
  PROVE  IsScoped(st)'
<1>1. PICK q \in Final : q.st = st /\ q.sbom # None
  BY DEF IsScoped
<1>2. q \in rows /\ \A p \in rows : Key(p) = Key(q) => p.at <= q.at
  BY <1>1 DEF Final
<1>3. \A p \in rows' : p.at \in Nat
  BY DEF Row
<1>4. CASE \E n \in rows' \ rows : Key(n) = Key(q) /\ q.at <= n.at
  <2>1. PICK n \in rows' \ rows : Key(n) = Key(q) /\ q.at <= n.at
    BY <1>4
  <2>2. n.st = st /\ n.sbom # None
    BY <1>1, <1>2, <2>1, KeyOfOne
  <2>3. \A p \in rows' : Key(p) = Key(n) => p.at <= n.at
    BY <1>2, <1>3, <2>1
  <2> QED
    BY <2>1, <2>2, <2>3 DEF IsScoped, Final
<1>5. CASE \A n \in rows' \ rows : Key(n) = Key(q) => ~(q.at <= n.at)
  <2>1. \A p \in rows' : Key(p) = Key(q) => p.at <= q.at
    BY <1>2, <1>3, <1>5
  <2> QED
    BY <1>1, <1>2, <2>1 DEF IsScoped, Final
<1> QED
  BY <1>4, <1>5

LEMMA ScopeDrops ==
  ASSUME rows' \subseteq rows, NEW st, IsScoped(st),
         \A r \in rows : r.st = st /\ r.sbom # None => r \in rows'
  PROVE  IsScoped(st)'
BY DEF IsScoped, Final

\* Only a job that brings the document takes the scope away: it deletes it, or inserts the
\* statement unscoped.
LEMMA ScopeLost ==
  ASSUME OwnIDs, TypeOK, Holding, [Next]_vars, NEW st \in Statements, IsScoped(st), ~IsScoped(st)'
  PROVE  \E w \in Workers : /\ Doc[act[w].job] = Doc[st]
                            /\ Delete(w) \/ (Insert(w) /\ act[w].scope[Product[st]] = None)
<1>1. ASSUME NEW w \in Workers, Insert(w), ~(Doc[act[w].job] = Doc[st] /\ act[w].scope[Product[st]] = None)
      PROVE  FALSE
  <2>1. act[w].at \in Nat
    BY <1>1, InHand, InsertDoes DEF Goes, Activity
  <2>2. /\ rows' \in SUBSET Row /\ rows \subseteq rows'
        /\ \A r \in rows' \ rows : r.at = act[w].at /\ (r.st = st => r.sbom # None)
    BY <1>1, InsertRows
  <2> QED
    BY <2>1, <2>2, ScopeAdds
<1>2. ASSUME NEW w \in Workers, Rescue(w) PROVE FALSE
  <2>1. clock + 1 \in Nat
    BY DEF TypeOK
  <2>2. CASE Rescued(w) # {}
    BY <1>2, <2>1, <2>2, RescueRows, ScopeAdds
  <2>3. CASE Rescued(w) = {}
    BY <1>2, <2>3 DEF Rescue, IsScoped, Final
  <2> QED
    BY <2>2, <2>3
<1>3. ASSUME NEW w \in Workers, Delete(w), Doc[act[w].job] # Doc[st] PROVE FALSE
  BY <1>3, DeleteRows, ScopeDrops
<1>4. ASSUME NEW w \in Workers, Clean(w) PROVE FALSE
  BY <1>4, CleanRows, ScopeDrops
<1>5. CASE Merge \/ rows' = rows
  BY <1>5, MergeRows DEF IsScoped, Final
<1> QED
  BY <1>1, <1>2, <1>3, <1>4, <1>5, OthersKeepRows DEF Storing

\* A rescue pass has st in hand to clean up since it inserted its scope.
LEMMA CopiedBefore ==
  ASSUME OwnIDs, TypeOK, Holding, [Next]_vars, NEW st \in Statements, Copied(st)'
  PROVE  Copied(st) \/ \E w \in Workers : Rescue(w) /\ \E r \in Rescued(w) : r.st = st
<1>1. PICK v \in Workers : At(v, "clean")' /\ \E r \in Rescued(v)' : r.st = st
  BY DEF Copied
<1>2. Working(v)' /\ act'[v].step = "clean"
  BY <1>1 DEF At, Working, Idle
<1>3. CASE act'[v] = act[v]
  <2>1. Rescued(v)' = Rescued(v) /\ At(v, "clean")
    BY <1>1, <1>3 DEF Rescued, At
  <2> QED
    BY <1>1, <2>1 DEF Copied
<1>4. CASE act'[v] # act[v]
  <2>1. Rescue(v) /\ act'[v].found = act[v].found /\ act'[v].scope = act[v].scope
    BY <1>2, <1>4, Moves
  <2>2. Rescued(v)' = Rescued(v)
    BY <2>1 DEF Rescued
  <2> QED
    BY <1>1, <2>1, <2>2
<1> QED
  BY <1>3, <1>4

\* A rescue pass scopes what it has in hand.
LEMMA RescueScopes ==
  ASSUME OwnIDs, TypeOK, Holding, Past, NEW w \in Workers, Rescue(w), NEW q \in Rescued(w)
  PROVE  IsScoped(q.st)'
<1>1. PICK r \in rows' : r.st = q.st /\ r.at = clock + 1 /\ r.sbom # None
  BY RescueRows
<1>2. \A p \in rows' : p.at <= clock + 1
  <2>1. clock \in Nat /\ \A p \in rows : p.at \in Nat
    BY DEF TypeOK, Row
  <2> QED
    BY <2>1, RescueRows DEF Past
<1> QED
  BY <1>1, <1>2 DEF IsScoped, Final

LEMMA CopiedFirstKept ==
  ASSUME OwnIDs, TypeOK, Holding, Past, CopiedFirst, [Next]_vars
  PROVE  CopiedFirst'
<1> SUFFICES ASSUME NEW st \in Statements, st \notin raced', Copied(st)', ~IsScoped(st)'
             PROVE  FALSE
  BY DEF CopiedFirst
<1>1. st \notin raced
  BY OthersKeepRows, RescueDoes, CleanDoes DEF Storing, Delete, Insert
<1>2. Copied(st)
  BY CopiedBefore, RescueScopes
<1>3. IsScoped(st)
  BY <1>1, <1>2 DEF CopiedFirst
<1>4. PICK w \in Workers : /\ Doc[act[w].job] = Doc[st]
                           /\ Delete(w) \/ (Insert(w) /\ act[w].scope[Product[st]] = None)
  BY <1>3, ScopeLost
<1>5. st \in Of(Doc[act[w].job])
  BY <1>4 DEF Of
<1>6. CASE Delete(w)
  <2>1. PICK v \in Workers : At(v, "clean") /\ \E r \in Rescued(v) : r.st = st
    BY <1>2 DEF Copied
  <2>2. Working(v) /\ \E r \in act[v].found : r.st = st
    BY <2>1, InHand DEF Rescued, Steps
  <2>3. Rescuing(Doc[act[w].job])
    BY <1>4, <2>2 DEF Rescuing, Working
  <2> QED
    BY <1>5, <1>6, <2>3 DEF Delete
<1>7. CASE Insert(w) /\ act[w].scope[Product[st]] = None
  BY <1>2, <1>5, <1>7 DEF Insert
<1> QED
  BY <1>4, <1>6, <1>7

-----------------------------------------------------------------------------
(* No statement is lost.                                                   *)

LEMMA RescuingBefore ==
  ASSUME TypeOK, Holding, [Next]_vars, NEW doc, Rescuing(doc)'
  PROVE  Rescuing(doc) \/ \E r \in rows : Doc[r.st] = doc
<1>1. PICK v \in Workers : act'[v] # Idle /\ \E r \in act'[v].found : Doc[r.st] = doc
  BY DEF Rescuing
<1>2. CASE act'[v] = act[v]
  BY <1>1, <1>2 DEF Rescuing
<1>3. CASE act'[v].found = Unscoped
  BY <1>1, <1>3 DEF Unscoped, Final
<1>4. CASE Working(v) /\ act'[v].found = act[v].found
  BY <1>1, <1>4 DEF Rescuing, Working
<1>5. Working(v)'
  BY <1>1 DEF Working
<1>6. \/ act'[v] = act[v] \/ act'[v].found = {} \/ act'[v].found = Unscoped
      \/ Working(v) /\ act'[v].found = act[v].found
  BY <1>5, Moves
<1> QED
  BY <1>1, <1>2, <1>3, <1>4, <1>6

\* A document that is not there stays pending until it is inserted.
LEMMA PendingKept ==
  ASSUME TypeOK, Holding, [Next]_vars, NEW doc, Pending(doc), \A r \in rows : Doc[r.st] # doc,
         \A w \in Workers : ~(Insert(w) /\ Doc[act[w].job] = doc)
  PROVE  Pending(doc)'
<1>1. PICK j \in VEXJobs :
        /\ Doc[j] = doc
        /\ \/ queue[j] \in {"waiting", "failed"}
           \/ \E w \in Workers : /\ Working(w) /\ act[w].job = j
                                 /\ act[w].step \in {"exists", "resolve", "delete", "insert"}
  BY DEF Pending
<1>2. j \in Jobs /\ j \notin SBOMs
  BY VEXAssumption DEF Jobs
<1>3. ASSUME queue'[j] \in {"waiting", "failed"} PROVE Pending(doc)'
  BY <1>1, <1>3 DEF Pending
<1>4. ASSUME NEW w \in Workers, Working(w)', act'[w].job = j,
             act'[w].step \in {"exists", "resolve", "delete", "insert"}
      PROVE  Pending(doc)'
  BY <1>1, <1>4 DEF Pending
<1>5. CASE queue[j] \in {"waiting", "failed"}
  <2>1. ASSUME NEW w \in Workers, ClaimVEX(w) PROVE Pending(doc)'
    <3>1. PICK i \in VEXJobs : Starts(w, i, "exists")
      BY <2>1, ClaimVEXStarts
    <3>2. CASE i = j
      BY <1>4, <3>1, <3>2 DEF Starts
    <3>3. CASE i # j
      BY <1>2, <1>3, <1>5, <3>1, <3>3 DEF Starts, TypeOK
    <3> QED
      BY <3>2, <3>3
  <2>2. ASSUME NEW w \in Workers, ClaimSBOM(w) PROVE Pending(doc)'
    BY <1>2, <1>3, <1>5, <2>2, ClaimSBOMStarts DEF Starts, TypeOK
  <2>3. ASSUME NEW w \in Workers, NEW statuses, Stops(w, statuses) PROVE Pending(doc)'
    <3>1. act[w].job # j
      BY <1>5, <2>3 DEF Stops, Holding
    <3> QED
      BY <1>2, <1>3, <1>5, <2>3, <3>1 DEF Stops, TypeOK
  <2>4. ASSUME queue' = queue PROVE Pending(doc)'
    BY <1>3, <1>5, <2>4
  <2>5. ASSUME NEW i \in Jobs, Retry(i) PROVE Pending(doc)'
    BY <1>2, <1>3, <1>5, <2>5 DEF Retry, TypeOK
  <2>6. ASSUME NEW w \in Workers,
               \/ Exists(w) \/ Count(w) \/ ResolveVEX(w) \/ Delete(w) \/ Insert(w) \/ CompleteVEX(w)
        PROVE  Pending(doc)'
    BY <2>3, <2>4, <2>6, ExistsDoes, CountDoes, ResolveVEXDoes, DeleteDoes, InsertDoes,
       CompleteVEXDoes
       DEF Goes
  <2>7. ASSUME NEW w \in Workers, Guard(w) \/ Commit(w) \/ Query(w) \/ Rescue(w) \/ Clean(w)
        PROVE  Pending(doc)'
    BY <2>3, <2>4, <2>7, GuardDoes, CommitDoes, QueryDoes, RescueDoes, CleanDoes DEF Goes
  <2>8. ASSUME NEW w \in Workers, ResolveRescue(w) PROVE Pending(doc)'
    <3>1. Resolve(w, "rescue") /\ "rescue" \in Steps
      BY <2>8 DEF ResolveRescue, Steps
    <3> QED
      BY <2>4, <3>1, ResolveGoes DEF Goes
  <2>9. ASSUME NEW w \in Workers, Fails(w) \/ Crash(w) PROVE Pending(doc)'
    BY <2>3, <2>9, FaultDoes
  <2>10. CASE Merge \/ UNCHANGED vars
    BY <2>4, <2>10 DEF Merge, vars
  <2> QED
    BY <2>1, <2>2, <2>5, <2>6, <2>7, <2>8, <2>9, <2>10 DEF Next
<1>6. CASE \E w \in Workers : /\ Working(w) /\ act[w].job = j
                              /\ act[w].step \in {"exists", "resolve", "delete", "insert"}
  <2>1. PICK w \in Workers : /\ Working(w) /\ act[w].job = j
                             /\ act[w].step \in {"exists", "resolve", "delete", "insert"}
    BY <1>6
  <2>2. CASE act'[w] = act[w]
    BY <1>4, <2>1, <2>2 DEF Working
  <2>3. CASE Exists(w) \/ ResolveVEX(w) \/ Delete(w)
    <3>1. Goes(w, {"resolve", "delete", "insert"})
      BY <1>1, <2>1, <2>3, ExistsDoes, ResolveVEXDoes, DeleteDoes DEF Goes
    <3> QED
      BY <1>4, <2>1, <3>1 DEF Goes
  <2>4. CASE Fails(w) \/ Crash(w)
    <3>1. Stops(w, {"waiting", "failed"})
      BY <2>1, <2>4, FaultDoes
    <3> QED
      BY <1>2, <1>3, <2>1, <3>1 DEF Stops, TypeOK
  <2>5. ~Insert(w) /\ ~ResolveRescue(w)
    BY <1>1, <1>2, <2>1 DEF ResolveRescue
  <2>6. ~ClaimVEX(w) /\ ~ClaimSBOM(w)
    BY <2>1 DEF ClaimVEX, ClaimSBOM, Working
  <2>7. ~Count(w) /\ ~CompleteVEX(w) /\ ~Guard(w) /\ ~Commit(w) /\ ~Query(w) /\ ~Rescue(w) /\ ~Clean(w)
    BY <2>1 DEF At, Count, CompleteVEX, Guard, Commit, Query, Rescue, Clean
  <2> QED
    BY <2>2, <2>3, <2>4, <2>5, <2>6, <2>7, OwnSteps DEF Step
<1> QED
  BY <1>1, <1>5, <1>6

LEMMA WholeOrPendingKept ==
  ASSUME OwnIDs, TypeOK, Holding, Newest, CopiedFirst, WholeOrPending, [Next]_vars
  PROVE  WholeOrPending'
<1> SUFFICES ASSUME NEW st \in Statements, st \notin raced'
             PROVE  \/ Present(st)'
                    \/ /\ Pending(Doc[st])' /\ ~Rescuing(Doc[st])'
                       /\ \A r \in rows' : Doc[r.st] # Doc[st]
  BY DEF WholeOrPending
<1>1. st \notin raced
  BY OthersKeepRows, RescueDoes, CleanDoes DEF Storing, Delete, Insert
<1>2. CASE Present(st)
  <2>1. PICK r \in rows : r.st = st
    BY <1>2 DEF Present
  <2>2. ASSUME NEW w \in Workers, Insert(w) \/ Rescue(w) PROVE Present(st)'
    BY <2>1, <2>2, InsertRows, RescueRows DEF Present, Rescue
  <2>3. ASSUME NEW w \in Workers, Clean(w) PROVE Present(st)'
    <3>1. CASE r \in rows'
      BY <2>1, <3>1 DEF Present
    <3>2. CASE r \notin rows'
      <4>1. \E q \in Rescued(w) : q.st = st
        BY <2>1, <2>3, <3>2, CleanRows
      <4>2. Copied(st)
        BY <2>3, <4>1 DEF Copied, Clean
      <4>3. IsScoped(st)
        BY <1>1, <4>2 DEF CopiedFirst
      <4>4. PICK q \in rows : q.st = st /\ q.sbom # None
        BY <4>3 DEF IsScoped, Final
      <4>5. q \in rows'
        BY <2>3, <4>4, CleanRows
      <4> QED
        BY <4>4, <4>5 DEF Present
    <3> QED
      BY <3>1, <3>2
  <2>4. ASSUME NEW w \in Workers, Delete(w), Doc[act[w].job] # Doc[st] PROVE Present(st)'
    BY <2>1, <2>4, DeleteRows DEF Present
  <2>5. ASSUME NEW w \in Workers, Delete(w), Doc[act[w].job] = Doc[st]
        PROVE  Pending(Doc[st])' /\ ~Rescuing(Doc[st])' /\ \A q \in rows' : Doc[q.st] # Doc[st]
    <3>1. act[w].job \in VEXJobs /\ Goes(w, {"insert"}) /\ act[w].found = {}
      BY <2>5, DeleteDoes DEF Goes, Holding
    <3>2. Pending(Doc[st])'
      BY <2>5, <3>1 DEF Goes, Pending
    <3>3. ~Rescuing(Doc[st])
      BY <2>5 DEF Delete, Of
    <3>4. ~Rescuing(Doc[st])'
      BY <3>1, <3>3 DEF Rescuing, Goes, Others
    <3> QED
      BY <2>5, <3>2, <3>4, DeleteRows
  <2>6. CASE Merge \/ rows' = rows
    BY <2>1, <2>6, ShowsRows DEF Merge, Present, Final
  <2> QED
    BY <2>2, <2>3, <2>4, <2>5, <2>6, OthersKeepRows DEF Storing
<1>3. CASE ~Present(st)
  <2>1. Pending(Doc[st]) /\ ~Rescuing(Doc[st]) /\ \A r \in rows : Doc[r.st] # Doc[st]
    BY <1>1, <1>3 DEF WholeOrPending
  <2>2. ~Rescuing(Doc[st])'
    BY <2>1, RescuingBefore
  <2>3. CASE \E w \in Workers : Insert(w) /\ Doc[act[w].job] = Doc[st]
    BY <2>3, InsertRows DEF Present
  <2>4. CASE \A w \in Workers : ~(Insert(w) /\ Doc[act[w].job] = Doc[st])
    <3>1. Pending(Doc[st])'
      BY <2>1, <2>4, PendingKept
    <3>2. ASSUME NEW w \in Workers, Insert(w) PROVE \A r \in rows' : Doc[r.st] # Doc[st]
      BY <2>1, <2>4, <3>2, InsertRows
    <3>3. ASSUME NEW w \in Workers, Rescue(w) PROVE \A r \in rows' : Doc[r.st] # Doc[st]
      <4>1. CASE Rescued(w) = {}
        BY <2>1, <3>3, <4>1 DEF Rescue
      <4>2. CASE Rescued(w) # {}
        <5>1. Working(w) /\ \A q \in Rescued(w) : q \in act[w].found
          BY <3>3, RescueDoes DEF Goes, Stops, Rescued
        <5>2. \A q \in Rescued(w) : Doc[q.st] # Doc[st]
          BY <2>1, <5>1 DEF Rescuing, Working
        <5> QED
          BY <2>1, <3>3, <4>2, <5>2, RescueRows
      <4> QED
        BY <4>1, <4>2
    <3>4. ASSUME NEW w \in Workers, Delete(w) \/ Clean(w) PROVE \A r \in rows' : Doc[r.st] # Doc[st]
      BY <2>1, <3>4, DeleteRows, CleanRows
    <3>5. Merge \/ rows' = rows => \A r \in rows' : Doc[r.st] # Doc[st]
      <4>1. Merge => rows' \subseteq rows
        BY MergeRows
      <4> QED
        BY <2>1, <4>1
    <3> QED
      BY <2>2, <3>1, <3>2, <3>3, <3>4, <3>5, OthersKeepRows DEF Storing
  <2> QED
    BY <2>3, <2>4
<1> QED
  BY <1>2, <1>3

-----------------------------------------------------------------------------
(* No statement stays unscoped whose product exists.                       *)

\* What has not failed by the next state: no step before it, and not this one.
LEMMA FaultFree ==
  ASSUME TypeOK, Holding, [Next]_vars, faults' = 0
  PROVE  faults = 0 /\ \A w \in Workers : ~Fails(w) /\ ~Crash(w)
<1>1. faults \in Nat
  BY DEF TypeOK
<1>2. ASSUME NEW w \in Workers, Fails(w) \/ Crash(w) PROVE faults' = faults + 1
  BY <1>2, FaultDoes
<1>3. ASSUME NEW w \in Workers, Exists(w) \/ ResolveVEX(w) \/ Guard(w) PROVE faults' \in {faults, faults + 1}
  BY <1>3, ExistsDoes, ResolveVEXDoes, GuardDoes
<1>4. ASSUME NEW w \in Workers, ResolveRescue(w) PROVE faults' \in {faults, faults + 1}
  BY <1>4, ResolveGoes DEF ResolveRescue, Steps
<1>5. ASSUME NEW w \in Workers,
             \/ ClaimVEX(w) \/ Count(w) \/ Delete(w) \/ Insert(w) \/ CompleteVEX(w)
             \/ ClaimSBOM(w) \/ Commit(w) \/ Query(w) \/ Rescue(w) \/ Clean(w)
      PROVE  faults' = faults
  BY <1>5 DEF ClaimVEX, Count, Delete, Insert, CompleteVEX, ClaimSBOM, Commit, Query, Rescue, Clean
<1>6. ASSUME Merge \/ (\E j \in Jobs : Retry(j)) \/ UNCHANGED vars PROVE faults' = faults
  BY <1>6 DEF Merge, Retry, vars
<1>7. faults' \in {faults, faults + 1}
  BY <1>2, <1>3, <1>4, <1>5, <1>6 DEF Next
<1> QED
  BY <1>1, <1>2, <1>7

LEMMA SBOMsGrow ==
  ASSUME [Next]_vars
  PROVE  sboms' = sboms \/ \E w \in Workers : Commit(w)
<1>1. ASSUME NEW w \in Workers,
             \/ ClaimVEX(w) \/ Exists(w) \/ Count(w) \/ ResolveVEX(w) \/ Delete(w) \/ Insert(w) \/ CompleteVEX(w)
      PROVE  sboms' = sboms
  BY <1>1 DEF ClaimVEX, Exists, Count, ResolveVEX, Resolve, Delete, Insert, CompleteVEX
<1>2. ASSUME NEW w \in Workers,
             \/ ClaimSBOM(w) \/ Guard(w) \/ Query(w) \/ ResolveRescue(w) \/ Rescue(w) \/ Clean(w)
             \/ Fails(w) \/ Crash(w)
      PROVE  sboms' = sboms
  BY <1>2 DEF ClaimSBOM, Guard, Query, ResolveRescue, Resolve, Rescue, Clean, Fails, Crash
<1>3. CASE Merge \/ (\E j \in Jobs : Retry(j)) \/ UNCHANGED vars
  BY <1>3 DEF Merge, Retry, vars
<1> QED
  BY <1>1, <1>2, <1>3 DEF Next

\* Without a fault an SBOM job is claimed, done, or stays as it is.
LEMMA QueueMoves ==
  ASSUME TypeOK, Holding, [Next]_vars, faults' = 0, NEW s \in SBOMs, queue[s] # "failed"
  PROVE  \/ queue'[s] = queue[s]
         \/ /\ queue[s] = "waiting" /\ queue'[s] = "running" /\ sboms' = sboms
            /\ \E w \in Workers : Starts(w, s, "guard")
         \/ queue'[s] = "done" /\ queue[s] = "running"
<1>1. s \in Jobs /\ s \notin VEXJobs
  BY VEXAssumption DEF Jobs
<1>2. ASSUME NEW w \in Workers, ClaimVEX(w) PROVE queue'[s] = queue[s]
  BY <1>1, <1>2 DEF ClaimVEX, TypeOK
<1>3. ASSUME NEW w \in Workers, ClaimSBOM(w)
      PROVE  \/ queue'[s] = queue[s]
             \/ /\ queue[s] = "waiting" /\ queue'[s] = "running" /\ sboms' = sboms
                /\ \E v \in Workers : Starts(v, s, "guard")
  <2>1. PICK t \in SBOMs : Starts(w, t, "guard")
    BY <1>3, ClaimSBOMStarts
  <2>2. CASE t = s
    BY <1>1, <1>3, <2>1, <2>2 DEF Starts, TypeOK, ClaimSBOM
  <2>3. CASE t # s
    BY <1>1, <2>1, <2>3 DEF Starts, TypeOK
  <2> QED
    BY <2>2, <2>3
<1>4. ASSUME NEW w \in Workers, Stops(w, {"done"})
      PROVE  queue'[s] = queue[s] \/ (queue'[s] = "done" /\ queue[s] = "running")
  BY <1>1, <1>4 DEF Stops, TypeOK, Holding
<1>5. ASSUME NEW w \in Workers, NEW steps, Goes(w, steps) PROVE queue'[s] = queue[s]
  BY <1>5 DEF Goes
<1>6. ASSUME NEW w \in Workers,
             \/ Exists(w) \/ Count(w) \/ ResolveVEX(w) \/ Delete(w) \/ Insert(w) \/ CompleteVEX(w)
             \/ Guard(w) \/ Commit(w) \/ Rescue(w) \/ Clean(w)
      PROVE  (\E steps : Goes(w, steps)) \/ Stops(w, {"done"})
  BY <1>6, ExistsDoes, CountDoes, ResolveVEXDoes, DeleteDoes, InsertDoes, CompleteVEXDoes,
     GuardDoes, CommitDoes, RescueDoes, CleanDoes
<1>7. ASSUME NEW w \in Workers, Query(w) PROVE queue' = queue \/ Stops(w, {"done"})
  BY <1>7, QueryDoes
<1>8. ASSUME NEW w \in Workers, ResolveRescue(w) PROVE queue' = queue
  BY <1>8, ResolveGoes DEF ResolveRescue, Steps, Goes
<1>9. ASSUME NEW j \in Jobs, Retry(j) PROVE queue'[s] = queue[s]
  BY <1>1, <1>9 DEF Retry, TypeOK
<1>10. CASE Merge \/ UNCHANGED vars
  BY <1>10 DEF Merge, vars
<1> QED
  BY <1>2, <1>3, <1>4, <1>5, <1>6, <1>7, <1>8, <1>9, <1>10, FaultFree DEF Next

LEMMA CommittingKept ==
  ASSUME TypeOK, Holding, Holding', Committing, [Next]_vars
  PROVE  Committing'
<1>1. sboms \subseteq sboms'
  BY SBOMsGrow DEF Commit
<1>2. ASSUME NEW v \in Workers, Working(v)', act'[v].job \in SBOMs,
             act'[v].step \in {"query", "resolve", "rescue", "clean"}
      PROVE  act'[v].job \in sboms'
  <2>1. CASE act'[v] = act[v]
    BY <1>1, <1>2, <2>1 DEF Committing, Working
  <2>2. ASSUME NEW steps, Goes(v, steps), act[v].step \in {"query", "resolve", "rescue", "clean"}
        PROVE  act'[v].job \in sboms'
    BY <1>1, <1>2, <2>2 DEF Committing, Goes
  <2>3. CASE Commit(v)
    BY <2>3, CommitDoes DEF Goes
  <2>4. CASE Query(v)
    BY <1>1, <1>2, <2>4, QueryDoes DEF Committing, Stops, Working
  <2>5. CASE ResolveRescue(v)
    BY <2>2, <2>5, ResolveGoes DEF ResolveRescue, Steps
  <2>6. CASE Rescue(v)
    BY <1>2, <2>2, <2>6, RescueDoes DEF Stops, Working
  <2>7. ~Clean(v) /\ ~Fails(v) /\ ~Crash(v)
    BY <1>2, CleanDoes, FaultDoes DEF Stops, Working
  <2>8. ~ClaimVEX(v) /\ ~ClaimSBOM(v) /\ ~Guard(v)
    BY <1>2, ClaimVEXStarts, ClaimSBOMStarts, GuardDoes DEF Starts, Goes, Stops, Working
  <2>9. ~Exists(v) /\ ~Count(v) /\ ~ResolveVEX(v) /\ ~Delete(v) /\ ~Insert(v) /\ ~CompleteVEX(v)
    <3>1. act'[v].job \notin VEXJobs
      BY <1>2, VEXAssumption
    <3>2. ASSUME Exists(v) \/ Count(v) \/ CompleteVEX(v) PROVE act[v].job \in VEXJobs
      BY <3>2, ExistsDoes, CountDoes, CompleteVEXDoes DEF Holding, VEXSteps, Goes, Stops
    <3> QED
      BY <1>2, <3>1, <3>2, ExistsDoes, CountDoes, ResolveVEXDoes, DeleteDoes, InsertDoes,
         CompleteVEXDoes
         DEF Goes, Stops, Working
  <2> QED
    BY <2>1, <2>3, <2>4, <2>5, <2>6, <2>7, <2>8, <2>9, OwnSteps DEF Step
<1>3. ASSUME NEW v \in Workers, Working(v)', faults' = 0, act'[v].step \in {"guard", "commit"}
      PROVE  act'[v].job \notin sboms'
  <2>1. act'[v].job \notin sboms
    <3>1. CASE act'[v] = act[v]
      BY <1>3, <3>1, FaultFree DEF Committing, Working
    <3>2. CASE ClaimSBOM(v)
      BY <1>3, <3>2, ClaimSBOMStarts, FaultFree DEF Committing, Starts
    <3>3. CASE Guard(v)
      <4>1. faults = 0 /\ Working(v) /\ act[v].step = "guard" /\ act'[v].job = act[v].job
        BY <1>3, <3>3, FaultFree, GuardDoes DEF Goes, Stops, Working
      <4> QED
        BY <4>1 DEF Committing
    <3>4. ~ClaimVEX(v) /\ ~Fails(v) /\ ~Crash(v) /\ ~Clean(v) /\ ~CompleteVEX(v)
      BY <1>3, ClaimVEXStarts, FaultDoes, CleanDoes, CompleteVEXDoes DEF Starts, Stops, Working
    <3>5. ~Exists(v) /\ ~Count(v) /\ ~ResolveVEX(v) /\ ~Delete(v) /\ ~Insert(v)
      BY <1>3, ExistsDoes, CountDoes, ResolveVEXDoes, DeleteDoes, InsertDoes
         DEF Goes, Stops, Working
    <3>6. ~Commit(v) /\ ~Query(v) /\ ~Rescue(v)
      BY <1>3, CommitDoes, QueryDoes, RescueDoes DEF Goes, Stops, Working
    <3>7. ~ResolveRescue(v)
      BY <1>3, ResolveGoes DEF ResolveRescue, Steps, Goes
    <3> QED
      BY <3>1, <3>2, <3>3, <3>4, <3>5, <3>6, <3>7, OwnSteps DEF Step
  <2>2. ASSUME NEW w \in Workers, Commit(w) PROVE act'[v].job # act[w].job
    <3>1. Working(w)' /\ act'[w].step = "query" /\ act'[w].job = act[w].job
      BY <2>2, CommitDoes DEF Goes
    <3> QED
      BY <1>3, <3>1 DEF Holding
  <2> QED
    BY <2>1, <2>2, SBOMsGrow, CommitDoes
<1>4. ASSUME NEW s \in SBOMs, faults' = 0
      PROVE  /\ queue'[s] = "waiting" => s \notin sboms'
             /\ queue'[s] # "failed"
             /\ s \notin sboms' => \/ queue'[s] = "waiting"
                                   \/ \E w \in Workers : /\ Working(w)' /\ act'[w].job = s
                                                         /\ act'[w].step \in {"guard", "commit"}
  <2>1. /\ faults = 0 /\ queue[s] # "failed" /\ (queue[s] = "waiting" => s \notin sboms)
        /\ s \notin sboms => \/ queue[s] = "waiting"
                             \/ \E w \in Workers : /\ Working(w) /\ act[w].job = s
                                                   /\ act[w].step \in {"guard", "commit"}
    BY <1>4, FaultFree DEF Committing
  <2>2. \/ queue'[s] = queue[s]
        \/ /\ queue[s] = "waiting" /\ queue'[s] = "running" /\ sboms' = sboms
           /\ \E w \in Workers : Starts(w, s, "guard")
        \/ queue'[s] = "done" /\ queue[s] = "running"
    BY <1>4, <2>1, QueueMoves
  <2>3. ASSUME queue'[s] = "waiting" PROVE s \notin sboms'
    <3>1. queue[s] = "waiting" /\ s \notin sboms
      BY <2>1, <2>2, <2>3
    <3>2. ASSUME NEW w \in Workers, Commit(w) PROVE act[w].job # s
      BY <3>1, <3>2, CommitDoes DEF Holding, Goes
    <3> QED
      BY <3>1, <3>2, SBOMsGrow, CommitDoes
  <2>4. ASSUME s \notin sboms', queue'[s] # "waiting"
        PROVE  \E w \in Workers : /\ Working(w)' /\ act'[w].job = s
                                  /\ act'[w].step \in {"guard", "commit"}
    <3>1. CASE queue[s] = "waiting"
      BY <2>2, <2>4, <3>1 DEF Starts
    <3>2. CASE queue[s] # "waiting"
      <4>1. PICK w \in Workers : Working(w) /\ act[w].job = s /\ act[w].step \in {"guard", "commit"}
        BY <1>1, <2>1, <2>4, <3>2
      <4>2. CASE act'[w] = act[w]
        BY <4>1, <4>2 DEF Working
      <4>3. CASE Guard(w)
        BY <1>1, <2>4, <4>1, <4>3, GuardDoes DEF Goes
      <4>4. ~Commit(w)
        BY <2>4, <4>1, CommitDoes
      <4>5. ~ClaimVEX(w) /\ ~ClaimSBOM(w)
        BY <4>1 DEF ClaimVEX, ClaimSBOM, Working
      <4>6. /\ ~Exists(w) /\ ~Count(w) /\ ~ResolveVEX(w) /\ ~Delete(w) /\ ~Insert(w) /\ ~CompleteVEX(w)
            /\ ~Query(w) /\ ~ResolveRescue(w) /\ ~Rescue(w) /\ ~Clean(w)
        BY <4>1 DEF At, Exists, Count, ResolveVEX, Resolve, Delete, Insert, CompleteVEX, Query,
                    ResolveRescue, Rescue, Clean
      <4> QED
        BY <1>4, <4>2, <4>3, <4>4, <4>5, <4>6, OwnSteps, FaultFree DEF Step
    <3> QED
      BY <3>1, <3>2
  <2> QED
    BY <2>1, <2>2, <2>3, <2>4
<1> QED
  BY <1>2, <1>3, <1>4 DEF Committing

\* The rescue pass of s has read the table in this step, or before.
LEMMA PassReadBefore ==
  ASSUME TypeOK, Holding, [Next]_vars, faults' = 0, NEW s \in SBOMs, PassRead(s)'
  PROVE  PassRead(s) \/ (s \in sboms /\ \E w \in Workers : Query(w))
<1>1. s \in sboms
  <2>1. ASSUME NEW w \in Workers, Commit(w), act[w].job = s PROVE FALSE
    <3>1. Working(w)' /\ act'[w].step = "query" /\ act'[w].job = s
      BY <2>1, CommitDoes DEF Goes
    <3> QED
      BY <3>1 DEF PassRead, Working, At
  <2>2. s \in sboms'
    BY DEF PassRead
  <2> QED
    BY <2>1, <2>2, SBOMsGrow, CommitDoes
<1>2. ASSUME NEW v \in Workers, Working(v), act[v].job = s, At(v, "query") PROVE Query(v)
  <2>1. act'[v] # act[v]
    BY <1>2 DEF PassRead, Working, At
  <2>2. ~ClaimVEX(v) /\ ~ClaimSBOM(v) /\ ~Fails(v) /\ ~Crash(v)
    BY <1>2, FaultFree DEF ClaimVEX, ClaimSBOM, Working
  <2>3. /\ ~Exists(v) /\ ~Count(v) /\ ~ResolveVEX(v) /\ ~Delete(v) /\ ~Insert(v) /\ ~CompleteVEX(v)
        /\ ~Guard(v) /\ ~Commit(v) /\ ~ResolveRescue(v) /\ ~Rescue(v) /\ ~Clean(v)
    BY <1>2 DEF At, Exists, Count, ResolveVEX, Resolve, Delete, Insert, CompleteVEX, Guard, Commit,
                ResolveRescue, Rescue, Clean
  <2> QED
    BY <2>1, <2>2, <2>3, OwnSteps DEF Step
<1> QED
  BY <1>1, <1>2 DEF PassRead, Working

\* A pass that reads the table takes up every statement that is shown unscoped.
LEMMA TakesUp ==
  ASSUME OwnIDs, TypeOK, Holding, Newest, NEW w \in Workers, Query(w),
         NEW st \in Statements, Present(st), ~IsScoped(st)
  PROVE  WillScope(st)'
<1>1. PICK r \in rows : r.st = st
  BY DEF Present
<1>2. PICK q \in Final : q.st = st
  BY <1>1, ShowsRows
<1>3. q \in Unscoped
  BY <1>2 DEF IsScoped, Unscoped
<1>4. /\ Working(w)' /\ act'[w].job \in SBOMs /\ act'[w].step = "resolve"
      /\ q \in act'[w].found /\ Product[st] \in act'[w].refs
  BY <1>2, <1>3, QueryDoes
<1> QED
  BY <1>2, <1>4 DEF WillScope

\* What a pass has taken up of a product that exists, it scopes.
LEMMA WillScopeKept ==
  ASSUME OwnIDs, TypeOK, Holding, Past, [Next]_vars, faults' = 0,
         NEW st \in Statements, NEW s \in sboms, Product[st] \in Describes[s], WillScope(st)
  PROVE  WillScope(st)' \/ IsScoped(st)'
<1>1. PICK w \in Workers :
        /\ Working(w) /\ act[w].job \in SBOMs /\ act[w].step \in {"resolve", "rescue"}
        /\ \E r \in act[w].found : r.st = st
        /\ (act[w].step = "resolve" /\ Product[st] \in act[w].refs) \/ act[w].scope[Product[st]] # None
  BY DEF WillScope
<1>2. CASE act'[w] = act[w]
  <2>1. WillScope(st)'
    BY <1>1, <1>2 DEF WillScope, Working
  <2> QED
    BY <2>1
<1>3. CASE ResolveRescue(w)
  <2>1. /\ Goes(w, {"resolve", "rescue"})
        /\ \/ act[w].refs = {} /\ act'[w].scope = act[w].scope
           \/ \E ref \in act[w].refs : \E t \in SBOMs \cup {None} :
                /\ act'[w].step = "resolve" /\ act'[w].refs = act[w].refs \ {ref}
                /\ act'[w].scope = [act[w].scope EXCEPT ![ref] = t]
                /\ faults' = faults /\ (\E u \in sboms : ref \in Describes[u]) => t # None
    BY <1>3, ResolveGoes DEF ResolveRescue, Steps
  <2>2. /\ Working(w)' /\ act'[w].job \in SBOMs /\ act'[w].step \in {"resolve", "rescue"}
        /\ \E r \in act'[w].found : r.st = st
    BY <1>1, <2>1 DEF Goes
  <2>3. (act'[w].step = "resolve" /\ Product[st] \in act'[w].refs) \/ act'[w].scope[Product[st]] # None
    <3>1. CASE act[w].refs = {} /\ act'[w].scope = act[w].scope
      BY <1>1, <3>1
    <3>2. CASE \E ref \in act[w].refs : \E t \in SBOMs \cup {None} :
                 /\ act'[w].step = "resolve" /\ act'[w].refs = act[w].refs \ {ref}
                 /\ act'[w].scope = [act[w].scope EXCEPT ![ref] = t]
                 /\ faults' = faults /\ (\E u \in sboms : ref \in Describes[u]) => t # None
      <4>1. PICK ref \in act[w].refs : \E t \in SBOMs \cup {None} :
              /\ act'[w].step = "resolve" /\ act'[w].refs = act[w].refs \ {ref}
              /\ act'[w].scope = [act[w].scope EXCEPT ![ref] = t]
              /\ faults' = faults /\ (\E u \in sboms : ref \in Describes[u]) => t # None
        BY <3>2
      <4>2. PICK t \in SBOMs \cup {None} :
              /\ act'[w].step = "resolve" /\ act'[w].refs = act[w].refs \ {ref}
              /\ act'[w].scope = [act[w].scope EXCEPT ![ref] = t]
              /\ faults' = faults /\ (\E u \in sboms : ref \in Describes[u]) => t # None
        BY <4>1
      <4>3. faults' = faults
        BY FaultFree
      <4>4. act[w].scope \in [Refs -> SBOMs \cup {None}] /\ Product[st] \in Refs
        BY <1>1, InHand, VEXAssumption DEF Activity
      <4>5. CASE ref = Product[st]
        BY <4>2, <4>3, <4>4, <4>5
      <4>6. CASE ref # Product[st]
        BY <1>1, <4>2, <4>4, <4>6
      <4> QED
        BY <4>5, <4>6
    <3> QED
      BY <2>1, <3>1, <3>2
  <2>4. WillScope(st)'
    BY <2>2, <2>3 DEF WillScope
  <2> QED
    BY <2>4
<1>4. CASE Rescue(w)
  <2>1. act[w].step = "rescue"
    BY <1>4 DEF Rescue, At
  <2>2. PICK r \in act[w].found : r.st = st
    BY <1>1
  <2>3. r \in Rescued(w)
    BY <1>1, <2>1, <2>2 DEF Rescued
  <2> QED
    BY <1>4, <2>2, <2>3, RescueScopes
<1>5. ~ClaimVEX(w) /\ ~ClaimSBOM(w) /\ ~Fails(w) /\ ~Crash(w) /\ ~ResolveVEX(w)
  BY <1>1, VEXAssumption, FaultFree DEF ClaimVEX, ClaimSBOM, Working, ResolveVEX
<1>6. /\ ~Exists(w) /\ ~Count(w) /\ ~Delete(w) /\ ~Insert(w) /\ ~CompleteVEX(w)
      /\ ~Guard(w) /\ ~Commit(w) /\ ~Query(w) /\ ~Clean(w)
  BY <1>1 DEF At, Exists, Count, Delete, Insert, CompleteVEX, Guard, Commit, Query, Clean
<1> QED
  BY <1>2, <1>3, <1>4, <1>5, <1>6, OwnSteps DEF Step

\* The first row of a statement that is inserted with a scope is shown.
LEMMA FirstInsertScopes ==
  ASSUME OwnIDs, TypeOK, Holding, NEW w \in Workers, Insert(w), NEW st \in Statements,
         Doc[st] = Doc[act[w].job], act[w].scope[Product[st]] # None, ~Present(st)
  PROVE  IsScoped(st)'
<1>1. PICK r \in rows' : r.st = st /\ r.at = act[w].at /\ r.sbom = act[w].scope[Product[st]]
  BY InsertRows
<1>2. ASSUME NEW p \in rows', Key(p) = Key(r) PROVE p.at <= r.at
  <2>1. p.st = st
    BY <1>1, <1>2, InsertRows, KeyOfOne
  <2>2. p \in rows' \ rows
    BY <2>1 DEF Present
  <2>3. p.at = act[w].at /\ act[w].at \in Nat
    BY <2>2, InsertRows, InsertDoes, InHand DEF Goes, Activity
  <2> QED
    BY <1>1, <2>3
<1> QED
  BY <1>1, <1>2 DEF IsScoped, Final

LEMMA ScopedOrPendingKept ==
  ASSUME OwnIDs, TypeOK, Holding, Past, Newest, ScopedOrPending, [Next]_vars
  PROVE  ScopedOrPending'
<1> SUFFICES ASSUME faults' = 0, NEW st \in Statements, st \notin raced',
                    NEW s \in SBOMs, Product[st] \in Describes[s],
                    Present(st)', ~IsScoped(st)', PassRead(s)'
             PROVE  s \in sboms' /\ WillScope(st)'
  BY DEF ScopedOrPending
<1>1. st \notin raced
  BY OthersKeepRows, RescueDoes, CleanDoes DEF Storing, Delete, Insert
<1>2. s \in sboms'
  BY DEF PassRead
<1>3. ASSUME NEW w \in Workers, Insert(w), Doc[st] = Doc[act[w].job]
      PROVE  act[w].scope[Product[st]] # None
  <2>1. Others(w) /\ act[w].step = "insert" /\ sboms' = sboms
    BY <1>3, InsertDoes DEF Goes
  <2>2. PassRead(s)
    BY <2>1 DEF PassRead, Others, At
  <2>3. st \in Of(Doc[act[w].job])
    BY <1>3 DEF Of
  <2> QED
    BY <1>3, <2>2, <2>3 DEF Insert
<1>4. Present(st)
  <2> SUFFICES ASSUME ~Present(st) PROVE FALSE
    OBVIOUS
  <2>1. PICK r \in rows' : r.st = st
    BY DEF Present
  <2>2. r \notin rows
    BY <2>1 DEF Present
  <2>3. ASSUME NEW w \in Workers, Insert(w) PROVE FALSE
    <3>1. Doc[st] = Doc[act[w].job]
      BY <2>1, <2>2, <2>3, InsertRows
    <3> QED
      BY <1>3, <2>3, <3>1, FirstInsertScopes
  <2>4. ASSUME NEW w \in Workers, Rescue(w) PROVE FALSE
    <3>1. Rescued(w) # {}
      BY <2>2, <2>4 DEF Rescue
    <3>2. PICK q \in Rescued(w) : q.st = st
      BY <2>1, <2>2, <2>4, <3>1, RescueRows
    <3> QED
      BY <2>4, <3>2, RescueScopes
  <2>5. ASSUME NEW w \in Workers, Delete(w) \/ Clean(w) PROVE FALSE
    BY <2>2, <2>5, DeleteRows, CleanRows
  <2>6. ~Merge /\ rows' # rows
    BY <2>2, MergeRows
  <2> QED
    BY <2>3, <2>4, <2>5, <2>6, OthersKeepRows DEF Storing
<1>5. ~IsScoped(st)
  <2> SUFFICES ASSUME IsScoped(st) PROVE FALSE
    OBVIOUS
  <2>1. PICK w \in Workers : /\ Doc[act[w].job] = Doc[st]
                             /\ Delete(w) \/ (Insert(w) /\ act[w].scope[Product[st]] = None)
    BY ScopeLost
  <2>2. ~Delete(w)
    BY <2>1, DeleteRows DEF Present
  <2> QED
    BY <1>3, <2>1, <2>2
<1>6. ~PassRead(s) \/ (s \in sboms /\ WillScope(st))
  BY <1>1, <1>4, <1>5, FaultFree DEF ScopedOrPending
<1>7. CASE ~PassRead(s)
  BY <1>2, <1>4, <1>5, <1>7, PassReadBefore, TakesUp
<1>8. CASE s \in sboms /\ WillScope(st)
  BY <1>2, <1>8, WillScopeKept
<1> QED
  BY <1>6, <1>7, <1>8

-----------------------------------------------------------------------------

LEMMA Inductive ==
  ASSUME OwnIDs, IInv, [Next]_vars
  PROVE  IInv'
<1>1. TypeOK /\ Holding /\ Past /\ Newest /\ CopiedFirst /\ WholeOrPending /\ Committing /\ ScopedOrPending
  BY DEF IInv
<1>2. TypeOK' /\ Holding'
  BY <1>1, TypeKept, HoldingKept
<1>3. Past' /\ Newest'
  BY <1>1, PastKept, NewestKept
<1>4. CopiedFirst' /\ WholeOrPending'
  BY <1>1, CopiedFirstKept, WholeOrPendingKept
<1>5. Committing' /\ ScopedOrPending'
  BY <1>1, <1>2, CommittingKept, ScopedOrPendingKept
<1> QED
  BY <1>2, <1>3, <1>4, <1>5 DEF IInv

LEMMA Invariance ==
  ASSUME OwnIDs
  PROVE  Spec => []IInv
<1>1. IInv /\ [Next]_vars => IInv'
  BY Inductive
<1> QED
  BY <1>1, Initially, PTL DEF Spec

\* A document all of whose jobs are done is not waited for.
LEMMA IngestedIsNotPending ==
  ASSUME Holding, NEW doc, Ingested(doc)
  PROVE  ~Pending(doc)
BY DEF Holding, Ingested, Pending

\* LostOnlyWhenRaced: rescueUnscopedVEX inserts the scoped copies before it deletes the
\* unscoped rows, and processVEXJob inserts all that it deleted or fails, so an ingested
\* document keeps a row for each statement unless a job and a pass crossed on it.
THEOREM StatementsSurvive ==
  ASSUME OwnIDs
  PROVE  Spec => []LostOnlyWhenRaced
<1>1. IInv => LostOnlyWhenRaced
  <2> SUFFICES ASSUME IInv, NEW st \in Statements, st \notin raced, Ingested(Doc[st])
               PROVE  \E r \in Final : r.st = st
    BY DEF LostOnlyWhenRaced, Survives
  <2>1. Present(st)
    BY IngestedIsNotPending DEF IInv, WholeOrPending
  <2>2. PICK r \in rows : r.st = st
    BY <2>1 DEF Present
  <2> QED
    BY <2>2, ShowsRows DEF IInv
<1> QED
  BY <1>1, Invariance, PTL

\* InertOnlyWhenRaced: when processVEXJob and processSBOMJob are through with everything and
\* nothing has failed, the product of a statement was there when the job looked it up, or
\* rescueUnscopedVEX found the statement: it is scoped, in whatever order they came.
THEOREM StatementsGetTheirScope ==
  ASSUME OwnIDs
  PROVE  Spec => []InertOnlyWhenRaced
<1>1. IInv => InertOnlyWhenRaced
  <2> SUFFICES ASSUME IInv, faults = 0, \A j \in Jobs : queue[j] = "done",
                      NEW st \in Statements, st \notin raced, NEW s \in SBOMs, Product[st] \in Describes[s]
               PROVE  IsScoped(st)
    BY DEF InertOnlyWhenRaced, IsScoped
  <2>1. \A w \in Workers : ~Working(w)
    <3>1. TypeOK /\ Holding
      BY DEF IInv
    <3>2. \A w \in Workers : Working(w) => act[w].job \in Jobs /\ queue[act[w].job] = "running"
      BY <3>1, InHand DEF Holding
    <3> QED
      BY <3>2
  <2>2. s \in sboms
    <3>1. s \in Jobs
      BY DEF Jobs
    <3> QED
      BY <2>1, <3>1 DEF IInv, Committing
  <2>3. PassRead(s)
    BY <2>1, <2>2 DEF PassRead, Working
  <2>4. Present(st)
    <3>1. Ingested(Doc[st])
      BY DEF Ingested, Jobs
    <3> QED
      BY <3>1, IngestedIsNotPending DEF IInv, WholeOrPending
  <2>5. ~WillScope(st)
    BY <2>1 DEF WillScope
  <2> QED
    BY <2>3, <2>4, <2>5 DEF IInv, ScopedOrPending
<1> QED
  BY <1>1, Invariance, PTL

\* ScopeStays: DeleteUnscopedVEXStatementsByID spares what has a scope, FINAL prefers the
\* scoped copy, and merges, faults and other documents change neither, so only a VEX job
\* that deletes or inserts the document itself takes a scope away.
THEOREM ScopesStay ==
  ASSUME OwnIDs
  PROVE  Spec => ScopeStays
<1> DEFINE Keeps ==
      \A st \in Statements :
        IsScoped(st) /\ ~IsScoped(st)' =>
          \E w \in Workers : (At(w, "delete") \/ At(w, "insert")) /\ Doc[act[w].job] = Doc[st]
<1>1. IInv /\ [Next]_vars => Keeps
  <2> SUFFICES ASSUME IInv, [Next]_vars, NEW st \in Statements, IsScoped(st), ~IsScoped(st)'
               PROVE  \E w \in Workers : (At(w, "delete") \/ At(w, "insert")) /\ Doc[act[w].job] = Doc[st]
    OBVIOUS
  <2>1. PICK w \in Workers : Doc[act[w].job] = Doc[st] /\ (Delete(w) \/ Insert(w))
    BY ScopeLost DEF IInv
  <2> QED
    BY <2>1 DEF Delete, Insert
<1>2. ScopeStays <=> [][Keeps]_vars
  BY PTL DEF ScopeStays
<1> QED
  BY <1>1, <1>2, Invariance, PTL DEF Spec

===============================================================================
