--------------------------- MODULE IngestQueueProofs ---------------------------
(***************************************************************************)
(* IngestQueue for any workers, jobs and durations: the claim protocol     *)
(* hands out a job exclusively until a requeue acts on outdated news,      *)
(* finished jobs stay finished, sweeps spare live workers, and the section *)
(* of ClaimJobs implements the abstract claim lock of ClaimLease.          *)
(***************************************************************************)
EXTENDS IngestQueue, FiniteSetTheorems, TLAPS

\* A worker in its claim section has the lease, or the lease it had may have
\* been taken over.
LostLease(w) == now >= since[w] + Handover
LeaseInv ==
  \A w \in Workers : pc[w] \in Section =>
    LostLease(w) \/ lease = [holder |-> w, start |-> since[w]]

\* Outside its claim section and its work a worker holds no entries, and its
\* entries name jobs of the queue, each at most once.
BatchInv ==
  /\ \A w \in Workers : pc[w] \in {"idle", "wait", "own", "select"} => batch[w] = {}
  /\ \A w \in Workers : \A b \in batch[w] : queue[b.job].rows # {}
  /\ \A w \in Workers : \A b, c \in batch[w] : b.job = c.job => b = c

\* A job that was not overruled has one latest row.
SingleRow ==
  \A j \in Jobs \ overruled : \A r, s \in queue[j].rows : r = s

\* A processing row carries its own version as the time of its claim.
ClaimRows ==
  \A j \in Jobs : \A r \in queue[j].rows :
    r.status = "processing" => r = ProcessingRow(r.by, queue[j].ver)

\* A claim is stamped before its worker can have lost the lease.
StampInv ==
  \A w \in Workers : \A b \in batch[w] :
    pc[w] = "send" => b.ver < since[w] + Handover

\* Of two workers about to claim the same job, one has stamped its claim after
\* the other had lost the lease.
StampOrder ==
  \A v, w \in Workers : \A b \in batch[v], c \in batch[w] :
    v # w /\ pc[v] = "send" /\ pc[w] = "send" /\ b.job = c.job =>
      since[v] + Handover <= c.ver \/ since[w] + Handover <= b.ver

\* A worker that still has the lease outranks with its claim whatever has been
\* written for the job; one that has not never ties with it.
ClaimOutranks ==
  \A w \in Workers : \A b \in batch[w] : b.job \notin overruled =>
    /\ pc[w] = "stamp" /\ ~LostLease(w) =>
         queue[b.job].ver <= b.ver \/ queue[b.job].ver < now
    /\ pc[w] = "send" => queue[b.job].ver # b.ver
    /\ pc[w] = "send" /\ ~LostLease(w) => queue[b.job].ver < b.ver

\* A claim that has landed in time is the job's state until the worker's next
\* transition.
Landed == {"verify", "return", "work"}
OwnedInv ==
  \A w \in Workers : \A b \in batch[w] :
    pc[w] \in Landed /\ b.job \notin overruled =>
      /\ queue[b.job].ver = b.ver
      /\ queue[b.job].rows = {ProcessingRow(w, b.ver)}

\* Who is about to claim a job that another worker has claimed in time has lost
\* the lease and will be outranked.
LateInv ==
  \A v, w \in Workers : \A b \in batch[v], c \in batch[w] :
    /\ v # w /\ b.job = c.job /\ b.job \notin overruled
    /\ pc[v] \in {"stamp", "send"} /\ pc[w] \in Landed
    => LostLease(v) /\ (pc[v] = "send" => b.ver < c.ver)

\* A claim being released is the job's state or is outranked; it is outranked
\* when a worker with the lease has the job in hand.
ReleaseInv ==
  \A v \in Workers : \A b \in batch[v] :
    pc[v] = "release" /\ b.job \notin overruled =>
      /\ queue[b.job].ver >= b.ver
      /\ queue[b.job].ver = b.ver => queue[b.job].rows = {ProcessingRow(v, b.ver)}
      /\ \A w \in Workers : \A c \in batch[w] :
           pc[w] \in {"stamp", "send"} /\ ~LostLease(w) /\ c.job = b.job =>
             queue[b.job].ver > b.ver

IInv ==
  /\ TypeOK /\ LeaseInv /\ BatchInv /\ SingleRow /\ ClaimRows /\ StampInv /\ StampOrder
  /\ ClaimOutranks /\ OwnedInv /\ LateInv /\ ReleaseInv

-----------------------------------------------------------------------------
(* Type correctness.                                                       *)

\* A latest row and the state argMax reports for a job.
JobState == [ver : Nat, rows : SUBSET Row]

\* What an insert does to a job's state: it outranks it, ties with it or is
\* outranked.
LEMMA AppendedState ==
  ASSUME NEW q \in JobState, NEW ver \in Nat, NEW row \in Row
  PROVE  /\ Appended(q, ver, row) \in JobState
         /\ Appended(q, ver, row).ver >= q.ver
         /\ Appended(q, ver, row).rows = {} => q.rows = {} /\ ver < q.ver
         /\ ver > q.ver => Appended(q, ver, row).ver = ver /\ Appended(q, ver, row).rows = {row}
         /\ ver < q.ver => Appended(q, ver, row) = q
  BY DEF Appended, JobState

\* A transition's version is at least the clock and above the row it follows.
LEMMA NextVersionAbove ==
  ASSUME now \in Nat, NEW ver \in Nat
  PROVE  /\ NextVersion(ver) \in Nat
         /\ NextVersion(ver) >= now
         /\ NextVersion(ver) > ver
  BY DEF NextVersion, Later

\* The rows the transitions insert have the type of a queue row.
LEMMA RowTypes ==
  ASSUME NEW w \in Workers, NEW at \in Nat, NEW retry \in Nat
  PROVE  /\ PendingRow(retry) \in Row
         /\ ProcessingRow(w, at) \in Row
         /\ \A status \in {"done", "failed"} : FinalRow(status, w, at) \in Row
  BY DEF PendingRow, ProcessingRow, FinalRow, Row, Statuses

\* A query result carries job ids and versions.
LEMMA EntryTypes ==
  ASSUME TypeOK, NEW j \in Jobs
  PROVE  EntryOf(j) \in Entry
  BY DEF TypeOK, EntryOf, Entry

\* A worker's section or its list of jobs ends or goes on: the types of what it
\* keeps.
LEMMA AbandonTypes ==
  ASSUME TypeOK, NEW w \in Workers, Abandon(w)
  PROVE  /\ pc' \in [Workers -> Section \cup {"idle", "wait", "work"}]
         /\ batch' \in [Workers -> SUBSET Entry]
         /\ since' \in [Workers -> Nat]
         /\ lease' \in [holder : Workers \cup {None}, start : Nat]
  BY DEF TypeOK, Abandon, Unlocked

\* Going on to the next job keeps the types of what the loop keeps.
LEMMA NextJobTypes ==
  ASSUME TypeOK, NEW w \in Workers, NEW b \in batch[w], NextJob(w, b)
  PROVE  /\ pc' \in [Workers -> Section \cup {"idle", "wait", "work"}]
         /\ batch' \in [Workers -> SUBSET Entry]
         /\ since' \in [Workers -> Nat]
  BY DEF TypeOK, NextJob

\* The claim insert writes one row for each job of the batch.
LEMMA ClaimedState ==
  ASSUME TypeOK, NEW w \in Workers, Claimed(w),
         \A b, c \in batch[w] : b.job = c.job => b = c
  PROVE  /\ queue' \in [Jobs -> JobState]
         /\ \A j \in Jobs \ JobsOf(batch[w]) : queue'[j] = queue[j]
         /\ \A b \in batch[w] :
              queue'[b.job] = Appended(queue[b.job], b.ver, ProcessingRow(w, b.ver))
<1>1. queue \in [Jobs -> JobState] /\ batch[w] \subseteq Entry
  BY DEF TypeOK, JobState
<1>2. \A b \in batch[w] : b.job \in Jobs /\ b.ver \in Nat
  BY <1>1 DEF Entry
<1>3. ASSUME NEW b \in batch[w]
      PROVE  queue'[b.job] = Appended(queue[b.job], b.ver, ProcessingRow(w, b.ver))
  <2>1. b.job \in JobsOf(batch[w])
    BY DEF JobsOf
  <2>2. (CHOOSE c \in batch[w] : c.job = b.job) = b
    OBVIOUS
  <2> QED
    BY <1>2, <2>1, <2>2 DEF Claimed
<1>4. \A j \in Jobs \ JobsOf(batch[w]) : queue'[j] = queue[j]
  BY DEF Claimed
<1>5. ASSUME NEW j \in Jobs PROVE queue'[j] \in JobState
  <2>1. CASE j \in JobsOf(batch[w])
    <3>1. PICK b \in batch[w] : b.job = j
      BY <2>1 DEF JobsOf
    <3>2. ProcessingRow(w, b.ver) \in Row
      BY <1>2, RowTypes
    <3> QED
      BY <1>1, <1>2, <1>3, <3>1, <3>2, AppendedState
  <2>2. CASE j \notin JobsOf(batch[w])
    BY <1>1, <1>4, <2>2
  <2> QED
    BY <2>1, <2>2
<1>6. queue' = [j \in Jobs |-> queue'[j]]
  BY DEF Claimed
<1> QED
  BY <1>3, <1>4, <1>5, <1>6

\* The types behind one entry of a batch.
LEMMA BatchTypes ==
  ASSUME TypeOK, NEW w \in Workers, NEW b \in batch[w]
  PROVE  /\ b \in Entry /\ b.job \in Jobs /\ b.ver \in Nat
         /\ queue[b.job] \in JobState /\ queue[b.job].ver \in Nat
         /\ since[w] \in Nat /\ now \in Nat
  BY DEF TypeOK, Entry, JobState

\* Within its deadline a worker has the lease, and everybody else in a claim
\* section has lost it.
LEMMA WithinHasLease ==
  ASSUME IInv, NEW w \in Workers, pc[w] \in Section, Within(w)
  PROVE  /\ ~LostLease(w)
         /\ \A v \in Workers \ {w} : pc[v] \in Section => LostLease(v)
  BY QueueAssumption DEF IInv, TypeOK, LeaseInv, LostLease, Within

-----------------------------------------------------------------------------
(* Most steps let a worker keep or give up entries and write at most one    *)
(* row, which supersedes whatever is current.                              *)

OthersGoOn(w) ==
  \A v \in Workers \ {w} : pc'[v] = pc[v] /\ since'[v] = since[v] /\ batch'[v] = batch[v]

GivesUp(w) ==
  /\ batch'[w] \subseteq batch[w]
  /\ \/ pc'[w] = pc[w] /\ since'[w] = since[w]
     \/ pc'[w] \in {"idle", "wait", "own", "select"} /\ batch'[w] = {}
     \/ pc[w] \in Landed /\ pc'[w] \in Landed

\* A new row outranks all others of job j, which nobody owns afterwards and
\* nobody is about to claim in time.
Superseded(j) ==
  /\ queue'[j].ver > queue[j].ver /\ queue'[j].ver >= now
  /\ \A r, s \in queue'[j].rows : r = s
  /\ \A v \in Workers : \A b \in batch'[v] :
       b.job = j => /\ pc'[v] \notin Landed
                    /\ pc'[v] \in {"stamp", "send"} => LostLease(v)

\* A step that writes at most a superseding row, while one worker keeps or
\* gives up entries, preserves the invariant.
LEMMA Preservation ==
  ASSUME IInv, TypeOK', LeaseInv', ClaimRows', NEW w \in Workers,
         now' = now, overruled \subseteq overruled', OthersGoOn(w), GivesUp(w),
         \A j \in Jobs : queue[j].rows # {} => queue'[j].rows # {},
         \A j \in Jobs \ overruled' : queue'[j] = queue[j] \/ Superseded(j)
  PROVE  IInv'
<1> DEFINE Early(v) == pc[v] \in {"release", "stamp", "send"}
<1>1. \A v \in Workers :
        /\ batch'[v] \subseteq batch[v]
        /\ pc'[v] \in {"release", "stamp", "send"} => pc'[v] = pc[v] /\ since'[v] = since[v]
        /\ pc'[v] \in Landed => pc[v] \in Landed
        /\ pc'[v] \in {"idle", "wait", "own", "select"} =>
             batch'[v] = {} \/ pc'[v] = pc[v]
  BY DEF OthersGoOn, GivesUp, Landed
<1>2. \A v \in Workers : pc'[v] \in {"stamp", "send"} => (LostLease(v)' <=> LostLease(v))
  BY <1>1 DEF LostLease
<1>3. \A v \in Workers : \A b \in batch'[v] :
        /\ b \in batch[v] /\ b.job \in Jobs /\ b.ver \in Nat
        /\ queue[b.job].ver \in Nat /\ queue'[b.job].ver \in Nat /\ since[v] \in Nat /\ now \in Nat
  BY <1>1, BatchTypes DEF IInv, TypeOK
<1>4. BatchInv'
  BY <1>1, <1>3 DEF IInv, BatchInv
<1>5. SingleRow'
  BY DEF IInv, SingleRow, Superseded
<1>6. StampInv' /\ StampOrder'
  BY <1>1 DEF IInv, StampInv, StampOrder
<1>7. ClaimOutranks'
  <2> SUFFICES ASSUME NEW v \in Workers, NEW b \in batch'[v], b.job \notin overruled'
               PROVE  /\ pc'[v] = "stamp" /\ ~LostLease(v)' =>
                           queue'[b.job].ver <= b.ver \/ queue'[b.job].ver < now'
                      /\ pc'[v] = "send" => queue'[b.job].ver # b.ver
                      /\ pc'[v] = "send" /\ ~LostLease(v)' => queue'[b.job].ver < b.ver
    BY DEF ClaimOutranks
  <2>1. CASE queue'[b.job] = queue[b.job]
    BY <1>1, <1>2, <1>3, <2>1 DEF IInv, ClaimOutranks
  <2>2. CASE Superseded(b.job)
    <3>1. pc[v] = "send" => b.ver < since[v] + Handover
      BY <1>3 DEF IInv, StampInv
    <3> QED
      BY <1>1, <1>2, <1>3, <2>2, <3>1, QueueAssumption DEF Superseded, LostLease
  <2> QED
    BY <1>3, <2>1, <2>2
<1>8. OwnedInv'
  <2> SUFFICES ASSUME NEW v \in Workers, NEW b \in batch'[v], pc'[v] \in Landed,
                      b.job \notin overruled'
               PROVE  /\ queue'[b.job].ver = b.ver
                      /\ queue'[b.job].rows = {ProcessingRow(v, b.ver)}
    BY DEF OwnedInv
  <2>1. ~Superseded(b.job)
    BY DEF Superseded
  <2> QED
    BY <1>1, <1>3, <2>1 DEF IInv, OwnedInv
<1>9. LateInv'
  BY <1>1, <1>2 DEF IInv, LateInv
<1>10. ReleaseInv'
  <2> SUFFICES ASSUME NEW v \in Workers, NEW b \in batch'[v], pc'[v] = "release",
                      b.job \notin overruled'
               PROVE  /\ queue'[b.job].ver >= b.ver
                      /\ queue'[b.job].ver = b.ver => queue'[b.job].rows = {ProcessingRow(v, b.ver)}
                      /\ \A u \in Workers : \A c \in batch'[u] :
                           pc'[u] \in {"stamp", "send"} /\ ~LostLease(u)' /\ c.job = b.job =>
                             queue'[b.job].ver > b.ver
    BY DEF ReleaseInv
  <2>1. /\ queue[b.job].ver >= b.ver
        /\ queue[b.job].ver = b.ver => queue[b.job].rows = {ProcessingRow(v, b.ver)}
        /\ \A u \in Workers : \A c \in batch[u] :
             pc[u] \in {"stamp", "send"} /\ ~LostLease(u) /\ c.job = b.job =>
               queue[b.job].ver > b.ver
    BY <1>1, <1>3 DEF IInv, ReleaseInv
  <2>2. CASE queue'[b.job] = queue[b.job]
    BY <1>1, <1>2, <1>3, <2>1, <2>2
  <2>3. CASE Superseded(b.job)
    BY <1>3, <2>1, <2>3 DEF Superseded
  <2> QED
    BY <1>3, <2>2, <2>3
<1> QED
  BY <1>4, <1>5, <1>6, <1>7, <1>8, <1>9, <1>10 DEF IInv

-----------------------------------------------------------------------------
(* The steps that write no row.                                            *)

\* A step that writes nothing and in which one worker keeps or gives up
\* entries preserves the invariant.
LEMMA Quiet ==
  ASSUME IInv, TypeOK', LeaseInv', NEW w \in Workers, OthersGoOn(w), GivesUp(w),
         UNCHANGED <<now, queue, overruled>>
  PROVE  IInv'
<1>1. ClaimRows'
  BY DEF IInv, ClaimRows
<1> QED
  BY <1>1, Preservation

\* Time passes: leases get lost, which only weakens what is claimed of their
\* holders.
LEMMA TickPreserves ==
  ASSUME IInv, Tick
  PROVE  IInv'
<1>1. /\ now' = now + 1 /\ now \in Nat
      /\ UNCHANGED <<queue, born, pc, since, batch, sweep, alive, lease, overruled>>
  BY DEF Tick, loop, IInv, TypeOK
<1>2. \A w \in Workers : LostLease(w) => LostLease(w)'
  BY <1>1, QueueAssumption DEF LostLease, IInv, TypeOK
<1>3. TypeOK' /\ LeaseInv' /\ BatchInv'
  BY <1>1, <1>2 DEF IInv, TypeOK, LeaseInv, BatchInv
<1>4. SingleRow' /\ ClaimRows' /\ StampInv' /\ StampOrder'
  BY <1>1 DEF IInv, SingleRow, ClaimRows, StampInv, StampOrder
<1>5. ClaimOutranks'
  <2>1. \A w \in Workers : \A b \in batch[w] : queue[b.job].ver \in Nat
    BY BatchTypes DEF IInv
  <2> QED
    BY <1>1, <1>2, <2>1 DEF IInv, ClaimOutranks
<1>6. OwnedInv'
  BY <1>1 DEF IInv, OwnedInv
<1>7. LateInv' /\ ReleaseInv'
  BY <1>1, <1>2 DEF IInv, LateInv, ReleaseInv
<1> QED
  BY <1>3, <1>4, <1>5, <1>6, <1>7 DEF IInv

\* The lease of a worker that stopped renewing is taken away.
LEMMA ExpirePreserves ==
  ASSUME IInv, Expire, NEW w \in Workers
  PROVE  IInv'
<1>1. TypeOK'
  BY DEF Expire, loop, IInv, TypeOK
<1>2. LeaseInv'
  BY DEF Expire, loop, IInv, LeaseInv, LostLease, Section
<1>3. OthersGoOn(w) /\ GivesUp(w) /\ UNCHANGED <<now, queue, overruled>>
  BY DEF Expire, loop, OthersGoOn, GivesUp
<1> QED
  BY <1>1, <1>2, <1>3, Quiet

\* A section that ends without a result.
LEMMA AbandonPreservesLease ==
  ASSUME IInv, NEW w \in Workers, Abandon(w), now' = now
  PROVE  LeaseInv' /\ OthersGoOn(w) /\ GivesUp(w)
<1>1. OthersGoOn(w) /\ GivesUp(w) /\ pc'[w] = "idle" /\ since' = since
  BY DEF Abandon, OthersGoOn, GivesUp, IInv, TypeOK
<1>2. LeaseInv'
  BY <1>1 DEF Abandon, Unlocked, OthersGoOn, IInv, TypeOK, LeaseInv, LostLease, Section
<1> QED
  BY <1>1, <1>2

\* The steps of WithLock, of the loop and of the sweep that insert nothing.
LEMMA QuietStepsPreserve ==
  ASSUME IInv, NEW w \in Workers,
         \/ Begin(w) \/ Acquire(w) \/ StatementFails(w) \/ Verify(w) \/ Return(w)
         \/ StatusLost(w) \/ SweepSelect(w) \/ SweepFails(w) \/ Crash(w) \/ Restart(w)
  PROVE  IInv'
<1> USE DEF IInv, loop
<1>1. CASE Begin(w)
  <2>1. TypeOK' /\ LeaseInv'
    BY <1>1 DEF Begin, TypeOK, LeaseInv, LostLease, Section
  <2>2. OthersGoOn(w) /\ GivesUp(w) /\ UNCHANGED <<now, queue, overruled>>
    BY <1>1 DEF Begin, TypeOK, BatchInv, OthersGoOn, GivesUp
  <2> QED
    BY <2>1, <2>2, Quiet
<1>2. CASE Acquire(w)
  <2>1. TypeOK' /\ LeaseInv'
    BY <1>2, QueueAssumption DEF Acquire, TypeOK, LeaseInv, LostLease, Section
  <2>2. OthersGoOn(w) /\ GivesUp(w) /\ UNCHANGED <<now, queue, overruled>>
    BY <1>2 DEF Acquire, TypeOK, BatchInv, OthersGoOn, GivesUp
  <2> QED
    BY <2>1, <2>2, Quiet
<1>3. CASE StatementFails(w)
  <2>1. Abandon(w) /\ UNCHANGED <<now, queue, born, sweep, alive, overruled>>
    BY <1>3 DEF StatementFails
  <2>2. TypeOK'
    BY <2>1, AbandonTypes DEF TypeOK
  <2> QED
    BY <2>1, <2>2, AbandonPreservesLease, Quiet
<1>4. CASE Verify(w)
  <2>1. PICK S : batch' = [batch EXCEPT ![w] = {b \in batch[w] : b.job \in S}]
    BY <1>4 DEF Verify
  <2>2. TypeOK' /\ LeaseInv'
    BY <1>4, <2>1 DEF Verify, TypeOK, LeaseInv, LostLease, Section
  <2>3. OthersGoOn(w) /\ GivesUp(w) /\ UNCHANGED <<now, queue, overruled>>
    BY <1>4, <2>1 DEF Verify, TypeOK, OthersGoOn, GivesUp, Landed
  <2> QED
    BY <2>2, <2>3, Quiet
<1>5. CASE Return(w)
  <2>1. TypeOK'
    BY <1>5 DEF Return, Unlocked, TypeOK
  <2>2. OthersGoOn(w) /\ GivesUp(w) /\ UNCHANGED <<now, queue, overruled>>
    BY <1>5 DEF Return, TypeOK, OthersGoOn, GivesUp, Landed
  <2>3. pc'[w] \in {"idle", "work"}
    BY <1>5 DEF Return, TypeOK
  <2>4. LeaseInv'
    BY <1>5, <2>2, <2>3 DEF Return, Unlocked, OthersGoOn, TypeOK, LeaseInv, LostLease, Section
  <2> QED
    BY <2>1, <2>2, <2>4, Quiet
<1>6. CASE StatusLost(w)
  <2>1. PICK b \in batch[w] : NextJob(w, b)
    BY <1>6 DEF StatusLost, Current
  <2>2. TypeOK'
    BY <1>6, <2>1, NextJobTypes DEF StatusLost, TypeOK
  <2>3. OthersGoOn(w) /\ GivesUp(w) /\ UNCHANGED <<now, queue, overruled>>
    BY <1>6, <2>1 DEF StatusLost, Working, NextJob, TypeOK, OthersGoOn, GivesUp, Landed
  <2>4. LeaseInv'
    BY <1>6, <2>1 DEF StatusLost, NextJob, TypeOK, LeaseInv, LostLease, Section
  <2> QED
    BY <2>2, <2>3, <2>4, Quiet
<1>7. CASE SweepSelect(w)
  <2>1. PICK S \in SUBSET Jobs : sweep' = [sweep EXCEPT ![w] = {EntryOf(j) : j \in S}]
    BY <1>7 DEF SweepSelect, Answers
  <2>2. {EntryOf(j) : j \in S} \subseteq Entry
    BY EntryTypes
  <2>3. TypeOK' /\ LeaseInv'
    BY <1>7, <2>1, <2>2 DEF SweepSelect, TypeOK, LeaseInv, LostLease
  <2>4. OthersGoOn(w) /\ GivesUp(w) /\ UNCHANGED <<now, queue, overruled>>
    BY <1>7 DEF SweepSelect, OthersGoOn, GivesUp
  <2> QED
    BY <2>3, <2>4, Quiet
<1>8. CASE SweepFails(w) \/ Restart(w)
  <2>1. TypeOK' /\ LeaseInv'
    BY <1>8 DEF SweepFails, Restart, TypeOK, LeaseInv, LostLease
  <2>2. OthersGoOn(w) /\ GivesUp(w) /\ UNCHANGED <<now, queue, overruled>>
    BY <1>8 DEF SweepFails, Restart, OthersGoOn, GivesUp
  <2> QED
    BY <2>1, <2>2, Quiet
<1>9. CASE Crash(w)
  <2>1. TypeOK' /\ LeaseInv'
    BY <1>9 DEF Crash, TypeOK, LeaseInv, LostLease, Section
  <2>2. OthersGoOn(w) /\ GivesUp(w) /\ UNCHANGED <<now, queue, overruled>>
    BY <1>9 DEF Crash, TypeOK, OthersGoOn, GivesUp
  <2> QED
    BY <2>1, <2>2, Quiet
<1> QED
  BY <1>1, <1>2, <1>3, <1>4, <1>5, <1>6, <1>7, <1>8, <1>9

\* The query of releaseOwnClaims: what it reads is a current claim of the
\* worker itself.
LEMMA SelectOwnPreserves ==
  ASSUME IInv, NEW w \in Workers, SelectOwn(w)
  PROVE  IInv'
<1> DEFINE OwnRow(j) == \E r \in queue[j].rows : r.status = "processing" /\ r.by = w
<1>1. PICK S \in SUBSET Jobs :
         /\ \A j \in S : OwnRow(j)
         /\ batch' = [batch EXCEPT ![w] = {EntryOf(j) : j \in S}]
         /\ pc' = [pc EXCEPT ![w] = IF S = {} THEN "select" ELSE "release"]
  BY DEF SelectOwn, Answers, OwnProcessing
<1>2. \A j \in S : EntryOf(j) \in Entry
  BY EntryTypes DEF IInv
<1>3. /\ pc[w] = "own" /\ pc[w] \in Section /\ Within(w)
      /\ UNCHANGED <<now, queue, born, since, sweep, alive, lease, overruled>>
  BY DEF SelectOwn, Section
<1>4. TypeOK'
  BY <1>1, <1>2, <1>3 DEF IInv, TypeOK, Section
<1>5. /\ \A v \in Workers \ {w} : pc'[v] = pc[v] /\ batch'[v] = batch[v]
      /\ pc'[w] \in {"select", "release"}
      /\ pc'[w] = "select" => batch'[w] = {}
      /\ \A b \in batch'[w] : b.job \in Jobs /\ b.ver = queue[b.job].ver /\ OwnRow(b.job)
      /\ \A b, c \in batch'[w] : b.job = c.job => b = c
  BY <1>1, <1>2 DEF IInv, TypeOK, EntryOf
<1> HIDE DEF OwnRow
<1>6. LeaseInv'
  BY <1>3, <1>5 DEF IInv, LeaseInv, LostLease
<1>7. BatchInv'
  <2>1. \A b \in batch'[w] : queue'[b.job].rows # {}
    BY <1>3, <1>5 DEF OwnRow
  <2> QED
    BY <1>3, <1>5, <2>1 DEF IInv, BatchInv
<1>8. SingleRow' /\ ClaimRows'
  BY <1>3 DEF IInv, SingleRow, ClaimRows
<1>9. StampInv' /\ StampOrder'
  BY <1>3, <1>5 DEF IInv, StampInv, StampOrder
<1>10. ClaimOutranks'
  BY <1>3, <1>5 DEF IInv, ClaimOutranks, LostLease
<1>11. OwnedInv' /\ LateInv'
  BY <1>3, <1>5 DEF IInv, OwnedInv, LateInv, Landed, LostLease
<1>12. ReleaseInv'
  <2>1. ASSUME NEW b \in batch'[w], b.job \notin overruled
        PROVE  queue[b.job].rows = {ProcessingRow(w, b.ver)}
    <3>1. PICK r \in queue[b.job].rows : r.status = "processing" /\ r.by = w
      BY <1>5 DEF OwnRow
    <3>2. r = ProcessingRow(w, b.ver)
      BY <1>5, <3>1 DEF IInv, ClaimRows
    <3> QED
      BY <1>5, <2>1, <3>2 DEF IInv, SingleRow
  <2>2. \A v \in Workers \ {w} : pc[v] \in {"stamp", "send"} => LostLease(v)
    BY <1>3, WithinHasLease DEF Section
  <2>3. \A b \in batch'[w] : queue[b.job].ver \in Nat
    BY <1>5 DEF IInv, TypeOK
  <2>4. \A v \in Workers : LostLease(v)' <=> LostLease(v)
    BY <1>3 DEF LostLease
  <2>5. ASSUME NEW b \in batch'[w], pc'[w] = "release", b.job \notin overruled
        PROVE  /\ queue'[b.job].ver >= b.ver
               /\ queue'[b.job].ver = b.ver => queue'[b.job].rows = {ProcessingRow(w, b.ver)}
               /\ \A v \in Workers : \A c \in batch'[v] :
                    pc'[v] \in {"stamp", "send"} /\ ~LostLease(v)' /\ c.job = b.job =>
                      queue'[b.job].ver > b.ver
    BY <1>3, <1>5, <2>1, <2>2, <2>3, <2>4, <2>5
  <2>6. ASSUME NEW u \in Workers \ {w}, NEW b \in batch'[u], pc'[u] = "release", b.job \notin overruled
        PROVE  /\ queue'[b.job].ver >= b.ver
               /\ queue'[b.job].ver = b.ver => queue'[b.job].rows = {ProcessingRow(u, b.ver)}
               /\ \A v \in Workers : \A c \in batch'[v] :
                    pc'[v] \in {"stamp", "send"} /\ ~LostLease(v)' /\ c.job = b.job =>
                      queue'[b.job].ver > b.ver
    BY <1>3, <1>5, <2>4, <2>6 DEF IInv, ReleaseInv
  <2> QED
    BY <1>3, <2>5, <2>6 DEF ReleaseInv
<1> QED
  BY <1>4, <1>6, <1>7, <1>8, <1>9, <1>10, <1>11, <1>12 DEF IInv

\* The query for pending jobs: nobody owns what it reads.
LEMMA SelectPendingPreserves ==
  ASSUME IInv, NEW w \in Workers, SelectPending(w)
  PROVE  IInv'
<1> DEFINE PendingJob(j) == \E r \in queue[j].rows : r.status = "pending"
<1>0. PICK S \in Answers(Claimable) : \E T \in OldestOf(S, Limit) :
         /\ batch' = [batch EXCEPT ![w] = {EntryOf(j) : j \in T}]
         /\ pc' = [pc EXCEPT ![w] = IF T = {} THEN "return" ELSE "stamp"]
  BY DEF SelectPending
<1>1. PICK T \in OldestOf(S, Limit) :
         /\ batch' = [batch EXCEPT ![w] = {EntryOf(j) : j \in T}]
         /\ pc' = [pc EXCEPT ![w] = IF T = {} THEN "return" ELSE "stamp"]
  BY <1>0
<1>2. \A j \in T : PendingJob(j) /\ EntryOf(j) \in Entry
  <2>1. S \subseteq Jobs /\ \A j \in S : PendingJob(j)
    BY DEF Answers, Claimable
  <2>2. T \subseteq S
    BY DEF OldestOf
  <2> QED
    BY <2>1, <2>2, EntryTypes DEF IInv
<1>3. /\ pc[w] = "select" /\ pc[w] \in Section /\ Within(w)
      /\ UNCHANGED <<now, queue, born, since, sweep, alive, lease, overruled>>
  BY DEF SelectPending, Section
<1>4. TypeOK'
  BY <1>1, <1>2, <1>3 DEF IInv, TypeOK, Section
<1>5. /\ \A v \in Workers \ {w} : pc'[v] = pc[v] /\ batch'[v] = batch[v]
      /\ pc'[w] \in {"return", "stamp"}
      /\ pc'[w] = "return" => batch'[w] = {}
      /\ \A b \in batch'[w] : b.job \in Jobs /\ b.ver = queue[b.job].ver /\ PendingJob(b.job)
      /\ \A b, c \in batch'[w] : b.job = c.job => b = c
  <2>1. T \subseteq Jobs
    BY DEF Answers, OldestOf
  <2> QED
    BY <1>1, <1>2, <2>1 DEF IInv, TypeOK, EntryOf
<1>6. \A b \in batch'[w], v \in Workers :
        /\ queue[b.job].rows # {}
        /\ \A at : queue[b.job].rows # {ProcessingRow(v, at)}
  BY <1>5 DEF ProcessingRow
<1> HIDE DEF PendingJob
<1>7. LeaseInv'
  BY <1>3, <1>5 DEF IInv, LeaseInv, LostLease, Section
<1>8. BatchInv'
  BY <1>3, <1>5, <1>6 DEF IInv, BatchInv
<1>9. SingleRow' /\ ClaimRows'
  BY <1>3 DEF IInv, SingleRow, ClaimRows
<1>10. StampInv' /\ StampOrder'
  BY <1>3, <1>5 DEF IInv, StampInv, StampOrder
<1>11. ClaimOutranks'
  <2>1. \A b \in batch'[w] : queue[b.job].ver \in Nat /\ queue[b.job].ver <= b.ver
    BY <1>5 DEF IInv, TypeOK
  <2> QED
    BY <1>3, <1>5, <2>1 DEF IInv, ClaimOutranks, LostLease
<1>12. OwnedInv'
  BY <1>3, <1>5 DEF IInv, OwnedInv, Landed
<1>13. LateInv'
  <2>1. \A v \in Workers \ {w} : \A c \in batch[v] : \A b \in batch'[w] :
          pc[v] \in Landed /\ c.job = b.job => b.job \in overruled
    BY <1>6 DEF IInv, OwnedInv
  <2> QED
    BY <1>3, <1>5, <2>1 DEF IInv, LateInv, Landed, LostLease
<1>14. ReleaseInv'
  <2>1. ASSUME NEW v \in Workers \ {w}, NEW b \in batch[v], pc[v] = "release", b.job \notin overruled,
               NEW c \in batch'[w], c.job = b.job
        PROVE  queue[b.job].ver > b.ver
    <3>1. queue[b.job].ver >= b.ver /\ queue[b.job].ver # b.ver
      BY <1>6, <2>1 DEF IInv, ReleaseInv
    <3> QED
      BY <3>1, BatchTypes DEF IInv
  <2> QED
    BY <1>3, <1>5, <2>1 DEF IInv, ReleaseInv, LostLease
<1> QED
  BY <1>4, <1>7, <1>8, <1>9, <1>10, <1>11, <1>12, <1>13, <1>14 DEF IInv

\* The claim versions are above what was read, and nobody who still has the
\* lease stamps the same job.
LEMMA StampPreserves ==
  ASSUME IInv, NEW w \in Workers, Stamp(w)
  PROVE  IInv'
<1>1. /\ pc[w] = "stamp" /\ pc[w] \in Section /\ Within(w)
      /\ \A b \in batch[w] : InLead(NextVersion(b.ver))
      /\ batch' = [batch EXCEPT ![w] = {[b EXCEPT !.ver = NextVersion(b.ver)] : b \in batch[w]}]
      /\ pc' = [pc EXCEPT ![w] = "send"]
      /\ UNCHANGED <<now, queue, born, since, sweep, alive, lease, overruled>>
  BY DEF Stamp, Section, IInv, TypeOK
<1>2. \A b \in batch[w] : /\ b \in Entry /\ b.job \in Jobs /\ b.ver \in Nat
                          /\ NextVersion(b.ver) \in Nat
                          /\ NextVersion(b.ver) >= now /\ NextVersion(b.ver) > b.ver
  BY BatchTypes, NextVersionAbove DEF IInv
<1>3. TypeOK'
  <2>1. \A b \in batch[w] : [b EXCEPT !.ver = NextVersion(b.ver)] \in Entry
    BY <1>2 DEF Entry
  <2> QED
    BY <1>1, <2>1 DEF IInv, TypeOK, Section
<1>4. /\ \A v \in Workers \ {w} : pc'[v] = pc[v] /\ batch'[v] = batch[v]
      /\ pc'[w] = "send"
      /\ \A c \in batch'[w] : \E b \in batch[w] :
           /\ c = [b EXCEPT !.ver = NextVersion(b.ver)]
           /\ c.job = b.job /\ c.ver = NextVersion(b.ver)
  <2>1. \A b \in batch[w] : /\ [b EXCEPT !.ver = NextVersion(b.ver)].job = b.job
                            /\ [b EXCEPT !.ver = NextVersion(b.ver)].ver = NextVersion(b.ver)
    BY <1>2 DEF Entry
  <2>2. batch'[w] = {[b EXCEPT !.ver = NextVersion(b.ver)] : b \in batch[w]}
    BY <1>1 DEF IInv, TypeOK
  <2>3. \A v \in Workers \ {w} : pc'[v] = pc[v] /\ batch'[v] = batch[v]
    BY <1>1 DEF IInv, TypeOK
  <2>4. pc'[w] = "send"
    BY <1>1 DEF IInv, TypeOK
  <2> QED
    BY <2>1, <2>2, <2>3, <2>4
<1>5. \A c \in batch'[w] :
        /\ c.ver \in Nat /\ c.ver >= now /\ c.ver <= now + Lead
        /\ \E b \in batch[w] : b.job = c.job /\ c.ver > b.ver
  BY <1>1, <1>2, <1>4 DEF InLead
<1>6. /\ ~LostLease(w)
      /\ \A v \in Workers \ {w} : pc[v] \in Section => LostLease(v)
  BY <1>1, WithinHasLease
<1>7. LeaseInv'
  BY <1>1, <1>4 DEF IInv, LeaseInv, LostLease, Section
<1>8. BatchInv'
  <2>1. \A c \in batch'[w] : queue'[c.job].rows # {}
    BY <1>1, <1>5 DEF IInv, BatchInv
  <2>2. ASSUME NEW c \in batch'[w], NEW d \in batch'[w], c.job = d.job PROVE c = d
    BY <1>4, <2>2 DEF IInv, BatchInv
  <2> QED
    BY <1>1, <1>4, <2>1, <2>2 DEF IInv, BatchInv
<1>9. SingleRow' /\ ClaimRows'
  BY <1>1 DEF IInv, SingleRow, ClaimRows
<1>10. StampInv'
  <2>1. \A c \in batch'[w] : c.ver < since[w] + Handover
    BY <1>1, <1>5, QueueAssumption DEF IInv, TypeOK, Within
  <2> QED
    BY <1>1, <1>4, <2>1 DEF IInv, StampInv
<1>11. StampOrder'
  <2>1. ASSUME NEW v \in Workers \ {w}, pc[v] = "send", NEW c \in batch'[w]
        PROVE  since[v] + Handover <= c.ver
    BY <1>5, <1>6, <2>1, QueueAssumption DEF LostLease, Section, IInv, TypeOK
  <2> QED
    BY <1>1, <1>4, <2>1 DEF IInv, StampOrder
<1>12. ClaimOutranks'
  <2>1. ASSUME NEW c \in batch'[w], c.job \notin overruled
        PROVE  queue[c.job].ver < c.ver /\ queue[c.job].ver # c.ver
    <3>1. PICK b \in batch[w] : b.job = c.job /\ c.ver > b.ver
      BY <1>5
    <3>2. queue[b.job].ver <= b.ver \/ queue[b.job].ver < now
      BY <1>1, <1>6, <2>1, <3>1 DEF IInv, ClaimOutranks
    <3> QED
      BY <1>5, <3>1, <3>2, BatchTypes DEF IInv
  <2> QED
    BY <1>1, <1>4, <2>1 DEF IInv, ClaimOutranks, LostLease
<1>13. OwnedInv'
  BY <1>1, <1>4 DEF IInv, OwnedInv, Landed
<1>14. LateInv'
  \* Nobody owns a job that a worker with the lease is about to claim.
  <2>1. \A c \in batch'[w] : \A u \in Workers \ {w} : \A d \in batch[u] :
          c.job = d.job /\ pc[u] \in Landed => c.job \in overruled
    BY <1>1, <1>5, <1>6 DEF IInv, LateInv
  <2> QED
    BY <1>1, <1>4, <2>1 DEF IInv, LateInv, Landed, LostLease
<1>15. ReleaseInv'
  <2>1. ASSUME NEW v \in Workers, NEW b \in batch[v], pc[v] = "release", b.job \notin overruled,
               NEW c \in batch'[w], c.job = b.job
        PROVE  queue[b.job].ver > b.ver
    BY <1>1, <1>5, <1>6, <2>1 DEF IInv, ReleaseInv
  <2> QED
    BY <1>1, <1>4, <2>1 DEF IInv, ReleaseInv, LostLease
<1> QED
  BY <1>3, <1>7, <1>8, <1>9, <1>10, <1>11, <1>12, <1>13, <1>14, <1>15 DEF IInv

-----------------------------------------------------------------------------
(* The steps that requeue or finish a job: one row, above the one it follows. *)

Transition(b, row) ==
  queue' = [queue EXCEPT ![b.job] = Appended(@, NextVersion(b.ver), row)]

\* A transition of an entry that is still current supersedes it.
LEMMA TransitionEffect ==
  ASSUME IInv, NEW b \in Entry, NEW row \in Row, row.status # "processing",
         Transition(b, row)
  PROVE  /\ queue' \in [Jobs -> JobState] /\ ClaimRows'
         /\ \A j \in Jobs : j # b.job => queue'[j] = queue[j]
         /\ \A j \in Jobs : queue[j].rows # {} => queue'[j].rows # {}
         /\ queue[b.job].ver = b.ver =>
              /\ queue'[b.job].ver > queue[b.job].ver
              /\ queue'[b.job].ver >= now
              /\ queue'[b.job].rows = {row}
<1>1. b.job \in Jobs /\ b.ver \in Nat /\ queue \in [Jobs -> JobState] /\ now \in Nat
  BY DEF IInv, TypeOK, Entry, JobState
<1>2. /\ NextVersion(b.ver) \in Nat /\ NextVersion(b.ver) >= now
      /\ NextVersion(b.ver) > b.ver
  BY <1>1, NextVersionAbove
<1>3. /\ Appended(queue[b.job], NextVersion(b.ver), row) \in JobState
      /\ queue[b.job].rows # {} => Appended(queue[b.job], NextVersion(b.ver), row).rows # {}
  BY <1>1, <1>2, AppendedState
<1>4. /\ queue' \in [Jobs -> JobState]
      /\ queue'[b.job] = Appended(queue[b.job], NextVersion(b.ver), row)
      /\ \A j \in Jobs : j # b.job => queue'[j] = queue[j]
  BY <1>1, <1>3 DEF Transition
<1>5. ASSUME NEW r \in queue'[b.job].rows, r.status = "processing"
      PROVE  r \in queue[b.job].rows /\ queue'[b.job].ver = queue[b.job].ver
  BY <1>1, <1>2, <1>4, <1>5 DEF Appended, JobState
<1>6. ClaimRows'
  BY <1>1, <1>4, <1>5 DEF IInv, ClaimRows
<1>7. ASSUME queue[b.job].ver = b.ver
      PROVE  queue'[b.job].ver = NextVersion(b.ver) /\ queue'[b.job].rows = {row}
  <2>1. queue[b.job] \in JobState /\ NextVersion(b.ver) > queue[b.job].ver
    BY <1>1, <1>2, <1>7
  <2> QED
    BY <1>2, <1>4, <2>1, AppendedState
<1> QED
  BY <1>1, <1>2, <1>3, <1>4, <1>6, <1>7

\* Claims of different workers are different rows.
LEMMA RowOwner ==
  ASSUME NEW v, NEW w, v # w, NEW s, NEW t
  PROVE  {ProcessingRow(v, s)} # {ProcessingRow(w, t)}
<1>1. ProcessingRow(v, s).by = v /\ ProcessingRow(w, t).by = w
  BY DEF ProcessingRow
<1>2. ProcessingRow(v, s) # ProcessingRow(w, t)
  BY <1>1
<1> QED
  BY <1>2, Zenon

\* A requeue inserts a pending row.
LEMMA PendingIsNoClaim ==
  ASSUME NEW retry \in Nat
  PROVE  PendingRow(retry) \in Row /\ PendingRow(retry).status # "processing"
  BY DEF PendingRow, Row, Statuses

\* A release that is not outdated supersedes the claim it gives back.
LEMMA ReleasedEffect ==
  ASSUME IInv, NEW w \in Workers, pc[w] = "release", NEW b \in batch[w], Released(b),
         now' = now, OthersGoOn(w), GivesUp(w), pc'[w] \notin Landed,
         pc'[w] \notin {"stamp", "send"}
  PROVE  /\ queue' \in [Jobs -> JobState] /\ ClaimRows'
         /\ overruled' \in SUBSET Jobs /\ overruled \subseteq overruled'
         /\ \A j \in Jobs : queue[j].rows # {} => queue'[j].rows # {}
         /\ \A j \in Jobs \ overruled' : queue'[j] = queue[j] \/ Superseded(j)
<1>1. b \in Entry /\ b.job \in Jobs /\ b.ver \in Nat /\ now \in Nat
  BY BatchTypes DEF IInv
<1>2. Transition(b, PendingRow(now))
  BY DEF Released, Deferred, Transition
<1>3. /\ queue' \in [Jobs -> JobState] /\ ClaimRows'
      /\ \A j \in Jobs : j # b.job => queue'[j] = queue[j]
      /\ \A j \in Jobs : queue[j].rows # {} => queue'[j].rows # {}
      /\ queue[b.job].ver = b.ver =>
           /\ queue'[b.job].ver > queue[b.job].ver
           /\ queue'[b.job].ver >= now
           /\ queue'[b.job].rows = {PendingRow(now)}
  BY <1>1, <1>2, PendingIsNoClaim, TransitionEffect
<1>4. overruled' \in SUBSET Jobs /\ overruled \subseteq overruled'
  BY <1>1 DEF Released, IInv, TypeOK
<1>5. ASSUME b.job \notin overruled' PROVE Superseded(b.job)
  <2>1. b.job \notin overruled /\ queue[b.job].ver = b.ver
    BY <1>4, <1>5 DEF Released
  <2>2. queue[b.job].rows = {ProcessingRow(w, b.ver)}
    BY <2>1 DEF IInv, ReleaseInv
  <2>3. ASSUME NEW v \in Workers, NEW c \in batch'[v], c.job = b.job
        PROVE  /\ pc'[v] \notin Landed
               /\ pc'[v] \in {"stamp", "send"} => LostLease(v)
    <3>1. CASE v = w
      BY <3>1
    <3>2. CASE v # w
      <4>1. pc'[v] = pc[v] /\ c \in batch[v]
        BY <3>2 DEF OthersGoOn
      <4>2. queue[b.job].rows # {ProcessingRow(v, c.ver)}
        BY <2>2, <3>2, RowOwner
      <4>3. pc[v] \notin Landed
        BY <2>1, <2>3, <4>1, <4>2 DEF IInv, OwnedInv
      <4>4. pc[v] \in {"stamp", "send"} => LostLease(v)
        BY <1>1, <2>1, <2>3, <4>1 DEF IInv, ReleaseInv
      <4> QED
        BY <4>1, <4>3, <4>4
    <3> QED
      BY <3>1, <3>2
  <2> QED
    BY <1>3, <2>1, <2>3 DEF Superseded
<1> QED
  BY <1>3, <1>4, <1>5

\* releaseOwnClaims requeues one leftover claim.
LEMMA ReleaseOwnPreserves ==
  ASSUME IInv, NEW w \in Workers, ReleaseOwn(w)
  PROVE  IInv'
<1>1. PICK b \in batch[w] :
        /\ Released(b)
        /\ batch' = [batch EXCEPT ![w] = @ \ {b}]
        /\ pc' = [pc EXCEPT ![w] = IF batch[w] = {b} THEN "select" ELSE "release"]
  BY DEF ReleaseOwn
<1>2. /\ pc[w] = "release"
      /\ UNCHANGED <<now, born, since, sweep, alive, lease>>
  BY DEF ReleaseOwn
<1>3. OthersGoOn(w) /\ GivesUp(w) /\ pc'[w] \in {"select", "release"}
  BY <1>1, <1>2 DEF OthersGoOn, GivesUp, IInv, TypeOK
<1>4. /\ queue' \in [Jobs -> JobState] /\ ClaimRows'
      /\ overruled' \in SUBSET Jobs /\ overruled \subseteq overruled'
      /\ \A j \in Jobs : queue[j].rows # {} => queue'[j].rows # {}
      /\ \A j \in Jobs \ overruled' : queue'[j] = queue[j] \/ Superseded(j)
  BY <1>1, <1>2, <1>3, ReleasedEffect DEF Landed
<1>5. TypeOK'
  BY <1>1, <1>2, <1>4 DEF IInv, TypeOK, JobState, Section
<1>6. LeaseInv'
  BY <1>1, <1>2 DEF IInv, TypeOK, LeaseInv, LostLease, Section
<1> QED
  BY <1>2, <1>3, <1>4, <1>5, <1>6, Preservation

\* The same requeue lands although its caller has given up.
LEMMA ReleaseOwnUnacknowledgedPreserves ==
  ASSUME IInv, NEW w \in Workers, ReleaseOwnUnacknowledged(w)
  PROVE  IInv'
<1>1. PICK b \in batch[w] : Released(b)
  BY DEF ReleaseOwnUnacknowledged
<1>2. pc[w] = "release" /\ Abandon(w) /\ UNCHANGED <<now, born, sweep, alive>>
  BY DEF ReleaseOwnUnacknowledged
<1>3. OthersGoOn(w) /\ GivesUp(w) /\ LeaseInv'
  BY <1>2, AbandonPreservesLease
<1>4. pc'[w] = "idle"
  BY <1>2 DEF Abandon, IInv, TypeOK
<1>5. /\ queue' \in [Jobs -> JobState] /\ ClaimRows'
      /\ overruled' \in SUBSET Jobs /\ overruled \subseteq overruled'
      /\ \A j \in Jobs : queue[j].rows # {} => queue'[j].rows # {}
      /\ \A j \in Jobs \ overruled' : queue'[j] = queue[j] \/ Superseded(j)
  BY <1>1, <1>2, <1>3, <1>4, ReleasedEffect DEF Landed
<1>6. TypeOK'
  BY <1>2, <1>5, AbandonTypes DEF IInv, TypeOK, JobState
<1> QED
  BY <1>2, <1>3, <1>5, <1>6, Preservation

\* RequeueStaleJobs requeues one claim, possibly overruling its owner.
LEMMA SweepRequeuePreserves ==
  ASSUME IInv, NEW w \in Workers, SweepRequeue(w)
  PROVE  IInv'
<1>1. PICK b \in sweep[w] :
        /\ Deferred(b, now)
        /\ sweep' = [sweep EXCEPT ![w] = @ \ {b}]
        /\ overruled' = IF Abandoned(b) THEN overruled ELSE overruled \cup {b.job}
  BY DEF SweepRequeue
<1>2. UNCHANGED <<now, born, pc, since, batch, alive, lease>>
  BY DEF SweepRequeue, loop
<1>3. b \in Entry /\ b.job \in Jobs /\ now \in Nat
  BY DEF IInv, TypeOK, Entry
<1>4. /\ queue' \in [Jobs -> JobState] /\ ClaimRows'
      /\ \A j \in Jobs : j # b.job => queue'[j] = queue[j]
      /\ \A j \in Jobs : queue[j].rows # {} => queue'[j].rows # {}
      /\ queue[b.job].ver = b.ver =>
           /\ queue'[b.job].ver > queue[b.job].ver
           /\ queue'[b.job].ver >= now
           /\ queue'[b.job].rows = {PendingRow(now)}
  BY <1>1, <1>3, PendingIsNoClaim, TransitionEffect DEF Deferred, Transition
<1>5. overruled' \in SUBSET Jobs /\ overruled \subseteq overruled'
  BY <1>1, <1>3 DEF IInv, TypeOK
<1>6. ASSUME b.job \notin overruled' PROVE Superseded(b.job)
  <2>1. queue[b.job].ver = b.ver /\ \A v \in Workers : ~Busy(v, b.job)
    BY <1>1, <1>6 DEF Abandoned
  <2>2. \A v \in Workers : \A c \in batch'[v] :
          c.job = b.job => pc'[v] \notin Landed \cup {"stamp", "send"}
    BY <1>2, <2>1 DEF Busy, JobsOf, Section, Landed
  <2> QED
    BY <1>4, <2>1, <2>2 DEF Superseded
<1>7. OthersGoOn(w) /\ GivesUp(w)
  BY <1>2 DEF OthersGoOn, GivesUp
<1>8. TypeOK'
  BY <1>1, <1>2, <1>4, <1>5 DEF IInv, TypeOK, JobState
<1>9. LeaseInv'
  BY <1>2 DEF IInv, LeaseInv, LostLease
<1> QED
  BY <1>2, <1>4, <1>5, <1>6, <1>7, <1>8, <1>9, Preservation

\* A job's worker ends its claim with the job's result or hands it back.
LEMMA EndOfClaimPreserves ==
  ASSUME IInv, NEW w \in Workers, Working(w), NEW b \in batch[w],
         NEW row \in Row, row.status # "processing", Transition(b, row), NextJob(w, b),
         UNCHANGED <<now, born, sweep, alive, lease, overruled>>
  PROVE  IInv'
<1>1. b \in Entry /\ b.job \in Jobs
  BY BatchTypes DEF IInv
<1>2. /\ queue' \in [Jobs -> JobState] /\ ClaimRows'
      /\ \A j \in Jobs : j # b.job => queue'[j] = queue[j]
      /\ \A j \in Jobs : queue[j].rows # {} => queue'[j].rows # {}
      /\ queue[b.job].ver = b.ver =>
           /\ queue'[b.job].ver > queue[b.job].ver
           /\ queue'[b.job].ver >= now
           /\ queue'[b.job].rows = {row}
  BY <1>1, TransitionEffect
<1>3. /\ OthersGoOn(w) /\ GivesUp(w) /\ pc'[w] \in {"idle", "work"}
      /\ batch'[w] = batch[w] \ {b}
  BY DEF NextJob, OthersGoOn, GivesUp, Landed, Working, IInv, TypeOK
<1>4. ASSUME b.job \notin overruled PROVE Superseded(b.job)
  <2>1. queue[b.job].ver = b.ver /\ queue[b.job].rows = {ProcessingRow(w, b.ver)}
    BY <1>4 DEF IInv, OwnedInv, Working, Landed
  <2>2. ASSUME NEW v \in Workers, NEW c \in batch'[v], c.job = b.job
        PROVE  /\ pc'[v] \notin Landed
               /\ pc'[v] \in {"stamp", "send"} => LostLease(v)
    <3>1. v # w
      BY <1>3, <2>2 DEF IInv, BatchInv
    <3>2. pc'[v] = pc[v] /\ c \in batch[v]
      BY <1>3, <3>1 DEF OthersGoOn
    <3>3. pc[v] \notin Landed
      <4>1. queue[b.job].rows # {ProcessingRow(v, c.ver)}
        BY <2>1, <3>1, RowOwner
      <4> QED
        BY <1>4, <2>2, <3>2, <4>1 DEF IInv, OwnedInv
    <3>4. pc[v] \in {"stamp", "send"} => LostLease(v)
      BY <1>4, <2>2, <3>1, <3>2 DEF IInv, LateInv, Working, Landed
    <3> QED
      BY <3>2, <3>3, <3>4
  <2> QED
    BY <1>2, <2>1, <2>2 DEF Superseded
<1>5. TypeOK'
  BY <1>2, NextJobTypes DEF IInv, TypeOK, JobState
<1>6. LeaseInv'
  BY <1>3 DEF OthersGoOn, IInv, LeaseInv, LostLease, Section
<1> QED
  BY <1>2, <1>3, <1>4, <1>5, <1>6, Preservation DEF IInv, TypeOK

\* CompleteJob and FailJob.
LEMMA FinishJobPreserves ==
  ASSUME IInv, NEW w \in Workers, FinishJob(w)
  PROVE  IInv'
<1>1. PICK b \in batch[w], status \in {"done", "failed"} :
        /\ Transition(b, FinalRow(status, w, b.ver))
        /\ NextJob(w, b)
  BY DEF FinishJob, Current, Transition
<1>2. b.ver \in Nat
  BY BatchTypes DEF IInv
<1>3. FinalRow(status, w, b.ver) \in Row /\ FinalRow(status, w, b.ver).status # "processing"
  BY <1>2 DEF FinalRow, Row, Statuses
<1>4. Working(w) /\ UNCHANGED <<now, born, sweep, alive, lease, overruled>>
  BY DEF FinishJob
<1> QED
  BY <1>1, <1>3, <1>4, EndOfClaimPreserves

\* DeferJob on a rate limit or on shutdown.
LEMMA DeferHeldJobPreserves ==
  ASSUME IInv, NEW w \in Workers, DeferHeldJob(w)
  PROVE  IInv'
<1>1. PICK b \in batch[w], retry \in {now, now + Backoff} :
        Transition(b, PendingRow(retry)) /\ NextJob(w, b)
  BY DEF DeferHeldJob, Current, Deferred, Transition
<1>2. retry \in Nat
  BY QueueAssumption DEF IInv, TypeOK
<1>3. Working(w) /\ UNCHANGED <<now, born, sweep, alive, lease, overruled>>
  BY DEF DeferHeldJob
<1> QED
  BY <1>1, <1>2, <1>3, PendingIsNoClaim, EndOfClaimPreserves

\* Nobody can have read a job before it is enqueued.
LEMMA EnqueuePreserves ==
  ASSUME IInv, NEW i \in Jobs, Enqueue(i)
  PROVE  IInv'
<1>0. PICK t \in (now - Skew)..(now + Skew) :
        /\ t >= 0
        /\ queue' = [queue EXCEPT ![i] = [ver |-> t, rows |-> {PendingRow(0)}]]
        /\ born' = [born EXCEPT ![i] = t]
  BY DEF Enqueue
<1>1. t \in Nat
  BY <1>0, QueueAssumption DEF IInv, TypeOK
<1>2. /\ queue[i].rows = {}
      /\ UNCHANGED <<now, pc, since, batch, sweep, alive, lease, overruled>>
  BY DEF Enqueue, loop
<1>3. /\ PendingRow(0) \in Row /\ PendingRow(0).status # "processing"
  BY PendingIsNoClaim
<1>4. /\ queue' \in [Jobs -> JobState]
      /\ queue'[i] = [ver |-> t, rows |-> {PendingRow(0)}]
      /\ \A j \in Jobs : j # i => queue'[j] = queue[j]
  BY <1>0, <1>1, <1>3 DEF IInv, TypeOK, JobState
<1>5. \A v \in Workers : \A b \in batch[v] : b.job \in Jobs /\ queue'[b.job] = queue[b.job]
  BY <1>2, <1>4, BatchTypes DEF IInv, BatchInv
<1>6. TypeOK'
  BY <1>0, <1>1, <1>2, <1>4 DEF IInv, TypeOK, JobState
<1>7. LeaseInv'
  BY <1>2 DEF IInv, LeaseInv, LostLease
<1>8. BatchInv'
  BY <1>2, <1>5 DEF IInv, BatchInv
<1>9. SingleRow'
  BY <1>2, <1>4 DEF IInv, SingleRow
<1>10. ClaimRows'
  BY <1>3, <1>4 DEF IInv, ClaimRows
<1>11. StampInv' /\ StampOrder'
  BY <1>2 DEF IInv, StampInv, StampOrder
<1>12. ClaimOutranks'
  BY <1>2, <1>5 DEF IInv, ClaimOutranks, LostLease
<1>13. OwnedInv'
  BY <1>2, <1>5 DEF IInv, OwnedInv
<1>14. LateInv'
  BY <1>2 DEF IInv, LateInv, LostLease
<1>15. ReleaseInv'
  BY <1>2, <1>5 DEF IInv, ReleaseInv, LostLease
<1> QED
  BY <1>6, <1>7, <1>8, <1>9, <1>10, <1>11, <1>12, <1>13, <1>14, <1>15 DEF IInv

-----------------------------------------------------------------------------
(* The claim insert.                                                       *)

\* Two workers in their claim sections: one of them has lost the lease.
LEMMA OneLease ==
  ASSUME IInv, NEW v \in Workers, NEW w \in Workers, v # w,
         pc[v] \in Section, pc[w] \in Section, ~LostLease(v)
  PROVE  LostLease(w)
<1>1. lease.holder = v
  BY DEF IInv, LeaseInv
<1> QED
  BY <1>1 DEF IInv, LeaseInv

\* A claim of a job that was not overruled outranks its state or is ignored.
LEMMA ClaimLands ==
  ASSUME IInv, NEW w \in Workers, pc[w] = "send", Claimed(w), NEW b \in batch[w],
         b.job \notin overruled
  PROVE  \/ b.ver < queue[b.job].ver /\ queue'[b.job] = queue[b.job]
         \/ /\ b.ver > queue[b.job].ver
            /\ queue'[b.job].ver = b.ver
            /\ queue'[b.job].rows = {ProcessingRow(w, b.ver)}
<1>1. queue'[b.job] = Appended(queue[b.job], b.ver, ProcessingRow(w, b.ver))
  BY ClaimedState DEF IInv, BatchInv
<1>2. b.ver \in Nat /\ queue[b.job] \in JobState /\ queue[b.job].ver \in Nat
  BY BatchTypes DEF IInv
<1>3. queue[b.job].ver # b.ver
  BY DEF IInv, ClaimOutranks
<1>4. b.ver < queue[b.job].ver \/ b.ver > queue[b.job].ver
  BY <1>2, <1>3
<1>5. ProcessingRow(w, b.ver) \in Row
  BY <1>2, RowTypes
<1> QED
  BY <1>1, <1>2, <1>4, <1>5, AppendedState

\* The claims land, and their worker knows in time (Verify is next) or has
\* given the section up.
LEMMA ClaimPreserves ==
  ASSUME IInv, TypeOK', LeaseInv', NEW w \in Workers, pc[w] = "send", Claimed(w),
         UNCHANGED <<now, since, overruled>>, OthersGoOn(w),
         \/ Within(w) /\ pc'[w] = "verify" /\ batch'[w] = batch[w]
         \/ pc'[w] = "idle" /\ batch'[w] = {}
  PROVE  IInv'
<1>1. \A v \in Workers :
        /\ batch'[v] \subseteq batch[v]
        /\ v # w => pc'[v] = pc[v]
        /\ pc'[v] \in {"idle", "wait", "own", "select"} =>
             batch'[v] = {} \/ pc'[v] = pc[v]
  BY DEF OthersGoOn
<1>2. pc'[w] \notin {"release", "stamp", "send"}
  OBVIOUS
<1>3. \A v \in Workers : \A c \in batch[v] :
        /\ c.job \in Jobs /\ c.ver \in Nat /\ queue[c.job] \in JobState
        /\ queue[c.job].ver \in Nat /\ since[v] \in Nat /\ now \in Nat
  BY BatchTypes DEF IInv
<1>4. /\ \A j \in Jobs \ JobsOf(batch[w]) : queue'[j] = queue[j]
      /\ \A b \in batch[w] :
           queue'[b.job] = Appended(queue[b.job], b.ver, ProcessingRow(w, b.ver))
  BY ClaimedState DEF IInv, BatchInv
\* Each job's state stays or becomes a claim of w.
<1>5. ASSUME NEW j \in Jobs \ overruled, queue'[j] # queue[j]
      PROVE  \E b \in batch[w] :
               /\ b.job = j /\ b.ver > queue[j].ver
               /\ queue'[j].ver = b.ver /\ queue'[j].rows = {ProcessingRow(w, b.ver)}
  <2>1. PICK b \in batch[w] : b.job = j
    BY <1>4, <1>5 DEF JobsOf
  <2> QED
    BY <1>5, <2>1, ClaimLands
<1>6. ASSUME NEW j \in Jobs PROVE queue[j].rows # {} => queue'[j].rows # {}
  <2>1. CASE j \in JobsOf(batch[w])
    <3>1. PICK b \in batch[w] : b.job = j
      BY <2>1 DEF JobsOf
    <3>2. ProcessingRow(w, b.ver) \in Row
      BY <1>3, RowTypes
    <3> QED
      BY <1>3, <1>4, <3>1, <3>2, AppendedState
  <2>2. CASE j \notin JobsOf(batch[w])
    BY <1>4, <2>2
  <2> QED
    BY <2>1, <2>2
<1>7. BatchInv'
  BY <1>1, <1>3, <1>6 DEF IInv, BatchInv
<1>8. SingleRow'
  BY <1>5 DEF IInv, SingleRow
<1>9. ClaimRows'
  <2> SUFFICES ASSUME NEW j \in Jobs, NEW r \in queue'[j].rows, r.status = "processing"
               PROVE  r = ProcessingRow(r.by, queue'[j].ver)
    BY DEF ClaimRows
  <2>1. CASE j \in JobsOf(batch[w])
    <3>1. PICK b \in batch[w] : b.job = j
      BY <2>1 DEF JobsOf
    <3>2. \/ r \in queue[j].rows /\ queue'[j].ver = queue[j].ver
          \/ r = ProcessingRow(w, b.ver) /\ queue'[j].ver = b.ver
      <4>1. /\ queue'[j] = Appended(queue[j], b.ver, ProcessingRow(w, b.ver))
            /\ queue[j] \in JobState /\ b.ver \in Nat
        BY <1>3, <1>4, <3>1
      <4> QED
        BY <4>1 DEF Appended, JobState
    <3>3. ProcessingRow(w, b.ver).by = w
      BY DEF ProcessingRow
    <3> QED
      BY <3>2, <3>3 DEF IInv, ClaimRows
  <2>2. CASE j \notin JobsOf(batch[w])
    BY <1>4, <2>2 DEF IInv, ClaimRows
  <2> QED
    BY <2>1, <2>2
<1>10. StampInv' /\ StampOrder'
  BY <1>1, <1>2 DEF IInv, StampInv, StampOrder
<1>11. ClaimOutranks'
  <2> SUFFICES ASSUME NEW v \in Workers, NEW c \in batch'[v], c.job \notin overruled,
                      pc'[v] \in {"stamp", "send"}
               PROVE  /\ pc'[v] = "stamp" /\ ~LostLease(v) =>
                           queue'[c.job].ver <= c.ver \/ queue'[c.job].ver < now
                      /\ pc'[v] = "send" => queue'[c.job].ver # c.ver
                      /\ pc'[v] = "send" /\ ~LostLease(v) => queue'[c.job].ver < c.ver
    BY DEF ClaimOutranks, LostLease
  <2>1. v # w /\ pc'[v] = pc[v] /\ c \in batch[v] /\ c.job \in Jobs \ overruled
    BY <1>1, <1>2, <1>3
  <2>2. CASE queue'[c.job] = queue[c.job]
    BY <2>1, <2>2 DEF IInv, ClaimOutranks
  <2>3. CASE queue'[c.job] # queue[c.job]
    <3>1. PICK b \in batch[w] : b.job = c.job /\ queue'[c.job].ver = b.ver
      BY <1>5, <2>1, <2>3
    <3>2. b.ver < since[w] + Handover /\ (pc[v] = "send" => c.ver < since[v] + Handover)
      BY <2>1 DEF IInv, StampInv
    <3>3. ~LostLease(v) => now >= since[w] + Handover
      BY <2>1, OneLease DEF Section, LostLease
    <3>4. pc[v] = "send" => since[v] + Handover <= b.ver \/ since[w] + Handover <= c.ver
      BY <2>1, <3>1 DEF IInv, StampOrder
    <3>5. /\ b.ver \in Nat /\ c.ver \in Nat /\ now \in Nat /\ since[v] \in Nat
          /\ since[w] \in Nat /\ Handover \in Nat
      BY <1>3, <2>1, QueueAssumption
    <3> QED
      BY <2>1, <3>1, <3>2, <3>3, <3>4, <3>5 DEF LostLease
  <2> QED
    BY <2>2, <2>3
<1>12. Within(w) => ~LostLease(w)
  BY WithinHasLease DEF Section
<1>13. OwnedInv'
  <2> SUFFICES ASSUME NEW v \in Workers, NEW c \in batch'[v], c.job \notin overruled,
                      pc'[v] \in Landed
               PROVE  /\ queue'[c.job].ver = c.ver
                      /\ queue'[c.job].rows = {ProcessingRow(v, c.ver)}
    BY DEF OwnedInv
  <2>1. CASE v = w
    <3>1. c \in batch[w] /\ ~LostLease(w)
      BY <1>1, <1>12, <2>1 DEF Landed
    <3>2. queue[c.job].ver < c.ver
      BY <3>1 DEF IInv, ClaimOutranks
    <3> QED
      BY <1>3, <2>1, <3>1, <3>2, ClaimLands
  <2>2. CASE v # w
    <3>1. pc[v] \in Landed /\ c \in batch[v] /\ c.job \in Jobs \ overruled
      BY <1>1, <1>3, <2>2
    <3>2. /\ queue[c.job].ver = c.ver
          /\ queue[c.job].rows = {ProcessingRow(v, c.ver)}
      BY <3>1 DEF IInv, OwnedInv
    <3>3. \A b \in batch[w] : b.job = c.job => b.ver < c.ver
      BY <2>2, <3>1 DEF IInv, LateInv
    <3>4. queue'[c.job] = queue[c.job]
      BY <1>3, <1>5, <3>1, <3>2, <3>3
    <3> QED
      BY <3>2, <3>4
  <2> QED
    BY <2>1, <2>2
<1>14. LateInv'
  <2> SUFFICES ASSUME NEW v \in Workers, NEW u \in Workers,
                      NEW b \in batch'[v], NEW c \in batch'[u],
                      v # u, b.job = c.job, b.job \notin overruled,
                      pc'[v] \in {"stamp", "send"}, pc'[u] \in Landed
               PROVE  LostLease(v) /\ (pc'[v] = "send" => b.ver < c.ver)
    BY DEF LateInv, LostLease
  <2>1. v # w /\ pc'[v] = pc[v] /\ b \in batch[v] /\ c \in batch[u]
    BY <1>1, <1>2
  <2>2. CASE u # w
    BY <1>1, <2>1, <2>2 DEF IInv, LateInv
  <2>3. CASE u = w
    <3>1. ~LostLease(w)
      BY <1>12, <2>3 DEF Landed
    <3>2. LostLease(v)
      BY <2>1, <3>1, OneLease DEF Section
    <3>3. pc[v] = "send" => /\ b.ver < since[v] + Handover
                            /\ \/ since[v] + Handover <= c.ver
                               \/ since[w] + Handover <= b.ver
      BY <2>1, <2>3 DEF IInv, StampInv, StampOrder
    <3>4. /\ b.ver \in Nat /\ c.ver \in Nat /\ now \in Nat /\ since[v] \in Nat
          /\ since[w] \in Nat /\ Handover \in Nat
      BY <1>3, <2>1, <2>3, QueueAssumption
    <3> QED
      BY <2>1, <3>1, <3>2, <3>3, <3>4 DEF LostLease
  <2> QED
    BY <2>2, <2>3
<1>15. ReleaseInv'
  <2> SUFFICES ASSUME NEW v \in Workers, NEW b \in batch'[v], pc'[v] = "release",
                      b.job \notin overruled
               PROVE  /\ queue'[b.job].ver >= b.ver
                      /\ queue'[b.job].ver = b.ver =>
                           queue'[b.job].rows = {ProcessingRow(v, b.ver)}
                      /\ \A u \in Workers : \A c \in batch'[u] :
                           pc'[u] \in {"stamp", "send"} /\ ~LostLease(u) /\ c.job = b.job =>
                             queue'[b.job].ver > b.ver
    BY DEF ReleaseInv, LostLease
  <2>1. v # w /\ pc[v] = "release" /\ b \in batch[v] /\ b.job \in Jobs \ overruled
    BY <1>1, <1>2, <1>3
  <2>2. /\ queue[b.job].ver >= b.ver
        /\ queue[b.job].ver = b.ver => queue[b.job].rows = {ProcessingRow(v, b.ver)}
        /\ \A u \in Workers : \A c \in batch'[u] :
             pc'[u] \in {"stamp", "send"} /\ ~LostLease(u) /\ c.job = b.job =>
               queue[b.job].ver > b.ver
    BY <1>1, <1>2, <2>1 DEF IInv, ReleaseInv
  <2>3. \/ queue'[b.job] = queue[b.job]
        \/ \E c \in batch[w] : c.ver > queue[b.job].ver /\ queue'[b.job].ver = c.ver
    BY <1>5, <2>1
  <2>4. CASE queue'[b.job] = queue[b.job]
    BY <2>2, <2>4
  <2>5. CASE \E c \in batch[w] : c.ver > queue[b.job].ver /\ queue'[b.job].ver = c.ver
    <3>1. queue'[b.job].ver > b.ver /\ queue'[b.job].ver \in Nat /\ b.ver \in Nat
      BY <1>3, <2>1, <2>2, <2>5
    <3> QED
      BY <3>1
  <2> QED
    BY <2>3, <2>4, <2>5
<1> QED
  BY <1>7, <1>8, <1>9, <1>10, <1>11, <1>13, <1>14, <1>15 DEF IInv

\* The claim insert is acknowledged in time.
LEMMA SendClaimPreserves ==
  ASSUME IInv, NEW w \in Workers, SendClaim(w)
  PROVE  IInv'
<1>1. /\ pc[w] = "send" /\ Within(w) /\ Claimed(w)
      /\ pc' = [pc EXCEPT ![w] = "verify"]
      /\ UNCHANGED <<now, born, since, batch, sweep, alive, lease, overruled>>
  BY DEF SendClaim
<1>2. queue' \in [Jobs -> JobState]
  BY <1>1, ClaimedState DEF IInv, BatchInv
<1>3. pc'[w] = "verify" /\ OthersGoOn(w)
  BY <1>1 DEF OthersGoOn, IInv, TypeOK
<1>4. TypeOK'
  BY <1>1, <1>2 DEF IInv, TypeOK, JobState, Section
<1>5. LeaseInv'
  BY <1>1 DEF IInv, TypeOK, LeaseInv, LostLease, Section
<1> QED
  BY <1>1, <1>3, <1>4, <1>5, ClaimPreserves

\* The claim insert lands although its worker has given up.
LEMMA SendClaimUnacknowledgedPreserves ==
  ASSUME IInv, NEW w \in Workers, SendClaimUnacknowledged(w)
  PROVE  IInv'
<1>1. /\ pc[w] = "send" /\ Claimed(w) /\ Abandon(w)
      /\ UNCHANGED <<now, born, sweep, alive, overruled>>
  BY DEF SendClaimUnacknowledged
<1>2. queue' \in [Jobs -> JobState]
  BY <1>1, ClaimedState DEF IInv, BatchInv
<1>3. pc'[w] = "idle" /\ batch'[w] = {} /\ since' = since
  BY <1>1 DEF Abandon, IInv, TypeOK
<1>4. OthersGoOn(w) /\ LeaseInv'
  BY <1>1, AbandonPreservesLease
<1>5. TypeOK'
  BY <1>1, <1>2, AbandonTypes DEF IInv, TypeOK, JobState
<1> QED
  BY <1>1, <1>3, <1>4, <1>5, ClaimPreserves

-----------------------------------------------------------------------------
(* The theorems.                                                           *)

\* Nothing has been enqueued or claimed initially.
LEMMA InitIInv ==
  Init => IInv
<1> SUFFICES ASSUME Init PROVE IInv
  OBVIOUS
<1>1. TypeOK
  BY DEF Init, TypeOK
<1>2. LeaseInv /\ BatchInv /\ SingleRow /\ ClaimRows
  BY DEF Init, LeaseInv, BatchInv, SingleRow, ClaimRows, Section
<1>3. StampInv /\ StampOrder /\ ClaimOutranks /\ OwnedInv /\ LateInv /\ ReleaseInv
  BY DEF Init, StampInv, StampOrder, ClaimOutranks, OwnedInv, LateInv, ReleaseInv, Landed
<1> QED
  BY <1>1, <1>2, <1>3 DEF IInv

\* Every step of the queue, the loops, the sweeps and the faults preserves the
\* invariant.
LEMMA NextIInv ==
  IInv /\ [Next]_vars => IInv'
<1> SUFFICES ASSUME IInv, [Next]_vars PROVE IInv'
  OBVIOUS
<1>1. CASE Tick
  BY <1>1, TickPreserves
<1>2. CASE Expire
  <2>1. lease.holder \in Workers
    BY <1>2 DEF Expire, IInv, TypeOK
  <2> QED
    BY <1>2, <2>1, ExpirePreserves
<1>3. ASSUME NEW j \in Jobs, Enqueue(j) PROVE IInv'
  BY <1>3, EnqueuePreserves
<1>4. ASSUME NEW w \in Workers,
             \/ Begin(w) \/ Acquire(w) \/ StatementFails(w) \/ SweepSelect(w) \/ Restart(w)
      PROVE  IInv'
  BY <1>4, QuietStepsPreserve
<1>5. ASSUME NEW w \in Workers, ClaimStep(w) PROVE IInv'
  BY <1>5, SelectOwnPreserves, ReleaseOwnPreserves, SelectPendingPreserves,
     StampPreserves, SendClaimPreserves, QuietStepsPreserve DEF ClaimStep
<1>6. ASSUME NEW w \in Workers, FinishJob(w) \/ DeferHeldJob(w) \/ SweepRequeue(w)
      PROVE  IInv'
  BY <1>6, FinishJobPreserves, DeferHeldJobPreserves, SweepRequeuePreserves
<1>7. ASSUME NEW w \in Workers, Fault(w) PROVE IInv'
  BY <1>7, ReleaseOwnUnacknowledgedPreserves, SendClaimUnacknowledgedPreserves,
     QuietStepsPreserve DEF Fault
<1>8. CASE UNCHANGED vars
  BY <1>8 DEF vars, loop, IInv, TypeOK, LeaseInv, BatchInv, SingleRow, ClaimRows, StampInv,
     StampOrder, ClaimOutranks, OwnedInv, LateInv, ReleaseInv, LostLease
<1> QED
  BY <1>1, <1>2, <1>3, <1>4, <1>5, <1>6, <1>7, <1>8 DEF Next

\* The claim protocol's inductive invariant.
THEOREM Invariance ==
  Spec => []IInv
<1> QED
  BY InitIInv, NextIInv, PTL DEF Spec

\* Every reachable state of the queue, the workers' loops and the claim lock
\* has its type; in particular created_at never runs below zero.
THEOREM TypeCorrect ==
  Spec => []TypeOK
<1>1. IInv => TypeOK
  BY DEF IInv
<1> QED
  BY <1>1, Invariance, PTL

\* While a worker processes a job that no requeue on outdated news has touched,
\* that worker's claim is the one row argMax can report: ClaimJobs' verification
\* by the latest row is sound, with any number of workers and jobs, and whatever
\* is lost, late or dead.
THEOREM ClaimsAreOwned ==
  Spec => []HeldIsOwned
<1>1. IInv => HeldIsOwned
  BY DEF IInv, OwnedInv, HeldIsOwned, Working, Landed
<1> QED
  BY <1>1, Invariance, PTL

\* ClaimJobs gives a job to one worker at a time, up to a requeue on outdated
\* news.
THEOREM ClaimsAreExclusive ==
  Spec => []ExclusiveUnlessOverruled
<1>1. ASSUME IInv, NEW v \in Workers, NEW w \in Workers, NEW j \in Jobs,
             Holds(v, j), Holds(w, j), v # w
      PROVE  j \in overruled
  <2>1. SUFFICES ASSUME j \notin overruled PROVE FALSE
    OBVIOUS
  <2>2. PICK b \in batch[v], c \in batch[w] : b.job = j /\ c.job = j
    BY <1>1 DEF Holds, JobsOf
  <2>3. /\ queue[j].rows = {ProcessingRow(v, b.ver)}
        /\ queue[j].rows = {ProcessingRow(w, c.ver)}
    BY <1>1, <2>1, <2>2 DEF IInv, OwnedInv, Landed, Holds, Working
  <2> QED
    BY <1>1, <2>3, RowOwner
<1>2. IInv => ExclusiveUnlessOverruled
  BY <1>1 DEF ExclusiveUnlessOverruled
<1> QED
  BY <1>2, Invariance, PTL

-----------------------------------------------------------------------------
(* FinalUnlessOverruled: no claim, release or deferral that lands late     *)
(* reopens a finished job.                                                 *)

\* Who is about to claim a job that has been finished meanwhile has lost the
\* lease, and its claim is outranked.
FinishedInv ==
  \A w \in Workers : \A b \in batch[w] :
    b.job \notin overruled /\ Finished(b.job) =>
      /\ pc[w] = "stamp" => LostLease(w)
      /\ pc[w] = "send" => b.ver < queue[b.job].ver

\* A claim a sweep has read is the job's state still, or outranked.
SweepInv ==
  \A w \in Workers : \A b \in sweep[w] :
    /\ queue[b.job].rows # {}
    /\ b.job \notin overruled =>
         /\ queue[b.job].ver >= b.ver
         /\ queue[b.job].ver = b.ver => \A r \in queue[b.job].rows : r.status = "processing"

FInv == IInv /\ FinishedInv /\ SweepInv

\* What a step does to the rows of job j: nothing, or it outranks them.
Goes(j) ==
  \/ queue'[j] = queue[j]
  \/ queue'[j].ver > queue[j].ver /\ queue'[j].rows # {}

\* The sweeps go on or end.
SweepsEnd == \A v \in Workers : sweep'[v] \subseteq sweep[v]

\* Nobody comes to be about to claim a job.
NoNewClaims ==
  \A v \in Workers : pc'[v] \in {"stamp", "send"} =>
    pc'[v] = pc[v] /\ since'[v] = since[v] /\ batch'[v] = batch[v]

\* What a sweep has read stays outranked.
LEMMA SweepKept ==
  ASSUME FInv, SweepsEnd, overruled \subseteq overruled',
         \A j \in Jobs : queue[j].rows # {} => queue'[j].rows # {},
         queue' \in [Jobs -> JobState],
         \A j \in Jobs \ overruled' : queue[j].rows # {} => Goes(j)
  PROVE  SweepInv'
<1> SUFFICES ASSUME NEW w \in Workers, NEW b \in sweep'[w]
             PROVE  /\ queue'[b.job].rows # {}
                    /\ b.job \notin overruled' =>
                         /\ queue'[b.job].ver >= b.ver
                         /\ queue'[b.job].ver = b.ver =>
                              \A r \in queue'[b.job].rows : r.status = "processing"
  BY DEF SweepInv
<1>1. b \in sweep[w]
  BY DEF SweepsEnd
<1>2. /\ b.job \in Jobs /\ b.ver \in Nat
      /\ queue[b.job].ver \in Nat /\ queue'[b.job].ver \in Nat
  BY <1>1 DEF FInv, IInv, TypeOK, Entry, JobState
<1>3. queue[b.job].rows # {}
  BY <1>1 DEF FInv, SweepInv
<1>4. ASSUME b.job \notin overruled'
      PROVE  /\ queue'[b.job].ver >= b.ver
             /\ queue'[b.job].ver = b.ver =>
                  \A r \in queue'[b.job].rows : r.status = "processing"
  <2>1. /\ b.job \notin overruled /\ queue[b.job].ver >= b.ver
        /\ queue[b.job].ver = b.ver => \A r \in queue[b.job].rows : r.status = "processing"
    BY <1>1, <1>4 DEF FInv, SweepInv
  <2>2. Goes(b.job)
    BY <1>2, <1>3, <1>4
  <2> QED
    BY <1>2, <2>1, <2>2 DEF Goes
<1> QED
  BY <1>2, <1>3, <1>4

\* A step that finishes no job and with which nobody comes to be about to claim
\* one keeps what is known of the finished jobs.
LEMMA FinishedKept ==
  ASSUME FInv, TypeOK', NoNewClaims, overruled \subseteq overruled', now' >= now,
         \A j \in Jobs \ overruled' :
           queue[j].rows # {} => Goes(j) /\ (Finished(j)' => Finished(j))
  PROVE  FinishedInv'
<1> SUFFICES ASSUME NEW w \in Workers, NEW b \in batch'[w],
                    b.job \notin overruled', Finished(b.job)'
             PROVE  /\ pc'[w] = "stamp" => LostLease(w)'
                    /\ pc'[w] = "send" => b.ver < queue'[b.job].ver
  BY DEF FinishedInv
<1>1. SUFFICES ASSUME pc'[w] \in {"stamp", "send"} 
               PROVE  /\ pc'[w] = "stamp" => LostLease(w)'
                      /\ pc'[w] = "send" => b.ver < queue'[b.job].ver
  OBVIOUS
<1>2. pc'[w] = pc[w] /\ since'[w] = since[w] /\ b \in batch[w]
  BY <1>1 DEF NoNewClaims
<1>3. /\ b.job \in Jobs /\ b.ver \in Nat /\ queue[b.job].ver \in Nat /\ since[w] \in Nat
      /\ now \in Nat /\ now' \in Nat /\ queue'[b.job].ver \in Nat
  BY <1>2, BatchTypes DEF FInv, IInv, TypeOK
<1>4. queue[b.job].rows # {}
  BY <1>2 DEF FInv, IInv, BatchInv
<1>5. Goes(b.job) /\ Finished(b.job)
  BY <1>3, <1>4
<1>6. /\ pc[w] = "stamp" => LostLease(w)
      /\ pc[w] = "send" => b.ver < queue[b.job].ver
  BY <1>2, <1>5 DEF FInv, FinishedInv
<1>7. LostLease(w) => LostLease(w)'
  BY <1>2, <1>3, QueueAssumption DEF LostLease
<1> QED
  BY <1>2, <1>3, <1>5, <1>6, <1>7 DEF Goes

\* A transition that is not outdated, of a job that is not finished.
LEMMA OneTransition ==
  ASSUME FInv, NEW b \in Entry, NEW row \in Row, row.status # "processing", Transition(b, row),
         b.job \notin overruled' => queue[b.job].ver = b.ver /\ ~Finished(b.job)
  PROVE  /\ queue' \in [Jobs -> JobState]
         /\ \A j \in Jobs : queue[j].rows # {} => queue'[j].rows # {}
         /\ \A j \in Jobs \ overruled' :
              \/ queue'[j] = queue[j]
              \/ j = b.job /\ queue'[j].ver > queue[j].ver /\ queue'[j].rows = {row} /\ ~Finished(j)
BY TransitionEffect DEF FInv

\* A transition that hands a job back finishes nothing and reopens nothing.
LEMMA HandedBack ==
  ASSUME FInv, TypeOK', NEW b \in Entry, NEW retry \in Nat, Deferred(b, retry),
         b.job \notin overruled' => queue[b.job].ver = b.ver /\ ~Finished(b.job),
         overruled \subseteq overruled', now' = now, NoNewClaims, SweepsEnd
  PROVE  /\ FinishedInv' /\ SweepInv'
         /\ \A j \in Jobs : Finished(j) => Finished(j)' \/ j \in overruled'
<1>1. PendingRow(retry) \in Row /\ PendingRow(retry).status = "pending"
  BY PendingIsNoClaim DEF PendingRow
<1>2. /\ queue' \in [Jobs -> JobState]
      /\ \A j \in Jobs : queue[j].rows # {} => queue'[j].rows # {}
      /\ \A j \in Jobs \ overruled' :
           \/ queue'[j] = queue[j]
           \/ /\ j = b.job /\ queue'[j].ver > queue[j].ver
              /\ queue'[j].rows = {PendingRow(retry)} /\ ~Finished(j)
  BY <1>1, OneTransition DEF Deferred, Transition
<1>3. \A j \in Jobs \ overruled' :
        /\ Goes(j)
        /\ Finished(j)' <=> Finished(j)
  BY <1>1, <1>2 DEF Goes, Finished
<1>4. now' >= now
  BY DEF FInv, IInv, TypeOK
<1> QED
  BY <1>2, <1>3, <1>4, SweepKept, FinishedKept

\* A step that writes no row and with which nobody comes to be about to claim a job.
LEMMA NothingWritten ==
  ASSUME FInv, TypeOK', queue' = queue, overruled' = overruled, now' >= now, NoNewClaims
  PROVE  FinishedInv'
<1>1. \A j \in Jobs : Goes(j) /\ (Finished(j)' => Finished(j))
  BY DEF Goes, Finished
<1> QED
  BY <1>1, FinishedKept

\* A step that writes no row and starts no sweep.
LEMMA NothingSwept ==
  ASSUME FInv, UNCHANGED <<queue, overruled>>, SweepsEnd
  PROVE  SweepInv'
BY DEF FInv, SweepInv, SweepsEnd

-----------------------------------------------------------------------------
\* What has to be shown of a step.
Stays ==
  /\ FinishedInv' /\ SweepInv'
  /\ \A j \in Jobs : Finished(j) => Finished(j)' \/ j \in overruled'

\* A step that neither writes a row nor reads one to act upon.
LEMMA QuietStays ==
  ASSUME FInv, TypeOK', UNCHANGED <<queue, overruled>>, now' >= now, NoNewClaims, SweepsEnd
  PROVE  Stays
<1>1. \A j \in Jobs : Finished(j) => Finished(j)'
  BY DEF Finished
<1> QED
  BY <1>1, NothingWritten, NothingSwept DEF Stays

\* The clock, the lock, the loop and the faults.
LEMMA QuietStepsStay ==
  ASSUME FInv, TypeOK', NEW w \in Workers,
         \/ Tick \/ Expire \/ Begin(w) \/ Acquire(w) \/ StatementFails(w) \/ SelectOwn(w)
         \/ Verify(w) \/ Return(w) \/ StatusLost(w) \/ SweepFails(w) \/ Crash(w) \/ Restart(w)
  PROVE  Stays
<1>1. now \in Nat /\ pc \in [Workers -> Section \cup {"idle", "wait", "work"}]
      /\ sweep \in [Workers -> SUBSET Entry] /\ batch \in [Workers -> SUBSET Entry]
      /\ since \in [Workers -> Nat]
  BY DEF FInv, IInv, TypeOK
<1> USE <1>1 DEF loop, NoNewClaims, SweepsEnd
<1>2. CASE Tick
  BY <1>2, QuietStays DEF Tick
<1>3. CASE Expire
  BY <1>3, QuietStays DEF Expire
<1>4. CASE Begin(w)
  BY <1>4, QuietStays DEF Begin
<1>5. CASE Acquire(w)
  BY <1>5, QuietStays DEF Acquire
<1>6. CASE StatementFails(w)
  BY <1>6, QuietStays DEF StatementFails, Abandon
<1>7. CASE SelectOwn(w)
  <2>1. NoNewClaims
    BY <1>7 DEF SelectOwn
  <2> QED
    BY <1>7, <2>1, QuietStays DEF SelectOwn
<1>8. CASE Verify(w)
  <2>1. NoNewClaims
    BY <1>8 DEF Verify
  <2> QED
    BY <1>8, <2>1, QuietStays DEF Verify
<1>9. CASE Return(w)
  BY <1>9, QuietStays DEF Return
<1>10. CASE StatusLost(w)
  <2>1. NoNewClaims
    BY <1>10 DEF StatusLost, NextJob
  <2> QED
    BY <1>10, <2>1, QuietStays DEF StatusLost
<1>11. CASE SweepFails(w)
  BY <1>11, QuietStays DEF SweepFails
<1>12. CASE Crash(w)
  BY <1>12, QuietStays DEF Crash
<1>13. CASE Restart(w)
  BY <1>13, QuietStays DEF Restart
<1> QED
  BY <1>2, <1>3, <1>4, <1>5, <1>6, <1>7, <1>8, <1>9, <1>10, <1>11, <1>12, <1>13

\* A sweep reads claims that are the state of their jobs.
LEMMA SweepSelectStays ==
  ASSUME FInv, TypeOK', NEW w \in Workers, SweepSelect(w)
  PROVE  Stays
<1>1. PICK S \in SUBSET Jobs :
        /\ \A j \in S : \E r \in queue[j].rows : r.status = "processing"
        /\ sweep' = [sweep EXCEPT ![w] = {EntryOf(j) : j \in S}]
  BY DEF SweepSelect, Answers, Outdated
<1>2. UNCHANGED <<now, queue, born, pc, since, batch, alive, lease, overruled>>
  BY DEF SweepSelect, loop
<1>3. ASSUME NEW v \in Workers, NEW b \in sweep'[v]
      PROVE  /\ queue[b.job].rows # {}
             /\ b.job \notin overruled =>
                  /\ queue[b.job].ver >= b.ver
                  /\ queue[b.job].ver = b.ver => \A r \in queue[b.job].rows : r.status = "processing"
  <2>1. CASE v = w
    <3>1. PICK j \in S : b = EntryOf(j)
      BY <1>1, <2>1 DEF FInv, IInv, TypeOK
    <3>2. b.job = j /\ b.ver = queue[j].ver /\ queue[j].ver \in Nat
      BY <3>1 DEF EntryOf, FInv, IInv, TypeOK
    <3>3. PICK r \in queue[j].rows : r.status = "processing"
      BY <1>1
    <3>4. j \notin overruled => \A s \in queue[j].rows : s = r
      BY DEF FInv, IInv, SingleRow
    <3> QED
      BY <3>2, <3>3, <3>4
  <2>2. CASE v # w
    BY <1>1, <2>2 DEF FInv, IInv, TypeOK, SweepInv
  <2> QED
    BY <2>1, <2>2
<1>4. SweepInv'
  BY <1>2, <1>3 DEF SweepInv
<1>5. FinishedInv' /\ \A j \in Jobs : Finished(j) => Finished(j)'
  <2>1. NoNewClaims /\ now' >= now
    BY <1>2 DEF NoNewClaims, FInv, IInv, TypeOK
  <2> QED
    BY <1>2, <2>1, NothingWritten DEF Finished
<1> QED
  BY <1>4, <1>5 DEF Stays

\* A pending job is not finished.
LEMMA SelectPendingStays ==
  ASSUME FInv, TypeOK', NEW w \in Workers, SelectPending(w)
  PROVE  Stays
<1>0. PICK S \in Answers(Claimable) : \E T \in OldestOf(S, Limit) :
        /\ batch' = [batch EXCEPT ![w] = {EntryOf(j) : j \in T}]
        /\ pc' = [pc EXCEPT ![w] = IF T = {} THEN "return" ELSE "stamp"]
  BY DEF SelectPending
<1>1. PICK T \in OldestOf(S, Limit) :
        /\ batch' = [batch EXCEPT ![w] = {EntryOf(j) : j \in T}]
        /\ pc' = [pc EXCEPT ![w] = IF T = {} THEN "return" ELSE "stamp"]
  BY <1>0
<1>7. \A j \in T : j \in Jobs /\ \E r \in queue[j].rows : r.status = "pending"
  <2>1. S \subseteq Jobs /\ \A j \in S : \E r \in queue[j].rows : r.status = "pending"
    BY DEF Answers, Claimable
  <2>2. T \subseteq S
    BY DEF OldestOf
  <2> QED
    BY <2>1, <2>2
<1>2. UNCHANGED <<now, queue, born, since, sweep, alive, lease, overruled>>
  BY DEF SelectPending
<1>3. ASSUME NEW j \in T, j \notin overruled PROVE ~Finished(j)
  BY <1>7, <1>3 DEF Finished, FInv, IInv, SingleRow
<1>4. ASSUME NEW v \in Workers, NEW b \in batch'[v], b.job \notin overruled, Finished(b.job)
      PROVE  /\ pc'[v] = "stamp" => LostLease(v)
             /\ pc'[v] = "send" => b.ver < queue[b.job].ver
  <2>1. CASE v = w
    <3>1. PICK j \in T : b = EntryOf(j)
      BY <1>1, <2>1 DEF FInv, IInv, TypeOK
    <3>2. b.job = j
      BY <3>1 DEF EntryOf
    <3> QED
      BY <1>3, <1>4, <3>2
  <2>2. CASE v # w
    BY <1>1, <1>4, <2>2 DEF FInv, IInv, TypeOK, FinishedInv
  <2> QED
    BY <2>1, <2>2
<1>5. FinishedInv'
  BY <1>2, <1>4 DEF FinishedInv, Finished, LostLease
<1>6. SweepInv' /\ \A j \in Jobs : Finished(j) => Finished(j)'
  BY <1>2, NothingSwept DEF SweepsEnd, Finished
<1> QED
  BY <1>5, <1>6 DEF Stays

\* Who stamps a claim has the lease: its job is not finished.
LEMMA StampStays ==
  ASSUME FInv, TypeOK', NEW w \in Workers, Stamp(w)
  PROVE  Stays
<1>1. /\ pc[w] = "stamp" /\ Within(w)
      /\ batch' = [batch EXCEPT ![w] = {[b EXCEPT !.ver = NextVersion(b.ver)] : b \in @}]
      /\ pc' = [pc EXCEPT ![w] = "send"]
      /\ UNCHANGED <<now, queue, born, since, sweep, alive, lease, overruled>>
  BY DEF Stamp
<1>2. ~LostLease(w)
  BY <1>1, WithinHasLease DEF FInv, Section
<1>3. ASSUME NEW v \in Workers, NEW b \in batch'[v], b.job \notin overruled, Finished(b.job)
      PROVE  /\ pc'[v] = "stamp" => LostLease(v)
             /\ pc'[v] = "send" => b.ver < queue[b.job].ver
  <2>1. CASE v = w
    <3>1. PICK c \in batch[w] : b = [c EXCEPT !.ver = NextVersion(c.ver)]
      BY <1>1, <2>1 DEF FInv, IInv, TypeOK
    <3>2. b.job = c.job
      BY <3>1, BatchTypes DEF FInv, IInv, Entry
    <3> QED
      BY <1>1, <1>2, <1>3, <3>2 DEF FInv, FinishedInv
  <2>2. CASE v # w
    BY <1>1, <1>3, <2>2 DEF FInv, IInv, TypeOK, FinishedInv
  <2> QED
    BY <2>1, <2>2
<1>4. FinishedInv'
  BY <1>1, <1>3 DEF FinishedInv, Finished, LostLease
<1>5. SweepInv' /\ \A j \in Jobs : Finished(j) => Finished(j)'
  BY <1>1, NothingSwept DEF SweepsEnd, Finished
<1> QED
  BY <1>4, <1>5 DEF Stays

\* A claim that lands late is outranked if its job has been finished.
LEMMA ClaimStays ==
  ASSUME FInv, TypeOK', NEW w \in Workers, pc[w] = "send", Claimed(w),
         UNCHANGED <<now, since, sweep, overruled>>, OthersGoOn(w),
         pc'[w] \notin {"stamp", "send"}
  PROVE  Stays
<1>1. /\ \A j \in Jobs \ JobsOf(batch[w]) : queue'[j] = queue[j]
      /\ \A b \in batch[w] :
           queue'[b.job] = Appended(queue[b.job], b.ver, ProcessingRow(w, b.ver))
  BY ClaimedState DEF FInv, IInv, BatchInv
<1>2. ASSUME NEW j \in Jobs, queue[j].rows # {} PROVE queue'[j].rows # {}
  <2>1. CASE j \in JobsOf(batch[w])
    <3>1. PICK b \in batch[w] : b.job = j
      BY <2>1 DEF JobsOf
    <3>2. b.ver \in Nat /\ queue[j] \in JobState /\ ProcessingRow(w, b.ver) \in Row
      BY <3>1, BatchTypes, RowTypes DEF FInv, IInv
    <3> QED
      BY <1>1, <1>2, <3>1, <3>2, AppendedState
  <2>2. CASE j \notin JobsOf(batch[w])
    BY <1>1, <1>2, <2>2
  <2> QED
    BY <2>1, <2>2
<1>3. ASSUME NEW j \in Jobs \ overruled
      PROVE  Goes(j) /\ (Finished(j)' <=> Finished(j))
  <2>1. CASE queue'[j] = queue[j]
    BY <2>1 DEF Goes, Finished
  <2>2. CASE queue'[j] # queue[j]
    <3>1. PICK b \in batch[w] : b.job = j
      BY <1>1, <2>2 DEF JobsOf
    <3>2. /\ b.ver > queue[j].ver /\ queue'[j].ver = b.ver
          /\ queue'[j].rows = {ProcessingRow(w, b.ver)}
      BY <1>3, <2>2, <3>1, ClaimLands DEF FInv
    <3>3. b.ver \in Nat /\ queue[j].ver \in Nat
      BY <3>1, BatchTypes DEF FInv, IInv
    <3>4. ~Finished(j)
      BY <1>3, <3>1, <3>2, <3>3 DEF FInv, FinishedInv
    <3>5. ProcessingRow(w, b.ver).status = "processing"
      BY DEF ProcessingRow
    <3>6. ~Finished(j)'
      BY <3>2, <3>5 DEF Finished
    <3> QED
      BY <3>2, <3>4, <3>6 DEF Goes
  <2> QED
    BY <2>1, <2>2
<1>4. NoNewClaims /\ SweepsEnd /\ now' >= now
  BY DEF NoNewClaims, SweepsEnd, OthersGoOn, FInv, IInv, TypeOK
<1>5. queue' \in [Jobs -> JobState]
  BY DEF TypeOK, JobState
<1> QED
  BY <1>2, <1>3, <1>4, <1>5, FinishedKept, SweepKept DEF Stays

\* The claim insert, acknowledged or not.
LEMMA SendClaimStays ==
  ASSUME FInv, TypeOK', NEW w \in Workers, SendClaim(w) \/ SendClaimUnacknowledged(w)
  PROVE  Stays
<1>1. CASE SendClaim(w)
  <2>1. OthersGoOn(w) /\ pc'[w] = "verify"
    BY <1>1 DEF SendClaim, OthersGoOn, FInv, IInv, TypeOK
  <2> QED
    BY <1>1, <2>1, ClaimStays DEF SendClaim
<1>2. CASE SendClaimUnacknowledged(w)
  <2>1. Abandon(w)
    BY <1>2 DEF SendClaimUnacknowledged
  <2>2. OthersGoOn(w) /\ pc'[w] = "idle" /\ since' = since
    BY <2>1 DEF Abandon, OthersGoOn, FInv, IInv, TypeOK
  <2> QED
    BY <1>2, <2>2, ClaimStays DEF SendClaimUnacknowledged
<1> QED
  BY <1>1, <1>2

\* A release acts on a claim that still is the job's state, or on outdated news.
LEMMA ReleaseStays ==
  ASSUME FInv, TypeOK', NEW w \in Workers, ReleaseOwn(w) \/ ReleaseOwnUnacknowledged(w)
  PROVE  Stays
<1>1. PICK b \in batch[w] : Released(b)
  BY DEF ReleaseOwn, ReleaseOwnUnacknowledged
<1>2. pc[w] = "release" /\ UNCHANGED <<now, sweep>>
  BY DEF ReleaseOwn, ReleaseOwnUnacknowledged
<1>3. b \in Entry /\ b.job \in Jobs /\ now \in Nat
  BY BatchTypes DEF FInv, IInv
<1>4. overruled \subseteq overruled' /\ Deferred(b, now)
  BY <1>1 DEF Released
<1>5. ASSUME b.job \notin overruled' PROVE queue[b.job].ver = b.ver /\ ~Finished(b.job)
  <2>1. b.job \notin overruled /\ queue[b.job].ver = b.ver
    BY <1>1, <1>5 DEF Released
  <2>2. queue[b.job].rows = {ProcessingRow(w, b.ver)}
    BY <1>2, <2>1 DEF FInv, IInv, ReleaseInv
  <2> QED
    BY <2>1, <2>2 DEF Finished, ProcessingRow
<1>6. NoNewClaims
  <2>1. CASE ReleaseOwn(w)
    BY <1>2, <2>1 DEF ReleaseOwn, NoNewClaims, FInv, IInv, TypeOK
  <2>2. CASE ReleaseOwnUnacknowledged(w)
    BY <1>2, <2>2 DEF ReleaseOwnUnacknowledged, Abandon, NoNewClaims, FInv, IInv, TypeOK
  <2> QED
    BY <2>1, <2>2
<1>7. SweepsEnd
  BY <1>2 DEF SweepsEnd
<1> QED
  BY <1>2, <1>3, <1>4, <1>5, <1>6, <1>7, HandedBack DEF Stays

\* A sweep requeues a claim that still is the job's state, or acts on outdated news.
LEMMA SweepRequeueStays ==
  ASSUME FInv, TypeOK', NEW w \in Workers, SweepRequeue(w)
  PROVE  Stays
<1>1. PICK b \in sweep[w] :
        /\ Deferred(b, now)
        /\ sweep' = [sweep EXCEPT ![w] = @ \ {b}]
        /\ overruled' = IF Abandoned(b) THEN overruled ELSE overruled \cup {b.job}
  BY DEF SweepRequeue
<1>2. UNCHANGED <<now, pc, since, batch>>
  BY DEF SweepRequeue, loop
<1>3. b \in Entry /\ b.job \in Jobs /\ now \in Nat
  BY DEF FInv, IInv, TypeOK, Entry
<1>4. ASSUME b.job \notin overruled' PROVE queue[b.job].ver = b.ver /\ ~Finished(b.job)
  <2>1. b.job \notin overruled /\ queue[b.job].ver = b.ver
    BY <1>1, <1>4 DEF Abandoned
  <2>2. \A r \in queue[b.job].rows : r.status = "processing"
    BY <2>1 DEF FInv, SweepInv
  <2> QED
    BY <2>1, <2>2 DEF Finished
<1>5. overruled \subseteq overruled' /\ NoNewClaims
  BY <1>1, <1>2 DEF NoNewClaims
<1>6. SweepsEnd
  BY <1>1 DEF SweepsEnd, FInv, IInv, TypeOK
<1> QED
  BY <1>1, <1>2, <1>3, <1>4, <1>5, <1>6, HandedBack DEF Stays

\* Who defers a job still owns its claim: the job is not finished.
LEMMA DeferStays ==
  ASSUME FInv, TypeOK', NEW w \in Workers, DeferHeldJob(w)
  PROVE  Stays
<1>1. PICK b \in batch[w], retry \in {now, now + Backoff} :
        Deferred(b, retry) /\ NextJob(w, b)
  BY DEF DeferHeldJob, Current
<1>2. Working(w) /\ UNCHANGED <<now, sweep, overruled>>
  BY DEF DeferHeldJob
<1>3. b \in Entry /\ retry \in Nat
  BY BatchTypes, QueueAssumption DEF FInv, IInv, TypeOK
<1>4. ASSUME b.job \notin overruled' PROVE queue[b.job].ver = b.ver /\ ~Finished(b.job)
  BY <1>2, <1>4 DEF FInv, IInv, OwnedInv, Working, Landed, Finished, ProcessingRow
<1>5. NoNewClaims
  BY <1>1, <1>2 DEF NextJob, Working, NoNewClaims, FInv, IInv, TypeOK
<1>6. SweepsEnd /\ overruled \subseteq overruled'
  BY <1>2 DEF SweepsEnd
<1> QED
  BY <1>1, <1>2, <1>3, <1>4, <1>5, <1>6, HandedBack DEF Stays

\* Who is about to claim the finished job has lost the lease, and its stamp is
\* below the claim whose worker finishes the job.
LEMMA FinishStays ==
  ASSUME FInv, TypeOK', NEW w \in Workers, FinishJob(w)
  PROVE  Stays
<1>1. PICK b \in batch[w], status \in {"done", "failed"} :
        Transition(b, FinalRow(status, w, b.ver)) /\ NextJob(w, b)
  BY DEF FinishJob, Current, Transition
<1>2. Working(w) /\ UNCHANGED <<now, sweep, overruled>>
  BY DEF FinishJob
<1>3. b \in Entry /\ b.job \in Jobs /\ b.ver \in Nat
  BY BatchTypes DEF FInv, IInv
<1>4. /\ FinalRow(status, w, b.ver) \in Row
      /\ FinalRow(status, w, b.ver).status \in {"done", "failed"}
  BY <1>3, RowTypes DEF FinalRow
<1>5. b.job \notin overruled => queue[b.job].ver = b.ver /\ ~Finished(b.job)
  BY <1>2 DEF FInv, IInv, OwnedInv, Working, Landed, Finished, ProcessingRow
<1>6. /\ queue' \in [Jobs -> JobState]
      /\ \A j \in Jobs : queue[j].rows # {} => queue'[j].rows # {}
      /\ \A j \in Jobs \ overruled :
           \/ queue'[j] = queue[j]
           \/ /\ j = b.job /\ queue'[j].ver > queue[j].ver
              /\ queue'[j].rows = {FinalRow(status, w, b.ver)} /\ ~Finished(j)
  BY <1>1, <1>2, <1>3, <1>4, <1>5, OneTransition
<1>7. \A j \in Jobs \ overruled : Goes(j) /\ (Finished(j) => Finished(j)')
  BY <1>6 DEF Goes, Finished
<1>8. OthersGoOn(w) /\ pc'[w] \in {"idle", "work"}
  BY <1>1 DEF NextJob, OthersGoOn, FInv, IInv, TypeOK
<1>9. ASSUME NEW v \in Workers, NEW c \in batch'[v], c.job \notin overruled, Finished(c.job)',
             pc'[v] \in {"stamp", "send"}
      PROVE  LostLease(v)' /\ (pc'[v] = "send" => c.ver < queue'[c.job].ver)
  <2>1. /\ v # w /\ pc'[v] = pc[v] /\ c \in batch[v] /\ since'[v] = since[v]
        /\ (LostLease(v)' <=> LostLease(v))
    BY <1>2, <1>8, <1>9 DEF OthersGoOn, LostLease
  <2>2. /\ c.job \in Jobs /\ c.ver \in Nat /\ queue[c.job].ver \in Nat
        /\ queue'[c.job].ver \in Nat
    BY <1>6, <2>1, BatchTypes DEF FInv, IInv, JobState
  <2>3. CASE queue'[c.job] = queue[c.job]
    <3>1. Finished(c.job)
      BY <1>9, <2>3 DEF Finished
    <3>2. /\ pc[v] = "stamp" => LostLease(v)
          /\ pc[v] = "send" => c.ver < queue[c.job].ver /\ LostLease(v)
      <4>1. pc[v] = "send" => c.ver < queue[c.job].ver
        BY <1>9, <2>1, <3>1 DEF FInv, FinishedInv
      <4>2. pc[v] = "send" /\ ~LostLease(v) => queue[c.job].ver < c.ver
        BY <1>9, <2>1 DEF FInv, IInv, ClaimOutranks
      <4> QED
        BY <1>9, <2>1, <2>2, <3>1, <4>1, <4>2 DEF FInv, FinishedInv
    <3> QED
      BY <1>9, <2>1, <2>3, <3>2
  <2>4. CASE queue'[c.job] # queue[c.job]
    <3>1. c.job = b.job /\ queue'[c.job].ver > queue[c.job].ver
      BY <1>6, <1>9, <2>2, <2>4
    <3>2. LostLease(v) /\ (pc[v] = "send" => c.ver < b.ver)
      BY <1>2, <1>9, <2>1, <3>1 DEF FInv, IInv, LateInv, Working, Landed
    <3> QED
      BY <1>3, <1>5, <1>9, <2>1, <2>2, <3>1, <3>2
  <2> QED
    BY <2>3, <2>4
<1>10. FinishedInv'
  BY <1>2, <1>9 DEF FinishedInv
<1>11. SweepInv'
  BY <1>2, <1>6, <1>7, SweepKept DEF SweepsEnd
<1> QED
  BY <1>2, <1>7, <1>10, <1>11 DEF Stays

\* Nobody can have read a job before it is enqueued.
LEMMA EnqueueStays ==
  ASSUME FInv, TypeOK', NEW i \in Jobs, Enqueue(i)
  PROVE  Stays
<1>1. PICK t \in (now - Skew)..(now + Skew) :
        queue' = [queue EXCEPT ![i] = [ver |-> t, rows |-> {PendingRow(0)}]]
  BY DEF Enqueue
<1>2. queue[i].rows = {} /\ UNCHANGED <<now, pc, since, batch, sweep, overruled>>
  BY DEF Enqueue, loop
<1>3. /\ queue'[i].rows = {PendingRow(0)}
      /\ \A j \in Jobs : j # i => queue'[j] = queue[j]
  BY <1>1 DEF FInv, IInv, TypeOK
<1>4. /\ queue' \in [Jobs -> JobState]
      /\ \A j \in Jobs : queue[j].rows # {} =>
           queue'[j].rows # {} /\ Goes(j) /\ (Finished(j)' <=> Finished(j))
  BY <1>2, <1>3 DEF TypeOK, JobState, Goes, Finished
<1>5. \A j \in Jobs : Finished(j) => queue[j].rows # {}
  BY DEF Finished
<1>6. NoNewClaims /\ SweepsEnd /\ now' >= now
  BY <1>2 DEF NoNewClaims, SweepsEnd, FInv, IInv, TypeOK
<1> QED
  BY <1>2, <1>4, <1>5, <1>6, FinishedKept, SweepKept DEF Stays

-----------------------------------------------------------------------------
(* The theorem.                                                            *)

\* No job is finished and nothing swept initially.
LEMMA InitFInv ==
  Init => FInv
<1>1. Init => FinishedInv /\ SweepInv
  BY DEF Init, FinishedInv, SweepInv
<1> QED
  BY <1>1, InitIInv DEF FInv

\* Every step keeps what is known of the finished jobs and of the sweeps.
LEMMA NextStays ==
  ASSUME FInv, Next
  PROVE  IInv' /\ Stays
<1>1. IInv' /\ TypeOK'
  BY NextIInv DEF FInv, IInv
<1>2. ASSUME NEW j \in Jobs, Enqueue(j) PROVE Stays
  BY <1>1, <1>2, EnqueueStays
<1>3. ASSUME Tick \/ Expire PROVE Stays
  <2>1. CASE Workers = {}
    <3>1. FinishedInv' /\ SweepInv'
      BY <2>1 DEF FinishedInv, SweepInv
    <3>2. queue' = queue
      BY <1>3 DEF Tick, Expire
    <3>3. \A j \in Jobs : Finished(j) => Finished(j)'
      BY <3>2 DEF Finished
    <3> QED
      BY <3>1, <3>3 DEF Stays
  <2>2. ASSUME NEW w \in Workers PROVE Stays
    BY <1>1, <1>3, QuietStepsStay
  <2> QED
    BY <2>1, <2>2
<1>4. ASSUME NEW w \in Workers,
             \/ Begin(w) \/ Acquire(w) \/ StatementFails(w) \/ SweepSelect(w) \/ Restart(w)
      PROVE  Stays
  BY <1>1, <1>4, QuietStepsStay, SweepSelectStays
<1>5. ASSUME NEW w \in Workers, ClaimStep(w) PROVE Stays
  BY <1>1, <1>5, QuietStepsStay, ReleaseStays, SelectPendingStays, StampStays, SendClaimStays
     DEF ClaimStep
<1>6. ASSUME NEW w \in Workers, FinishJob(w) \/ DeferHeldJob(w) \/ SweepRequeue(w)
      PROVE  Stays
  BY <1>1, <1>6, FinishStays, DeferStays, SweepRequeueStays
<1>7. ASSUME NEW w \in Workers, Fault(w) PROVE Stays
  BY <1>1, <1>7, QuietStepsStay, ReleaseStays, SendClaimStays DEF Fault
<1> QED
  BY <1>1, <1>2, <1>3, <1>4, <1>5, <1>6, <1>7 DEF Next

\* A final status written by CompleteJob or FailJob is never undone, whatever
\* claims, releases and deferrals are still on their way, except by a requeue that
\* acted on outdated news.
THEOREM FinishedStaysFinished ==
  Spec => FinalUnlessOverruled
<1>1. FInv /\ [Next]_vars => FInv'
  <2>1. ASSUME FInv, Next PROVE FInv'
    BY <2>1, NextStays DEF FInv, Stays
  <2>2. ASSUME FInv, UNCHANGED vars PROVE FInv'
    <3>1. IInv'
      BY <2>2, NextIInv DEF FInv
    <3> QED
      BY <2>2, <3>1 DEF vars, loop, FInv, FinishedInv, SweepInv, Finished, LostLease
  <2> QED
    BY <2>1, <2>2
<1>2. FInv /\ [Next]_vars => [\A j \in Jobs : Finished(j) => Finished(j)' \/ j \in overruled']_vars
  BY NextStays DEF Stays
<1>3. Spec => []FInv
  BY InitFInv, <1>1, PTL DEF Spec
<1> QED
  BY <1>2, <1>3, PTL DEF Spec, FinalUnlessOverruled

-----------------------------------------------------------------------------
(* Sweeps and the clock: a batch is done before the oldest claim in it is  *)
(* old enough to be swept.                                                 *)

\* staleClaimAfter leaves time for a claim section and a whole batch.
BatchesEndFirst == JobTime > 0 /\ MaxHold + Limit * JobTime <= Unit * Stale + 1

Enqueued == {j \in Jobs : queue[j].rows # {}}

\* A batch has Limit jobs at most, and a worker that has one is alive.
OneBatch(w) ==
  /\ pc[w] # "idle" => w \in alive
  /\ since[w] <= now
  /\ pc[w] \in {"stamp", "send"} \cup Landed => IsFiniteSet(batch[w]) /\ Cardinality(batch[w]) <= Limit

\* A claim's version is a time in the section that stamped it, or ahead of it by Lead.
StampedInTime(w) ==
  pc[w] \in {"send", "verify", "return"} => \A b \in batch[w] : since[w] <= b.ver /\ b.ver <= now + Lead

\* A claim that has landed is the job's state, or has been outranked since.
NotAhead(w) == pc[w] \in Landed => \A b \in batch[w] : b.ver <= queue[b.job].ver

\* A job begins when the ones before it have had their JobTime, and ends in its own.
Proceeds(w) ==
  pc[w] = "work" =>
    /\ now <= since[w] + JobTime
    /\ \A b \in batch[w] :
         /\ b.ver <= since[w] + Lead
         /\ since[w] + 1 + Cardinality(batch[w]) * JobTime <= b.ver + MaxHold + Limit * JobTime

\* What a sweep has read is older than staleClaimAfter.
SweptIsOld(w) ==
  \A b \in sweep[w] : b.job \in Enqueued /\ b.ver + Unit * Stale < now

OnTime(w) == OneBatch(w) /\ StampedInTime(w) /\ NotAhead(w) /\ Proceeds(w) /\ SweptIsOld(w)

TInv == IInv /\ IsFiniteSet(Enqueued) /\ \A w \in Workers : OnTime(w)

\* Versions of a job only grow, and a job does not leave the queue.
Grows == \A j \in Enqueued : j \in Enqueued' /\ queue'[j].ver >= queue[j].ver
NothingNew == Grows /\ Enqueued' \subseteq Enqueued

\* A row for a job of the queue.
LEMMA TransitionGrows ==
  ASSUME TypeOK, NEW b \in Entry, b.job \in Enqueued, NEW row \in Row, Transition(b, row)
  PROVE  NothingNew
<1>1. b.job \in Jobs /\ b.ver \in Nat /\ queue \in [Jobs -> JobState] /\ now \in Nat
  BY DEF TypeOK, Entry, JobState
<1>2. NextVersion(b.ver) \in Nat
  BY <1>1, NextVersionAbove
<1>3. /\ Appended(queue[b.job], NextVersion(b.ver), row).ver >= queue[b.job].ver
      /\ Appended(queue[b.job], NextVersion(b.ver), row).rows = {} => queue[b.job].rows = {}
  BY <1>1, <1>2, AppendedState
<1>4. /\ queue'[b.job] = Appended(queue[b.job], NextVersion(b.ver), row)
      /\ \A j \in Jobs : j # b.job => queue'[j] = queue[j]
  BY <1>1 DEF Transition
<1>5. \A j \in Jobs : queue[j].ver \in Nat
  BY <1>1 DEF JobState
<1> QED
  BY <1>1, <1>3, <1>4, <1>5 DEF Grows, NothingNew, Enqueued

\* The claim rows of a batch, which also leave no job behind its claim.
LEMMA ClaimGrows ==
  ASSUME IInv, NEW w \in Workers, Claimed(w)
  PROVE  NothingNew /\ \A b \in batch[w] : b.ver <= queue'[b.job].ver
<1>1. /\ \A j \in Jobs \ JobsOf(batch[w]) : queue'[j] = queue[j]
      /\ \A b \in batch[w] :
           queue'[b.job] = Appended(queue[b.job], b.ver, ProcessingRow(w, b.ver))
  BY ClaimedState DEF IInv, BatchInv
<1>2. ASSUME NEW b \in batch[w]
      PROVE  /\ b.job \in Enqueued /\ queue'[b.job].rows # {}
             /\ queue'[b.job].ver >= queue[b.job].ver /\ queue'[b.job].ver >= b.ver
  <2>1. /\ b.job \in Jobs /\ b.ver \in Nat /\ queue[b.job] \in JobState /\ queue[b.job].ver \in Nat
        /\ b.job \in Enqueued
    BY BatchTypes DEF IInv, BatchInv, Enqueued
  <2>2. ProcessingRow(w, b.ver) \in Row
    BY <2>1, RowTypes
  <2>3. /\ Appended(queue[b.job], b.ver, ProcessingRow(w, b.ver)).ver >= queue[b.job].ver
        /\ Appended(queue[b.job], b.ver, ProcessingRow(w, b.ver)).rows = {} => queue[b.job].rows = {}
    BY <2>1, <2>2, AppendedState
  <2>4. Appended(queue[b.job], b.ver, ProcessingRow(w, b.ver)).ver >= b.ver
    BY <2>1 DEF Appended, JobState
  <2> QED
    BY <1>1, <2>1, <2>3, <2>4 DEF Enqueued
<1>3. \A j \in Jobs : queue[j].ver \in Nat
  BY DEF IInv, TypeOK
<1> QED
  BY <1>1, <1>2, <1>3 DEF Grows, NothingNew, Enqueued, JobsOf

-----------------------------------------------------------------------------
(* What becomes of one worker.                                             *)

\* A worker that does nothing, while others may write.
LEMMA Undisturbed ==
  ASSUME TInv, TypeOK', Grows, NEW v \in Workers, now' = now,
         pc'[v] = pc[v], since'[v] = since[v], batch'[v] = batch[v], sweep'[v] \subseteq sweep[v],
         v \in alive => v \in alive'
  PROVE  OnTime(v)'
<1>1. \A b \in batch[v] : b.job \in Enqueued /\ b.ver \in Nat /\ queue[b.job].ver \in Nat
                          /\ queue'[b.job].ver >= queue[b.job].ver /\ queue'[b.job].ver \in Nat
  BY BatchTypes DEF TInv, IInv, BatchInv, Enqueued, Grows, TypeOK
<1>2. OneBatch(v)' /\ StampedInTime(v)' /\ Proceeds(v)'
  BY DEF TInv, OnTime, OneBatch, StampedInTime, Proceeds
<1>3. NotAhead(v)'
  BY <1>1 DEF TInv, OnTime, NotAhead
<1>4. SweptIsOld(v)'
  BY DEF TInv, OnTime, SweptIsOld, Grows
<1> QED
  BY <1>2, <1>3, <1>4 DEF OnTime

\* A worker without a batch.
LEMMA Unburdened ==
  ASSUME TInv, Grows, NEW v \in Workers, now' = now, now \in Nat, since[v] \in Nat,
         pc'[v] \in {"idle", "wait", "own", "release", "select"}, pc'[v] # "idle" => v \in alive',
         since'[v] = since[v] \/ since'[v] = now, sweep'[v] \subseteq sweep[v]
  PROVE  OnTime(v)'
<1>1. OneBatch(v)' /\ StampedInTime(v)' /\ Proceeds(v)' /\ NotAhead(v)'
  BY DEF TInv, OnTime, OneBatch, StampedInTime, Proceeds, NotAhead, Landed
<1>2. SweptIsOld(v)'
  BY DEF TInv, OnTime, SweptIsOld, Grows
<1> QED
  BY <1>1, <1>2 DEF OnTime

\* All workers but one do nothing.
LEMMA OneMoves ==
  ASSUME TInv, TypeOK', NEW w \in Workers, Grows, OthersGoOn(w), now' = now,
         \A v \in Workers \ {w} : sweep'[v] \subseteq sweep[v] /\ (v \in alive => v \in alive'),
         OnTime(w)'
  PROVE  \A v \in Workers : OnTime(v)'
BY Undisturbed DEF OthersGoOn

\* A set with an index for each of its elements is no larger than the indices.
LEMMA Indexed ==
  ASSUME NEW S, IsFiniteSet(S), NEW T, NEW f \in [S -> T], T = {f[x] : x \in S}
  PROVE  IsFiniteSet(T) /\ Cardinality(T) <= Cardinality(S)
<1>1. f \in Surjection(S, T)
  BY DEF Surjection
<1> QED
  BY <1>1, FS_Surjection

\* Less than what fits.
LEMMA Products ==
  ASSUME NEW m \in Nat, NEW n \in Nat
  PROVE  /\ m * JobTime \in Nat /\ n * JobTime \in Nat
         /\ m <= n => m * JobTime <= n * JobTime
         /\ m > 0 => (m - 1) * JobTime = m * JobTime - JobTime /\ JobTime <= m * JobTime
<1>1. JobTime \in Nat
  BY QueueAssumption
<1>2. m * JobTime \in Nat /\ n * JobTime \in Nat
  BY <1>1
<1>3. ASSUME m <= n PROVE m * JobTime <= n * JobTime
  <2>1. n - m \in Nat /\ (n - m) * JobTime \in Nat
    BY <1>1, <1>3
  <2>2. (n - m) * JobTime = n * JobTime - m * JobTime
    BY <1>1
  <2> QED
    BY <1>2, <2>1, <2>2
<1>4. ASSUME m > 0 PROVE (m - 1) * JobTime = m * JobTime - JobTime /\ JobTime <= m * JobTime
  <2>1. (m - 1) * JobTime = m * JobTime - JobTime
    BY <1>1
  <2>2. m - 1 \in Nat /\ (m - 1) * JobTime \in Nat
    BY <1>1, <1>4
  <2> QED
    BY <1>1, <1>2, <2>1, <2>2
<1> QED
  BY <1>2, <1>3, <1>4

\* Whole seconds apart is at least so many ticks apart.
LEMMA SecondsApart ==
  ASSUME NEW s \in Nat, NEW t \in Nat, Sec(s) + Stale < Sec(t)
  PROVE  s + Unit * Stale < t
<1> DEFINE p == s \div Unit
           q == t \div Unit
<1>1. Unit \in Nat /\ Unit > 0 /\ Stale \in Nat
  BY QueueAssumption
<1>2. p \in Nat /\ q \in Nat /\ p + Stale + 1 <= q
  BY <1>1 DEF Sec
<1>3. s < Unit * p + Unit
  BY <1>1
<1>4. Unit * q <= t
  BY <1>1
<1> HIDE DEF p, q
<1>5. q - (p + Stale + 1) \in Nat /\ Unit * (q - (p + Stale + 1)) \in Nat
  BY <1>1, <1>2
<1>6. Unit * (q - (p + Stale + 1)) = Unit * q - Unit * p - Unit * Stale - Unit
  BY <1>1, <1>2
<1>7. Unit * q \in Nat /\ Unit * p \in Nat /\ Unit * Stale \in Nat
  BY <1>1, <1>2
<1> QED
  BY <1>1, <1>3, <1>4, <1>5, <1>6, <1>7

-----------------------------------------------------------------------------
(* The steps.                                                              *)

\* The clock waits for a job's JobTime, except for a worker that waits for the clock:
\* its claim is ahead by Lead, so it has just begun.
LEMMA TickOnTime ==
  ASSUME TInv, BatchesEndFirst, Tick, NEW w \in Workers
  PROVE  OnTime(w)'
<1>1. /\ now' = now + 1 /\ now \in Nat /\ since[w] \in Nat /\ Lead \in Nat /\ JobTime \in Nat
      /\ UNCHANGED <<queue, pc, since, batch, sweep, alive>>
  BY QueueAssumption DEF Tick, loop, TInv, IInv, TypeOK
<1>2. \A b \in batch[w] : b.ver \in Nat
  BY BatchTypes DEF TInv, IInv
<1>3. \A b \in sweep[w] : b.ver \in Nat
  BY DEF TInv, IInv, TypeOK, Entry
<1>4. OneBatch(w)' /\ NotAhead(w)'
  BY <1>1 DEF TInv, OnTime, OneBatch, NotAhead
<1>5. StampedInTime(w)'
  BY <1>1, <1>2 DEF TInv, OnTime, StampedInTime
<1>6. Unit * Stale \in Nat
  BY QueueAssumption
<1>7. SweptIsOld(w)'
  BY <1>1, <1>3, <1>6 DEF TInv, OnTime, SweptIsOld, Enqueued
<1>8. ASSUME pc[w] = "work" PROVE now + 1 <= since[w] + JobTime
  <2>1. w \in alive /\ since[w] <= now /\ JobTime > 0
    BY <1>8 DEF TInv, OnTime, OneBatch, BatchesEndFirst
  <2>2. CASE \E b \in sweep[w] : ~InLead(NextVersion(b.ver))
    <3>1. PICK b \in sweep[w] : ~InLead(NextVersion(b.ver))
      BY <2>2
    <3>2. b.ver + 1 <= now
      BY <1>1, <1>3, <1>6 DEF TInv, OnTime, SweptIsOld
    <3> QED
      BY <1>1, <1>3, <3>1, <3>2 DEF InLead, NextVersion, Later
  <2>3. CASE \E b \in batch[w] : ~InLead(NextVersion(b.ver))
    <3>1. PICK b \in batch[w] : ~InLead(NextVersion(b.ver))
      BY <2>3
    <3>2. b.ver <= since[w] + Lead
      BY <1>8 DEF TInv, OnTime, Proceeds
    <3> QED
      BY <1>1, <1>2, <2>1, <3>1, <3>2 DEF InLead, NextVersion, Later
  <2>4. CASE now < since[w] + JobTime
    BY <1>1, <2>4
  <2> QED
    BY <1>8, <2>1, <2>2, <2>3, <2>4 DEF Tick, InTime, Working
<1>9. Proceeds(w)'
  BY <1>1, <1>8 DEF TInv, OnTime, Proceeds
<1> QED
  BY <1>4, <1>5, <1>7, <1>9 DEF OnTime

\* The query for pending jobs returns Limit of them at most.
LEMMA SelectPendingOnTime ==
  ASSUME TInv, TypeOK', NEW w \in Workers, SelectPending(w)
  PROVE  OnTime(w)'
<1>1. /\ w \in alive /\ pc[w] = "select"
      /\ UNCHANGED <<now, queue, since, sweep, alive>>
  BY DEF SelectPending
<1>2. PICK S \in Answers(Claimable) : \E T \in OldestOf(S, Limit) :
        /\ batch' = [batch EXCEPT ![w] = {EntryOf(j) : j \in T}]
        /\ pc' = [pc EXCEPT ![w] = IF T = {} THEN "return" ELSE "stamp"]
  BY DEF SelectPending
<1>3. PICK T \in OldestOf(S, Limit) :
        /\ batch' = [batch EXCEPT ![w] = {EntryOf(j) : j \in T}]
        /\ pc' = [pc EXCEPT ![w] = IF T = {} THEN "return" ELSE "stamp"]
  BY <1>2
<1>4. S \subseteq Enqueued
  BY DEF Answers, Enqueued
<1>5. IsFiniteSet(S) /\ Cardinality(S) \in Nat
  BY <1>4, FS_Subset, FS_CardinalityType DEF TInv
<1>6. T \in SUBSET S /\ Cardinality(T) = IF Cardinality(S) < Limit THEN Cardinality(S) ELSE Limit
  BY DEF OldestOf
<1>7. IsFiniteSet(T) /\ Cardinality(T) <= Limit
  BY <1>5, <1>6, FS_Subset, QueueAssumption
<1>8. /\ batch'[w] = {EntryOf(j) : j \in T}
      /\ pc'[w] = IF T = {} THEN "return" ELSE "stamp"
  BY <1>3 DEF TInv, IInv, TypeOK
<1>9. IsFiniteSet(batch'[w]) /\ Cardinality(batch'[w]) <= Limit
  <2> DEFINE f == [j \in T |-> EntryOf(j)]
  <2>1. f \in [T -> batch'[w]] /\ batch'[w] = {f[j] : j \in T}
    BY <1>8
  <2> HIDE DEF f
  <2>2. IsFiniteSet(batch'[w]) /\ Cardinality(batch'[w]) <= Cardinality(T)
    BY <1>7, <2>1, Indexed
  <2>3. Cardinality(T) \in Nat /\ Cardinality(batch'[w]) \in Nat
    BY <1>7, <2>2, FS_CardinalityType
  <2> QED
    BY <1>7, <2>2, <2>3, QueueAssumption
<1>10. T = {} => batch'[w] = {}
  BY <1>8
<1>11. OneBatch(w)'
  BY <1>1, <1>8, <1>9 DEF TInv, OnTime, OneBatch
<1>12. StampedInTime(w)' /\ NotAhead(w)' /\ Proceeds(w)'
  BY <1>8, <1>10 DEF StampedInTime, NotAhead, Proceeds, Landed
<1>13. SweptIsOld(w)'
  BY <1>1 DEF TInv, OnTime, SweptIsOld, Enqueued
<1> QED
  BY <1>11, <1>12, <1>13 DEF OnTime

\* A claim is stamped with a time in its section, or a little ahead.
LEMMA StampOnTime ==
  ASSUME TInv, TypeOK', NEW w \in Workers, Stamp(w)
  PROVE  OnTime(w)'
<1>1. /\ w \in alive /\ pc[w] = "stamp" /\ pc'[w] = "send"
      /\ batch'[w] = {[b EXCEPT !.ver = NextVersion(b.ver)] : b \in batch[w]}
      /\ \A b \in batch[w] : InLead(NextVersion(b.ver))
      /\ UNCHANGED <<now, queue, since, sweep, alive>>
  BY DEF Stamp, TInv, IInv, TypeOK
<1>2. \A b \in batch[w] : b \in Entry /\ b.ver \in Nat /\ NextVersion(b.ver) \in Nat /\ NextVersion(b.ver) >= now
  BY BatchTypes, NextVersionAbove DEF TInv, IInv
<1>3. IsFiniteSet(batch[w]) /\ Cardinality(batch[w]) <= Limit /\ since[w] <= now
  BY <1>1 DEF TInv, OnTime, OneBatch
<1>4. IsFiniteSet(batch'[w]) /\ Cardinality(batch'[w]) <= Limit
  <2> DEFINE f == [b \in batch[w] |-> [b EXCEPT !.ver = NextVersion(b.ver)]]
  <2>1. f \in [batch[w] -> batch'[w]] /\ batch'[w] = {f[b] : b \in batch[w]}
    BY <1>1
  <2> HIDE DEF f
  <2>2. IsFiniteSet(batch'[w]) /\ Cardinality(batch'[w]) <= Cardinality(batch[w])
    BY <1>3, <2>1, Indexed
  <2>3. Cardinality(batch[w]) \in Nat /\ Cardinality(batch'[w]) \in Nat
    BY <1>3, <2>2, FS_CardinalityType
  <2> QED
    BY <1>3, <2>2, <2>3, QueueAssumption
<1>5. OneBatch(w)'
  BY <1>1, <1>3, <1>4 DEF OneBatch
<1>6. ASSUME NEW c \in batch'[w] PROVE since[w] <= c.ver /\ c.ver <= now + Lead
  <2>1. PICK b \in batch[w] : c = [b EXCEPT !.ver = NextVersion(b.ver)]
    BY <1>1
  <2>2. c.ver = NextVersion(b.ver)
    BY <1>2, <2>1 DEF Entry
  <2>3. since[w] \in Nat /\ now \in Nat
    BY DEF TInv, IInv, TypeOK
  <2> QED
    BY <1>1, <1>2, <1>3, <2>2, <2>3 DEF InLead
<1>7. StampedInTime(w)' /\ NotAhead(w)' /\ Proceeds(w)'
  BY <1>1, <1>6 DEF StampedInTime, NotAhead, Proceeds, Landed
<1>8. SweptIsOld(w)'
  BY <1>1 DEF TInv, OnTime, SweptIsOld, Enqueued
<1> QED
  BY <1>5, <1>7, <1>8 DEF OnTime

\* The claims land.
LEMMA SendClaimOnTime ==
  ASSUME TInv, TypeOK', NEW w \in Workers, SendClaim(w)
  PROVE  OnTime(w)'
<1>1. /\ w \in alive /\ pc[w] = "send" /\ pc'[w] = "verify" /\ Claimed(w)
      /\ UNCHANGED <<now, since, batch, sweep, alive>>
  BY DEF SendClaim, TInv, IInv, TypeOK
<1>2. NothingNew /\ \A b \in batch[w] : b.ver <= queue'[b.job].ver
  BY <1>1, ClaimGrows DEF TInv
<1>3. OneBatch(w)' /\ StampedInTime(w)' /\ Proceeds(w)'
  BY <1>1 DEF TInv, OnTime, OneBatch, StampedInTime, Proceeds, Landed
<1>4. NotAhead(w)'
  BY <1>1, <1>2 DEF NotAhead
<1>5. SweptIsOld(w)'
  BY <1>1, <1>2 DEF TInv, OnTime, SweptIsOld, NothingNew, Grows
<1> QED
  BY <1>3, <1>4, <1>5 DEF OnTime

\* Verification only takes jobs out of the batch.
LEMMA VerifyOnTime ==
  ASSUME TInv, TypeOK', NEW w \in Workers, Verify(w)
  PROVE  OnTime(w)'
<1>1. /\ w \in alive /\ pc[w] = "verify" /\ pc'[w] = "return" /\ batch'[w] \in SUBSET batch[w]
      /\ UNCHANGED <<now, queue, since, sweep, alive>>
  BY DEF Verify, TInv, IInv, TypeOK
<1>2. IsFiniteSet(batch[w]) /\ Cardinality(batch[w]) <= Limit /\ since[w] <= now
  BY <1>1 DEF TInv, OnTime, OneBatch, Landed
<1>3. IsFiniteSet(batch'[w]) /\ Cardinality(batch'[w]) <= Cardinality(batch[w])
  BY <1>1, <1>2, FS_Subset
<1>4. Cardinality(batch[w]) \in Nat /\ Cardinality(batch'[w]) \in Nat /\ Limit \in Nat
  BY <1>2, <1>3, FS_CardinalityType, QueueAssumption
<1>5. OneBatch(w)'
  BY <1>1, <1>2, <1>3, <1>4 DEF OneBatch
<1>6. StampedInTime(w)' /\ NotAhead(w)' /\ Proceeds(w)'
  BY <1>1 DEF TInv, OnTime, StampedInTime, NotAhead, Proceeds, Landed
<1>7. SweptIsOld(w)'
  BY <1>1 DEF TInv, OnTime, SweptIsOld, Enqueued
<1> QED
  BY <1>5, <1>6, <1>7 DEF OnTime

\* A result within maxHold of the attempt leaves the whole batch its time.
LEMMA ReturnOnTime ==
  ASSUME TInv, TypeOK', NEW w \in Workers, Return(w)
  PROVE  OnTime(w)'
<1>1. /\ w \in alive /\ pc[w] = "return" /\ now \in Nat /\ since[w] \in Nat
      /\ UNCHANGED <<now, queue, sweep, alive>>
  BY DEF Return, TInv, IInv, TypeOK
<1>2. Grows
  BY <1>1 DEF Grows, Enqueued, TInv, IInv, TypeOK
<1>3. CASE ~(Within(w) /\ batch[w] # {})
  <2>1. pc'[w] = "idle" /\ since' = since
    BY <1>3 DEF Return, TInv, IInv, TypeOK
  <2> QED
    BY <1>1, <1>2, <2>1, Unburdened
<1>4. CASE Within(w) /\ batch[w] # {}
  <2>1. pc'[w] = "work" /\ since'[w] = now /\ batch' = batch
    BY <1>4 DEF Return, TInv, IInv, TypeOK
  <2>2. IsFiniteSet(batch[w]) /\ Cardinality(batch[w]) <= Limit
    BY <1>1 DEF TInv, OnTime, OneBatch, Landed
  <2>3. Cardinality(batch[w]) \in Nat /\ Limit \in Nat /\ JobTime \in Nat /\ MaxHold \in Nat /\ Lead \in Nat
    BY <2>2, FS_CardinalityType, QueueAssumption
  <2>4. /\ Cardinality(batch[w]) * JobTime \in Nat /\ Limit * JobTime \in Nat
        /\ Cardinality(batch[w]) * JobTime <= Limit * JobTime
    BY <2>2, <2>3, Products
  <2>5. ASSUME NEW b \in batch[w]
        PROVE  /\ b.ver <= now + Lead /\ b.ver <= queue[b.job].ver
               /\ now + 1 + Cardinality(batch[w]) * JobTime <= b.ver + MaxHold + Limit * JobTime
    <3>1. since[w] <= b.ver /\ b.ver <= now + Lead /\ b.ver <= queue[b.job].ver /\ b.ver \in Nat
      BY <1>1, BatchTypes DEF TInv, IInv, OnTime, StampedInTime, NotAhead, Landed
    <3>2. now + 1 <= b.ver + MaxHold
      BY <1>1, <1>4, <2>3, <3>1 DEF Within
    <3> HIDE DEF Products
    <3> QED
      BY <1>1, <2>3, <2>4, <3>1, <3>2
  <2>6. OneBatch(w)' /\ StampedInTime(w)'
    BY <1>1, <2>1, <2>2 DEF OneBatch, StampedInTime
  <2>7. NotAhead(w)' /\ Proceeds(w)'
    BY <1>1, <2>1, <2>3, <2>5 DEF NotAhead, Proceeds
  <2>8. SweptIsOld(w)'
    BY <1>1 DEF TInv, OnTime, SweptIsOld, Enqueued
  <2> QED
    BY <2>6, <2>7, <2>8 DEF OnTime
<1> QED
  BY <1>3, <1>4

\* The next job of the batch has its JobTime from now on.
LEMMA NextJobOnTime ==
  ASSUME TInv, TypeOK', NEW w \in Workers, NEW b \in batch[w], w \in alive, Working(w), NextJob(w, b),
         Grows, UNCHANGED <<now, sweep, alive>>
  PROVE  OnTime(w)'
<1>1. /\ pc[w] = "work" /\ batch'[w] = batch[w] \ {b} /\ since'[w] = now
      /\ pc'[w] \in {"idle", "work"} /\ now \in Nat /\ since[w] \in Nat
  BY DEF Working, NextJob, TInv, IInv, TypeOK
<1>2. CASE pc'[w] = "idle"
  BY <1>1, <1>2, Unburdened
<1>3. CASE pc'[w] = "work"
  <2>1. IsFiniteSet(batch[w]) /\ Cardinality(batch[w]) <= Limit
    BY <1>1 DEF TInv, OnTime, OneBatch, Landed
  <2>2. IsFiniteSet(batch'[w]) /\ Cardinality(batch'[w]) = Cardinality(batch[w]) - 1
    BY <1>1, <2>1, FS_RemoveElement
  <2>3. /\ Cardinality(batch[w]) \in Nat /\ Cardinality(batch'[w]) \in Nat
        /\ Limit \in Nat /\ JobTime \in Nat /\ MaxHold \in Nat /\ Lead \in Nat
    BY <2>1, <2>2, FS_CardinalityType, QueueAssumption
  <2>4. Cardinality(batch[w]) > 0
    BY <2>2, <2>3
  <2>5. /\ Cardinality(batch[w]) * JobTime \in Nat /\ Limit * JobTime \in Nat
        /\ Cardinality(batch'[w]) * JobTime = Cardinality(batch[w]) * JobTime - JobTime
    BY <2>2, <2>3, <2>4, Products
  <2>6. now <= since[w] + JobTime /\ since[w] <= now
    BY <1>1 DEF TInv, OnTime, OneBatch, Proceeds
  <2>7. ASSUME NEW c \in batch'[w]
        PROVE  /\ c.ver <= now + Lead
               /\ now + 1 + Cardinality(batch'[w]) * JobTime <= c.ver + MaxHold + Limit * JobTime
    <3>1. /\ c.ver \in Nat /\ c.ver <= since[w] + Lead
          /\ since[w] + 1 + Cardinality(batch[w]) * JobTime <= c.ver + MaxHold + Limit * JobTime
      BY <1>1, BatchTypes DEF TInv, IInv, OnTime, Proceeds
    <3> QED
      BY <1>1, <2>3, <2>5, <2>6, <3>1
  <2>8. OneBatch(w)' /\ StampedInTime(w)'
    BY <1>1, <1>3, <2>1, <2>2, <2>3 DEF OneBatch, StampedInTime
  <2>9. Proceeds(w)'
    <3>1. now' = now /\ since'[w] = now /\ now' <= since'[w] + JobTime
      BY <1>1, <2>3
    <3>2. \A c \in batch'[w] :
            /\ c.ver <= since'[w] + Lead
            /\ since'[w] + 1 + Cardinality(batch'[w]) * JobTime <= c.ver + MaxHold + Limit * JobTime
      BY <2>7, <3>1
    <3> QED
      BY <3>1, <3>2 DEF Proceeds
  <2>10. NotAhead(w)'
    <3>1. ASSUME NEW c \in batch'[w] PROVE c.ver <= queue'[c.job].ver
      <4>1. /\ c \in batch[w] /\ c.job \in Enqueued /\ c.ver \in Nat /\ c.ver <= queue[c.job].ver
            /\ queue[c.job].ver \in Nat
        BY <1>1, BatchTypes DEF TInv, IInv, BatchInv, Enqueued, OnTime, NotAhead, Landed
      <4>2. queue'[c.job].ver >= queue[c.job].ver /\ queue'[c.job].ver \in Nat
        BY <4>1 DEF Grows, Enqueued, TypeOK
      <4> QED
        BY <4>1, <4>2
    <3> QED
      BY <3>1 DEF NotAhead
  <2>11. SweptIsOld(w)'
    BY DEF TInv, OnTime, SweptIsOld, Grows
  <2> QED
    BY <2>8, <2>9, <2>10, <2>11 DEF OnTime
<1> QED
  BY <1>1, <1>2, <1>3

\* A sweep reads claims older than staleClaimAfter.
LEMMA SweepSelectOnTime ==
  ASSUME TInv, TypeOK', NEW w \in Workers, SweepSelect(w)
  PROVE  OnTime(w)'
<1>1. w \in alive /\ UNCHANGED <<now, queue, pc, since, batch, alive>>
  BY DEF SweepSelect, loop
<1>2. PICK S \in Answers(Outdated) : sweep' = [sweep EXCEPT ![w] = {EntryOf(j) : j \in S}]
  BY DEF SweepSelect
<1>3. OneBatch(w)' /\ StampedInTime(w)' /\ NotAhead(w)' /\ Proceeds(w)'
  BY <1>1 DEF TInv, OnTime, OneBatch, StampedInTime, NotAhead, Proceeds
<1>4. sweep'[w] = {EntryOf(j) : j \in S}
  BY <1>2 DEF TInv, IInv, TypeOK
<1>5. ASSUME NEW j \in S
      PROVE  j \in Enqueued /\ queue[j].ver + Unit * Stale < now
  <2>1. j \in Jobs /\ \E r \in queue[j].rows : Outdated(r)
    BY DEF Answers
  <2>2. PICK r \in queue[j].rows : Outdated(r)
    BY <2>1
  <2>3. r = ProcessingRow(r.by, queue[j].ver)
    BY <2>1, <2>2 DEF TInv, IInv, ClaimRows, Outdated
  <2>4. r.at = queue[j].ver
    BY <2>3 DEF ProcessingRow
  <2>5. queue[j].ver \in Nat /\ now \in Nat
    BY <2>1 DEF TInv, IInv, TypeOK
  <2>6. Sec(queue[j].ver) + Stale < Sec(now)
    BY <2>2, <2>4 DEF Outdated
  <2> QED
    BY <2>1, <2>5, <2>6, SecondsApart DEF Enqueued
<1>6. SweptIsOld(w)'
  <2> SUFFICES ASSUME NEW b \in sweep'[w]
               PROVE  b.job \in Enqueued' /\ b.ver + Unit * Stale < now'
    BY DEF SweptIsOld
  <2>1. PICK j \in S : b = EntryOf(j)
    BY <1>4
  <2>2. b.job = j /\ b.ver = queue[j].ver
    BY <2>1 DEF EntryOf
  <2> QED
    BY <1>1, <1>5, <2>2 DEF Enqueued
<1> QED
  BY <1>3, <1>6 DEF OnTime

\* Steps of a worker's loop that end with nothing in hand, and the faults around them.
LEMMA QuietStepsOnTime ==
  ASSUME TInv, TypeOK', NEW w \in Workers,
         \/ Begin(w) \/ Acquire(w) \/ StatementFails(w) \/ SelectOwn(w)
         \/ SweepFails(w) \/ Crash(w) \/ Restart(w)
  PROVE  \A v \in Workers : OnTime(v)'
<1>1. now' = now /\ queue' = queue /\ now \in Nat /\ since[w] \in Nat
  BY DEF Begin, Acquire, StatementFails, SelectOwn, SweepFails, Crash, Restart, TInv, IInv, TypeOK
<1>2. Grows
  BY <1>1 DEF Grows, Enqueued, TInv, IInv, TypeOK
<1>3. /\ OthersGoOn(w)
      /\ \A v \in Workers \ {w} : sweep'[v] \subseteq sweep[v] /\ (v \in alive => v \in alive')
  BY DEF OthersGoOn, Begin, Acquire, StatementFails, SelectOwn, SweepFails, Crash, Restart, Abandon,
         loop, 
         TInv, IInv, TypeOK
<1>4. ASSUME Begin(w) \/ Acquire(w) \/ StatementFails(w) \/ SelectOwn(w) \/ Crash(w) PROVE OnTime(w)'
  <2>1. /\ pc'[w] \in {"idle", "wait", "own", "release", "select"}
        /\ pc'[w] # "idle" => w \in alive'
        /\ since'[w] = since[w] \/ since'[w] = now
        /\ sweep'[w] \subseteq sweep[w]
    BY <1>4 DEF Begin, Acquire, StatementFails, SelectOwn, Crash, Abandon, TInv, IInv, TypeOK
  <2> QED
    BY <1>1, <1>2, <2>1, Unburdened
<1>5. ASSUME SweepFails(w) \/ Restart(w) PROVE OnTime(w)'
  <2>1. /\ pc'[w] = pc[w] /\ since'[w] = since[w] /\ batch'[w] = batch[w]
        /\ sweep'[w] \subseteq sweep[w] /\ (w \in alive => w \in alive')
    BY <1>5 DEF SweepFails, Restart, loop, TInv, IInv, TypeOK
  <2> QED
    BY <1>1, <1>2, <2>1, Undisturbed
<1> QED
  BY <1>1, <1>2, <1>3, <1>4, <1>5, OneMoves

\* Steps that take a worker through its section, or begin a sweep, without a row.
LEMMA ReadingStepsOnTime ==
  ASSUME TInv, TypeOK', NEW w \in Workers,
         SelectPending(w) \/ Stamp(w) \/ Verify(w) \/ Return(w) \/ SweepSelect(w)
  PROVE  \A v \in Workers : OnTime(v)'
<1>1. now' = now /\ queue' = queue /\ alive' = alive
  BY DEF SelectPending, Stamp, Verify, Return, SweepSelect
<1>2. Grows
  BY <1>1 DEF Grows, Enqueued, TInv, IInv, TypeOK
<1>3. OthersGoOn(w) /\ \A v \in Workers \ {w} : sweep'[v] \subseteq sweep[v]
  BY DEF OthersGoOn, SelectPending, Stamp, Verify, Return, SweepSelect, loop, TInv, IInv, TypeOK
<1>4. OnTime(w)'
  BY SelectPendingOnTime, StampOnTime, VerifyOnTime, ReturnOnTime, SweepSelectOnTime
<1> QED
  BY <1>1, <1>2, <1>3, <1>4, OneMoves

\* A pending row for an entry in a batch or a sweep.
LEMMA DeferredGrows ==
  ASSUME TypeOK, NEW b \in Entry, b.job \in Enqueued, NEW retry \in Nat, Deferred(b, retry)
  PROVE  NothingNew
BY PendingIsNoClaim, TransitionGrows DEF Deferred, Transition

\* A leftover claim is handed back.
LEMMA ReleasesOnTime ==
  ASSUME TInv, TypeOK', NEW w \in Workers, ReleaseOwn(w) \/ ReleaseOwnUnacknowledged(w)
  PROVE  NothingNew /\ \A v \in Workers : OnTime(v)'
<1>1. PICK b \in batch[w] : Released(b)
  BY DEF ReleaseOwn, ReleaseOwnUnacknowledged
<1>2. b \in Entry /\ b.job \in Enqueued /\ now \in Nat /\ since[w] \in Nat
  BY BatchTypes DEF TInv, IInv, BatchInv, Enqueued
<1>3. NothingNew
  BY <1>1, <1>2, DeferredGrows DEF Released, TInv, IInv
<1>4. /\ OthersGoOn(w) /\ now' = now /\ sweep' = sweep /\ alive' = alive /\ w \in alive
      /\ pc'[w] \in {"idle", "release", "select"} /\ since'[w] = since[w]
  BY DEF OthersGoOn, ReleaseOwn, ReleaseOwnUnacknowledged, Abandon, TInv, IInv, TypeOK
<1>5. OnTime(w)'
  BY <1>2, <1>3, <1>4, Unburdened DEF NothingNew
<1> QED
  BY <1>3, <1>4, <1>5, OneMoves DEF NothingNew

\* The claims land, whether or not their worker hears of it.
LEMMA ClaimsOnTime ==
  ASSUME TInv, TypeOK', NEW w \in Workers, SendClaim(w) \/ SendClaimUnacknowledged(w)
  PROVE  NothingNew /\ \A v \in Workers : OnTime(v)'
<1>1. Claimed(w) /\ now' = now /\ sweep' = sweep /\ alive' = alive /\ OthersGoOn(w)
  BY DEF OthersGoOn, SendClaim, SendClaimUnacknowledged, Abandon, TInv, IInv, TypeOK
<1>2. NothingNew
  BY <1>1, ClaimGrows DEF TInv
<1>3. ASSUME SendClaimUnacknowledged(w) PROVE OnTime(w)'
  <2>1. pc'[w] = "idle" /\ since' = since /\ now \in Nat /\ since[w] \in Nat
    BY <1>3 DEF SendClaimUnacknowledged, Abandon, TInv, IInv, TypeOK
  <2> QED
    BY <1>1, <1>2, <2>1, Unburdened DEF NothingNew
<1> QED
  BY <1>1, <1>2, <1>3, SendClaimOnTime, OneMoves DEF NothingNew

\* A job ends, with its status written or not.
LEMMA EndsOnTime ==
  ASSUME TInv, TypeOK', NEW w \in Workers, FinishJob(w) \/ DeferHeldJob(w) \/ StatusLost(w)
  PROVE  NothingNew /\ \A v \in Workers : OnTime(v)'
<1>1. w \in alive /\ Working(w) /\ now' = now /\ sweep' = sweep /\ alive' = alive
  BY DEF FinishJob, DeferHeldJob, StatusLost
<1>2. \E b \in batch[w] :
        /\ NextJob(w, b)
        /\ \/ queue' = queue
           \/ \E status \in {"done", "failed"} : Transition(b, FinalRow(status, w, b.ver))
           \/ \E retry \in {now, now + Backoff} : Deferred(b, retry)
  <2>1. CASE FinishJob(w)
    BY <2>1 DEF FinishJob, Current, Transition
  <2>2. CASE DeferHeldJob(w)
    BY <2>2 DEF DeferHeldJob, Current
  <2>3. CASE StatusLost(w)
    BY <2>3 DEF StatusLost, Current
  <2> QED
    BY <2>1, <2>2, <2>3
<1>3. PICK b \in batch[w] :
        /\ NextJob(w, b)
        /\ \/ queue' = queue
           \/ \E status \in {"done", "failed"} : Transition(b, FinalRow(status, w, b.ver))
           \/ \E retry \in {now, now + Backoff} : Deferred(b, retry)
  BY <1>2
<1>4. b \in Entry /\ b.job \in Enqueued /\ b.ver \in Nat /\ now \in Nat /\ Backoff \in Nat
  BY BatchTypes, QueueAssumption DEF TInv, IInv, BatchInv, Enqueued
<1>5. NothingNew
  <2>1. CASE queue' = queue
    BY <2>1 DEF NothingNew, Grows, Enqueued, TInv, IInv, TypeOK
  <2>2. CASE \E status \in {"done", "failed"} : Transition(b, FinalRow(status, w, b.ver))
    <3>1. PICK status \in {"done", "failed"} : Transition(b, FinalRow(status, w, b.ver))
      BY <2>2
    <3>2. FinalRow(status, w, b.ver) \in Row
      BY <1>4, RowTypes
    <3> QED
      BY <1>4, <3>1, <3>2, TransitionGrows DEF TInv, IInv
  <2>3. CASE \E retry \in {now, now + Backoff} : Deferred(b, retry)
    <3>1. PICK retry \in {now, now + Backoff} : Deferred(b, retry)
      BY <2>3
    <3> QED
      BY <1>4, <3>1, DeferredGrows DEF TInv, IInv
  <2> QED
    BY <1>3, <2>1, <2>2, <2>3
<1>6. OnTime(w)'
  BY <1>1, <1>3, <1>5, NextJobOnTime DEF NothingNew
<1>7. OthersGoOn(w)
  BY <1>3 DEF OthersGoOn, NextJob, TInv, IInv, TypeOK
<1> QED
  BY <1>1, <1>5, <1>6, <1>7, OneMoves DEF NothingNew

\* A sweep queues a job again.
LEMMA SweepRequeueOnTime ==
  ASSUME TInv, TypeOK', NEW w \in Workers, SweepRequeue(w)
  PROVE  NothingNew /\ \A v \in Workers : OnTime(v)'
<1>1. PICK b \in sweep[w] : Deferred(b, now) /\ sweep' = [sweep EXCEPT ![w] = @ \ {b}]
  BY DEF SweepRequeue
<1>2. b \in Entry /\ b.job \in Enqueued /\ now \in Nat
  BY DEF TInv, IInv, TypeOK, OnTime, SweptIsOld
<1>3. NothingNew
  BY <1>1, <1>2, DeferredGrows DEF TInv, IInv
<1>4. /\ UNCHANGED <<now, pc, since, batch, alive>>
      /\ \A v \in Workers : sweep'[v] \subseteq sweep[v]
  BY <1>1 DEF SweepRequeue, loop, TInv, IInv, TypeOK
<1> QED
  BY <1>3, <1>4, Undisturbed DEF NothingNew

\* Every step keeps the invariant.
LEMMA NextOnTime ==
  ASSUME TInv, BatchesEndFirst, [Next]_vars
  PROVE  TInv'
<1>1. IInv' /\ TypeOK'
  BY NextIInv DEF TInv, IInv
<1>2. ASSUME NothingNew PROVE IsFiniteSet(Enqueued')
  BY <1>2, FS_Subset DEF TInv, NothingNew
<1>3. ASSUME queue' = queue PROVE NothingNew
  BY <1>3 DEF NothingNew, Grows, Enqueued, TInv, IInv, TypeOK
<1>4. CASE Tick
  <2>1. queue' = queue
    BY <1>4 DEF Tick
  <2> QED
    BY <1>1, <1>2, <1>3, <1>4, <2>1, TickOnTime DEF TInv
<1>5. CASE Expire \/ UNCHANGED vars
  <2>1. UNCHANGED <<now, queue, pc, since, batch, sweep, alive>>
    BY <1>5 DEF Expire, vars, loop
  <2> QED
    BY <1>1, <1>2, <1>3, <2>1, Undisturbed DEF TInv, NothingNew
<1>6. ASSUME NEW j \in Jobs, Enqueue(j) PROVE TInv'
  <2>1. PICK t \in (now - Skew)..(now + Skew) :
          /\ t >= 0
          /\ queue' = [queue EXCEPT ![j] = [ver |-> t, rows |-> {PendingRow(0)}]]
    BY <1>6 DEF Enqueue
  <2>2. /\ UNCHANGED <<now, pc, since, batch, sweep, alive>> /\ j \notin Enqueued
        /\ \A i \in Jobs : i # j => queue'[i] = queue[i]
    BY <1>6, <2>1 DEF Enqueue, loop, Enqueued, TInv, IInv, TypeOK
  <2>3. \A i \in Enqueued : i \in Enqueued' /\ queue'[i] = queue[i] /\ queue[i].ver \in Nat
    BY <2>2 DEF Enqueued, TInv, IInv, TypeOK
  <2>4. Grows
    BY <2>3 DEF Grows
  <2>5. Enqueued' \subseteq Enqueued \cup {j}
    BY <2>2 DEF Enqueued
  <2>6. IsFiniteSet(Enqueued \cup {j})
    BY FS_AddElement DEF TInv
  <2>7. IsFiniteSet(Enqueued')
    BY <2>5, <2>6, FS_Subset
  <2> QED
    BY <1>1, <2>2, <2>4, <2>7, Undisturbed DEF TInv
<1>7. ASSUME NEW w \in Workers,
             \/ Begin(w) \/ Acquire(w) \/ StatementFails(w) \/ SelectOwn(w)
             \/ SweepFails(w) \/ Crash(w) \/ Restart(w)
      PROVE  TInv'
  <2>1. queue' = queue
    BY <1>7 DEF Begin, Acquire, StatementFails, SelectOwn, SweepFails, Crash, Restart
  <2> QED
    BY <1>1, <1>2, <1>3, <1>7, <2>1, QuietStepsOnTime DEF TInv
<1>8. ASSUME NEW w \in Workers, SelectPending(w) \/ Stamp(w) \/ Verify(w) \/ Return(w) \/ SweepSelect(w)
      PROVE  TInv'
  <2>1. queue' = queue
    BY <1>8 DEF SelectPending, Stamp, Verify, Return, SweepSelect
  <2> QED
    BY <1>1, <1>2, <1>3, <1>8, <2>1, ReadingStepsOnTime DEF TInv
<1>9. ASSUME NEW w \in Workers,
             \/ ReleaseOwn(w) \/ ReleaseOwnUnacknowledged(w) \/ SendClaim(w) \/ SendClaimUnacknowledged(w)
             \/ FinishJob(w) \/ DeferHeldJob(w) \/ StatusLost(w) \/ SweepRequeue(w)
      PROVE  TInv'
  <2>1. NothingNew /\ \A v \in Workers : OnTime(v)'
    BY <1>1, <1>9, ReleasesOnTime, ClaimsOnTime, EndsOnTime, SweepRequeueOnTime
  <2> QED
    BY <1>1, <1>2, <2>1 DEF TInv
<1> QED
  BY <1>4, <1>5, <1>6, <1>7, <1>8, <1>9 DEF Next, ClaimStep, Fault

\* A sweep requeues no claim that a live worker is still working on, for any batch size and
\* number of workers and whatever has been lost, delayed or overruled before, if a claim section
\* and a whole batch fit into staleClaimAfter.
THEOREM SweepsSpareTheLiving ==
  ASSUME BatchesEndFirst
  PROVE  Spec => []SweepSparesTheLiving
<1>1. Init => TInv
  <2> SUFFICES ASSUME Init PROVE TInv
    OBVIOUS
  <2>1. Enqueued = {} /\ IsFiniteSet({})
    BY FS_EmptySet DEF Init, Enqueued
  <2>2. \A w \in Workers : OnTime(w)
    BY DEF Init, OnTime, OneBatch, StampedInTime, NotAhead, Proceeds, SweptIsOld, Landed
  <2> QED
    BY <2>1, <2>2, InitIInv DEF TInv
<1>2. TInv /\ [Next]_vars => TInv'
  BY NextOnTime
<1>3. TInv => SweepSparesTheLiving
  <2> SUFFICES ASSUME TInv, NEW w \in Workers, NEW b \in sweep[w], queue[b.job].ver = b.ver,
                      NEW v \in alive, Holds(v, b.job)
               PROVE  FALSE
    BY DEF SweepSparesTheLiving
  <2>1. v \in Workers /\ pc[v] = "work"
    BY DEF Holds, Working, TInv, IInv, TypeOK
  <2>2. PICK c \in batch[v] : c.job = b.job
    BY DEF Holds, JobsOf
  <2>3. b.ver + Unit * Stale < now
    BY DEF TInv, OnTime, SweptIsOld
  <2>4. c.ver <= b.ver
    BY <2>1, <2>2 DEF TInv, OnTime, NotAhead, Landed
  <2>5. /\ now <= since[v] + JobTime
        /\ since[v] + 1 + Cardinality(batch[v]) * JobTime <= c.ver + MaxHold + Limit * JobTime
    BY <2>1, <2>2 DEF TInv, OnTime, Proceeds
  <2>6. IsFiniteSet(batch[v]) /\ Cardinality(batch[v]) \in Nat
    BY <2>1, FS_CardinalityType DEF TInv, OnTime, OneBatch, Landed
  <2>7. Cardinality(batch[v]) > 0
    BY <2>2, <2>6, FS_EmptySet
  <2>8. Limit \in Nat /\ JobTime \in Nat /\ MaxHold \in Nat /\ Unit * Stale \in Nat
    BY QueueAssumption
  <2>9. /\ Cardinality(batch[v]) * JobTime \in Nat /\ Limit * JobTime \in Nat
        /\ JobTime <= Cardinality(batch[v]) * JobTime
    BY <2>6, <2>7, <2>8, Products
  <2>10. b.ver \in Nat /\ c.ver \in Nat /\ now \in Nat /\ since[v] \in Nat
    BY <2>1, <2>2 DEF TInv, IInv, TypeOK, Entry
  <2>11. MaxHold + Limit * JobTime <= Unit * Stale + 1
    BY DEF BatchesEndFirst
  <2> QED
    BY <2>3, <2>4, <2>5, <2>8, <2>9, <2>10, <2>11
<1> QED
  BY <1>1, <1>2, <1>3, PTL DEF Spec

-----------------------------------------------------------------------------
(* The refinement of ClaimLease: every step of WithLock, of ClaimJobs and  *)
(* of the faults around them is a step of the abstract lock, or none.      *)

LockUnchanged == UNCHANGED <<LockHolder, LockPhase, LockAge>>

\* Nobody comes to the lock or leaves it.
LEMMA LockStutters ==
  ASSUME IInv, now' = now, lease' = lease,
         \A v \in Workers : /\ Inside(v)' <=> Inside(v)
                            /\ Waiting(v)' <=> Waiting(v)
                            /\ Inside(v) \/ Waiting(v) => since'[v] = since[v]
  PROVE  LockUnchanged
<1>1. LockHolder' = LockHolder
  <2>1. lease.holder \in Workers \cup {None}
    BY DEF IInv, TypeOK
  <2> QED
    BY <2>1 DEF LockHolder
<1>2. LockPhase' = LockPhase
  BY DEF LockPhase
<1>3. LockAge' = LockAge
  BY DEF LockAge
<1> QED
  BY <1>1, <1>2, <1>3 DEF LockUnchanged

\* A worker ends its section or its attempt, with or without giving the lease
\* back.
LEMMA LockLeft ==
  ASSUME IInv, NEW w \in Workers, now' = now, OthersGoOn(w), lease' \in {lease, Unlocked(w)},
         Inside(w) \/ Waiting(w), ~Inside(w)', ~Waiting(w)'
  PROVE  Lock!Leave(w)
<1>1. \A v \in Workers \ {w} : /\ Inside(v)' <=> Inside(v)
                               /\ Waiting(v)' <=> Waiting(v)
                               /\ since'[v] = since[v]
  BY DEF OthersGoOn, Inside, Waiting
<1>2. LockPhase[w] # "out"
  BY DEF LockPhase, Inside, Waiting
<1>3. LockPhase' = [LockPhase EXCEPT ![w] = "out"]
  BY <1>1 DEF LockPhase
<1>4. LockAge' = [LockAge EXCEPT ![w] = 0]
  BY <1>1 DEF LockAge
<1>5. LockHolder' = IF LockHolder = w THEN None ELSE LockHolder
  <2>1. lease.holder \in Workers \cup {None} /\ w # None
    BY QueueAssumption DEF IInv, TypeOK
  <2>2. lease'.holder = lease.holder \/ (lease.holder = w /\ lease'.holder = None)
    BY DEF Unlocked
  <2> QED
    BY <1>1, <2>1, <2>2 DEF LockHolder
<1> QED
  BY <1>2, <1>3, <1>4, <1>5 DEF Lock!Leave

\* The section's worker gives it up.
LEMMA LockAbandoned ==
  ASSUME IInv, NEW w \in Workers, now' = now, pc[w] \in Section, Abandon(w)
  PROVE  Lock!Leave(w)
<1>1. OthersGoOn(w) /\ lease' = Unlocked(w) /\ pc'[w] = "idle"
  BY DEF Abandon, OthersGoOn, IInv, TypeOK
<1> QED
  BY <1>1, LockLeft DEF Inside, Waiting, Section

\* Time passes for those who have come to the lock.
LEMMA TickTicks ==
  ASSUME IInv, Tick
  PROVE  Lock!Tick
<1>1. now' = now + 1 /\ UNCHANGED <<pc, since, lease>>
  BY DEF Tick, loop
<1>2. now \in Nat /\ \A w \in Workers : since[w] \in Nat
  BY DEF IInv, TypeOK
<1>3. LockHolder' = LockHolder /\ LockPhase' = LockPhase
  BY <1>1 DEF LockHolder, LockPhase, Inside, Waiting
<1>4. ASSUME NEW w \in Workers
      PROVE  LockAge'[w] = IF LockPhase[w] = "out" \/ LockAge[w] >= Handover
                             THEN LockAge[w] ELSE LockAge[w] + 1
  <2>1. LockPhase[w] = "out" <=> ~Inside(w) /\ ~Waiting(w)
    BY DEF LockPhase
  <2>2. /\ LockAge[w] = IF ~Inside(w) /\ ~Waiting(w) THEN 0
                        ELSE IF now - since[w] < Handover THEN now - since[w] ELSE Handover
        /\ LockAge'[w] = IF ~Inside(w) /\ ~Waiting(w) THEN 0
                         ELSE IF now' - since[w] < Handover THEN now' - since[w] ELSE Handover
    <3>1. LockAge' = [v \in Workers |->
                        IF ~Inside(v) /\ ~Waiting(v) THEN 0
                        ELSE IF now' - since[v] < Handover THEN now' - since[v] ELSE Handover]
      <4>1. pc' = pc /\ since' = since
        BY <1>1
      <4> QED
        BY <4>1 DEF LockAge, Inside, Waiting
    <3>2. LockAge[w] = IF ~Inside(w) /\ ~Waiting(w) THEN 0
                       ELSE IF now - since[w] < Handover THEN now - since[w] ELSE Handover
      BY DEF LockAge
    <3> QED
      BY <3>1, <3>2
  <2> QED
    BY <1>1, <1>2, <2>1, <2>2, QueueAssumption
<1>5. LockAge' = [w \in Workers |-> IF LockPhase[w] = "out" \/ LockAge[w] >= Handover
                                      THEN LockAge[w] ELSE LockAge[w] + 1]
  BY <1>4 DEF LockAge
<1> QED
  BY <1>3, <1>5 DEF Lock!Tick, Lock!Overdue

\* WithLock's attempt begins with its clock at zero.
LEMMA BeginAttempts ==
  ASSUME IInv, NEW w \in Workers, Begin(w)
  PROVE  Lock!Attempt(w)
<1>1. /\ pc[w] = "idle" /\ pc' = [pc EXCEPT ![w] = "wait"] /\ since' = [since EXCEPT ![w] = now]
      /\ now' = now /\ lease' = lease /\ now \in Nat /\ Handover \in Nat
      /\ pc \in [Workers -> Section \cup {"idle", "wait", "work"}] /\ since \in [Workers -> Nat]
  BY QueueAssumption DEF Begin, IInv, TypeOK
<1>2. /\ ~Inside(w) /\ ~Waiting(w) /\ ~Inside(w)' /\ Waiting(w)'
      /\ \A v \in Workers \ {w} : /\ Inside(v)' <=> Inside(v)
                                  /\ Waiting(v)' <=> Waiting(v)
                                  /\ since'[v] = since[v]
  BY <1>1 DEF Inside, Waiting, Section
<1>3. LockPhase[w] = "out" /\ LockPhase' = [LockPhase EXCEPT ![w] = "wait"]
  BY <1>2 DEF LockPhase
<1>4. LockAge' = LockAge
  BY <1>1, <1>2 DEF LockAge
<1>5. LockHolder' = LockHolder
  <2>1. lease.holder \in Workers \cup {None}
    BY DEF IInv, TypeOK
  <2> QED
    BY <1>1, <1>2, <2>1 DEF LockHolder
<1> QED
  BY <1>3, <1>4, <1>5 DEF Lock!Attempt

\* The lease is obtained when nobody has it.
LEMMA AcquireEnters ==
  ASSUME IInv, NEW w \in Workers, Acquire(w)
  PROVE  Lock!Enter(w)
<1>1. /\ pc[w] = "wait" /\ pc' = [pc EXCEPT ![w] = "own"] /\ lease.holder = None
      /\ lease' = [holder |-> w, start |-> since[w]] /\ UNCHANGED <<now, since>>
      /\ pc \in [Workers -> Section \cup {"idle", "wait", "work"}]
  BY DEF Acquire, IInv, TypeOK
<1>2. /\ ~Inside(w) /\ Waiting(w) /\ Inside(w)' /\ ~Waiting(w)'
      /\ \A v \in Workers \ {w} : (Inside(v)' <=> Inside(v)) /\ (Waiting(v)' <=> Waiting(v))
  BY <1>1 DEF Inside, Waiting, Section
<1>3. LockPhase[w] = "wait" /\ LockPhase' = [LockPhase EXCEPT ![w] = "in"]
  BY <1>2 DEF LockPhase
<1>4. LockAge' = LockAge
  BY <1>1, <1>2 DEF LockAge
<1>5. LockHolder = None /\ LockHolder' = w
  BY <1>1, <1>2, QueueAssumption DEF LockHolder
<1> QED
  BY <1>3, <1>4, <1>5 DEF Lock!Enter

\* A lease is taken away from a worker that has left its section, or is overdue
\* in it.
LEMMA ExpireExpires ==
  ASSUME IInv, Expire
  PROVE  Lock!Expire \/ LockUnchanged
<1>1. /\ lease.holder # None /\ now >= lease.start + Handover
      /\ lease' = [holder |-> None, start |-> lease.start]
      /\ UNCHANGED <<now, pc, since>>
  BY DEF Expire, loop
<1>2. LockHolder' = None /\ LockPhase' = LockPhase /\ LockAge' = LockAge
  BY <1>1 DEF LockHolder, LockPhase, LockAge, Inside, Waiting
<1>3. CASE ~Inside(lease.holder)
  BY <1>2, <1>3 DEF LockHolder, LockUnchanged
<1>4. CASE Inside(lease.holder)
  <2>1. lease.holder \in Workers /\ LockHolder = lease.holder
    BY <1>1, <1>4 DEF LockHolder, IInv, TypeOK
  <2>2. now >= since[lease.holder] + Handover
    BY <1>1, <1>4, <2>1 DEF IInv, LeaseInv, LostLease, Inside
  <2>3. /\ now \in Nat /\ since[lease.holder] \in Nat /\ Handover \in Nat
    BY <2>1, QueueAssumption DEF IInv, TypeOK
  <2>4. LockAge[lease.holder] = Handover
    BY <1>4, <2>1, <2>2, <2>3 DEF LockAge
  <2> QED
    BY <1>1, <1>2, <2>1, <2>3, <2>4 DEF Lock!Expire, Lock!Overdue
<1> QED
  BY <1>3, <1>4

\* The steps within a section, within the work and outside of both.
LEMMA QuietStepsStutter ==
  ASSUME IInv, NEW w \in Workers,
         \/ SelectOwn(w) \/ ReleaseOwn(w) \/ SelectPending(w) \/ Stamp(w) \/ SendClaim(w)
         \/ Verify(w) \/ FinishJob(w) \/ DeferHeldJob(w) \/ StatusLost(w)
         \/ SweepSelect(w) \/ SweepRequeue(w) \/ SweepFails(w) \/ Restart(w)
  PROVE  LockUnchanged
<1>1. pc \in [Workers -> Section \cup {"idle", "wait", "work"}] /\ since \in [Workers -> Nat]
  BY DEF IInv, TypeOK
<1>2. now' = now /\ lease' = lease
  BY DEF SelectOwn, ReleaseOwn, SelectPending, Stamp, SendClaim, Verify, FinishJob,
         DeferHeldJob, StatusLost, SweepSelect, SweepRequeue, SweepFails, Restart
<1>3. CASE \/ SelectOwn(w) \/ ReleaseOwn(w) \/ SelectPending(w) \/ Stamp(w) \/ SendClaim(w)
           \/ Verify(w)
  <2>1. /\ pc[w] \in Section /\ pc'[w] \in Section /\ since' = since
        /\ \A v \in Workers \ {w} : pc'[v] = pc[v]
    BY <1>1, <1>3 DEF SelectOwn, ReleaseOwn, SelectPending, Stamp, SendClaim, Verify, Section
  <2>2. \A v \in Workers : (Inside(v)' <=> Inside(v)) /\ (Waiting(v)' <=> Waiting(v))
    BY <2>1 DEF Inside, Waiting, Section
  <2> QED
    BY <1>2, <2>1, <2>2, LockStutters
<1>4. CASE FinishJob(w) \/ DeferHeldJob(w) \/ StatusLost(w)
  <2>1. PICK b : NextJob(w, b)
    BY <1>4 DEF FinishJob, DeferHeldJob, StatusLost
  <2>2. /\ pc[w] = "work" /\ pc'[w] \in {"idle", "work"}
        /\ \A v \in Workers \ {w} : pc'[v] = pc[v] /\ since'[v] = since[v]
    BY <1>1, <1>4, <2>1 DEF FinishJob, DeferHeldJob, StatusLost, Working, NextJob
  <2>3. \A v \in Workers : /\ Inside(v)' <=> Inside(v)
                           /\ Waiting(v)' <=> Waiting(v)
                           /\ Inside(v) \/ Waiting(v) => since'[v] = since[v]
    BY <2>2 DEF Inside, Waiting, Section
  <2> QED
    BY <1>2, <2>3, LockStutters
<1>5. CASE SweepSelect(w) \/ SweepRequeue(w) \/ SweepFails(w) \/ Restart(w)
  <2>1. pc' = pc /\ since' = since
    BY <1>5 DEF SweepSelect, SweepRequeue, SweepFails, Restart, loop
  <2> QED
    BY <1>2, <2>1, LockStutters DEF Inside, Waiting
<1> QED
  BY <1>3, <1>4, <1>5

\* The steps with which a section or an attempt ends.
LEMMA EndsLeave ==
  ASSUME IInv, NEW w \in Workers,
         \/ Return(w) \/ StatementFails(w) \/ ReleaseOwnUnacknowledged(w)
         \/ SendClaimUnacknowledged(w) \/ Crash(w)
  PROVE  Lock!Leave(w) \/ LockUnchanged
<1>1. /\ pc \in [Workers -> Section \cup {"idle", "wait", "work"}]
      /\ since \in [Workers -> Nat] /\ batch \in [Workers -> SUBSET Entry]
  BY DEF IInv, TypeOK
<1>2. CASE Return(w)
  <2>1. OthersGoOn(w) /\ pc'[w] \in {"idle", "work"}
    BY <1>1, <1>2 DEF Return, OthersGoOn
  <2>2. pc[w] = "return" /\ now' = now /\ lease' = Unlocked(w)
    BY <1>2 DEF Return
  <2> QED
    BY <2>1, <2>2, LockLeft DEF Inside, Waiting, Section
<1>3. CASE StatementFails(w) \/ ReleaseOwnUnacknowledged(w) \/ SendClaimUnacknowledged(w)
  BY <1>3, LockAbandoned DEF StatementFails, ReleaseOwnUnacknowledged, SendClaimUnacknowledged,
                             Section
<1>4. CASE Crash(w)
  <2>1. OthersGoOn(w) /\ pc'[w] = "idle" /\ UNCHANGED <<now, lease, since>>
    BY <1>1, <1>4 DEF Crash, OthersGoOn
  <2>2. CASE Inside(w) \/ Waiting(w)
    BY <2>1, <2>2, LockLeft DEF Inside, Waiting, Section
  <2>3. CASE ~Inside(w) /\ ~Waiting(w)
    <3>1. \A v \in Workers : (Inside(v)' <=> Inside(v)) /\ (Waiting(v)' <=> Waiting(v))
      BY <2>1, <2>3 DEF OthersGoOn, Inside, Waiting, Section
    <3> QED
      BY <2>1, <3>1, LockStutters
  <2> QED
    BY <2>2, <2>3
<1> QED
  BY <1>2, <1>3, <1>4

\* Every step of the queue is one of the abstract lock, or none.
LEMMA StepRefines ==
  ASSUME IInv, [Next]_vars
  PROVE  [Lock!Next]_<<LockHolder, LockPhase, LockAge>>
<1>1. SUFFICES Lock!Next \/ LockUnchanged
  BY DEF LockUnchanged
<1>2. CASE Tick
  BY <1>2, TickTicks DEF Lock!Next
<1>3. CASE Expire
  BY <1>3, ExpireExpires DEF Lock!Next
<1>4. ASSUME NEW j \in Jobs, Enqueue(j) PROVE LockUnchanged
  BY <1>4, LockStutters DEF Enqueue, loop, Inside, Waiting
<1>5. ASSUME NEW w \in Workers, Begin(w) \/ Acquire(w) PROVE Lock!Next
  BY <1>5, BeginAttempts, AcquireEnters DEF Lock!Next
<1>6. ASSUME NEW w \in Workers,
             \/ ClaimStep(w) \/ StatementFails(w) \/ FinishJob(w) \/ DeferHeldJob(w)
             \/ SweepSelect(w) \/ SweepRequeue(w) \/ Fault(w) \/ Restart(w)
      PROVE  Lock!Next \/ LockUnchanged
  <2>1. Lock!Leave(w) \/ LockUnchanged
    BY <1>6, QuietStepsStutter, EndsLeave DEF ClaimStep, Fault
  <2> QED
    BY <2>1 DEF Lock!Next
<1>7. CASE UNCHANGED vars
  BY <1>7, LockStutters DEF vars, Inside, Waiting
<1> QED
  BY <1>2, <1>3, <1>4, <1>5, <1>6, <1>7 DEF Next

\* Nobody has come to the lock initially.
LEMMA InitRefines ==
  Init => Lock!Init
BY DEF Init, Lock!Init, LockHolder, LockPhase, LockAge, Inside, Waiting, Section

\* The claim section that ClaimJobs runs under the lease is a section of the
\* abstract claim lock, whatever is paused, lost, abandoned or dead.
THEOREM QueueImplementsLease ==
  Spec => IsClaimLease
<1> QED
  BY InitRefines, StepRefines, Invariance, PTL DEF Spec, IsClaimLease, Lock!Spec, Lock!leaseVars

\* Whatever implements the claim lock keeps sections that are not overdue apart, by
\* LeaseInv, which every step of the abstract lock keeps.
LEMMA SectionsAreExclusive ==
  ASSUME Lock!LeaseAssumption PROVE Lock!Spec => []Lock!SectionsExclude
<1> USE DEF Lock!LeaseAssumption, Lock!LeaseInv, Lock!Overdue
<1>1. Lock!Init => Lock!LeaseInv
  BY DEF Lock!Init
<1>2. Lock!LeaseInv /\ [Lock!Next]_<<LockHolder, LockPhase, LockAge>> => Lock!LeaseInv'
  <2> SUFFICES ASSUME Lock!LeaseInv, [Lock!Next]_<<LockHolder, LockPhase, LockAge>>
               PROVE  Lock!LeaseInv'
    OBVIOUS
  <2>1. CASE Lock!Tick
    BY <2>1 DEF Lock!Tick
  <2>2. CASE Lock!Expire
    BY <2>2 DEF Lock!Expire
  <2>3. ASSUME NEW w \in Workers, Lock!Attempt(w) PROVE Lock!LeaseInv'
    BY <2>3 DEF Lock!Attempt
  <2>4. ASSUME NEW w \in Workers, Lock!Enter(w) PROVE Lock!LeaseInv'
    BY <2>4 DEF Lock!Enter
  <2>5. ASSUME NEW w \in Workers, Lock!Leave(w) PROVE Lock!LeaseInv'
    BY <2>5 DEF Lock!Leave
  <2>6. CASE UNCHANGED <<LockHolder, LockPhase, LockAge>>
    BY <2>6
  <2> QED
    BY <2>1, <2>2, <2>3, <2>4, <2>5, <2>6 DEF Lock!Next
<1>3. Lock!LeaseInv => Lock!SectionsExclude
  BY DEF Lock!SectionsExclude
<1> QED
  BY <1>1, <1>2, <1>3, PTL DEF Lock!Spec, Lock!leaseVars

\* What the abstract lock promises, the queue keeps: two workers are inside ClaimJobs only
\* if one came to the lock Handover ago or longer.
THEOREM ClaimSectionsExclude ==
  Spec => []Lock!SectionsExclude
<1>1. Lock!LeaseAssumption
  BY QueueAssumption DEF Lock!LeaseAssumption
<1>2. Lock!Spec => []Lock!SectionsExclude
  BY <1>1, SectionsAreExclusive
<1> QED
  BY <1>2, QueueImplementsLease DEF IsClaimLease

=============================================================================
