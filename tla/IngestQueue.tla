------------------------------ MODULE IngestQueue ------------------------------
(***************************************************************************)
(* The ClickHouse job queue (internal/clickhouse/queue.go), the claim lock *)
(* around it (internal/claimlock) and the parsing worker's main loop       *)
(* (cmd/parsing-worker/main.go).                                           *)
(*                                                                         *)
(* ingestion_queue is append-only: every transition of a job is a new row, *)
(* and the state of a job is the row with the largest created_at (argMax). *)
(* Two rows of one job may carry the same created_at; argMax then answers  *)
(* either.  queue[j] therefore keeps the largest created_at written for j  *)
(* and the set of rows that carry it.                                      *)
(*                                                                         *)
(* Every SQL statement is one atomic step; everything between two          *)
(* statements interleaves.                                                 *)
(***************************************************************************)
EXTENDS Integers, FiniteSets

CONSTANTS
  Workers,      \* worker ids (WORKER_ID, by default the pod's host name)
  Jobs,         \* job ids (a fresh UUID each)
  None,         \* claimed_by = ''
  Limit,        \* WORKER_BATCH_SIZE, the LIMIT of the claim query
  Unit,         \* clock ticks (created_at's milliseconds) per second
  Stale,        \* staleClaimAfter, in seconds
  MaxHold,      \* maxHold, in ticks
  Handover,     \* least ticks from a lock attempt to the takeover of its lease
  Lead,         \* ticks a row's created_at may be ahead of the server's clock
  Skew,         \* ticks an enqueuing process's clock may be off the server's
  JobTime,      \* ticks a live worker needs at most for one job
  Backoff,      \* ticks until a rate limit resets
  CalmFrom,     \* bound: no new job, rate limit, delay or fault from this tick on
  Horizon       \* bound on the server's clock

ASSUME QueueAssumption ==
  /\ None \notin Workers
  /\ Limit \in Nat \ {0} /\ Unit \in Nat \ {0}
  /\ Stale \in Nat /\ Horizon \in Nat /\ Backoff \in Nat /\ JobTime \in Nat
  /\ MaxHold \in Nat /\ Handover \in Nat /\ Lead \in Nat
  /\ Skew \in 0..Lead /\ CalmFrom \in Nat
  \* renewDeadline + leaseDuration exceed maxHold by seconds; client clocks
  \* are synchronised to better than that.
  /\ MaxHold + Lead <= Handover

VARIABLES
  now,          \* the ClickHouse server's clock
  queue,        \* per job: largest created_at and the rows that carry it
  born,         \* per job: created_at of its first row (min(created_at))
  pc,           \* per worker: where its main loop is
  since,        \* per worker: when its lock attempt or its current job began
  batch,        \* per worker: the jobs read by the statements of its loop
  sweep,        \* per worker: what its stale-claim sweep still has to requeue
  alive,        \* the workers whose process runs
  lease,        \* holder of the claim lock and the start of its attempt
  overruled     \* history: jobs put back to pending on outdated news: the claim
                \* a sweep or a release had read was no longer theirs to requeue

vars == <<now, queue, born, pc, since, batch, sweep, alive, lease, overruled>>
loop == <<pc, since, batch>>

-----------------------------------------------------------------------------
\* DateTime columns and now() keep whole seconds only.
Sec(t) == t \div Unit

Later(a, b) == IF a >= b THEN a ELSE b

Statuses == {"pending", "processing", "done", "failed"}
Row == [status : Statuses, by : Workers \cup {None}, at : Nat, retry : Nat]

PendingRow(retry)    == [status |-> "pending",    by |-> None, at |-> 0,  retry |-> retry]
ProcessingRow(w, at) == [status |-> "processing", by |-> w,    at |-> at, retry |-> 0]
FinalRow(status, w, at) == [status |-> status,    by |-> w,    at |-> at, retry |-> 0]

\* Mutations: the last insert wins; no millisecond added; a sign error.
LastInsertWins(q, ver, row) == [ver |-> ver, rows |-> {row}]
ServerClockOnly(ver) == now
MillisecondBack(ver) == ver - 1

\* What one inserted row does to the state argMax reports for its job.
Appended(q, ver, row) ==
  CASE ver > q.ver -> [ver |-> ver, rows |-> {row}]
    [] ver = q.ver -> [ver |-> ver, rows |-> q.rows \cup {row}]
    [] OTHER       -> q

\* created_at of a transition: greatest(now64(3), previous + 1 ms).
NextVersion(ver) == Later(now, ver + 1)

\* Bound: the transitions of one job never outrun the server's clock by more
\* than Lead, because each takes a round trip.
InLead(ver) == ver <= now + Lead

\* A job's entry in a query result: its id and the version that was read.
Entry == [job : Jobs, ver : Nat]
EntryOf(j) == [job |-> j, ver |-> queue[j].ver]
JobsOf(S) == {b.job : b \in S}

\* The job sets a query for latest rows with P may report: every job that is
\* certain to match, and any of those with a tie of which only some rows match.
Answers(P(_)) ==
  {S \in SUBSET {j \in Jobs : \E r \in queue[j].rows : P(r)} :
     \A j \in Jobs : queue[j].rows # {} /\ (\A r \in queue[j].rows : P(r)) => j \in S}

OwnProcessing(w, row) == row.status = "processing" /\ row.by = w
Claimable(row) == row.status = "pending" /\ Sec(row.retry) <= Sec(now)
\* Mutations: the interval is left out; its unit is confused.
NoInterval(row)   == row.status = "processing" /\ Sec(row.at) < Sec(now)
Milliseconds(row) == row.status = "processing" /\ Sec(row.at) + 1000 * Stale < Sec(now)
Outdated(row) == row.status = "processing" /\ Sec(row.at) + Stale < Sec(now)

\* ORDER BY min_created ASC LIMIT n over the jobs in S.
OldestOf(S, n) ==
  {T \in SUBSET S :
     /\ Cardinality(T) = IF Cardinality(S) < n THEN Cardinality(S) ELSE n
     /\ \A i \in T, j \in S \ T : born[i] <= born[j]}

-----------------------------------------------------------------------------
Init ==
  /\ now = 0
  /\ queue = [j \in Jobs |-> [ver |-> 0, rows |-> {}]]
  /\ born = [j \in Jobs |-> 0]
  /\ pc = [w \in Workers |-> "idle"]
  /\ since = [w \in Workers |-> 0]
  /\ batch = [w \in Workers |-> {}]
  /\ sweep = [w \in Workers |-> {}]
  /\ alive = Workers
  /\ lease = [holder |-> None, start |-> 0]
  /\ overruled = {}

Working(w) == pc[w] = "work"
Holds(w, j) == Working(w) /\ j \in JobsOf(batch[w])

\* The steps of ClaimJobs under the claim lock.
Section == {"own", "release", "select", "stamp", "send", "verify", "return"}

\* A live worker has read j in its claim section or is to process it.
Busy(w, j) == pc[w] \in Section \cup {"work"} /\ j \in JobsOf(batch[w])

\* Environment: a live worker finishes each job within JobTime of starting it,
\* and without a fault a claim section or a sweep takes less than a tick; a
\* worker whose next row would be too far ahead waits for the clock.
InTime(w) ==
  \/ \E b \in sweep[w] \cup (IF pc[w] \in {"release", "stamp", "work"} THEN batch[w] ELSE {}) :
       ~InLead(NextVersion(b.ver))
  \/ /\ Working(w) /\ w \in alive => now < since[w] + JobTime
     /\ pc[w] \in Section \/ sweep[w] # {} => now < CalmFrom

Tick ==
  /\ now < Horizon
  /\ \A w \in Workers : InTime(w)
  /\ now' = now + 1
  /\ UNCHANGED <<queue, born, loop, sweep, alive, lease, overruled>>

\* The watcher, the gateway or a worker enqueues a new job.  created_at is the
\* enqueuing process's clock, up to Skew off the server's.
Enqueue(j) ==
  /\ queue[j].rows = {} /\ now < CalmFrom
  /\ \E t \in (now - Skew)..(now + Skew) :
       /\ t >= 0
       /\ queue' = [queue EXCEPT ![j] = [ver |-> t, rows |-> {PendingRow(0)}]]
       /\ born' = [born EXCEPT ![j] = t]
  /\ UNCHANGED <<now, loop, sweep, alive, lease, overruled>>

-----------------------------------------------------------------------------
(* ClaimJobs under the claim lock.                                         *)

\* WithLock notes its start time before it waits for the lease.
Begin(w) ==
  /\ w \in alive /\ pc[w] = "idle"
  /\ pc' = [pc EXCEPT ![w] = "wait"]
  /\ since' = [since EXCEPT ![w] = now]
  /\ UNCHANGED <<now, queue, born, batch, sweep, alive, lease, overruled>>

Acquire(w) ==
  /\ w \in alive /\ pc[w] = "wait" /\ lease.holder = None
  /\ lease' = [holder |-> w, start |-> since[w]]
  /\ pc' = [pc EXCEPT ![w] = "own"]
  /\ UNCHANGED <<now, queue, born, since, batch, sweep, alive, overruled>>

\* Somebody else may take the lease only Handover ticks after the attempt that
\* obtained it: the holder renews, or is a paused or dead process.
Expire ==
  /\ lease.holder # None /\ now >= lease.start + Handover
  /\ lease' = [holder |-> None, start |-> lease.start]
  /\ UNCHANGED <<now, queue, born, loop, sweep, alive, overruled>>

\* Mutation: the lease is given back without asking whose it is.
FreedForAll(w) == [holder |-> None, start |-> lease.start]

Unlocked(w) == IF lease.holder = w THEN [holder |-> None, start |-> lease.start] ELSE lease

\* Mutation: the callback runs under the caller's context.
NoDeadline(w) == w \in alive

\* The callback's context ends maxHold after the start: later statements fail.
Within(w) == now < since[w] + MaxHold

\* The section ends without a result and the loop sleeps.
Abandon(w) ==
  /\ pc' = [pc EXCEPT ![w] = "idle"]
  /\ batch' = [batch EXCEPT ![w] = {}]
  /\ lease' = Unlocked(w)
  /\ UNCHANGED since

\* A statement of the section fails without reaching the server: always once
\* the deadline is over, before it by a fault.
StatementFails(w) ==
  /\ w \in alive /\ pc[w] \in {"own", "release", "select", "stamp", "send", "verify"}
  /\ Within(w) => now < CalmFrom
  /\ Abandon(w)
  /\ UNCHANGED <<now, queue, born, sweep, alive, overruled>>

SelectOwn(w) ==
  /\ w \in alive /\ pc[w] = "own" /\ Within(w)
  /\ \E S \in Answers(LAMBDA r : OwnProcessing(w, r)) :
       /\ batch' = [batch EXCEPT ![w] = {EntryOf(j) : j \in S}]
       /\ pc' = [pc EXCEPT ![w] = IF S = {} THEN "select" ELSE "release"]
  /\ UNCHANGED <<now, queue, born, since, sweep, alive, lease, overruled>>

\* DeferJob as a statement: the row of entry b lands with status pending.
Deferred(b, retry) ==
  /\ InLead(NextVersion(b.ver))
  /\ queue' = [queue EXCEPT ![b.job] = Appended(@, NextVersion(b.ver), PendingRow(retry))]

\* releaseOwnClaims hands one own leftover claim back, whatever the job's state
\* is by now.
Released(b) ==
  /\ Deferred(b, now)
  /\ overruled' = IF queue[b.job].ver = b.ver THEN overruled ELSE overruled \cup {b.job}

ReleaseOwn(w) ==
  /\ w \in alive /\ pc[w] = "release" /\ Within(w)
  /\ \E b \in batch[w] :
       /\ Released(b)
       /\ batch' = [batch EXCEPT ![w] = @ \ {b}]
       /\ pc' = [pc EXCEPT ![w] = IF batch[w] = {b} THEN "select" ELSE "release"]
  /\ UNCHANGED <<now, born, since, sweep, alive, lease>>

\* The same statement in flight when its deadline passes or its connection
\* breaks: the row lands, the caller sees an error.
ReleaseOwnUnacknowledged(w) ==
  /\ w \in alive /\ pc[w] = "release"
  /\ \E b \in batch[w] : Released(b)
  /\ Abandon(w)
  /\ UNCHANGED <<now, born, sweep, alive>>

SelectPending(w) ==
  /\ w \in alive /\ pc[w] = "select" /\ Within(w)
  /\ \E S \in Answers(Claimable) : \E T \in OldestOf(S, Limit) :
       /\ batch' = [batch EXCEPT ![w] = {EntryOf(j) : j \in T}]
       /\ pc' = [pc EXCEPT ![w] = IF T = {} THEN "return" ELSE "stamp"]
  /\ UNCHANGED <<now, queue, born, since, sweep, alive, lease, overruled>>

\* SELECT now64(3), then every job's claim version.
Stamp(w) ==
  /\ w \in alive /\ pc[w] = "stamp" /\ Within(w)
  /\ \A b \in batch[w] : InLead(NextVersion(b.ver))
  /\ batch' = [batch EXCEPT ![w] = {[b EXCEPT !.ver = NextVersion(b.ver)] : b \in @}]
  /\ pc' = [pc EXCEPT ![w] = "send"]
  /\ UNCHANGED <<now, queue, born, since, sweep, alive, lease, overruled>>

\* The claim rows of the whole batch land in one insert.
Claimed(w) ==
  queue' = [j \in Jobs |->
              IF j \in JobsOf(batch[w])
                THEN LET b == CHOOSE b \in batch[w] : b.job = j
                     IN Appended(queue[j], b.ver, ProcessingRow(w, b.ver))
                ELSE queue[j]]

SendClaim(w) ==
  /\ w \in alive /\ pc[w] = "send" /\ Within(w)
  /\ Claimed(w)
  /\ pc' = [pc EXCEPT ![w] = "verify"]
  /\ UNCHANGED <<now, born, since, batch, sweep, alive, lease, overruled>>

SendClaimUnacknowledged(w) ==
  /\ w \in alive /\ pc[w] = "send"
  /\ Claimed(w)
  /\ Abandon(w)
  /\ UNCHANGED <<now, born, sweep, alive, overruled>>

\* ownClaimedJobIDs keeps the jobs whose latest row is this worker's claim.
Verify(w) ==
  /\ w \in alive /\ pc[w] = "verify" /\ Within(w)
  /\ \E S \in Answers(LAMBDA r : OwnProcessing(w, r)) :
       batch' = [batch EXCEPT ![w] = {b \in @ : b.job \in S}]
  /\ pc' = [pc EXCEPT ![w] = "return"]
  /\ UNCHANGED <<now, queue, born, since, sweep, alive, lease, overruled>>

\* WithLock returns; a result not ready before maxHold is discarded
\* (ErrLeaseLost).
Return(w) ==
  /\ w \in alive /\ pc[w] = "return"
  /\ IF Within(w) /\ batch[w] # {}
       THEN /\ pc' = [pc EXCEPT ![w] = "work"]
            /\ since' = [since EXCEPT ![w] = now]
            /\ UNCHANGED batch
       ELSE /\ pc' = [pc EXCEPT ![w] = "idle"]
            /\ batch' = [batch EXCEPT ![w] = {}]
            /\ UNCHANGED since
  /\ lease' = Unlocked(w)
  /\ UNCHANGED <<now, queue, born, sweep, alive, overruled>>

-----------------------------------------------------------------------------
(* The main loop works through the claimed jobs, oldest first.             *)

Current(w) == {b \in batch[w] : \A c \in batch[w] : born[b.job] <= born[c.job]}

\* The job is off the worker's list; after the last one the loop claims again.
NextJob(w, b) ==
  /\ batch' = [batch EXCEPT ![w] = @ \ {b}]
  /\ pc' = [pc EXCEPT ![w] = IF batch[w] = {b} THEN "idle" ELSE "work"]
  /\ since' = [since EXCEPT ![w] = now]

\* CompleteJob or FailJob after processJob returned.
FinishJob(w) ==
  /\ w \in alive /\ Working(w)
  /\ \E b \in Current(w), status \in {"done", "failed"} :
       /\ InLead(NextVersion(b.ver))
       /\ queue' = [queue EXCEPT ![b.job] =
                      Appended(@, NextVersion(b.ver), FinalRow(status, w, b.ver))]
       /\ NextJob(w, b)
  /\ UNCHANGED <<now, born, sweep, alive, lease, overruled>>

\* DeferJob: at once on shutdown, until the reset on a rate limit.
DeferHeldJob(w) ==
  /\ w \in alive /\ Working(w)
  /\ now < CalmFrom
  /\ \E b \in Current(w), retry \in {now, now + Backoff} :
       Deferred(b, retry) /\ NextJob(w, b)
  /\ UNCHANGED <<now, born, sweep, alive, lease, overruled>>

\* The status write fails: it is logged and the loop goes on.
StatusLost(w) ==
  /\ w \in alive /\ Working(w)
  /\ \E b \in Current(w) : NextJob(w, b)
  /\ UNCHANGED <<now, queue, born, sweep, alive, lease, overruled>>

-----------------------------------------------------------------------------
(* RequeueStaleJobs: on start and hourly, concurrent with the main loop    *)
(* and outside the claim lock.                                             *)

SweepSelect(w) ==
  /\ w \in alive /\ sweep[w] = {}
  /\ \E S \in Answers(Outdated) :
       /\ S # {}
       /\ sweep' = [sweep EXCEPT ![w] = {EntryOf(j) : j \in S}]
  /\ UNCHANGED <<now, queue, born, loop, alive, lease, overruled>>

\* The selected claim is still the job's state and no live worker has it.
Abandoned(b) ==
  queue[b.job].ver = b.ver /\ \A v \in Workers : ~Busy(v, b.job)

SweepRequeue(w) ==
  /\ w \in alive
  /\ \E b \in sweep[w] :
       /\ Deferred(b, now)
       /\ sweep' = [sweep EXCEPT ![w] = @ \ {b}]
       /\ overruled' = IF Abandoned(b) THEN overruled ELSE overruled \cup {b.job}
  /\ UNCHANGED <<now, born, loop, alive, lease>>

\* A failed insert ends the sweep.
SweepFails(w) ==
  /\ w \in alive /\ sweep[w] # {}
  /\ sweep' = [sweep EXCEPT ![w] = {}]
  /\ UNCHANGED <<now, queue, born, loop, alive, lease, overruled>>

-----------------------------------------------------------------------------
\* OOM kill or node loss.  The lease stays with the dead process.
Crash(w) ==
  /\ w \in alive
  /\ alive' = alive \ {w}
  /\ pc' = [pc EXCEPT ![w] = "idle"]
  /\ batch' = [batch EXCEPT ![w] = {}]
  /\ sweep' = [sweep EXCEPT ![w] = {}]
  /\ UNCHANGED <<now, queue, born, since, lease, overruled>>

\* The container restarts in its pod and keeps its host name.
Restart(w) ==
  /\ w \in Workers \ alive
  /\ alive' = alive \cup {w}
  /\ UNCHANGED <<now, queue, born, loop, sweep, lease, overruled>>

ClaimStep(w) ==
  \/ SelectOwn(w) \/ ReleaseOwn(w) \/ SelectPending(w)
  \/ Stamp(w) \/ SendClaim(w) \/ Verify(w) \/ Return(w)

Fault(w) ==
  /\ now < CalmFrom
  /\ \/ ReleaseOwnUnacknowledged(w) \/ SendClaimUnacknowledged(w) \/ StatusLost(w)
     \/ SweepFails(w) \/ Crash(w)

Next ==
  \/ Tick \/ Expire
  \/ \E j \in Jobs : Enqueue(j)
  \/ \E w \in Workers :
       \/ Begin(w) \/ Acquire(w) \/ ClaimStep(w) \/ StatementFails(w)
       \/ FinishJob(w) \/ DeferHeldJob(w)
       \/ SweepSelect(w) \/ SweepRequeue(w)
       \/ Fault(w) \/ Restart(w)

Spec == Init /\ [][Next]_vars

\* Every live worker's loop, jobs and sweep go on.  Strong fairness of the
\* clock: the loop sleeps after an empty claim.  Strong fairness of the lock: its
\* holder sleeps between claims and the others retry every two seconds.  A dead
\* worker need not restart.
Fairness ==
  /\ SF_vars(Tick) /\ WF_vars(Expire)
  /\ \A w \in Workers :
       /\ WF_vars(Begin(w)) /\ SF_vars(Acquire(w))
       /\ WF_vars(ClaimStep(w)) /\ WF_vars(StatementFails(w))
       /\ WF_vars(FinishJob(w)) /\ WF_vars(SweepSelect(w)) /\ WF_vars(SweepRequeue(w))

FairSpec == Spec /\ Fairness

-----------------------------------------------------------------------------
\* Type correctness.
TypeOK ==
  /\ now \in Nat
  /\ queue \in [Jobs -> [ver : Nat, rows : SUBSET Row]]
  /\ born \in [Jobs -> Nat]
  /\ pc \in [Workers -> Section \cup {"idle", "wait", "work"}]
  /\ since \in [Workers -> Nat]
  /\ batch \in [Workers -> SUBSET Entry]
  /\ sweep \in [Workers -> SUBSET Entry]
  /\ alive \in SUBSET Workers
  /\ lease \in [holder : Workers \cup {None}, start : Nat]
  /\ overruled \in SUBSET Jobs

\* ClaimJobs hands a job to one worker at a time, across lost leases, late
\* and unacknowledged inserts, crashes and restarts: two workers work on the
\* same job only after an unconditional requeue that acted on an outdated read.
ExclusiveUnlessOverruled ==
  \A v, w \in Workers, j \in Jobs :
    Holds(v, j) /\ Holds(w, j) /\ v # w => j \in overruled

\* While a worker works on a job that was not overruled, the queue says so: its
\* claim is the one row argMax can report, never tied or outranked by a
\* competing claim, an abandoned one or an earlier transition.
HeldIsOwned ==
  \A w \in Workers : \A b \in batch[w] :
    Working(w) /\ b.job \notin overruled =>
      /\ queue[b.job].ver = b.ver
      /\ queue[b.job].rows = {ProcessingRow(w, b.ver)}

Finished(j) == \E r \in queue[j].rows : r.status \in {"done", "failed"}

\* A job's final status survives every claim, release and deferral that lands
\* late: only a requeue on outdated news reopens a finished job.
FinalUnlessOverruled ==
  [][\A j \in Jobs : Finished(j) => Finished(j)' \/ j \in overruled']_vars

\* A claim is requeued as dead only if its worker is: no claim a sweep has
\* selected, and that still is the job's state, belongs to a live worker.
SweepSparesTheLiving ==
  \A w \in Workers : \A b \in sweep[w] :
    queue[b.job].ver = b.ver => \A v \in alive : ~Holds(v, b.job)

\* No job is lost: whatever crashes, lost statements, discarded claims and
\* rate limits came before, an enqueued job is finished and stays finished as
\* long as one worker is left to sweep and claim.
EveryJobFinishes ==
  <>[](alive # {}) => \A j \in Jobs : queue[j].rows # {} ~> []Finished(j)

\* The lock as ClaimJobs sees it is an abstract claim lock: a worker that is dead
\* or has left its section no longer counts as its holder.
Inside(w) == pc[w] \in Section
Waiting(w) == pc[w] = "wait"

LockHolder == IF lease.holder # None /\ Inside(lease.holder) THEN lease.holder ELSE None
LockPhase == [w \in Workers |-> IF Inside(w) THEN "in" ELSE IF Waiting(w) THEN "wait" ELSE "out"]
LockAge ==
  [w \in Workers |->
     IF ~Inside(w) /\ ~Waiting(w) THEN 0
     ELSE IF now - since[w] < Handover THEN now - since[w] ELSE Handover]

Lock == INSTANCE ClaimLease WITH holder <- LockHolder, phase <- LockPhase, age <- LockAge

IsClaimLease == Lock!Spec

\* What the queue promises without that exception: a claimed job belongs to one
\* worker.
ExclusiveClaims ==
  \A v, w \in Workers, j \in Jobs : Holds(v, j) /\ Holds(w, j) => v = w

=============================================================================
