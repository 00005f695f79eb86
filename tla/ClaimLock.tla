------------------------------- MODULE ClaimLock -------------------------------
(***************************************************************************)
(* WithLock of the Kubernetes claim lock (internal/claimlock/lock.go): the *)
(* calling goroutine with its select, the goroutine that runs the callback,*)
(* and client-go's leader elector with the Lease object, both external.    *)
(*                                                                         *)
(* Times are relative (ages) and saturate at the largest bound they are    *)
(* compared with, so time is unbounded.                                    *)
(***************************************************************************)
EXTENDS Integers

CONSTANTS
  Workers,
  None,           \* the Lease names no holder
  Gone,           \* the Lease names the identity of a dead process
  LeaseDuration, RenewDeadline, MaxHold,
  MaxFaults       \* bound on failed requests, crashes and cancellations

ASSUME LockAssumption ==
  /\ None \notin Workers /\ Gone \notin Workers /\ None # Gone
  /\ MaxHold \in Nat /\ RenewDeadline \in Nat /\ LeaseDuration \in Nat /\ MaxFaults \in Nat
  /\ MaxHold <= RenewDeadline /\ RenewDeadline <= LeaseDuration

VARIABLES
  record,         \* the holder the Lease object names
  seen,           \* per worker: age of its observation of the current record
  inflight,       \* per worker: an update whose sender has given up on it
  elector,        \* per worker: the state of elector.Run
  renewed,        \* per worker: age of its last successful renewal
  callback,       \* per worker: the OnStartedLeading goroutine
  result,         \* per worker: the buffered result channel
  runCancelled,   \* per worker: runCtx is cancelled
  cancelled,      \* per worker: the caller's context is cancelled
  age,            \* per worker: time since start := time.Now()
  caller,         \* per worker: where WithLock is
  outcome,        \* per worker: what WithLock returns
  faults          \* bound: faults so far

lease == <<record, seen, inflight>>
election == <<elector, renewed>>
call == <<caller, outcome, cancelled>>
vars == <<lease, election, callback, result, runCancelled, call, age, faults>>

Unseen == -1
Aged(a, most) == IF a < most THEN a + 1 ELSE a

Init ==
  /\ record = None
  /\ seen = [w \in Workers |-> Unseen]
  /\ inflight = [w \in Workers |-> "none"]
  /\ elector = [w \in Workers |-> "off"]
  /\ renewed = [w \in Workers |-> 0]
  /\ callback = [w \in Workers |-> "none"]
  /\ result = [w \in Workers |-> "none"]
  /\ runCancelled = [w \in Workers |-> FALSE]
  /\ cancelled = [w \in Workers |-> FALSE]
  /\ age = [w \in Workers |-> 0]
  /\ caller = [w \in Workers |-> "out"]
  /\ outcome = [w \in Workers |-> "none"]
  /\ faults = 0

Faulty == faults < MaxFaults /\ faults' = faults + 1

Tick ==
  /\ age' = [w \in Workers |-> IF caller[w] = "out" THEN 0 ELSE Aged(age[w], RenewDeadline)]
  /\ renewed' = [w \in Workers |->
                   IF elector[w] = "leading" THEN Aged(renewed[w], RenewDeadline) ELSE 0]
  /\ seen' = [w \in Workers |->
                IF seen[w] # Unseen THEN Aged(seen[w], LeaseDuration) ELSE Unseen]
  /\ UNCHANGED <<record, inflight, elector, callback, result, runCancelled, call, faults>>

-----------------------------------------------------------------------------
(* The Lease object.  Updates carry the resource version they read, so each *)
(* write of the record fails the updates still in flight.                  *)

Write(holder) ==
  /\ record' = holder
  /\ seen' = [w \in Workers |-> Unseen]
  /\ inflight' = [w \in Workers |-> "none"]

\* An update whose sender timed out reaches the server after all.
Land(w) ==
  /\ inflight[w] # "none"
  /\ Write(IF inflight[w] = "take" THEN w ELSE None)
  /\ UNCHANGED <<election, callback, result, runCancelled, call, age, faults>>

-----------------------------------------------------------------------------
(* client-go's leader elector.                                             *)

Observe(w) ==
  /\ elector[w] = "acquiring" /\ seen[w] = Unseen
  /\ seen' = [seen EXCEPT ![w] = 0]
  /\ UNCHANGED <<record, inflight, election, callback, result, runCancelled, call, age, faults>>

\* Mutation: a lease is taken over as soon as it is looked at.
MayTakeAtOnce(w) == record \in {None, w} \/ seen[w] >= 0

\* The Lease is free, names this process, or was not renewed for LeaseDuration.
MayTake(w) == record \in {None, w} \/ seen[w] >= LeaseDuration

Take(w) ==
  /\ elector[w] = "acquiring" /\ MayTake(w)
  /\ Write(w)
  /\ elector' = [elector EXCEPT ![w] = "leading"]
  /\ renewed' = [renewed EXCEPT ![w] = 0]
  /\ callback' = [callback EXCEPT ![w] = "spawned"]
  /\ UNCHANGED <<result, runCancelled, call, age, faults>>

\* An update is sent and its sender sees an error.
UpdateUnacknowledged(w) ==
  /\ Faulty
  /\ \/ /\ \/ elector[w] = "acquiring" /\ MayTake(w)
           \/ elector[w] = "leading" /\ record = w
        /\ inflight' = [inflight EXCEPT ![w] = "take"]
        /\ UNCHANGED elector
     \/ /\ elector[w] = "releasing" /\ record = w
        /\ inflight' = [inflight EXCEPT ![w] = "release"]
        /\ elector' = [elector EXCEPT ![w] = "stopping"]
  /\ UNCHANGED <<record, seen, renewed, callback, result, runCancelled, call, age>>

AcquireStops(w) ==
  /\ elector[w] = "acquiring" /\ runCancelled[w]
  /\ elector' = [elector EXCEPT ![w] = "stopped"]
  /\ UNCHANGED <<lease, renewed, callback, result, runCancelled, call, age, faults>>

Renew(w) ==
  /\ elector[w] = "leading" /\ ~runCancelled[w] /\ record = w
  /\ renewed[w] > 0
  /\ Write(w)
  /\ renewed' = [renewed EXCEPT ![w] = 0]
  /\ UNCHANGED <<elector, callback, result, runCancelled, call, age, faults>>

\* The renewal loop gives up RenewDeadline after its last success.
RenewalOver(w) == renewed[w] >= RenewDeadline

RenewStops(w) ==
  /\ elector[w] = "leading" /\ (runCancelled[w] \/ RenewalOver(w))
  /\ elector' = [elector EXCEPT ![w] = "releasing"]
  /\ UNCHANGED <<lease, renewed, callback, result, runCancelled, call, age, faults>>

\* ReleaseOnCancel.
Release(w) ==
  /\ elector[w] = "releasing"
  /\ IF record = w THEN Write(None) ELSE UNCHANGED lease
  /\ elector' = [elector EXCEPT ![w] = "stopping"]
  /\ UNCHANGED <<renewed, callback, result, runCancelled, call, age, faults>>

\* Run returns; only now the callback's context is cancelled.
Stop(w) ==
  /\ elector[w] = "stopping"
  /\ elector' = [elector EXCEPT ![w] = "stopped"]
  /\ UNCHANGED <<lease, renewed, callback, result, runCancelled, call, age, faults>>

-----------------------------------------------------------------------------
(* OnStartedLeading.                                                       *)

Started(w) == callback[w] \in {"running", "reported", "done"}

\* leaderCtx.Err() # nil
LeaderGone(w) == runCancelled[w] \/ elector[w] = "stopped"

StartLeading(w) ==
  /\ callback[w] = "spawned"
  /\ callback' = [callback EXCEPT ![w] = "running"]
  /\ UNCHANGED <<lease, election, result, runCancelled, call, age, faults>>

\* Mutation: only the context is asked.
OnlyContext(w) == LeaderGone(w)

Lost(w) == LeaderGone(w) \/ age[w] >= MaxHold

\* fn returns, its error is replaced if the lease may be lost, result <- err.
Report(w) ==
  /\ callback[w] = "running"
  /\ \E r \in IF Lost(w) THEN {"lost"} ELSE {"ok", "error"} :
       result' = [result EXCEPT ![w] = r]
  /\ callback' = [callback EXCEPT ![w] = "reported"]
  /\ UNCHANGED <<lease, election, runCancelled, call, age, faults>>

\* Mutation: the callback leaves the elector running.
KeepRunning(w) ==
  /\ callback[w] = "reported"
  /\ callback' = [callback EXCEPT ![w] = "done"]
  /\ UNCHANGED <<lease, election, result, runCancelled, call, age, faults>>

\* The cancel() at the end of the callback.
CancelRun(w) ==
  /\ callback[w] = "reported"
  /\ callback' = [callback EXCEPT ![w] = "done"]
  /\ runCancelled' = [runCancelled EXCEPT ![w] = TRUE]
  /\ UNCHANGED <<lease, election, result, call, age, faults>>

-----------------------------------------------------------------------------
(* The caller.                                                             *)

\* Mutation: WithLock does not wait for runDone.
RunDoneIgnored(w) == TRUE

RunDone(w) == elector[w] = "stopped"

Call(w) ==
  /\ caller[w] = "out"
  /\ caller' = [caller EXCEPT ![w] = "select"]
  /\ elector' = [elector EXCEPT ![w] = "acquiring"]
  /\ age' = [age EXCEPT ![w] = 0]
  /\ UNCHANGED <<lease, renewed, callback, result, runCancelled, outcome, cancelled, faults>>

CancelCaller(w) ==
  /\ ~cancelled[w] /\ Faulty
  /\ cancelled' = [cancelled EXCEPT ![w] = TRUE]
  /\ UNCHANGED <<lease, election, callback, result, runCancelled, caller, outcome, age>>

\* The cases of the select.
SelectResult(w) ==
  /\ caller[w] = "select" /\ result[w] # "none"
  /\ caller' = [caller EXCEPT ![w] = "drain"]
  /\ outcome' = [outcome EXCEPT ![w] = result[w]]
  /\ UNCHANGED <<lease, election, callback, result, runCancelled, cancelled, age, faults>>

SelectCancelled(w) ==
  /\ caller[w] = "select" /\ cancelled[w]
  /\ IF Started(w)
       THEN /\ caller' = [caller EXCEPT ![w] = "await"]
            /\ UNCHANGED <<outcome, runCancelled>>
       ELSE /\ caller' = [caller EXCEPT ![w] = "drain"]
            /\ outcome' = [outcome EXCEPT ![w] = "cancelled"]
            /\ runCancelled' = [runCancelled EXCEPT ![w] = TRUE]
  /\ UNCHANGED <<lease, election, callback, result, cancelled, age, faults>>

SelectStopped(w) ==
  /\ caller[w] = "select" /\ RunDone(w)
  /\ IF result[w] # "none" \/ ~Started(w)
       THEN /\ caller' = [caller EXCEPT ![w] = "drain"]
            /\ outcome' = [outcome EXCEPT ![w] =
                             IF result[w] # "none" THEN result[w] ELSE "stopped"]
       ELSE /\ caller' = [caller EXCEPT ![w] = "collect"]
            /\ UNCHANGED outcome
  /\ UNCHANGED <<lease, election, callback, result, runCancelled, cancelled, age, faults>>

\* err := <-result after the callback has started.
AwaitResult(w) ==
  /\ caller[w] \in {"await", "collect"} /\ result[w] # "none"
  /\ caller' = [caller EXCEPT ![w] = "drain"]
  /\ outcome' = [outcome EXCEPT ![w] =
                   IF caller[w] = "await" /\ result[w] = "ok" THEN "cancelled" ELSE result[w]]
  /\ UNCHANGED <<lease, election, callback, result, runCancelled, cancelled, age, faults>>

\* <-runDone, then WithLock returns.  What is left of the callback runs under a
\* cancelled context and nobody reads its result; the elector of the next call is a
\* new one.
Return(w) ==
  /\ caller[w] = "drain" /\ RunDone(w)
  /\ caller' = [caller EXCEPT ![w] = "out"]
  /\ elector' = [elector EXCEPT ![w] = "off"]
  /\ callback' = [callback EXCEPT ![w] = "none"]
  /\ result' = [result EXCEPT ![w] = "none"]
  /\ runCancelled' = [runCancelled EXCEPT ![w] = FALSE]
  /\ age' = [age EXCEPT ![w] = 0]
  /\ outcome' = [outcome EXCEPT ![w] = "none"]
  /\ seen' = [seen EXCEPT ![w] = Unseen] /\ renewed' = [renewed EXCEPT ![w] = 0]
  /\ UNCHANGED <<record, inflight, cancelled, faults>>

\* The process dies and restarts with a fresh identity.
Crash(w) ==
  /\ Faulty
  /\ caller' = [caller EXCEPT ![w] = "out"]
  /\ elector' = [elector EXCEPT ![w] = "off"]
  /\ callback' = [callback EXCEPT ![w] = "none"]
  /\ result' = [result EXCEPT ![w] = "none"]
  /\ runCancelled' = [runCancelled EXCEPT ![w] = FALSE]
  /\ cancelled' = [cancelled EXCEPT ![w] = FALSE]
  /\ outcome' = [outcome EXCEPT ![w] = "none"]
  /\ age' = [age EXCEPT ![w] = 0]
  /\ record' = IF record = w THEN Gone ELSE record
  /\ inflight' = [inflight EXCEPT ![w] = "none"]
  /\ seen' = [seen EXCEPT ![w] = Unseen] /\ renewed' = [renewed EXCEPT ![w] = 0]

-----------------------------------------------------------------------------
CallerStep(w) ==
  \/ SelectResult(w) \/ SelectCancelled(w) \/ SelectStopped(w) \/ AwaitResult(w) \/ Return(w)
CallbackStep(w) == StartLeading(w) \/ Report(w) \/ CancelRun(w)
ElectorStep(w) == Observe(w) \/ AcquireStops(w) \/ RenewStops(w) \/ Release(w) \/ Stop(w)

Next ==
  \/ Tick
  \/ \E w \in Workers :
       \/ Call(w) \/ Take(w) \/ Renew(w)
       \/ CallerStep(w) \/ CallbackStep(w) \/ ElectorStep(w)
       \/ Land(w) \/ UpdateUnacknowledged(w) \/ CancelCaller(w) \/ Crash(w)

Spec == Init /\ [][Next]_vars

\* Goroutines are scheduled, the callback returns, the clock runs.  A free Lease
\* is tried every retryPeriod: strong fairness, as its holders come and go.
Fairness ==
  /\ WF_vars(Tick)
  /\ \A w \in Workers :
       /\ WF_vars(CallerStep(w)) /\ WF_vars(CallbackStep(w)) /\ WF_vars(ElectorStep(w))
       /\ SF_vars(Take(w))

FairSpec == Spec /\ Fairness

-----------------------------------------------------------------------------
\* A result is accepted only while the Lease names the process that computed it,
\* whatever renewals, releases and takeovers were late or lost: the check against
\* maxHold makes up for the context that is cancelled only after the release.
AcceptedWhileHeld ==
  [][\A w \in Workers : result[w] = "none" /\ result'[w] = "ok" => record = w]_vars

\* When WithLock returns it has given the Lease back, unless a request failed: the
\* next caller need not wait for it to run out.
ReturnsReleased ==
  [][\A w \in Workers : Return(w) /\ faults = 0 => record # w]_vars

\* Once the faults are over every call of WithLock returns: no goroutine waits for
\* a channel nobody will write, and a dead holder blocks the others for a while
\* only.
EveryCallReturns ==
  \A w \in Workers : []<>(caller[w] = "out")

\* The abstract claim lock: a worker is in its section while it leads and its
\* callback may be running.
Leading(w) == elector[w] \in {"leading", "releasing", "stopping"} /\ ~runCancelled[w]
Waiting(w) == elector[w] = "acquiring" /\ ~runCancelled[w]

LockHolder == IF record \in Workers /\ Leading(record) THEN record ELSE None
LockPhase == [w \in Workers |-> IF Leading(w) THEN "in" ELSE IF Waiting(w) THEN "wait" ELSE "out"]
LockAge == [w \in Workers |-> IF Leading(w) \/ Waiting(w) THEN age[w] ELSE 0]

Lease == INSTANCE ClaimLease WITH
  Handover <- RenewDeadline, holder <- LockHolder, phase <- LockPhase, age <- LockAge

\* The lock in front of ClaimJobs is an abstract claim lock whose sections exclude
\* each other until renewDeadline after their attempts.
IsClaimLease == Lease!Spec

=============================================================================
