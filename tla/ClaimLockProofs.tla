---------------------------- MODULE ClaimLockProofs ----------------------------
(***************************************************************************)
(* ClaimLock for any workers and durations: results are accepted while the *)
(* lease is held, WithLock returns with the lease given back, and the      *)
(* elector, the select and the callback together implement the abstract    *)
(* claim lock of ClaimLease.                                               *)
(***************************************************************************)
EXTENDS ClaimLock, TLAPS

TypeOK ==
  /\ seen \in [Workers -> Int]
  /\ inflight \in [Workers -> {"none", "take", "release"}]
  /\ elector \in [Workers -> {"off", "acquiring", "leading", "releasing", "stopping", "stopped"}]
  /\ renewed \in [Workers -> Nat]
  /\ callback \in [Workers -> {"none", "spawned", "running", "reported", "done"}]
  /\ result \in [Workers -> {"none", "ok", "error", "lost"}]
  /\ runCancelled \in [Workers -> BOOLEAN]
  /\ cancelled \in [Workers -> BOOLEAN]
  /\ age \in [Workers -> 0..RenewDeadline]
  /\ caller \in [Workers -> {"out", "select", "await", "collect", "drain"}]
  /\ outcome \in [Workers -> {"none", "ok", "error", "lost", "cancelled", "stopped"}]
  /\ faults \in Nat

\* The parts of one process agree: an elector runs during a call only, and a callback
\* was started by an elector that led.
InCall ==
  \A w \in Workers :
    /\ elector[w] = "off" <=> caller[w] = "out"
    /\ elector[w] = "off" => ~runCancelled[w] /\ renewed[w] = 0
    /\ elector[w] \in {"off", "acquiring"} => callback[w] = "none"
    /\ renewed[w] <= age[w]

\* An elector that has ended its leadership was cancelled, or has not renewed for
\* RenewDeadline.
EndedForAReason ==
  \A w \in Workers :
    elector[w] \in {"releasing", "stopping", "stopped"} /\ ~runCancelled[w] => age[w] >= RenewDeadline

\* Until RenewDeadline after its attempt a leader has the Lease, nobody has observed its
\* record for longer than it leads, and no update of another process can still land.
LeaderHolds ==
  \A w \in Workers :
    elector[w] = "leading" /\ age[w] < RenewDeadline =>
      /\ record = w
      /\ \A v \in Workers : seen[v] <= age[w]
      /\ \A v \in Workers : inflight[v] # "none" => v = w /\ inflight[v] = "take"

\* An update in flight would be the leader's next renewal.
InflightRenews ==
  \A w \in Workers :
    inflight[w] = "take" /\ elector[w] \in {"leading", "releasing", "stopping"} => record = w

\* Without faults the record names who leads or is about to release.
NamesLeader ==
  faults = 0 => \A w \in Workers :
    /\ inflight[w] = "none"
    /\ record = w => elector[w] \in {"leading", "releasing"}

IInv == TypeOK /\ InCall /\ EndedForAReason /\ LeaderHolds /\ InflightRenews /\ NamesLeader

\* Types.
LEMMA TypeOKKept ==
  TypeOK /\ [Next]_vars => TypeOK'
<1> SUFFICES ASSUME TypeOK, [Next]_vars PROVE TypeOK'
  OBVIOUS
<1> USE LockAssumption DEF TypeOK, lease, election, call, Unseen
<1>1. CASE Tick
  BY <1>1 DEF Tick, Aged
<1>2. ASSUME NEW w \in Workers, Call(w) PROVE TypeOK'
  BY <1>2 DEF Call
<1>3. ASSUME NEW w \in Workers, Take(w) PROVE TypeOK'
  BY <1>3 DEF Take, MayTake, Write
<1>4. ASSUME NEW w \in Workers, Renew(w) PROVE TypeOK'
  BY <1>4 DEF Renew, Write
<1>5. ASSUME NEW w \in Workers, SelectResult(w) PROVE TypeOK'
  BY <1>5 DEF SelectResult
<1>6. ASSUME NEW w \in Workers, SelectCancelled(w) PROVE TypeOK'
  BY <1>6 DEF SelectCancelled
<1>7. ASSUME NEW w \in Workers, SelectStopped(w) PROVE TypeOK'
  BY <1>7 DEF SelectStopped, RunDone
<1>8. ASSUME NEW w \in Workers, AwaitResult(w) PROVE TypeOK'
  BY <1>8 DEF AwaitResult
<1>9. ASSUME NEW w \in Workers, Return(w) PROVE TypeOK'
  BY <1>9 DEF Return, RunDone
<1>10. ASSUME NEW w \in Workers, StartLeading(w) PROVE TypeOK'
  BY <1>10 DEF StartLeading
<1>11. ASSUME NEW w \in Workers, Report(w) PROVE TypeOK'
  BY <1>11 DEF Report, Lost, LeaderGone
<1>12. ASSUME NEW w \in Workers, CancelRun(w) PROVE TypeOK'
  BY <1>12 DEF CancelRun
<1>13. ASSUME NEW w \in Workers, Observe(w) PROVE TypeOK'
  BY <1>13 DEF Observe
<1>14. ASSUME NEW w \in Workers, AcquireStops(w) PROVE TypeOK'
  BY <1>14 DEF AcquireStops
<1>15. ASSUME NEW w \in Workers, RenewStops(w) PROVE TypeOK'
  BY <1>15 DEF RenewStops, RenewalOver
<1>16. ASSUME NEW w \in Workers, Release(w) PROVE TypeOK'
  BY <1>16 DEF Release, Write
<1>17. ASSUME NEW w \in Workers, Stop(w) PROVE TypeOK'
  BY <1>17 DEF Stop
<1>18. ASSUME NEW w \in Workers, Land(w) PROVE TypeOK'
  BY <1>18 DEF Land, Write
<1>19. ASSUME NEW w \in Workers, UpdateUnacknowledged(w) PROVE TypeOK'
  BY <1>19 DEF UpdateUnacknowledged, MayTake, Faulty
<1>20. ASSUME NEW w \in Workers, CancelCaller(w) PROVE TypeOK'
  BY <1>20 DEF CancelCaller, Faulty
<1>21. ASSUME NEW w \in Workers, Crash(w) PROVE TypeOK'
  BY <1>21 DEF Crash, Faulty
<1>22. CASE UNCHANGED vars
  BY <1>22 DEF vars
<1> QED
  BY <1>1, <1>2, <1>3, <1>4, <1>5, <1>6, <1>7, <1>8, <1>9, <1>10, <1>11, <1>12, <1>13, <1>14, <1>15,
     <1>16, <1>17, <1>18, <1>19, <1>20, <1>21, <1>22
     DEF Next, CallerStep, CallbackStep, ElectorStep

\* The parts of a process keep agreeing.
LEMMA InCallKept ==
  TypeOK /\ InCall /\ [Next]_vars => InCall'
<1> SUFFICES ASSUME TypeOK, InCall, [Next]_vars PROVE InCall'
  OBVIOUS
<1> USE LockAssumption DEF TypeOK, InCall, lease, election, call, Unseen
<1>1. CASE Tick
  BY <1>1 DEF Tick, Aged
<1>2. ASSUME NEW w \in Workers, Call(w) PROVE InCall'
  BY <1>2 DEF Call
<1>3. ASSUME NEW w \in Workers, Take(w) PROVE InCall'
  BY <1>3 DEF Take, MayTake, Write
<1>4. ASSUME NEW w \in Workers, Renew(w) PROVE InCall'
  BY <1>4 DEF Renew, Write
<1>5. ASSUME NEW w \in Workers, SelectResult(w) PROVE InCall'
  BY <1>5 DEF SelectResult
<1>6. ASSUME NEW w \in Workers, SelectCancelled(w) PROVE InCall'
  BY <1>6 DEF SelectCancelled
<1>7. ASSUME NEW w \in Workers, SelectStopped(w) PROVE InCall'
  BY <1>7 DEF SelectStopped, RunDone
<1>8. ASSUME NEW w \in Workers, AwaitResult(w) PROVE InCall'
  BY <1>8 DEF AwaitResult
<1>9. ASSUME NEW w \in Workers, Return(w) PROVE InCall'
  BY <1>9 DEF Return, RunDone
<1>10. ASSUME NEW w \in Workers, StartLeading(w) PROVE InCall'
  BY <1>10 DEF StartLeading
<1>11. ASSUME NEW w \in Workers, Report(w) PROVE InCall'
  BY <1>11 DEF Report, Lost, LeaderGone
<1>12. ASSUME NEW w \in Workers, CancelRun(w) PROVE InCall'
  BY <1>12 DEF CancelRun
<1>13. ASSUME NEW w \in Workers, AcquireStops(w) PROVE InCall'
  BY <1>13 DEF AcquireStops
<1>14. ASSUME NEW w \in Workers, RenewStops(w) PROVE InCall'
  BY <1>14 DEF RenewStops, RenewalOver
<1>15. ASSUME NEW w \in Workers, Release(w) PROVE InCall'
  BY <1>15 DEF Release, Write
<1>16. ASSUME NEW w \in Workers, Stop(w) PROVE InCall'
  BY <1>16 DEF Stop
<1>17. ASSUME NEW w \in Workers, UpdateUnacknowledged(w) PROVE InCall'
  BY <1>17 DEF UpdateUnacknowledged, MayTake, Faulty
<1>18. ASSUME NEW w \in Workers, Crash(w) PROVE InCall'
  BY <1>18 DEF Crash, Faulty
<1>19. ASSUME NEW w \in Workers,
             \/ Observe(w) \/ Land(w) \/ CancelCaller(w)
      PROVE  InCall'
  BY <1>19 DEF Observe, Land, CancelCaller
<1>20. CASE UNCHANGED vars
  BY <1>20 DEF vars
<1> QED
  BY <1>1, <1>2, <1>3, <1>4, <1>5, <1>6, <1>7, <1>8, <1>9, <1>10, <1>11, <1>12, <1>13, <1>14, <1>15,
     <1>16, <1>17, <1>18, <1>19, <1>20
     DEF Next, CallerStep, CallbackStep, ElectorStep

\* Leaderships end for one of two reasons.
LEMMA EndedForAReasonKept ==
  TypeOK /\ EndedForAReason /\ InCall /\ [Next]_vars => EndedForAReason'
<1> SUFFICES ASSUME TypeOK, EndedForAReason, InCall, [Next]_vars PROVE EndedForAReason'
  OBVIOUS
<1> USE LockAssumption DEF TypeOK, EndedForAReason, InCall, lease, election, call, Unseen
<1>1. CASE Tick
  BY <1>1 DEF Tick, Aged
<1>2. ASSUME NEW w \in Workers, Call(w) PROVE EndedForAReason'
  BY <1>2 DEF Call
<1>3. ASSUME NEW w \in Workers, Take(w) PROVE EndedForAReason'
  BY <1>3 DEF Take, MayTake, Write
<1>4. ASSUME NEW w \in Workers, SelectCancelled(w) PROVE EndedForAReason'
  BY <1>4 DEF SelectCancelled
<1>5. ASSUME NEW w \in Workers, Return(w) PROVE EndedForAReason'
  BY <1>5 DEF Return, RunDone
<1>6. ASSUME NEW w \in Workers, CancelRun(w) PROVE EndedForAReason'
  BY <1>6 DEF CancelRun
<1>7. ASSUME NEW w \in Workers, AcquireStops(w) PROVE EndedForAReason'
  BY <1>7 DEF AcquireStops
<1>8. ASSUME NEW w \in Workers, RenewStops(w) PROVE EndedForAReason'
  BY <1>8 DEF RenewStops, RenewalOver
<1>9. ASSUME NEW w \in Workers, Release(w) PROVE EndedForAReason'
  BY <1>9 DEF Release, Write
<1>10. ASSUME NEW w \in Workers, Stop(w) PROVE EndedForAReason'
  BY <1>10 DEF Stop
<1>11. ASSUME NEW w \in Workers, UpdateUnacknowledged(w) PROVE EndedForAReason'
  BY <1>11 DEF UpdateUnacknowledged, MayTake, Faulty
<1>12. ASSUME NEW w \in Workers, Crash(w) PROVE EndedForAReason'
  BY <1>12 DEF Crash, Faulty
<1>13. ASSUME NEW w \in Workers,
             \/ Renew(w) \/ SelectResult(w) \/ SelectStopped(w) \/ AwaitResult(w) \/ StartLeading(w)
             \/ Report(w) \/ Observe(w) \/ Land(w) \/ CancelCaller(w)
      PROVE  EndedForAReason'
  BY <1>13 DEF Renew, SelectResult, SelectStopped, AwaitResult, StartLeading, Report, Observe, Land,
               CancelCaller
<1>14. CASE UNCHANGED vars
  BY <1>14 DEF vars
<1> QED
  BY <1>1, <1>2, <1>3, <1>4, <1>5, <1>6, <1>7, <1>8, <1>9, <1>10, <1>11, <1>12, <1>13, <1>14
     DEF Next, CallerStep, CallbackStep, ElectorStep

\* A takeover needs an observation older than any leadership that is not over.
LEMMA LeaderHoldsKept ==
  TypeOK /\ LeaderHolds /\ InCall /\ EndedForAReason /\ [Next]_vars => LeaderHolds'
<1> SUFFICES ASSUME TypeOK, LeaderHolds, InCall, EndedForAReason, [Next]_vars PROVE LeaderHolds'
  OBVIOUS
<1> USE LockAssumption DEF TypeOK, LeaderHolds, InCall, EndedForAReason, lease, election, call, Unseen
<1>1. CASE Tick
  BY <1>1 DEF Tick, Aged
<1>2. ASSUME NEW w \in Workers, Call(w) PROVE LeaderHolds'
  BY <1>2 DEF Call
<1>3. ASSUME NEW w \in Workers, Take(w) PROVE LeaderHolds'
  BY <1>3 DEF Take, MayTake, Write
<1>4. ASSUME NEW w \in Workers, Renew(w) PROVE LeaderHolds'
  BY <1>4 DEF Renew, Write
<1>5. ASSUME NEW w \in Workers, Return(w) PROVE LeaderHolds'
  BY <1>5 DEF Return, RunDone
<1>6. ASSUME NEW w \in Workers, Observe(w) PROVE LeaderHolds'
  BY <1>6 DEF Observe
<1>7. ASSUME NEW w \in Workers, AcquireStops(w) PROVE LeaderHolds'
  BY <1>7 DEF AcquireStops
<1>8. ASSUME NEW w \in Workers, RenewStops(w) PROVE LeaderHolds'
  BY <1>8 DEF RenewStops, RenewalOver
<1>9. ASSUME NEW w \in Workers, Release(w) PROVE LeaderHolds'
  BY <1>9 DEF Release, Write
<1>10. ASSUME NEW w \in Workers, Stop(w) PROVE LeaderHolds'
  BY <1>10 DEF Stop
<1>11. ASSUME NEW w \in Workers, Land(w) PROVE LeaderHolds'
  BY <1>11 DEF Land, Write
<1>12. ASSUME NEW w \in Workers, UpdateUnacknowledged(w) PROVE LeaderHolds'
  BY <1>12 DEF UpdateUnacknowledged, MayTake, Faulty
<1>13. ASSUME NEW w \in Workers, Crash(w) PROVE LeaderHolds'
  BY <1>13 DEF Crash, Faulty
<1>14. ASSUME NEW w \in Workers,
             \/ SelectResult(w) \/ SelectCancelled(w) \/ SelectStopped(w) \/ AwaitResult(w) \/ StartLeading(w)
             \/ Report(w) \/ CancelRun(w) \/ CancelCaller(w)
      PROVE  LeaderHolds'
  BY <1>14 DEF SelectResult, SelectCancelled, SelectStopped, AwaitResult, StartLeading, Report,
               CancelRun, CancelCaller
<1>15. CASE UNCHANGED vars
  BY <1>15 DEF vars
<1> QED
  BY <1>1, <1>2, <1>3, <1>4, <1>5, <1>6, <1>7, <1>8, <1>9, <1>10, <1>11, <1>12, <1>13, <1>14, <1>15
     DEF Next, CallerStep, CallbackStep, ElectorStep

\* A write fails the updates in flight.
LEMMA InflightRenewsKept ==
  TypeOK /\ InflightRenews /\ LeaderHolds /\ [Next]_vars => InflightRenews'
<1> SUFFICES ASSUME TypeOK, InflightRenews, LeaderHolds, [Next]_vars PROVE InflightRenews'
  OBVIOUS
<1> USE LockAssumption DEF TypeOK, InflightRenews, LeaderHolds, lease, election, call, Unseen
<1>1. CASE Tick
  BY <1>1 DEF Tick, Aged
<1>2. ASSUME NEW w \in Workers, Call(w) PROVE InflightRenews'
  BY <1>2 DEF Call
<1>3. ASSUME NEW w \in Workers, Take(w) PROVE InflightRenews'
  BY <1>3 DEF Take, MayTake, Write
<1>4. ASSUME NEW w \in Workers, Renew(w) PROVE InflightRenews'
  BY <1>4 DEF Renew, Write
<1>5. ASSUME NEW w \in Workers, Return(w) PROVE InflightRenews'
  BY <1>5 DEF Return, RunDone
<1>6. ASSUME NEW w \in Workers, AcquireStops(w) PROVE InflightRenews'
  BY <1>6 DEF AcquireStops
<1>7. ASSUME NEW w \in Workers, RenewStops(w) PROVE InflightRenews'
  BY <1>7 DEF RenewStops, RenewalOver
<1>8. ASSUME NEW w \in Workers, Release(w) PROVE InflightRenews'
  BY <1>8 DEF Release, Write
<1>9. ASSUME NEW w \in Workers, Stop(w) PROVE InflightRenews'
  BY <1>9 DEF Stop
<1>10. ASSUME NEW w \in Workers, Land(w) PROVE InflightRenews'
  BY <1>10 DEF Land, Write
<1>11. ASSUME NEW w \in Workers, UpdateUnacknowledged(w) PROVE InflightRenews'
  BY <1>11 DEF UpdateUnacknowledged, MayTake, Faulty
<1>12. ASSUME NEW w \in Workers, Crash(w) PROVE InflightRenews'
  BY <1>12 DEF Crash, Faulty
<1>13. ASSUME NEW w \in Workers,
             \/ SelectResult(w) \/ SelectCancelled(w) \/ SelectStopped(w) \/ AwaitResult(w) \/ StartLeading(w)
             \/ Report(w) \/ CancelRun(w) \/ Observe(w) \/ CancelCaller(w)
      PROVE  InflightRenews'
  BY <1>13 DEF SelectResult, SelectCancelled, SelectStopped, AwaitResult, StartLeading, Report,
               CancelRun, Observe, CancelCaller
<1>14. CASE UNCHANGED vars
  BY <1>14 DEF vars
<1> QED
  BY <1>1, <1>2, <1>3, <1>4, <1>5, <1>6, <1>7, <1>8, <1>9, <1>10, <1>11, <1>12, <1>13, <1>14
     DEF Next, CallerStep, CallbackStep, ElectorStep

\* Without faults only leaders write.
LEMMA NamesLeaderKept ==
  TypeOK /\ NamesLeader /\ InCall /\ [Next]_vars => NamesLeader'
<1> SUFFICES ASSUME TypeOK, NamesLeader, InCall, [Next]_vars PROVE NamesLeader'
  OBVIOUS
<1> USE LockAssumption DEF TypeOK, NamesLeader, InCall, lease, election, call, Unseen
<1>1. CASE Tick
  BY <1>1 DEF Tick, Aged
<1>2. ASSUME NEW w \in Workers, Call(w) PROVE NamesLeader'
  BY <1>2 DEF Call
<1>3. ASSUME NEW w \in Workers, Take(w) PROVE NamesLeader'
  BY <1>3 DEF Take, MayTake, Write
<1>4. ASSUME NEW w \in Workers, Renew(w) PROVE NamesLeader'
  BY <1>4 DEF Renew, Write
<1>5. ASSUME NEW w \in Workers, Return(w) PROVE NamesLeader'
  BY <1>5 DEF Return, RunDone
<1>6. ASSUME NEW w \in Workers, AcquireStops(w) PROVE NamesLeader'
  BY <1>6 DEF AcquireStops
<1>7. ASSUME NEW w \in Workers, RenewStops(w) PROVE NamesLeader'
  BY <1>7 DEF RenewStops, RenewalOver
<1>8. ASSUME NEW w \in Workers, Release(w) PROVE NamesLeader'
  BY <1>8 DEF Release, Write
<1>9. ASSUME NEW w \in Workers, Stop(w) PROVE NamesLeader'
  BY <1>9 DEF Stop
<1>10. ASSUME NEW w \in Workers, Land(w) PROVE NamesLeader'
  BY <1>10 DEF Land, Write
<1>11. ASSUME NEW w \in Workers, UpdateUnacknowledged(w) PROVE NamesLeader'
  BY <1>11 DEF UpdateUnacknowledged, MayTake, Faulty
<1>12. ASSUME NEW w \in Workers, CancelCaller(w) PROVE NamesLeader'
  BY <1>12 DEF CancelCaller, Faulty
<1>13. ASSUME NEW w \in Workers, Crash(w) PROVE NamesLeader'
  BY <1>13 DEF Crash, Faulty
<1>14. ASSUME NEW w \in Workers,
             \/ SelectResult(w) \/ SelectCancelled(w) \/ SelectStopped(w) \/ AwaitResult(w) \/ StartLeading(w)
             \/ Report(w) \/ CancelRun(w) \/ Observe(w)
      PROVE  NamesLeader'
  BY <1>14 DEF SelectResult, SelectCancelled, SelectStopped, AwaitResult, StartLeading, Report,
               CancelRun, Observe
<1>15. CASE UNCHANGED vars
  BY <1>15 DEF vars
<1> QED
  BY <1>1, <1>2, <1>3, <1>4, <1>5, <1>6, <1>7, <1>8, <1>9, <1>10, <1>11, <1>12, <1>13, <1>14, <1>15
     DEF Next, CallerStep, CallbackStep, ElectorStep

LEMMA Initially == Init => IInv
<1> SUFFICES ASSUME Init PROVE IInv
  OBVIOUS
<1> USE LockAssumption DEF Init
<1>1. TypeOK
  BY DEF TypeOK, Unseen
<1>2. InCall /\ EndedForAReason /\ LeaderHolds /\ InflightRenews /\ NamesLeader
  BY DEF InCall, EndedForAReason, LeaderHolds, InflightRenews, NamesLeader
<1> QED
  BY <1>1, <1>2 DEF IInv

LEMMA Inductive == IInv /\ [Next]_vars => IInv'
BY TypeOKKept, InCallKept, EndedForAReasonKept, LeaderHoldsKept, InflightRenewsKept, NamesLeaderKept
   DEF IInv

\* IInv holds in every reachable state.
LEMMA Invariance == Spec => []IInv
BY Initially, Inductive, PTL DEF Spec

\* A callback that may still count has the Lease.
LEMMA RunningHolds ==
  ASSUME IInv, NEW w \in Workers, callback[w] = "running", ~Lost(w)
  PROVE  record = w
<1>1. elector[w] \in {"leading", "releasing", "stopping"} /\ ~runCancelled[w]
  BY DEF IInv, TypeOK, InCall, Lost, LeaderGone
<1>2. age[w] < RenewDeadline
  BY LockAssumption DEF IInv, TypeOK, Lost
<1> QED
  BY <1>1, <1>2, LockAssumption DEF IInv, TypeOK, EndedForAReason, LeaderHolds

\* AcceptedWhileHeld: whatever requests, renewals and takeovers were late, lost or
\* abandoned, WithLock accepts a result only while the Lease names its process.
THEOREM ResultsAreCovered == Spec => AcceptedWhileHeld
<1> DEFINE Accepted == \A w \in Workers : result[w] = "none" /\ result'[w] = "ok" => record = w
<1>1. ASSUME IInv, [Next]_vars PROVE Accepted
  <2> SUFFICES ASSUME NEW w \in Workers, result[w] = "none", result'[w] = "ok" PROVE record = w
    OBVIOUS
  <2>1. result \in [Workers -> {"none", "ok", "error", "lost"}]
    BY <1>1 DEF IInv, TypeOK
  <2>2. ASSUME NEW v \in Workers, Report(v) PROVE record = w
    <3>1. v = w /\ callback[w] = "running" /\ ~Lost(w)
      BY <2>1, <2>2 DEF Report
    <3> QED
      BY <1>1, <3>1, RunningHolds
  <2>3. CASE Tick \/ UNCHANGED vars
    BY <2>3 DEF Tick, vars
  <2>4. ASSUME NEW v \in Workers, Return(v) \/ Crash(v) PROVE FALSE
    BY <2>1, <2>4 DEF Return, Crash
  <2>5. ASSUME NEW v \in Workers,
               \/ Call(v) \/ Take(v) \/ Renew(v) \/ Land(v) \/ UpdateUnacknowledged(v) \/ CancelCaller(v)
               \/ SelectResult(v) \/ SelectCancelled(v) \/ SelectStopped(v) \/ AwaitResult(v)
               \/ StartLeading(v) \/ CancelRun(v) \/ ElectorStep(v)
        PROVE  FALSE
    BY <2>5 DEF Call, Take, Renew, Land, UpdateUnacknowledged, CancelCaller, SelectResult,
                SelectCancelled, 
                SelectStopped, AwaitResult, StartLeading, CancelRun, ElectorStep, Observe, AcquireStops,
                RenewStops, Release, Stop
  <2> QED
    BY <1>1, <2>2, <2>3, <2>4, <2>5 DEF Next, CallerStep, CallbackStep
<1>2. IInv /\ [Next]_vars => [Accepted]_vars
  BY <1>1
<1> QED
  BY <1>2, Invariance, PTL DEF Spec, AcceptedWhileHeld

\* ReturnsReleased: a call that returns has given the Lease back, unless a request
\* failed.
THEOREM CallsGiveTheLeaseBack == Spec => ReturnsReleased
<1> DEFINE Released == \A w \in Workers : Return(w) /\ faults = 0 => record # w
<1>1. IInv => Released
  BY DEF IInv, NamesLeader, Return, RunDone
<1>2. IInv /\ [Next]_vars => [Released]_vars
  BY <1>1
<1> QED
  BY <1>2, Invariance, PTL DEF Spec, ReturnsReleased

-----------------------------------------------------------------------------
(* The refinement of ClaimLease.                                           *)

LockUnchanged == UNCHANGED <<LockHolder, LockPhase, LockAge>>

\* Nothing the lock is about changes.
LEMMA LockStutters ==
  ASSUME record' = record,
         \A v \in Workers : /\ Leading(v)' <=> Leading(v)
                            /\ Waiting(v)' <=> Waiting(v)
                            /\ Leading(v) \/ Waiting(v) => age'[v] = age[v]
  PROVE  LockUnchanged
<1>1. LockHolder' = LockHolder
  BY DEF LockHolder, Leading
<1>2. LockPhase' = LockPhase
  BY DEF LockPhase
<1>3. LockAge' = LockAge
  BY DEF LockAge
<1> QED
  BY <1>1, <1>2, <1>3 DEF LockUnchanged

\* One worker ends its section or its attempt; the record stays, or named it and names
\* nobody now.
LEMMA LockLeft ==
  ASSUME NEW w \in Workers,
         record' = record \/ (record = w /\ record' \notin Workers),
         Leading(w) \/ Waiting(w), ~Leading(w)', ~Waiting(w)',
         \A v \in Workers \ {w} : /\ Leading(v)' <=> Leading(v)
                                  /\ Waiting(v)' <=> Waiting(v)
                                  /\ age'[v] = age[v]
  PROVE  Lease!Leave(w)
<1>1. LockPhase[w] # "out"
  BY DEF LockPhase
<1>2. LockPhase' = [LockPhase EXCEPT ![w] = "out"]
  BY DEF LockPhase
<1>3. LockAge' = [LockAge EXCEPT ![w] = 0]
  BY DEF LockAge
<1>4. LockHolder' = IF LockHolder = w THEN None ELSE LockHolder
  BY LockAssumption DEF LockHolder
<1> QED
  BY <1>1, <1>2, <1>3, <1>4 DEF Lease!Leave

\* The record changes while nobody comes to the lock or leaves it: its holder, if it was
\* another one, is overdue.
LEMMA LockTaken ==
  ASSUME record' \in Workers => record' = record \/ ~Leading(record'),
         record' = record \/ LockHolder = None \/ Lease!Overdue(LockHolder),
         UNCHANGED <<elector, runCancelled, age>>
  PROVE  Lease!Expire \/ LockUnchanged
<1>1. LockPhase' = LockPhase /\ LockAge' = LockAge
  BY DEF LockPhase, LockAge, Leading, Waiting
<1>2. CASE record' = record
  BY <1>2, LockStutters DEF Leading, Waiting
<1>3. CASE record' # record
  <2>1. LockHolder' = None
    BY <1>3 DEF LockHolder, Leading
  <2>2. LockHolder = None \/ Lease!Overdue(LockHolder)
    BY <1>3
  <2> QED
    BY <1>1, <2>1, <2>2 DEF Lease!Expire, LockUnchanged
<1> QED
  BY <1>2, <1>3

\* Whoever else may write the record: its holder is overdue.
LEMMA OthersWait ==
  ASSUME IInv, NEW w \in Workers, record # w, MayTake(w) \/ inflight[w] # "none"
  PROVE  LockHolder = None \/ Lease!Overdue(LockHolder)
<1> SUFFICES ASSUME record \in Workers, Leading(record)
             PROVE  age[record] >= RenewDeadline
  BY DEF LockHolder, LockAge, Lease!Overdue
<1>1. CASE elector[record] = "leading"
  <2>1. age \in [Workers -> 0..RenewDeadline] /\ seen \in [Workers -> Int]
    BY DEF IInv, TypeOK
  <2>2. age[record] < RenewDeadline => seen[w] <= age[record] /\ inflight[w] = "none"
    BY <1>1 DEF IInv, LeaderHolds
  <2>3. record # None
    BY LockAssumption
  <2> QED
    BY <2>1, <2>2, <2>3, LockAssumption DEF MayTake
<1>2. CASE elector[record] \in {"releasing", "stopping"}
  BY <1>2 DEF IInv, EndedForAReason, Leading
<1> QED
  BY <1>1, <1>2 DEF Leading

\* A worker that no longer leads, by its own means, is overdue.
LEMMA EndedIsOverdue ==
  ASSUME IInv, NEW w \in Workers, elector[w] \in {"releasing", "stopping"}, record = w
  PROVE  LockHolder = None \/ Lease!Overdue(LockHolder)
BY DEF IInv, EndedForAReason, LockHolder, LockAge, Leading, Lease!Overdue

\* Time passes for those who have come to the lock.
LEMMA TickTicks == ASSUME IInv, Tick PROVE Lease!Tick
<1>1. LockHolder' = LockHolder /\ LockPhase' = LockPhase
  BY DEF Tick, call, LockHolder, LockPhase, Leading, Waiting
<1>2. ASSUME NEW w \in Workers
      PROVE  LockAge'[w] = IF LockPhase[w] = "out" \/ Lease!Overdue(w) THEN LockAge[w] ELSE LockAge[w] + 1
  <2>1. elector' = elector /\ runCancelled' = runCancelled
    BY DEF Tick
  <2>2. CASE ~Leading(w) /\ ~Waiting(w)
    BY <2>1, <2>2 DEF LockAge, LockPhase, Leading, Waiting
  <2>3. CASE Leading(w) \/ Waiting(w)
    <3>1. caller[w] # "out"
      BY <2>3 DEF IInv, InCall, Leading, Waiting
    <3>2. age[w] \in 0..RenewDeadline /\ age'[w] = Aged(age[w], RenewDeadline)
      BY <3>1 DEF Tick, IInv, TypeOK
    <3>3. LockPhase[w] # "out" /\ LockAge[w] = age[w] /\ LockAge'[w] = age'[w]
      BY <2>1, <2>3 DEF LockPhase, LockAge, Leading, Waiting
    <3> QED
      BY <3>2, <3>3, LockAssumption DEF Aged, Lease!Overdue
  <2> QED
    BY <2>2, <2>3
<1>3. LockAge' = [w \in Workers |-> LockAge'[w]]
  BY DEF LockAge
<1>4. LockAge' = [w \in Workers |->
                    IF LockPhase[w] = "out" \/ Lease!Overdue(w) THEN LockAge[w] ELSE LockAge[w] + 1]
  BY <1>2, <1>3
<1> QED
  BY <1>1, <1>4 DEF Lease!Tick

\* WithLock comes to the lock.
LEMMA CallAttempts ==
  ASSUME IInv, NEW w \in Workers, Call(w) PROVE Lease!Attempt(w)
<1>1. elector[w] = "off" /\ ~runCancelled[w]
  BY DEF IInv, InCall, Call
<1>2. /\ elector' = [elector EXCEPT ![w] = "acquiring"] /\ age' = [age EXCEPT ![w] = 0]
      /\ record' = record /\ runCancelled' = runCancelled
  BY DEF Call, lease
<1>3. elector \in [Workers -> {"off", "acquiring", "leading", "releasing", "stopping", "stopped"}]
  BY DEF IInv, TypeOK
<1>4. age \in [Workers -> 0..RenewDeadline]
  BY DEF IInv, TypeOK
<1>5. \A v \in Workers : Leading(v)' <=> Leading(v)
  BY <1>1, <1>2, <1>3 DEF Leading
<1>6. \A v \in Workers : Waiting(v)' <=> Waiting(v) \/ v = w
  BY <1>1, <1>2, <1>3 DEF Waiting
<1>7. ~Leading(w) /\ ~Waiting(w)
  BY <1>1 DEF Leading, Waiting
<1>8. LockHolder' = LockHolder
  BY <1>2, <1>5 DEF LockHolder, Leading
<1>9. LockPhase[w] = "out" /\ LockPhase' = [LockPhase EXCEPT ![w] = "wait"]
  BY <1>5, <1>6, <1>7 DEF LockPhase
<1>10. LockAge' = LockAge
  BY <1>2, <1>4, <1>5, <1>6, <1>7 DEF LockAge
<1> QED
  BY <1>8, <1>9, <1>10 DEF Lease!Attempt

\* An elector that takes the Lease enters the section, or takes the Lease from the section
\* when its own call is cancelled already.
LEMMA TakeEnters ==
  ASSUME IInv, NEW w \in Workers, Take(w)
  PROVE  Lease!Enter(w) \/ Lease!Expire \/ LockUnchanged
<1>1. /\ elector[w] = "acquiring" /\ elector' = [elector EXCEPT ![w] = "leading"]
      /\ record' = w /\ age' = age /\ runCancelled' = runCancelled
  BY DEF Take, Write
<1>2. elector \in [Workers -> {"off", "acquiring", "leading", "releasing", "stopping", "stopped"}]
  BY DEF IInv, TypeOK
<1>3. ~Leading(w) /\ w # None
  BY <1>1, LockAssumption DEF Leading
<1>4. LockHolder # w
  BY <1>3 DEF LockHolder
<1>5. LockHolder = None \/ Lease!Overdue(LockHolder)
  <2>1. CASE record = w
    BY <1>3, <2>1 DEF LockHolder
  <2>2. CASE record # w
    BY <2>2, OthersWait DEF Take
  <2> QED
    BY <2>1, <2>2
<1>6. \A v \in Workers \ {w} : (Leading(v)' <=> Leading(v)) /\ (Waiting(v)' <=> Waiting(v))
  BY <1>1, <1>2 DEF Leading, Waiting
<1>7. CASE ~runCancelled[w]
  <2>1. Waiting(w) /\ Leading(w)' /\ ~Waiting(w)'
    BY <1>1, <1>2, <1>7 DEF Waiting, Leading
  <2>2. LockPhase[w] = "wait" /\ LockPhase' = [LockPhase EXCEPT ![w] = "in"]
    BY <1>3, <1>6, <2>1 DEF LockPhase
  <2>3. LockAge' = LockAge
    BY <1>1, <1>6, <2>1 DEF LockAge
  <2>4. LockHolder' = w
    BY <1>1, <2>1 DEF LockHolder, Leading
  <2> QED
    BY <1>4, <1>5, <2>2, <2>3, <2>4 DEF Lease!Enter
<1>8. CASE runCancelled[w]
  <2>1. ~Waiting(w) /\ ~Leading(w)' /\ ~Waiting(w)'
    BY <1>1, <1>8 DEF Waiting, Leading
  <2>2. LockPhase' = LockPhase
    BY <1>3, <1>6, <2>1 DEF LockPhase
  <2>3. LockAge' = LockAge
    BY <1>1, <1>3, <1>6, <2>1 DEF LockAge
  <2>4. LockHolder' = None
    BY <1>1, <2>1 DEF LockHolder, Leading
  <2> QED
    BY <1>5, <2>2, <2>3, <2>4 DEF Lease!Expire, LockUnchanged
<1> QED
  BY <1>7, <1>8

\* An update that lands, or is given up in a release, takes the Lease from an overdue
\* holder only.
LEMMA LandExpires ==
  ASSUME IInv, NEW w \in Workers, Land(w) PROVE Lease!Expire \/ LockUnchanged
<1>1. /\ inflight[w] # "none" /\ record' = IF inflight[w] = "take" THEN w ELSE None
      /\ UNCHANGED <<elector, runCancelled, age>>
  BY DEF Land, Write, election
<1>2. CASE record = w /\ Leading(w)
  <2>1. inflight[w] = "take" \/ record' = None
    BY <1>1
  <2>2. LockHolder = w
    BY <1>2 DEF LockHolder
  <2>3. inflight[w] # "take" => age[w] >= RenewDeadline
    BY <1>1, <1>2, LockAssumption DEF IInv, TypeOK, LeaderHolds, EndedForAReason, Leading
  <2>4. inflight[w] # "take" => Lease!Overdue(LockHolder)
    BY <1>2, <2>2, <2>3 DEF LockAge, Lease!Overdue
  <2> QED
    BY <1>1, <1>2, <2>4, LockTaken, LockAssumption
<1>3. CASE record = w /\ ~Leading(w)
  <2>1. LockHolder = None
    BY <1>3 DEF LockHolder
  <2> QED
    BY <1>1, <1>3, <2>1, LockTaken, LockAssumption
<1>4. CASE record # w
  <2>1. LockHolder = None \/ Lease!Overdue(LockHolder)
    BY <1>1, <1>4, OthersWait
  <2>2. record' = w => ~Leading(w)
    BY <1>1, <1>4, LockAssumption DEF IInv, InflightRenews, Leading
  <2> QED
    BY <1>1, <2>1, <2>2, LockTaken, LockAssumption
<1> QED
  BY <1>2, <1>3, <1>4

\* The steps of the elector that leave its leadership alone.
LEMMA ElectorStutters ==
  ASSUME IInv, NEW w \in Workers,
         \/ Renew(w) \/ Observe(w) \/ UpdateUnacknowledged(w) \/ AcquireStops(w) \/ RenewStops(w)
  PROVE  LockUnchanged
<1>1. elector \in [Workers -> {"off", "acquiring", "leading", "releasing", "stopping", "stopped"}]
  BY DEF IInv, TypeOK
<1>2. record' = record /\ age' = age /\ runCancelled' = runCancelled
  BY DEF Renew, Write, Observe, UpdateUnacknowledged, AcquireStops, RenewStops, lease
<1>3. \A v \in Workers : (Leading(v)' <=> Leading(v)) /\ (Waiting(v)' <=> Waiting(v))
  BY <1>1 DEF Renew, Observe, UpdateUnacknowledged, AcquireStops, RenewStops, election, Leading,
              Waiting
<1> QED
  BY <1>2, <1>3, LockStutters

\* What ends a leadership gives the Lease back late, or ends a cancelled one.
LEMMA ReleaseExpires ==
  ASSUME IInv, NEW w \in Workers, Release(w) PROVE Lease!Expire \/ LockUnchanged
<1>1. /\ elector[w] = "releasing" /\ elector' = [elector EXCEPT ![w] = "stopping"]
      /\ age' = age /\ runCancelled' = runCancelled
      /\ record' = IF record = w THEN None ELSE record
  BY DEF Release, Write, lease
<1>2. \A v \in Workers : (Leading(v)' <=> Leading(v)) /\ (Waiting(v)' <=> Waiting(v))
  BY <1>1 DEF IInv, TypeOK, Leading, Waiting
<1>3. CASE record # w
  BY <1>1, <1>2, <1>3, LockStutters
<1>4. CASE record = w
  <2>1. LockHolder = None \/ Lease!Overdue(LockHolder)
    BY <1>1, <1>4, EndedIsOverdue
  <2>2. LockHolder' = None
    BY <1>1, <1>4, LockAssumption DEF LockHolder
  <2>3. LockPhase' = LockPhase
    BY <1>2 DEF LockPhase
  <2>4. LockAge' = LockAge
    BY <1>1, <1>2 DEF LockAge
  <2> QED
    BY <2>1, <2>2, <2>3, <2>4 DEF Lease!Expire, LockUnchanged
<1> QED
  BY <1>3, <1>4

\* An elector that stops, a cancellation and a crash end the section or the attempt they
\* find.
LEMMA EndsLeave ==
  ASSUME IInv, NEW w \in Workers,
         Stop(w) \/ CancelRun(w) \/ SelectCancelled(w) \/ Return(w) \/ Crash(w)
  PROVE  Lease!Leave(w) \/ LockUnchanged
<1>1. TypeOK
  BY DEF IInv
<1>2. record' = record \/ (record = w /\ record' \notin Workers)
  BY LockAssumption DEF Stop, CancelRun, SelectCancelled, Return, Crash, lease
<1>3. \A v \in Workers \ {w} : /\ elector'[v] = elector[v]
                               /\ runCancelled'[v] <=> runCancelled[v]
                               /\ age'[v] = age[v]
  BY <1>1 DEF TypeOK, Stop, CancelRun, SelectCancelled, Return, Crash, election
<1>4. \A v \in Workers \ {w} : /\ Leading(v)' <=> Leading(v)
                               /\ Waiting(v)' <=> Waiting(v)
                               /\ age'[v] = age[v]
  BY <1>3 DEF Leading, Waiting
<1>5. CASE ~Leading(w)' /\ ~Waiting(w)'
  <2>1. CASE Leading(w) \/ Waiting(w)
    BY <1>1, <1>2, <1>4, <1>5, <2>1, LockLeft
  <2>2. CASE ~Leading(w) /\ ~Waiting(w)
    <3>1. LockHolder' = LockHolder
      BY <1>2, <1>4, <1>5, <2>2 DEF LockHolder
    <3>2. LockPhase' = LockPhase
      BY <1>4, <1>5, <2>2 DEF LockPhase
    <3>3. LockAge' = LockAge
      BY <1>4, <1>5, <2>2 DEF LockAge
    <3> QED
      BY <3>1, <3>2, <3>3 DEF LockUnchanged
  <2> QED
    BY <2>1, <2>2
<1>6. CASE Leading(w)' \/ Waiting(w)'
  <2>1. SelectCancelled(w) /\ Started(w)
    BY <1>1, <1>6 DEF TypeOK, IInv, InCall, Stop, CancelRun, SelectCancelled, Return, Crash,
                      Leading, Waiting, election
  <2>2. UNCHANGED <<record, elector, runCancelled, age>>
    BY <2>1 DEF SelectCancelled, lease, election
  <2> QED
    BY <2>2, LockStutters DEF Leading, Waiting
<1> QED
  BY <1>5, <1>6

\* The steps of the callback and of the caller that neither come to the lock nor leave it.
LEMMA OthersStutter ==
  ASSUME NEW w \in Workers,
         \/ StartLeading(w) \/ Report(w) \/ CancelCaller(w)
         \/ SelectResult(w) \/ SelectStopped(w) \/ AwaitResult(w)
  PROVE  LockUnchanged
<1>1. UNCHANGED <<record, elector, runCancelled, age>>
  BY DEF StartLeading, Report, CancelCaller, SelectResult, SelectStopped, AwaitResult, lease,
         election
<1> QED
  BY <1>1, LockStutters DEF Leading, Waiting

\* Every step of WithLock, of the electors and of the faults around them is a step of the
\* abstract lock, or none.
LEMMA StepRefines ==
  ASSUME IInv, [Next]_vars PROVE [Lease!Next]_<<LockHolder, LockPhase, LockAge>>
<1> SUFFICES Lease!Next \/ LockUnchanged
  BY DEF LockUnchanged
<1>1. CASE Tick
  BY <1>1, TickTicks DEF Lease!Next
<1>2. ASSUME NEW w \in Workers, Call(w) \/ Take(w) PROVE Lease!Next \/ LockUnchanged
  BY <1>2, CallAttempts, TakeEnters DEF Lease!Next
<1>3. ASSUME NEW w \in Workers, ElectorStep(w) \/ Renew(w) \/ Land(w) \/ UpdateUnacknowledged(w)
      PROVE  Lease!Next \/ LockUnchanged
  BY <1>3, ElectorStutters, ReleaseExpires, LandExpires, EndsLeave DEF ElectorStep, Lease!Next
<1>4. ASSUME NEW w \in Workers, CallerStep(w) \/ CallbackStep(w) \/ CancelCaller(w) \/ Crash(w)
      PROVE  Lease!Next \/ LockUnchanged
  BY <1>4, OthersStutter, EndsLeave DEF CallerStep, CallbackStep, Lease!Next
<1>5. CASE UNCHANGED vars
  BY <1>5, LockStutters DEF vars, lease, election, Leading, Waiting
<1> QED
  BY <1>1, <1>2, <1>3, <1>4, <1>5 DEF Next

\* Nobody has come to the lock initially.
LEMMA InitRefines == Init => Lease!Init
BY LockAssumption DEF Init, Lease!Init, LockHolder, LockPhase, LockAge, Leading, Waiting

\* IsClaimLease: WithLock, with its select, its callback and client-go's elector, is the
\* abstract claim lock, whatever requests, renewals and processes fail.
THEOREM LockImplementsLease == Spec => IsClaimLease
BY InitRefines, StepRefines, Invariance, PTL DEF Spec, IsClaimLease, Lease!Spec, Lease!leaseVars

\* Whatever implements the claim lock keeps sections that are not overdue apart, by
\* LeaseInv, which every step of the abstract lock keeps.
LEMMA SectionsAreExclusive ==
  ASSUME Lease!LeaseAssumption PROVE Lease!Spec => []Lease!SectionsExclude
<1> USE DEF Lease!LeaseAssumption, Lease!LeaseInv, Lease!Overdue
<1>1. Lease!Init => Lease!LeaseInv
  BY DEF Lease!Init
<1>2. Lease!LeaseInv /\ [Lease!Next]_<<LockHolder, LockPhase, LockAge>> => Lease!LeaseInv'
  <2> SUFFICES ASSUME Lease!LeaseInv, [Lease!Next]_<<LockHolder, LockPhase, LockAge>>
               PROVE  Lease!LeaseInv'
    OBVIOUS
  <2>1. CASE Lease!Tick
    BY <2>1 DEF Lease!Tick
  <2>2. CASE Lease!Expire
    BY <2>2 DEF Lease!Expire
  <2>3. ASSUME NEW w \in Workers, Lease!Attempt(w) PROVE Lease!LeaseInv'
    BY <2>3 DEF Lease!Attempt
  <2>4. ASSUME NEW w \in Workers, Lease!Enter(w) PROVE Lease!LeaseInv'
    BY <2>4 DEF Lease!Enter
  <2>5. ASSUME NEW w \in Workers, Lease!Leave(w) PROVE Lease!LeaseInv'
    BY <2>5 DEF Lease!Leave
  <2>6. CASE UNCHANGED <<LockHolder, LockPhase, LockAge>>
    BY <2>6
  <2> QED
    BY <2>1, <2>2, <2>3, <2>4, <2>5, <2>6 DEF Lease!Next
<1>3. Lease!LeaseInv => Lease!SectionsExclude
  BY DEF Lease!SectionsExclude
<1> QED
  BY <1>1, <1>2, <1>3, PTL DEF Lease!Spec, Lease!leaseVars

\* What the abstract lock promises, WithLock keeps: of two processes that lead with their
\* callbacks running, one asked for the lock RenewDeadline ago or longer.
THEOREM LeadersExclude == Spec => []Lease!SectionsExclude
<1>1. Lease!LeaseAssumption
  BY LockAssumption DEF Lease!LeaseAssumption
<1>2. Lease!Spec => []Lease!SectionsExclude
  BY <1>1, SectionsAreExclusive
<1> QED
  BY <1>2, LockImplementsLease DEF IsClaimLease

=============================================================================
