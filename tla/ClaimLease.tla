------------------------------ MODULE ClaimLease ------------------------------
(***************************************************************************)
(* What the claim lock promises to ClaimJobs, whoever implements it: at    *)
(* most one worker is in its critical section, or has been there for less  *)
(* than Handover since it asked for the lock.                              *)
(***************************************************************************)
EXTENDS Naturals

CONSTANTS
  Workers,
  None,         \* nobody has the lock
  Handover      \* least time from a lock attempt to the takeover of its lock

LeaseAssumption == None \notin Workers /\ Handover \in Nat

VARIABLES
  holder,       \* the worker that has the lock
  phase,        \* per worker: out of, waiting for or in its critical section
  age           \* per worker: time since its attempt began, at most Handover

leaseVars == <<holder, phase, age>>

Init ==
  /\ holder = None
  /\ phase = [w \in Workers |-> "out"]
  /\ age = [w \in Workers |-> 0]

Overdue(w) == age[w] >= Handover

Tick ==
  /\ age' = [w \in Workers |-> IF phase[w] = "out" \/ Overdue(w) THEN age[w] ELSE age[w] + 1]
  /\ UNCHANGED <<holder, phase>>

Attempt(w) ==
  /\ phase[w] = "out"
  /\ phase' = [phase EXCEPT ![w] = "wait"]
  /\ UNCHANGED <<holder, age>>

Enter(w) ==
  /\ phase[w] = "wait"
  /\ holder # None => holder # w /\ Overdue(holder)
  /\ holder' = w
  /\ phase' = [phase EXCEPT ![w] = "in"]
  /\ UNCHANGED age

\* The section or the attempt ends, by its own or with its process.
Leave(w) ==
  /\ phase[w] # "out"
  /\ phase' = [phase EXCEPT ![w] = "out"]
  /\ age' = [age EXCEPT ![w] = 0]
  /\ holder' = IF holder = w THEN None ELSE holder

\* The lock is taken from a worker that is still in its section.
Expire ==
  /\ holder # None /\ Overdue(holder)
  /\ holder' = None
  /\ UNCHANGED <<phase, age>>

Next == Tick \/ Expire \/ \E w \in Workers : Attempt(w) \/ Enter(w) \/ Leave(w)

Spec == Init /\ [][Next]_leaseVars

-----------------------------------------------------------------------------
\* Of two workers in their sections one has overrun the handover time: sections
\* that end before it exclude each other.
SectionsExclude ==
  \A v, w \in Workers :
    phase[v] = "in" /\ phase[w] = "in" /\ v # w => age[v] >= Handover \/ age[w] >= Handover

\* A worker in its section has the lock until it is overdue: inductive, whoever
\* implements the lock.
LeaseInv ==
  /\ phase \in [Workers -> {"out", "wait", "in"}]
  /\ age \in [Workers -> Nat]
  /\ \A w \in Workers : phase[w] = "in" => holder = w \/ Overdue(w)

=============================================================================
