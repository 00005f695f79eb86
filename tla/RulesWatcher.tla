----------------------------- MODULE RulesWatcher -----------------------------
(***************************************************************************)
(* A process that keeps an operator-managed rules document current         *)
(* (internal/rulesource) and answers requests with it (the exception       *)
(* endpoints of cmd/api-gateway).  The source is a mounted file, an S3     *)
(* object or an HTTPS URL; the last one is asked conditionally.  People    *)
(* edit, break, empty and remove the document while it is polled.          *)
(*                                                                         *)
(* A document stands for its content and its ETag.  Names that every       *)
(* specification has say Watcher, as others are extended beside this one.  *)
(***************************************************************************)
EXTENDS Naturals

CONSTANTS
  Documents,      \* what the source may hold
  Good,           \* the contents the parser accepts
  Missing,        \* there is no document
  Emptied,        \* a document of no bytes, which no parser accepts
  Conditional,    \* the fetcher remembers an ETag (HTTPS)
  Remote,         \* a missing document is an error (HTTPS, S3)
  Nothing,        \* no ETag, no reply
  NotModified,    \* errNotModified
  Failure,        \* any other error of a fetch
  MaxEdits,       \* bound on changes of the document
  MaxFailures     \* bound on failed requests and restarts

ASSUME WatcherAssumption ==
  /\ Good \subseteq Documents
  /\ {Missing, Emptied} \cap Good = {} /\ Missing # Emptied
  /\ {Nothing, NotModified, Failure} \cap (Documents \cup {Missing}) = {}
  /\ Nothing # NotModified /\ Nothing # Failure /\ NotModified # Failure
  /\ Conditional \in BOOLEAN /\ Remote \in BOOLEAN /\ (Conditional => Remote)
  /\ MaxEdits \in Nat /\ MaxFailures \in Nat

VARIABLES
  document,       \* what the source holds
  etag,           \* the fetcher's ETag
  reply,          \* what Fetch returned to the Refresh that is running
  snap,           \* the Snapshot: value (Missing if not Present), ready, err
  polled,         \* history: what the source held when the last Fetch was answered
  edits, failures \* bounds: changes and failures so far

watcher == <<document, etag, reply, snap, polled, edits, failures>>

WatcherInit ==
  /\ document \in Documents
  /\ etag = Nothing /\ reply = Nothing
  /\ snap = [value |-> Missing, ready |-> FALSE, err |-> "none"]
  /\ polled = Failure
  /\ edits = 0 /\ failures = 0

\* A missing document hashes like an empty one; other contents differ.
Digest(d) == IF d = Missing THEN Emptied ELSE d

-----------------------------------------------------------------------------
\* Somebody publishes, breaks, reverts or removes the document.
Edit ==
  /\ edits < MaxEdits /\ edits' = edits + 1
  /\ document' \in Documents \ {document}
  /\ UNCHANGED <<etag, reply, snap, polled, failures>>

\* Mutation: the ETag of a response is remembered before its body is read.
TagBeforeBody ==
  /\ reply = Nothing
  /\ failures < MaxFailures /\ failures' = failures + 1
  /\ reply' = Failure /\ polled' = Failure
  /\ etag' = IF Conditional THEN document ELSE etag
  /\ UNCHANGED <<document, snap, edits>>

\* The request fails, or the body of its response cannot be read.
FetchFails ==
  /\ reply = Nothing
  /\ failures < MaxFailures /\ failures' = failures + 1
  /\ reply' = Failure /\ polled' = Failure
  /\ UNCHANGED <<document, etag, snap, edits>>

\* The source answers: a conditional request for the version it holds with 304,
\* one for a missing object with an error that a file source does not make.
Fetch ==
  /\ reply = Nothing
  /\ polled' = IF document = Missing /\ Remote THEN Failure ELSE document
  /\ reply' = IF document = Missing /\ Remote THEN Failure
              ELSE IF etag = document THEN NotModified ELSE document
  /\ etag' = IF Conditional /\ document # Missing THEN document ELSE etag
  /\ UNCHANGED <<document, snap, edits, failures>>

-----------------------------------------------------------------------------
\* The rest of Refresh, by what Fetch returned.
FetchFailed ==
  /\ reply = Failure
  /\ snap' = [snap EXCEPT !.err = "unreachable"]
  /\ UNCHANGED etag

\* The digest is the one of the document in use, which is not parsed again.
Known == snap.ready /\ Digest(snap.value) = Digest(reply)

\* There is no document, or the parser takes it.
Accepted == reply \in Good \cup {Missing}

Unchanged ==
  /\ reply = NotModified \/ (reply \notin {Failure, NotModified} /\ Known)
  /\ snap' = [snap EXCEPT !.err = "none"]
  /\ UNCHANGED etag

\* Mutation: the version of a rejected document is not forgotten.
RemembersVersion ==
  /\ reply \notin {Failure, NotModified} /\ ~Known /\ ~Accepted
  /\ snap' = [snap EXCEPT !.err = "invalid"]
  /\ UNCHANGED etag

\* forgetVersion: the next poll must not be a 304 for the rejected document.
Rejected ==
  /\ reply \notin {Failure, NotModified} /\ ~Known /\ ~Accepted
  /\ snap' = [snap EXCEPT !.err = "invalid"]
  /\ etag' = Nothing

Loaded ==
  /\ reply \notin {Failure, NotModified} /\ ~Known /\ Accepted
  /\ snap' = [value |-> reply, ready |-> TRUE, err |-> "none"]
  /\ UNCHANGED etag

Apply ==
  /\ reply # Nothing /\ reply' = Nothing
  /\ FetchFailed \/ Unchanged \/ Rejected \/ Loaded
  /\ UNCHANGED <<document, polled, edits, failures>>

\* The process starts again; a worker whose first Refresh fails does so by itself.
Restart ==
  /\ failures < MaxFailures /\ failures' = failures + 1
  /\ etag' = Nothing /\ reply' = Nothing /\ polled' = Failure
  /\ snap' = [value |-> Missing, ready |-> FALSE, err |-> "none"]
  /\ UNCHANGED <<document, edits>>

WatcherNext == Edit \/ FetchFails \/ Fetch \/ Apply \/ Restart

WatcherSpec == WatcherInit /\ [][WatcherNext]_watcher

\* The ticker of Run.
FairWatcher == WatcherSpec /\ WF_watcher(Fetch \/ FetchFails) /\ WF_watcher(Apply)

-----------------------------------------------------------------------------
\* requestExceptions: the rules a request is answered with, or its status.
Answer == IF snap.err = "invalid" THEN "500"
          ELSE IF ~snap.ready THEN "503" ELSE snap.value

\* Types; only contents the parser accepted are in use, and only a conditional
\* fetcher has an ETag.
WatcherTypes ==
  /\ document \in Documents
  /\ etag \in {Nothing} \cup (IF Conditional THEN Documents \ {Missing} ELSE {})
  /\ reply \in Documents \cup {Nothing, NotModified, Failure}
  /\ polled \in Documents \cup {Failure}
  /\ snap \in [value : Good \cup {Missing}, ready : BOOLEAN,
               err : {"none", "invalid", "unreachable"}]
  /\ edits \in 0..MaxEdits /\ failures \in 0..MaxFailures

\* After a Refresh that reached the source, requests are answered as the document it
\* then held says: with its rules, or with a 500 if it is broken.  In particular no
\* 304 and no equal digest makes a broken document look like the rules in use.
NotPaperedOver ==
  reply = Nothing /\ polled # Failure =>
    Answer = IF polled \in Good \cup {Missing} THEN polled ELSE "500"

\* Rules that stay published come into use, however often the document was broken,
\* reverted or unreachable before.
Reaches(d) == <>[](document = d) => <>[](Answer = d)
GoodRulesReach == \A d \in Good : Reaches(d)

=============================================================================
