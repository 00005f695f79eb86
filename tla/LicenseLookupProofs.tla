-------------------------- MODULE LicenseLookupProofs --------------------------
(***************************************************************************)
(* Proofs about LicenseLookup, for any documents, services and number of   *)
(* workers, failures, limits and restarts: the caches hold only what the   *)
(* services said, knowledge is not lost from the tables, and the stored    *)
(* licences, sources and reasons are right.                                *)
(*                                                                         *)
(* What the invariant adds is what every worker knows on its way there:    *)
(* what an absent licence in a cache means, and that a job has heard every *)
(* resolver it has passed.                                                 *)
(***************************************************************************)
EXTENDS LicenseLookup, WellFoundedInduction, TLAPS

-----------------------------------------------------------------------------
(* The invariant.                                                          *)

Finishing == {"persist licenses", "persist metadata", "persist registries", "insert packages"}
Fields == {"stage", "doc", "at", "repo", "licenses", "sources"}
SourceFields == {"origin", "latest", "normalized"}

\* The state has the shape that its updates need.
Shape ==
  /\ DOMAIN licenseCache = Workers /\ DOMAIN metadataCache = Workers
  /\ DOMAIN resolverCache = Workers /\ DOMAIN work = Workers
  /\ DOMAIN registry_license_cache = RegistryNames
  /\ \A w \in Workers : DOMAIN resolverCache[w] = RegistryNames /\ DOMAIN work[w] = Fields

\* A cached licence of a repository, and its absence: there is none, or a request
\* about the repository failed.
LicenseIsKnown(r, license) ==
  /\ license # NoLicense => license \in RepositoryLicenses(r)
  /\ license = NoLicense => FileLicense(r) = NoLicense \/ <<"github", r>> \in unanswered

LicensesKnown ==
  /\ \A r \in DOMAIN github_license_cache : LicenseIsKnown(r, github_license_cache[r])
  /\ \A w \in Workers : \A r \in DOMAIN licenseCache[w] : LicenseIsKnown(r, licenseCache[w][r])

\* The flag of a repository; and what a worker knows of it, which a restart may
\* have forgotten.
FlagIsKnown(r, archived) ==
  /\ archived => r \in DOMAIN Repository /\ Repository[r].archived
  /\ r \in DOMAIN Repository /\ Repository[r].archived => archived \/ <<"github", r>> \in unanswered

AskedOrForgotten(r, license) ==
  /\ license # NoLicense => license \in GitHubLicenses(r)
  /\ license = NoLicense =>
       GitHubLicense(r) = NoLicense \/ <<"github", r>> \in unanswered \/ <<"forgotten", r>> \in unanswered

MetadataKnown ==
  /\ \A r \in DOMAIN github_repo_metadata : FlagIsKnown(r, github_repo_metadata[r].archived)
  /\ \A w \in Workers : \A r \in DOMAIN metadataCache[w] :
       /\ FlagIsKnown(r, metadataCache[w][r].archived)
       /\ AskedOrForgotten(r, metadataCache[w][r].license)

\* A registry's cache holds true values, for keys it can be asked about.
CacheIsTrue(g, cache) == \A key \in DOMAIN cache : key \in Keys(g) /\ cache[key] \in TrueValues(g, key)

RegistriesKnown ==
  \A g \in RegistryNames :
    CacheIsTrue(g, registry_license_cache[g]) /\ \A w \in Workers : CacheIsTrue(g, resolverCache[w][g])

-----------------------------------------------------------------------------
(* A job: what it has been told, whom it has passed, where it is.          *)

RowsFit(job) ==
  /\ job.doc \in DOMAIN Documents /\ job.at \in Nat /\ job.repo \in Nat
  /\ DOMAIN job.licenses = DOMAIN Documents[job.doc] /\ DOMAIN job.sources = DOMAIN Documents[job.doc]
  /\ \A i \in DOMAIN Documents[job.doc] : DOMAIN job.sources[i] = SourceFields

\* The licence of each package is the declared one, or one that its source gave.
Told(job) ==
  \A i \in DOMAIN Documents[job.doc] :
    /\ Documents[job.doc][i].license # NoLicense =>
         job.licenses[i] # NoLicense /\ job.sources[i].origin = "declared"
    /\ Documents[job.doc][i].license = NoLicense /\ job.licenses[i] # NoLicense =>
         /\ job.sources[i].origin \in Resolvers
         /\ job.licenses[i] \in Licenses[Documents[job.doc][i].purl][job.sources[i].origin]

\* A resolver that has a licence and is behind the job, or before the one that
\* gave the licence, was not heard.
Behind(job, g, i) ==
  IF job.licenses[i] # NoLicense THEN Order[g] < Order[job.sources[i].origin]
  ELSE job.stage \in Resolvers => Precedes([stage |-> g, at |-> i], job)

Heard(job) ==
  \A i \in DOMAIN Documents[job.doc], g \in Resolvers :
    /\ Documents[job.doc][i].license = NoLicense
    /\ Licenses[Documents[job.doc][i].purl][g] # {}
    /\ Behind(job, g, i)
    => NotHeard(g, Documents[job.doc][i].purl)

\* The repositories of a NuGet package that a job has asked in vain.
AskedInVain(key, n) ==
  \/ FileLicense(Upstream["nuget"][key].repos[n]) = NoLicense
  \/ <<"github", Upstream["nuget"][key].repos[n]>> \in unanswered
  \/ <<"nuget", key>> \in unanswered

AtRepository(job, key) ==
  /\ key \in DOMAIN Upstream["nuget"] /\ StatedLicense(Upstream["nuget"][key]) = NoLicense
  /\ job.repo \in DOMAIN Upstream["nuget"][key].repos
  /\ \A n \in 1..(job.repo - 1) : AskedInVain(key, n)

AtQuestion(job) ==
  /\ [stage |-> job.stage, at |-> job.at] \in Questions[job.doc]
  /\ job.licenses[job.at] = NoLicense
  /\ job.stage = "nuget" /\ job.repo > 0 =>
       AtRepository(job, Extract("nuget", Documents[job.doc][job.at].purl))

JobIsSound(job) ==
  /\ job.stage \in Resolvers \cup {"normalize"} => RowsFit(job) /\ Told(job) /\ Heard(job)
  /\ job.stage \in Resolvers => AtQuestion(job)
  /\ job.stage \in Finishing =>
       job.doc \in DOMAIN Documents /\ NoOneOverheard(job.doc, job) /\ TrueToSource(job.doc, job)

JobsSound ==
  /\ \A w \in Workers : JobIsSound(work[w])
  /\ \A d \in DOMAIN sbom_packages : NoOneOverheard(d, sbom_packages[d]) /\ TrueToSource(d, sbom_packages[d])

LookupInv == Shape /\ LicensesKnown /\ MetadataKnown /\ RegistriesKnown /\ JobsSound
-----------------------------------------------------------------------------
(* What the inputs are.                                                    *)

LEMMA InputsAreSequences ==
  /\ \A d \in DOMAIN Documents : Len(Documents[d]) \in Nat /\ DOMAIN Documents[d] = 1..Len(Documents[d])
  /\ \A key \in DOMAIN Upstream["nuget"] : LET repos == Upstream["nuget"][key].repos
       IN /\ Len(repos) \in Nat /\ DOMAIN repos = 1..Len(repos)
          /\ repos = <<>> <=> Len(repos) = 0
BY LookupAssumption

-----------------------------------------------------------------------------
(* What can be found out about a repository.                               *)

LEMMA JoinIsALicense ==
  ASSUME NEW op, NEW ids, ids # {}
  PROVE  Join(op, ids) # NoLicense
BY DEF Join, NoLicense

\* Without a licence file or an override there is no licence at all.
LEMMA NoLicenseAtAll ==
  ASSUME NEW r, FileLicense(r) = NoLicense
  PROVE  GitHubLicense(r) = NoLicense /\ \A l \in RepositoryLicenses(r) : l = NoLicense
<1>1. OverrideLicense(r) = NoLicense
  BY JoinIsALicense DEF FileLicense, OverrideLicense
<1>2. r \in DOMAIN Repository => Repository[r].license \in NoInfo
  BY LookupAssumption
<1>3. GitHubLicense(r) = NoLicense
  <2>1. CASE r \in DOMAIN Repository
    BY <1>2, <2>1 DEF GitHubLicense
  <2>2. CASE r \notin DOMAIN Repository
    BY <2>2 DEF GitHubLicense
  <2> QED
    BY <2>1, <2>2
<1> QED
  BY <1>1, <1>3 DEF RepositoryLicenses

InquiryFields == {"license", "found", "cache", "limitedFor", "failed", "limited", "refused"}

\* An inquiry of w that has not asked anything yet.
Fresh(w, o) ==
  /\ DOMAIN o = InquiryFields
  /\ o.license = NoLicense /\ o.cache = licenseCache[w]
  /\ o.failed = {} /\ o.limited = {} /\ o.refused = {}

LEMMA InquiryIsFresh == \A w : Fresh(w, Inquiry(w))
BY DEF Fresh, Inquiry, InquiryFields

\* What a licence look-up brings.
FileAnswer(repo, o) ==
  \/ o.license = FileLicense(repo)
  \/ repo \in o.failed /\ o.license = OverrideLicense(repo)

\* What a request leaves as it was.
LEMMA Requested ==
  ASSUME NEW w, NEW i, Fresh(w, i), NEW repo, NEW p \in Request(i, repo, i)
  PROVE  /\ DOMAIN p = InquiryFields /\ p.cache = licenseCache[w] /\ p.refused = {} /\ p.found = i.found
         /\ p.license = NoLicense
         /\ p.failed \in {{}, {repo}} /\ p.limited \in {{}, {repo}}
<1>1. CASE p = i
  BY <1>1 DEF Fresh
<1>2. CASE p = [i EXCEPT !.failed = @ \cup {repo}]
  BY <1>2 DEF Fresh, InquiryFields
<1>3. CASE \E reset \in 1..MaxReset :
             p = [i EXCEPT !.limited = @ \cup {repo}, !.limitedFor = IF reset > @ THEN reset ELSE @]
  BY <1>3 DEF Fresh, InquiryFields
<1> QED
  BY <1>1, <1>2, <1>3 DEF Request

LEMMA LicenseFetched ==
  ASSUME NEW w, NEW i, Fresh(w, i), NEW repo, NEW o \in FetchLicense(i, repo)
  PROVE  /\ DOMAIN o = InquiryFields /\ o.cache = licenseCache[w] /\ o.refused = {} /\ o.found = i.found
         /\ o.failed \subseteq {repo} /\ o.limited \subseteq {repo}
         /\ o.limited # {} => o.license = NoLicense
         /\ o.limited = {} => FileAnswer(repo, o)
<1>1. PICK p \in Request(i, repo, i) :
        o = IF repo \in p.limited THEN p
            ELSE IF repo \in p.failed THEN [p EXCEPT !.license = OverrideLicense(repo)]
            ELSE [p EXCEPT !.license = FileLicense(repo)]
  BY DEF FetchLicense
<1>2. /\ DOMAIN p = InquiryFields /\ p.cache = licenseCache[w] /\ p.refused = {} /\ p.found = i.found
      /\ p.license = NoLicense
      /\ p.failed \in {{}, {repo}} /\ p.limited \in {{}, {repo}}
  BY Requested
<1>3. CASE repo \in p.limited
  <2>1. o = p
    BY <1>1, <1>3
  <2> QED
    BY <1>2, <1>3, <2>1
<1>4. CASE repo \notin p.limited /\ repo \in p.failed
  <2>1. o = [p EXCEPT !.license = OverrideLicense(repo)]
    BY <1>1, <1>4
  <2> QED
    BY <1>2, <1>4, <2>1 DEF InquiryFields, FileAnswer
<1>5. CASE repo \notin p.limited /\ repo \notin p.failed
  <2>1. o = [p EXCEPT !.license = FileLicense(repo)]
    BY <1>1, <1>5
  <2> QED
    BY <1>2, <1>5, <2>1 DEF InquiryFields, FileAnswer
<1> QED
  BY <1>3, <1>4, <1>5

\* NuGet's look-up: from the cache, refused, limited, or asked and cached.
LEMMA LicenseResolved ==
  ASSUME NEW w, NEW repo, NEW o \in ResolveLicense(Inquiry(w), repo)
  PROVE  /\ o.failed \subseteq {repo} /\ o.limited \subseteq {repo}
         /\ \/ /\ repo \in DOMAIN licenseCache[w] /\ o.license = licenseCache[w][repo]
               /\ o.cache = licenseCache[w]
            \/ o.license = NoLicense /\ o.limited \cup o.refused # {} /\ o.cache = licenseCache[w]
            \/ FileAnswer(repo, o) /\ o.cache = Put(licenseCache[w], repo, o.license)
<1> DEFINE i == Inquiry(w)
<1>1. Fresh(w, i)
  BY InquiryIsFresh
<1>2. i.cache = licenseCache[w] /\ DOMAIN i = InquiryFields
  BY <1>1 DEF Fresh
<1> HIDE DEF i
<1>3. CASE repo \in DOMAIN i.cache
  <2>1. o = [i EXCEPT !.license = i.cache[repo]]
    BY <1>3 DEF ResolveLicense, i
  <2> QED
    BY <1>1, <1>3, <2>1 DEF Fresh, InquiryFields
<1>4. CASE repo \notin DOMAIN i.cache /\ i.limitedFor > 0
  <2>1. o = [i EXCEPT !.refused = @ \cup {repo}]
    BY <1>4 DEF ResolveLicense, i
  <2> QED
    BY <1>1, <2>1 DEF Fresh, InquiryFields
<1>5. CASE repo \notin DOMAIN i.cache /\ ~(i.limitedFor > 0)
  <2>1. PICK p \in FetchLicense(i, repo) :
          o = IF repo \in p.limited THEN p ELSE [p EXCEPT !.cache = Put(@, repo, p.license)]
    BY <1>5 DEF ResolveLicense, i
  <2>2. /\ DOMAIN p = InquiryFields /\ p.cache = licenseCache[w] /\ p.refused = {}
        /\ p.failed \subseteq {repo} /\ p.limited \subseteq {repo}
        /\ p.limited # {} => p.license = NoLicense
        /\ p.limited = {} => FileAnswer(repo, p)
    BY <1>1, LicenseFetched
  <2>3. CASE repo \in p.limited
    <3>1. o = p
      BY <2>1, <2>3
    <3> QED
      BY <2>2, <2>3, <3>1
  <2>4. CASE repo \notin p.limited
    <3>1. o = [p EXCEPT !.cache = Put(@, repo, p.license)]
      BY <2>1, <2>4
    <3>2. /\ o.failed = p.failed /\ o.limited = p.limited /\ o.license = p.license
          /\ o.cache = Put(licenseCache[w], repo, p.license)
      BY <2>2, <3>1 DEF InquiryFields
    <3> QED
      BY <2>2, <2>4, <3>2 DEF FileAnswer
  <2> QED
    BY <2>3, <2>4
<1> QED
  BY <1>3, <1>4, <1>5

\* What the metadata of a repository brings: not found, or found with a licence.
MetadataAnswer(repo, o) ==
  \/ ~o.found /\ (repo \notin DOMAIN Repository \/ repo \in o.failed)
  \/ /\ o.found /\ repo \in DOMAIN Repository
     /\ \/ o.license = GitHubLicense(repo)
        \/ Repository[repo].license \in NoInfo /\ FileAnswer(repo, o)

LEMMA MetadataFetched ==
  ASSUME NEW w, NEW repo, NEW o \in FetchMetadata(Inquiry(w), repo)
  PROVE  /\ DOMAIN o = InquiryFields /\ o.cache = licenseCache[w]
         /\ o.failed \subseteq {repo}
         /\ o.limited = {} => MetadataAnswer(repo, o)
<1> DEFINE i == Inquiry(w)
           known == repo \in DOMAIN Repository
           j == [i EXCEPT !.found = known]
<1>1. Fresh(w, i) /\ ~i.found
  BY InquiryIsFresh DEF i, Inquiry
<1>2. Fresh(w, j) /\ j.found = known
  BY <1>1 DEF Fresh, InquiryFields
<1>3. PICK p \in Request(i, repo, j) :
        o \in IF ~p.found THEN {p}
              ELSE IF Repository[repo].license \notin NoInfo
                   THEN {[p EXCEPT !.license = Join("", {Repository[repo].license})]}
              ELSE {[q EXCEPT !.found = repo \notin q.limited] : q \in FetchLicense(p, repo)}
  BY DEF FetchMetadata
<1> HIDE DEF i, j
<1>4. CASE p = j
  <2>1. CASE ~known
    BY <1>2, <1>3, <1>4, <2>1 DEF Fresh, MetadataAnswer
  <2>2. CASE known /\ Repository[repo].license \notin NoInfo
    <3>1. o = [p EXCEPT !.license = Join("", {Repository[repo].license})]
      BY <1>2, <1>3, <1>4, <2>2
    <3>2. o.license = GitHubLicense(repo)
      BY <1>2, <1>4, <2>2, <3>1 DEF GitHubLicense, Fresh, InquiryFields
    <3> QED
      BY <1>2, <1>4, <2>2, <3>1, <3>2 DEF Fresh, InquiryFields, MetadataAnswer
  <2>3. CASE known /\ Repository[repo].license \in NoInfo
    <3>1. PICK q \in FetchLicense(j, repo) : o = [q EXCEPT !.found = repo \notin q.limited]
      BY <1>2, <1>3, <1>4, <2>3
    <3>2. /\ DOMAIN q = InquiryFields /\ q.cache = licenseCache[w]
          /\ q.failed \subseteq {repo} /\ q.limited \subseteq {repo}
          /\ q.limited = {} => FileAnswer(repo, q)
      BY <1>2, LicenseFetched
    <3>3. /\ DOMAIN o = InquiryFields /\ o.cache = q.cache /\ o.failed = q.failed /\ o.limited = q.limited
          /\ o.license = q.license /\ o.found = (repo \notin q.limited)
      BY <3>1, <3>2 DEF InquiryFields
    <3> QED
      BY <2>3, <3>2, <3>3 DEF MetadataAnswer, FileAnswer
  <2> QED
    BY <2>1, <2>2, <2>3
<1>5. CASE p = [i EXCEPT !.failed = @ \cup {repo}]
  <2>1. ~p.found /\ p.failed = {repo} /\ DOMAIN p = InquiryFields /\ p.cache = licenseCache[w]
    BY <1>1, <1>5 DEF Fresh, InquiryFields
  <2> QED
    BY <1>3, <2>1 DEF MetadataAnswer
<1>6. CASE \E reset \in 1..MaxReset :
             p = [i EXCEPT !.limited = @ \cup {repo}, !.limitedFor = IF reset > @ THEN reset ELSE @]
  <2>1. ~p.found /\ p.failed = {} /\ p.limited = {repo} /\ DOMAIN p = InquiryFields /\ p.cache = licenseCache[w]
    BY <1>1, <1>6 DEF Fresh, InquiryFields
  <2> QED
    BY <1>3, <2>1
<1> QED
  BY <1>4, <1>5, <1>6 DEF Request

-----------------------------------------------------------------------------
(* What can be true of a key.                                              *)

\* A value that gives a reason is nothing but that reason.
Reasons == {"not-published", "no-license-upstream"}
Definite(v) == v.reason # "" => v.reason \in Reasons /\ v = Negative(v.reason)

LEMMA FoundIsDefinite ==
  ASSUME NEW e
  PROVE  Definite(Found(e)) /\ Found(e).license = e /\ Found(e) # NoAnswer /\ (e # NoLicense => Found(e).reason = "")
<1>1. CASE e = NoLicense
  BY <1>1 DEF Definite, Reasons, Found, Negative, NoAnswer
<1>2. CASE e # NoLicense
  BY <1>2 DEF Definite, Found, Negative, NoAnswer
<1> QED
  BY <1>1, <1>2

LEMMA NegativeIsDefinite ==
  ASSUME NEW reason \in Reasons
  PROVE  Definite(Negative(reason)) /\ Negative(reason).license = NoLicense /\ Negative(reason).reason = reason
BY DEF Definite, Reasons, Negative, NoAnswer

LEMMA AnswerIsDefinite ==
  ASSUME NEW g \in {"npm", "depsdev", "pypi"}, NEW key
  PROVE  Definite(Answer(g, key))
<1>1. CASE key \notin DOMAIN Upstream[g]
  BY <1>1, NegativeIsDefinite DEF Answer, Reasons
<1>2. CASE key \in DOMAIN Upstream[g]
  BY <1>2, FoundIsDefinite DEF Answer
<1> QED
  BY <1>1, <1>2

LEMMA PackagistIsDefinite ==
  ASSUME NEW key
  PROVE  Definite(PackagistAnswer(key))
<1> DEFINE newest(e) == [Found(e) EXCEPT !.latest = TRUE]
<1>1. \A e : e # NoLicense => Definite(newest(e))
  BY FoundIsDefinite DEF Definite, Found, NoAnswer
<1>2. \/ \E e : PackagistAnswer(key) = Found(e)
      \/ \E reason \in Reasons : PackagistAnswer(key) = Negative(reason)
      \/ \E e : e # NoLicense /\ PackagistAnswer(key) = newest(e)
  BY DEF PackagistAnswer, Reasons
<1> QED
  BY <1>1, <1>2, FoundIsDefinite, NegativeIsDefinite

LEMMA ValuesAreDefinite ==
  ASSUME NEW g \in RegistryNames, NEW key, NEW v \in TrueValues(g, key)
  PROVE  Definite(v)
<1>1. CASE g = "packagist"
  BY <1>1, PackagistIsDefinite DEF TrueValues
<1>2. CASE g = "nuget"
  BY <1>2, FoundIsDefinite, NegativeIsDefinite DEF TrueValues, Reasons
<1>3. CASE g \in {"npm", "depsdev", "pypi"}
  BY <1>3, AnswerIsDefinite, NegativeIsDefinite DEF TrueValues, Reasons
<1> QED
  BY <1>1, <1>2, <1>3 DEF RegistryNames

\* If a true value names no licence, none does.
LEMMA ValuesAgree ==
  ASSUME NEW g \in RegistryNames, NEW key, NEW v \in TrueValues(g, key), v.license = NoLicense,
         NEW u \in TrueValues(g, key)
  PROVE  u.license = NoLicense
<1>1. CASE g = "packagist"
  BY <1>1 DEF TrueValues
<1>2. CASE g = "nuget" /\ key \in DOMAIN Upstream["nuget"]
  <2> DEFINE entry == Upstream["nuget"][key]
             named == UNION {RepositoryLicenses(entry.repos[n]) : n \in DOMAIN entry.repos}
  <2>1. TrueValues(g, key) = IF StatedLicense(entry) # NoLicense THEN {Found(StatedLicense(entry))}
                             ELSE IF entry.bare THEN {Negative("no-license-upstream")}
                             ELSE {Found(l) : l \in named \ {NoLicense}}
    BY <1>2 DEF TrueValues
  <2> HIDE DEF entry, named
  <2>2. ASSUME v \in {Found(l) : l \in named \ {NoLicense}} PROVE FALSE
    BY <2>2, FoundIsDefinite
  <2> QED
    BY <2>1, <2>2
<1>3. CASE g = "nuget" /\ key \notin DOMAIN Upstream["nuget"]
  BY <1>3 DEF TrueValues
<1>4. CASE g \in {"npm", "depsdev", "pypi"}
  BY <1>4 DEF TrueValues
<1> QED
  BY <1>1, <1>2, <1>3, <1>4 DEF RegistryNames

-----------------------------------------------------------------------------
(* What is known stays known: the requests that were not answered are kept. *)

LEMMA NotHeardStays ==
  ASSUME unanswered \subseteq unanswered', NEW g, NEW purl, NotHeard(g, purl)
  PROVE  NotHeard(g, purl)'
BY DEF NotHeard

LEMMA LicenseStays ==
  ASSUME unanswered \subseteq unanswered', NEW r, NEW license, LicenseIsKnown(r, license)
  PROVE  LicenseIsKnown(r, license)'
BY DEF LicenseIsKnown

LEMMA FlagStays ==
  ASSUME unanswered \subseteq unanswered', NEW r, NEW archived, FlagIsKnown(r, archived)
  PROVE  FlagIsKnown(r, archived)'
BY DEF FlagIsKnown

LEMMA AskedStays ==
  ASSUME unanswered \subseteq unanswered', NEW r, NEW license, AskedOrForgotten(r, license)
  PROVE  AskedOrForgotten(r, license)'
BY DEF AskedOrForgotten

LEMMA RowsStay ==
  ASSUME unanswered \subseteq unanswered', NEW d, NEW rows, NoOneOverheard(d, rows), TrueToSource(d, rows)
  PROVE  NoOneOverheard(d, rows)' /\ TrueToSource(d, rows)'
<1>1. NoOneOverheard(d, rows)'
  BY NotHeardStays DEF NoOneOverheard
<1>2. TrueToSource(d, rows)'
  BY DEF TrueToSource
<1> QED
  BY <1>1, <1>2

LEMMA JobStays ==
  ASSUME unanswered \subseteq unanswered', NEW job, JobIsSound(job)
  PROVE  JobIsSound(job)'
<1>1. Heard(job) => Heard(job)'
  BY NotHeardStays DEF Heard, Behind
<1>2. AtQuestion(job) => AtQuestion(job)'
  BY DEF AtQuestion, AtRepository, AskedInVain
<1>3. RowsFit(job) /\ Told(job) => RowsFit(job)' /\ Told(job)'
  BY DEF RowsFit, Told
<1>4. job.stage \in Finishing => NoOneOverheard(job.doc, job)' /\ TrueToSource(job.doc, job)'
  BY RowsStay DEF JobIsSound
<1> QED
  BY <1>1, <1>2, <1>3, <1>4 DEF JobIsSound

-----------------------------------------------------------------------------
(* Answers: a licence the resolver has, or none although it may have one,  *)
(* because it was not heard.                                               *)

SoundAnswer(g, purl, license) ==
  /\ license # NoLicense => license \in Licenses[purl][g]
  /\ license = NoLicense /\ Licenses[purl][g] # {} => NotHeard(g, purl)

LEMMA LicensesOfRegistry ==
  ASSUME NEW purl \in AllPurls, NEW g \in RegistryNames, Asks(g, purl)
  PROVE  /\ Licenses[purl][g] = {v.license : v \in TrueValues(g, Extract(g, purl))} \ {NoLicense}
         /\ Resolver(g, purl) = Extract(g, purl) /\ Extract(g, purl) \in Keys(g)
<1>1. g # "github" /\ g \in Resolvers
  BY DEF RegistryNames, Resolvers
<1>2. Licenses[purl][g] = {v.license : v \in TrueValues(g, Extract(g, purl))} \ {NoLicense}
  BY <1>1 DEF Licenses
<1>3. Resolver(g, purl) = Extract(g, purl)
  BY <1>1 DEF Resolver
<1>4. Extract(g, purl) \in Keys(g)
  BY <1>3 DEF Asks, Keys
<1> QED
  BY <1>2, <1>3, <1>4

LEMMA LicensesOfGitHub ==
  ASSUME NEW purl \in AllPurls, Asks("github", purl)
  PROVE  /\ Licenses[purl]["github"] = GitHubLicenses(ExtractGitHubRepo(purl)) \ {NoLicense}
         /\ Resolver("github", purl) = ExtractGitHubRepo(purl)
BY DEF Licenses, Resolver, Resolvers

LEMMA NothingUnlessAsked ==
  ASSUME NEW purl \in AllPurls, NEW g \in Resolvers, ~Asks(g, purl)
  PROVE  Licenses[purl][g] = {}
BY DEF Licenses

LEMMA TrueValueIsSound ==
  ASSUME NEW purl \in AllPurls, NEW g \in RegistryNames, Asks(g, purl), NEW v \in TrueValues(g, Extract(g, purl))
  PROVE  SoundAnswer(g, purl, v.license)'
BY LicensesOfRegistry, ValuesAgree DEF SoundAnswer

LEMMA FailureIsSound ==
  ASSUME NEW purl \in AllPurls, NEW g \in RegistryNames, Asks(g, purl), <<g, Extract(g, purl)>> \in unanswered'
  PROVE  SoundAnswer(g, purl, NoLicense)'
BY LicensesOfRegistry DEF SoundAnswer, NotHeard

-----------------------------------------------------------------------------
(* The order of the questions.                                             *)

LEMMA OrderIsStrict ==
  /\ \A g \in Resolvers : Order[g] \in Nat
  /\ \A g, h \in Resolvers : Order[g] = Order[h] => g = h
BY DEF Resolvers, RegistryNames, Order

LEMMA QuestionsFit ==
  ASSUME NEW d \in DOMAIN Documents, NEW q \in Questions[d]
  PROVE  /\ q.stage \in Resolvers /\ q.at \in DOMAIN Documents[d] /\ q.at \in Nat
         /\ q = [stage |-> q.stage, at |-> q.at]
         /\ Asks(q.stage, Documents[d][q.at].purl)
BY InputsAreSequences DEF Questions

LEMMA LeastNumber ==
  ASSUME NEW S \in SUBSET Nat, S # {}
  PROVE  \E n \in S : \A m \in S : n <= m
<1> DEFINE less == OpToRel(<, Nat)
<1>1. IsWellFoundedOn(less, Nat)
  BY NatLessThanWellFounded
<1>2. \A m, n \in Nat : m < n => <<m, n>> \in less
  BY DEF OpToRel
<1> HIDE DEF less
<1>3. PICK n \in S : \A m \in S : ~(<<m, n>> \in less)
  BY <1>1, WFMin
<1>4. ASSUME NEW m \in S PROVE n <= m
  <2>1. m \in Nat /\ n \in Nat
    OBVIOUS
  <2>2. ~(m < n)
    BY <1>2, <1>3, <2>1
  <2> QED
    BY <2>1, <2>2
<1> QED
  BY <1>4

LEMMA FirstIsFirst ==
  ASSUME NEW d \in DOMAIN Documents, NEW S \in SUBSET Questions[d], S # {}
  PROVE  First(S) \in S /\ \A p \in S : ~Precedes(p, First(S))
<1>1. \A q \in S : q.stage \in Resolvers /\ q.at \in Nat /\ Order[q.stage] \in Nat
  BY QuestionsFit, OrderIsStrict
<1> DEFINE orders == {Order[q.stage] : q \in S}
<1>2. PICK n \in orders : \A m \in orders : n <= m
  <2>1. orders \in SUBSET Nat /\ orders # {}
    BY <1>1
  <2> HIDE DEF orders
  <2> QED
    BY <2>1, LeastNumber
<1>3. PICK q \in S : Order[q.stage] = n
  BY <1>2
<1>4. \A p \in S : Order[q.stage] <= Order[p.stage]
  BY <1>2, <1>3
<1> DEFINE places == {p.at : p \in {r \in S : r.stage = q.stage}}
<1>5. PICK k \in places : \A m \in places : k <= m
  <2>1. places \in SUBSET Nat /\ places # {}
    BY <1>1, <1>3
  <2> HIDE DEF places
  <2> QED
    BY <2>1, LeastNumber
<1>6. PICK f \in S : f.stage = q.stage /\ f.at = k
  BY <1>5
<1>7. \A p \in S : ~Precedes(p, f)
  BY <1>1, <1>4, <1>5, <1>6 DEF Precedes
<1> QED
  BY <1>7 DEF First


LEMMA PurlsOfDocuments ==
  ASSUME NEW d \in DOMAIN Documents, NEW i \in DOMAIN Documents[d]
  PROVE  Documents[d][i].purl \in AllPurls
BY DEF AllPurls, ToSet

\* What a job that goes on leaves behind it has a licence, or had been asked.
LEMMA OnwardIsSound ==
  ASSUME NEW job, DOMAIN job = Fields, job.stage \in Resolvers, RowsFit(job), Told(job), Heard(job)'
  PROVE  JobIsSound(Onward(job))' /\ DOMAIN Onward(job) = Fields
<1> DEFINE j == Onward(job)
<1>1. Open(job) \in SUBSET Questions[job.doc] /\ job.doc \in DOMAIN Documents
  BY DEF Open, RowsFit
<1>2. ASSUME NEW i \in DOMAIN Documents[job.doc], NEW g \in Resolvers,
             Documents[job.doc][i].license = NoLicense,
             Licenses[Documents[job.doc][i].purl][g] # {},
             job.licenses[i] = NoLicense,
             [stage |-> g, at |-> i] \notin Open(job)
      PROVE  NotHeard(g, Documents[job.doc][i].purl)'
  <2>1. Asks(g, Documents[job.doc][i].purl)
    BY <1>1, <1>2, PurlsOfDocuments, NothingUnlessAsked
  <2>2. [stage |-> g, at |-> i] \in Questions[job.doc]
    BY <1>1, <2>1 DEF Questions
  <2>3. Precedes([stage |-> g, at |-> i], job)
    BY <1>2, <2>2 DEF Open
  <2> QED
    BY <1>2, <2>3 DEF Heard, Behind
<1>3. CASE Open(job) = {}
  <2>1. j = [job EXCEPT !.stage = "normalize", !.at = 1, !.repo = 0]
    BY <1>3 DEF Onward
  <2>2. /\ DOMAIN j = Fields /\ j.stage = "normalize" /\ j.at = 1 /\ j.repo = 0
        /\ j.doc = job.doc /\ j.licenses = job.licenses /\ j.sources = job.sources
    BY <2>1 DEF Fields
  <2> HIDE DEF j
  <2>3. RowsFit(j) /\ Told(j)
    BY <2>2 DEF RowsFit, Told
  <2>4. Heard(j)'
    BY <1>2, <1>3, <2>2 DEF Heard, Behind
  <2>5. j.stage \notin Resolvers /\ j.stage \notin Finishing
    BY <2>2 DEF Resolvers, RegistryNames, Finishing
  <2>6. JobIsSound(j)'
    BY <2>3, <2>4, <2>5 DEF JobIsSound, RowsFit, Told
  <2> QED
    BY <2>2, <2>6 DEF j
<1>4. CASE Open(job) # {}
  <2> DEFINE f == First(Open(job))
  <2>1. j = [job EXCEPT !.stage = f.stage, !.at = f.at, !.repo = 0]
    BY <1>4 DEF Onward
  <2>2. /\ DOMAIN j = Fields /\ j.stage = f.stage /\ j.at = f.at /\ j.repo = 0
        /\ j.doc = job.doc /\ j.licenses = job.licenses /\ j.sources = job.sources
    BY <2>1 DEF Fields
  <2>3. f \in Open(job) /\ \A p \in Open(job) : ~Precedes(p, f)
    BY <1>1, <1>4, FirstIsFirst
  <2> HIDE DEF j, f
  <2>4. /\ f \in Questions[job.doc] /\ job.licenses[f.at] = NoLicense
        /\ f.stage \in Resolvers /\ f.at \in Nat /\ f = [stage |-> f.stage, at |-> f.at]
    BY <1>1, <2>3, QuestionsFit DEF Open
  <2>5. RowsFit(j) /\ Told(j)
    BY <2>2, <2>4 DEF RowsFit, Told
  <2>6. \A p : Precedes(p, j) => Precedes(p, f)
    BY <2>2 DEF Precedes
  <2>7. Heard(j)'
    <3> SUFFICES ASSUME NEW i \in DOMAIN Documents[job.doc], NEW g \in Resolvers,
                        Documents[job.doc][i].license = NoLicense,
                        Licenses[Documents[job.doc][i].purl][g] # {},
                        Behind(j, g, i)
                 PROVE  NotHeard(g, Documents[job.doc][i].purl)'
      BY <2>2 DEF Heard, Behind
    <3>1. CASE job.licenses[i] # NoLicense
      BY <2>2, <3>1 DEF Heard, Behind
    <3>2. CASE job.licenses[i] = NoLicense
      <4>1. Precedes([stage |-> g, at |-> i], f)
        BY <2>2, <2>4, <2>6, <3>2 DEF Behind
      <4> QED
        BY <1>2, <2>3, <3>2, <4>1
    <3> QED
      BY <3>1, <3>2
  <2>8. AtQuestion(j)'
    BY <2>2, <2>4 DEF AtQuestion
  <2>9. j.stage \notin Finishing
    BY <2>2, <2>4 DEF Resolvers, RegistryNames, Finishing
  <2>10. JobIsSound(j)'
    BY <2>5, <2>7, <2>8, <2>9 DEF JobIsSound, RowsFit, Told
  <2> QED
    BY <2>2, <2>10 DEF j
<1> QED
  BY <1>3, <1>4

\* Who is behind a job that has asked its question.
LEMMA AskedIsBehind ==
  ASSUME NEW job, job.stage \in Resolvers, job.at \in Nat, NEW g \in Resolvers, NEW i \in Nat,
         NEW j, j.stage = job.stage, j.at = job.at + 1, Precedes([stage |-> g, at |-> i], j)
  PROVE  Precedes([stage |-> g, at |-> i], job) \/ (g = job.stage /\ i = job.at)
BY DEF Precedes

LEMMA RecordIsSound ==
  ASSUME NEW job, DOMAIN job = Fields, job.stage \in Resolvers, JobIsSound(job),
         unanswered \subseteq unanswered',
         NEW license, SoundAnswer(job.stage, Documents[job.doc][job.at].purl, license)',
         NEW source, DOMAIN source = SourceFields, source.origin = job.stage
  PROVE  JobIsSound(Record(job, license, source))' /\ DOMAIN Record(job, license, source) = Fields
<1> DEFINE purl(i) == Documents[job.doc][i].purl
           none(i) == Documents[job.doc][i].license = NoLicense
<1>1. /\ RowsFit(job) /\ Told(job) /\ Heard(job)' /\ job.licenses[job.at] = NoLicense
      /\ job.at \in DOMAIN Documents[job.doc] /\ job.doc \in DOMAIN Documents
  <2>1. RowsFit(job) /\ Told(job) /\ AtQuestion(job)
    BY DEF JobIsSound
  <2>2. Heard(job)'
    BY JobStays DEF JobIsSound
  <2> QED
    BY <2>1, <2>2 DEF AtQuestion, Questions, RowsFit
<1>2. \A i \in DOMAIN Documents[job.doc] : i \in Nat
  BY <1>1, InputsAreSequences
<1>3. CASE license = NoLicense
  <2> DEFINE j == [job EXCEPT !.at = @ + 1]
  <2>1. Record(job, license, source) = Onward(j)
    BY <1>3 DEF Record
  <2>2. /\ DOMAIN j = Fields /\ j.stage = job.stage /\ j.at = job.at + 1 /\ j.repo = job.repo
        /\ j.doc = job.doc /\ j.licenses = job.licenses /\ j.sources = job.sources
    BY DEF Fields
  <2> HIDE DEF j
  <2>3. RowsFit(j) /\ Told(j)
    BY <1>1, <2>2 DEF RowsFit, Told
  <2>4. Heard(j)'
    <3> SUFFICES ASSUME NEW i \in DOMAIN Documents[job.doc], NEW g \in Resolvers, none(i),
                        Licenses[purl(i)][g] # {}, Behind(j, g, i)
                 PROVE  NotHeard(g, purl(i))'
      BY <2>2 DEF Heard, Behind
    <3>1. CASE Behind(job, g, i)
      BY <1>1, <3>1 DEF Heard, Behind
    <3>2. CASE ~Behind(job, g, i)
      <4>1. job.licenses[i] = NoLicense
        BY <2>2, <3>2 DEF Behind
      <4>2. Precedes([stage |-> g, at |-> i], j) /\ ~Precedes([stage |-> g, at |-> i], job)
        BY <2>2, <3>2, <4>1 DEF Behind
      <4>3. g = job.stage /\ i = job.at
        BY <1>1, <1>2, <2>2, <4>2, AskedIsBehind
      <4> QED
        BY <1>3, <4>3 DEF SoundAnswer
    <3> QED
      BY <3>1, <3>2
  <2> QED
    BY <2>1, <2>2, <2>3, <2>4, OnwardIsSound
<1>4. CASE license # NoLicense
  <2> DEFINE j == [job EXCEPT !.at = @ + 1, !.licenses[job.at] = license, !.sources[job.at] = source]
  <2>1. Record(job, license, source) = Onward(j)
    BY <1>4 DEF Record
  <2>2. /\ DOMAIN j = Fields /\ j.stage = job.stage /\ j.at = job.at + 1 /\ j.repo = job.repo
        /\ j.doc = job.doc
        /\ j.licenses = [job.licenses EXCEPT ![job.at] = license]
        /\ j.sources = [job.sources EXCEPT ![job.at] = source]
    BY DEF Fields
  <2> HIDE DEF j
  <2>3. /\ DOMAIN j.licenses = DOMAIN Documents[job.doc] /\ DOMAIN j.sources = DOMAIN Documents[job.doc]
        /\ j.licenses[job.at] = license /\ j.sources[job.at] = source
        /\ \A i \in DOMAIN Documents[job.doc] : i # job.at =>
             j.licenses[i] = job.licenses[i] /\ j.sources[i] = job.sources[i]
    BY <1>1, <2>2 DEF RowsFit
  <2>4. RowsFit(j)
    BY <1>1, <2>2, <2>3 DEF RowsFit
  <2>5. Told(j)
    <3> SUFFICES ASSUME NEW i \in DOMAIN Documents[job.doc]
                 PROVE  /\ Documents[job.doc][i].license # NoLicense =>
                             j.licenses[i] # NoLicense /\ j.sources[i].origin = "declared"
                        /\ none(i) /\ j.licenses[i] # NoLicense =>
                             /\ j.sources[i].origin \in Resolvers
                             /\ j.licenses[i] \in Licenses[purl(i)][j.sources[i].origin]
      BY <2>2 DEF Told
    <3>1. CASE i = job.at
      <4>1. none(i)
        BY <1>1, <3>1 DEF Told
      <4>2. license \in Licenses[purl(i)][job.stage]
        BY <1>4, <3>1 DEF SoundAnswer
      <4> QED
        BY <2>3, <3>1, <4>1, <4>2
    <3>2. CASE i # job.at
      BY <1>1, <2>3, <3>2 DEF Told
    <3> QED
      BY <3>1, <3>2
  <2>6. Heard(j)'
    <3> SUFFICES ASSUME NEW i \in DOMAIN Documents[job.doc], NEW g \in Resolvers, none(i),
                        Licenses[purl(i)][g] # {}, Behind(j, g, i)
                 PROVE  NotHeard(g, purl(i))'
      BY <2>2 DEF Heard, Behind
    <3>1. Behind(job, g, i)
      <4>1. CASE i = job.at
        <5>1. Order[g] < Order[job.stage]
          BY <1>4, <2>3, <4>1 DEF Behind
        <5>2. Precedes([stage |-> g, at |-> i], job)
          BY <5>1 DEF Precedes
        <5> QED
          BY <1>1, <4>1, <5>2 DEF Behind
      <4>2. CASE i # job.at /\ job.licenses[i] # NoLicense
        BY <2>3, <4>2 DEF Behind
      <4>3. CASE i # job.at /\ job.licenses[i] = NoLicense
        <5>1. Precedes([stage |-> g, at |-> i], j)
          BY <2>2, <2>3, <4>3 DEF Behind
        <5>2. Precedes([stage |-> g, at |-> i], job)
          BY <1>1, <1>2, <2>2, <4>3, <5>1, AskedIsBehind
        <5> QED
          BY <4>3, <5>2 DEF Behind
      <4> QED
        BY <4>1, <4>2, <4>3
    <3> QED
      BY <1>1, <3>1 DEF Heard, Behind
  <2> QED
    BY <2>1, <2>2, <2>4, <2>5, <2>6, OnwardIsSound
<1> QED
  BY <1>3, <1>4

-----------------------------------------------------------------------------
(* What a step leaves alone.                                               *)

LEMMA LicensesStay ==
  ASSUME LicensesKnown, unanswered \subseteq unanswered', UNCHANGED <<licenseCache, github_license_cache>>
  PROVE  LicensesKnown'
BY LicenseStays DEF LicensesKnown

LEMMA MetadataStays ==
  ASSUME MetadataKnown, unanswered \subseteq unanswered', UNCHANGED <<metadataCache, github_repo_metadata>>
  PROVE  MetadataKnown'
<1>1. \A r \in DOMAIN github_repo_metadata : FlagIsKnown(r, github_repo_metadata[r].archived)'
  <2> SUFFICES ASSUME NEW r \in DOMAIN github_repo_metadata PROVE FlagIsKnown(r, github_repo_metadata[r].archived)'
    OBVIOUS
  <2>1. FlagIsKnown(r, github_repo_metadata[r].archived)
    BY DEF MetadataKnown
  <2> QED
    BY <2>1 DEF FlagIsKnown
<1>2. ASSUME NEW w \in Workers, NEW r \in DOMAIN metadataCache[w]
      PROVE  FlagIsKnown(r, metadataCache[w][r].archived)' /\ AskedOrForgotten(r, metadataCache[w][r].license)'
  <2>1. FlagIsKnown(r, metadataCache[w][r].archived) /\ AskedOrForgotten(r, metadataCache[w][r].license)
    BY DEF MetadataKnown
  <2> QED
    BY <2>1 DEF FlagIsKnown, AskedOrForgotten
<1> QED
  BY <1>1, <1>2 DEF MetadataKnown

LEMMA RegistriesStay ==
  ASSUME RegistriesKnown, UNCHANGED <<resolverCache, registry_license_cache>>
  PROVE  RegistriesKnown'
BY DEF RegistriesKnown, CacheIsTrue

LEMMA StoredStays ==
  ASSUME JobsSound, unanswered \subseteq unanswered', UNCHANGED sbom_packages
  PROVE  \A d \in DOMAIN sbom_packages' :
           NoOneOverheard(d, sbom_packages[d])' /\ TrueToSource(d, sbom_packages[d])'
<1> SUFFICES ASSUME NEW d \in DOMAIN sbom_packages
             PROVE  NoOneOverheard(d, sbom_packages[d])' /\ TrueToSource(d, sbom_packages[d])'
  OBVIOUS
<1> DEFINE rows == sbom_packages[d]
<1>1. NoOneOverheard(d, rows) /\ TrueToSource(d, rows)
  BY DEF JobsSound
<1>2. NoOneOverheard(d, rows)'
  BY <1>1, NotHeardStays DEF NoOneOverheard
<1>3. TrueToSource(d, rows)'
  BY <1>1 DEF TrueToSource
<1> QED
  BY <1>2, <1>3

LEMMA OthersStay ==
  ASSUME LookupInv, unanswered \subseteq unanswered', NEW v \in Workers, work'[v] = work[v]
  PROVE  JobIsSound(work[v])'
<1> DEFINE job == work[v]
<1>1. JobIsSound(job)
  BY DEF LookupInv, JobsSound
<1>2. Heard(job) => Heard(job)'
  BY NotHeardStays DEF Heard, Behind
<1>3. AtQuestion(job) => AtQuestion(job)'
  BY DEF AtQuestion, AtRepository, AskedInVain
<1>4. RowsFit(job) /\ Told(job) => RowsFit(job)' /\ Told(job)'
  BY DEF RowsFit, Told
<1>5. NoOneOverheard(job.doc, job) => NoOneOverheard(job.doc, job)'
  BY NotHeardStays DEF NoOneOverheard
<1>6. TrueToSource(job.doc, job) => TrueToSource(job.doc, job)'
  BY DEF TrueToSource
<1> QED
  BY <1>1, <1>2, <1>3, <1>4, <1>5, <1>6 DEF JobIsSound

\* One worker's job moves on.
LEMMA JobMoves ==
  ASSUME LookupInv, unanswered \subseteq unanswered', UNCHANGED sbom_packages,
         NEW w \in Workers, NEW job, work' = [work EXCEPT ![w] = job], JobIsSound(job)', DOMAIN job = Fields
  PROVE  JobsSound' /\ DOMAIN work' = Workers /\ \A v \in Workers : DOMAIN work'[v] = Fields
<1>1. DOMAIN work = Workers /\ \A v \in Workers : DOMAIN work[v] = Fields
  BY DEF LookupInv, Shape
<1>2. DOMAIN work' = Workers /\ work'[w] = job /\ \A v \in Workers : v # w => work'[v] = work[v]
  BY <1>1
<1>3. JobIsSound(work[w])'
  BY <1>2
<1>4. \A v \in Workers : v # w => JobIsSound(work[v])'
  BY <1>2, OthersStay
<1>5. \A d \in DOMAIN sbom_packages' :
        NoOneOverheard(d, sbom_packages[d])' /\ TrueToSource(d, sbom_packages[d])'
  BY StoredStays DEF LookupInv
<1> QED
  BY <1>1, <1>2, <1>3, <1>4, <1>5 DEF JobsSound

Resting == {"down", "idle", "preload metadata", "preload registries"}

LEMMA RestIsSound ==
  ASSUME NEW job, job.stage \in Resting
  PROVE  JobIsSound(job)'
BY DEF JobIsSound, Resting, Resolvers, RegistryNames, Finishing

LEMMA RestIsShaped == DOMAIN Down = Fields /\ DOMAIN Idle = Fields /\ Down.stage = "down" /\ Idle.stage = "idle"
BY DEF Down, Idle, Fields

\* A worker takes a rest, goes down, or starts up.
LEMMA WorkerRests ==
  ASSUME LookupInv, unanswered \subseteq unanswered', UNCHANGED sbom_packages,
         NEW w \in Workers, NEW job, job \in {Down, Idle} \cup {[work[w] EXCEPT !.stage = s] : s \in Resting},
         work' = [work EXCEPT ![w] = job]
  PROVE  JobsSound' /\ DOMAIN work' = Workers /\ \A v \in Workers : DOMAIN work'[v] = Fields
<1>1. DOMAIN work[w] = Fields
  BY DEF LookupInv, Shape
<1>2. DOMAIN job = Fields /\ job.stage \in Resting
  BY <1>1, RestIsShaped DEF Fields, Resting
<1> QED
  BY <1>2, JobMoves, RestIsSound

-----------------------------------------------------------------------------
(* Starting, crashing and the passing of time.                             *)

LEMMA PreloadLicensesKeepsInv ==
  ASSUME LookupInv, NEW w \in Workers, PreloadLicenses(w)
  PROVE  LookupInv'
<1>1. /\ UNCHANGED <<metadataCache, resolverCache, tables, unanswered>>
      /\ unanswered \subseteq unanswered'
      /\ work' = [work EXCEPT ![w] = [work[w] EXCEPT !.stage = "preload metadata"]]
      /\ \E loaded \in BOOLEAN : licenseCache' = [licenseCache EXCEPT ![w] = IF loaded THEN github_license_cache ELSE @]
  BY DEF PreloadLicenses
<1>2. JobsSound' /\ DOMAIN work' = Workers /\ \A v \in Workers : DOMAIN work'[v] = Fields
  BY <1>1, WorkerRests DEF tables, Resting
<1>3. MetadataKnown' /\ RegistriesKnown'
  BY <1>1, MetadataStays, RegistriesStay DEF LookupInv, tables
<1>4. \A v \in Workers : licenseCache'[v] \in {licenseCache[v], github_license_cache}
  BY <1>1 DEF LookupInv, Shape
<1>5. LicensesKnown'
  BY <1>1, <1>4 DEF LookupInv, LicensesKnown, LicenseIsKnown, tables
<1>6. Shape'
  BY <1>1, <1>2 DEF LookupInv, Shape, tables
<1> QED
  BY <1>2, <1>3, <1>5, <1>6 DEF LookupInv

LEMMA PreloadMetadataKeepsInv ==
  ASSUME LookupInv, NEW w \in Workers, PreloadMetadata(w)
  PROVE  LookupInv'
<1>1. PICK loaded \in BOOLEAN : LET rows == IF loaded THEN DOMAIN github_repo_metadata ELSE {} IN
        /\ metadataCache' = [metadataCache EXCEPT ![w] = [r \in rows |-> Reloaded(github_repo_metadata[r])]]
        /\ Misses({<<"forgotten", r>> : r \in {s \in rows : GitHubLicense(s) # NoLicense}})
  BY DEF PreloadMetadata
<1>2. /\ UNCHANGED <<licenseCache, resolverCache, tables>>
      /\ unanswered \subseteq unanswered'
      /\ work' = [work EXCEPT ![w] = [work[w] EXCEPT !.stage = "preload registries"]]
  BY DEF PreloadMetadata, Misses
<1>3. JobsSound' /\ DOMAIN work' = Workers /\ \A v \in Workers : DOMAIN work'[v] = Fields
  BY <1>2, WorkerRests DEF tables, Resting
<1>4. LicensesKnown' /\ RegistriesKnown'
  BY <1>2, LicensesStay, RegistriesStay DEF LookupInv, tables
<1> DEFINE rows == IF loaded THEN DOMAIN github_repo_metadata ELSE {}
<1>5. \A v \in Workers : v # w => metadataCache'[v] = metadataCache[v]
  BY <1>1 DEF LookupInv, Shape
<1>6. /\ DOMAIN metadataCache'[w] = rows
      /\ \A r \in rows : metadataCache'[w][r] = Reloaded(github_repo_metadata[r])
  BY <1>1 DEF LookupInv, Shape
<1>7. ASSUME NEW r \in rows
      PROVE  FlagIsKnown(r, metadataCache[w][r].archived)' /\ AskedOrForgotten(r, metadataCache[w][r].license)'
  <2>1. FlagIsKnown(r, github_repo_metadata[r].archived)
    BY DEF LookupInv, MetadataKnown
  <2>2. metadataCache'[w][r].archived = github_repo_metadata[r].archived /\ metadataCache'[w][r].license = NoLicense
    <3>1. metadataCache'[w][r] = Reloaded(github_repo_metadata[r])
      BY <1>6
    <3> QED
      BY <3>1 DEF Reloaded
  <2>3. FlagIsKnown(r, metadataCache[w][r].archived)'
    BY <1>2, <2>1, <2>2 DEF FlagIsKnown
  <2>4. GitHubLicense(r) # NoLicense => <<"forgotten", r>> \in unanswered'
    BY <1>1 DEF Misses
  <2> QED
    BY <2>2, <2>3, <2>4 DEF AskedOrForgotten
<1>8. ASSUME NEW r \in DOMAIN github_repo_metadata
      PROVE  FlagIsKnown(r, github_repo_metadata[r].archived)'
  <2>1. FlagIsKnown(r, github_repo_metadata[r].archived)
    BY DEF LookupInv, MetadataKnown
  <2> QED
    BY <1>2, <2>1 DEF FlagIsKnown, tables
<1>9. ASSUME NEW v \in Workers, v # w, NEW r \in DOMAIN metadataCache[v]
      PROVE  FlagIsKnown(r, metadataCache[v][r].archived)' /\ AskedOrForgotten(r, metadataCache[v][r].license)'
  <2>1. FlagIsKnown(r, metadataCache[v][r].archived) /\ AskedOrForgotten(r, metadataCache[v][r].license)
    BY DEF LookupInv, MetadataKnown
  <2> QED
    BY <1>2, <1>5, <1>9, <2>1 DEF FlagIsKnown, AskedOrForgotten
<1>10. MetadataKnown'
  BY <1>2, <1>5, <1>6, <1>7, <1>8, <1>9 DEF MetadataKnown, tables
<1>11. Shape'
  BY <1>1, <1>2, <1>3 DEF LookupInv, Shape, tables
<1> QED
  BY <1>3, <1>4, <1>10, <1>11 DEF LookupInv

LEMMA PreloadRegistriesKeepsInv ==
  ASSUME LookupInv, NEW w \in Workers, PreloadRegistries(w)
  PROVE  LookupInv'
<1>1. /\ UNCHANGED <<licenseCache, metadataCache, tables, unanswered>>
      /\ unanswered \subseteq unanswered'
      /\ work' = [work EXCEPT ![w] = Idle]
      /\ \E loaded \in BOOLEAN :
           resolverCache' = [resolverCache EXCEPT ![w] = IF loaded THEN registry_license_cache ELSE @]
  BY DEF PreloadRegistries
<1>2. JobsSound' /\ DOMAIN work' = Workers /\ \A v \in Workers : DOMAIN work'[v] = Fields
  BY <1>1, WorkerRests DEF tables
<1>3. LicensesKnown' /\ MetadataKnown'
  BY <1>1, LicensesStay, MetadataStays DEF LookupInv, tables
<1>4. DOMAIN resolverCache' = Workers
      /\ \A v \in Workers : resolverCache'[v] \in {resolverCache[v], registry_license_cache}
  BY <1>1 DEF LookupInv, Shape
<1>5. RegistriesKnown'
  BY <1>1, <1>4 DEF LookupInv, RegistriesKnown, CacheIsTrue, tables
<1>6. Shape'
  BY <1>1, <1>2, <1>4 DEF LookupInv, Shape, tables
<1> QED
  BY <1>2, <1>3, <1>5, <1>6 DEF LookupInv

LEMMA CrashKeepsInv ==
  ASSUME LookupInv, NEW w \in Workers, Crash(w)
  PROVE  LookupInv'
<1> DEFINE empty == [g \in RegistryNames |-> NoMap]
<1>1. /\ UNCHANGED <<tables, unanswered>> /\ unanswered \subseteq unanswered'
      /\ work' = [work EXCEPT ![w] = Down]
      /\ licenseCache' = [licenseCache EXCEPT ![w] = NoMap]
      /\ metadataCache' = [metadataCache EXCEPT ![w] = NoMap]
      /\ resolverCache' = [resolverCache EXCEPT ![w] = empty]
  BY DEF Crash
<1>2. JobsSound' /\ DOMAIN work' = Workers /\ \A v \in Workers : DOMAIN work'[v] = Fields
  BY <1>1, WorkerRests DEF tables
<1>3. DOMAIN NoMap = {}
  BY DEF NoMap
<1>4. Shape'
  BY <1>1, <1>2 DEF LookupInv, Shape, tables
<1>5. \A v \in Workers : licenseCache'[v] \in {licenseCache[v], NoMap}
                         /\ metadataCache'[v] \in {metadataCache[v], NoMap}
  BY <1>1 DEF LookupInv, Shape
<1>6. LicensesKnown'
  BY <1>1, <1>3, <1>5 DEF LookupInv, LicensesKnown, LicenseIsKnown, tables
<1>7. ASSUME NEW r \in DOMAIN github_repo_metadata PROVE FlagIsKnown(r, github_repo_metadata[r].archived)'
  <2>1. FlagIsKnown(r, github_repo_metadata[r].archived)
    BY DEF LookupInv, MetadataKnown
  <2> QED
    BY <1>1, <2>1 DEF FlagIsKnown, tables
<1>8. ASSUME NEW v \in Workers, NEW r \in DOMAIN metadataCache'[v]
      PROVE  FlagIsKnown(r, metadataCache[v][r].archived)' /\ AskedOrForgotten(r, metadataCache[v][r].license)'
  <2>1. metadataCache'[v] = metadataCache[v]
    BY <1>3, <1>5, <1>8
  <2>2. FlagIsKnown(r, metadataCache[v][r].archived) /\ AskedOrForgotten(r, metadataCache[v][r].license)
    BY <2>1 DEF LookupInv, MetadataKnown
  <2> QED
    BY <1>1, <2>1, <2>2 DEF FlagIsKnown, AskedOrForgotten
<1>9. MetadataKnown'
  BY <1>1, <1>7, <1>8 DEF MetadataKnown, tables
<1>10. ASSUME NEW v \in Workers, NEW g \in RegistryNames PROVE CacheIsTrue(g, resolverCache[v][g])'
  <2>1. resolverCache'[v] = IF v = w THEN empty ELSE resolverCache[v]
    BY <1>1 DEF LookupInv, Shape
  <2>2. CacheIsTrue(g, resolverCache[v][g])
    BY DEF LookupInv, RegistriesKnown
  <2> QED
    BY <1>3, <2>1, <2>2 DEF CacheIsTrue
<1>11. RegistriesKnown'
  BY <1>1, <1>10 DEF LookupInv, RegistriesKnown, CacheIsTrue, tables
<1> QED
  BY <1>2, <1>4, <1>6, <1>9, <1>11 DEF LookupInv

LEMMA IdlingKeepsInv ==
  ASSUME LookupInv,
         UNCHANGED <<licenseCache, metadataCache, resolverCache, tables, work, unanswered>>
  PROVE  LookupInv'
<1>1. unanswered \subseteq unanswered'
  OBVIOUS
<1>2. LicensesKnown' /\ MetadataKnown' /\ RegistriesKnown'
  BY LicensesStay, MetadataStays, RegistriesStay, <1>1 DEF LookupInv, tables
<1>3. \A v \in Workers : JobIsSound(work[v])'
  BY <1>1, OthersStay
<1>4. JobsSound'
  BY <1>1, <1>3, StoredStays DEF LookupInv, JobsSound, tables
<1>5. Shape'
  BY DEF LookupInv, Shape, tables
<1> QED
  BY <1>2, <1>4, <1>5 DEF LookupInv

LEMMA BeginKeepsInv ==
  ASSUME LookupInv, NEW w \in Workers, NEW d \in DOMAIN Documents, Begin(w, d)
  PROVE  LookupInv'
<1> DEFINE declared == [i \in DOMAIN Documents[d] |-> Documents[d][i].license]
           first(i) == IF declared[i] = NoLicense THEN NoSource ELSE [NoSource EXCEPT !.origin = "declared"]
           sources == [i \in DOMAIN declared |-> first(i)]
           job == [stage |-> "github", doc |-> d, at |-> 1, repo |-> 0, licenses |-> declared, sources |-> sources]
<1>1. /\ UNCHANGED <<licenseCache, metadataCache, resolverCache, tables, unanswered>>
      /\ unanswered \subseteq unanswered'
      /\ work' = [work EXCEPT ![w] = Onward(job)]
  BY DEF Begin, memory
<1>2. /\ DOMAIN job = Fields /\ job.stage = "github" /\ job.doc = d /\ job.at = 1 /\ job.repo = 0
      /\ job.licenses = declared /\ job.sources = sources
  BY DEF Fields
<1>3. \A i \in DOMAIN Documents[d] : /\ DOMAIN sources[i] = SourceFields
                                     /\ declared[i] # NoLicense => sources[i].origin = "declared"
  BY DEF NoSource, SourceFields
<1>4. DOMAIN declared = DOMAIN Documents[d] /\ DOMAIN sources = DOMAIN Documents[d]
      /\ \A i \in DOMAIN Documents[d] : declared[i] = Documents[d][i].license
  OBVIOUS
<1> HIDE DEF job, declared, sources
<1>5. RowsFit(job) /\ Told(job)
  BY <1>2, <1>3, <1>4 DEF RowsFit, Told
<1>6. "github" \in Resolvers /\ \A g \in Resolvers : ~(Order[g] < Order["github"])
  BY DEF Resolvers, RegistryNames, Order
<1>7. ASSUME NEW i \in DOMAIN Documents[d], NEW g \in Resolvers, Documents[d][i].license = NoLicense
      PROVE  ~Behind(job, g, i)
  <2>1. ~(i < 1)
    BY InputsAreSequences
  <2>2. ~Precedes([stage |-> g, at |-> i], job)
    BY <1>2, <1>6, <2>1 DEF Precedes
  <2> QED
    BY <1>2, <1>4, <1>6, <1>7, <2>2 DEF Behind
<1>8. Heard(job)'
  BY <1>2, <1>7 DEF Heard, Behind
<1>9. JobIsSound(Onward(job))' /\ DOMAIN Onward(job) = Fields
  BY <1>2, <1>5, <1>6, <1>8, OnwardIsSound
<1>10. JobsSound' /\ DOMAIN work' = Workers /\ \A v \in Workers : DOMAIN work'[v] = Fields
  <2> DEFINE next == Onward(job)
  <2>1. work' = [work EXCEPT ![w] = next] /\ JobIsSound(next)' /\ DOMAIN next = Fields /\ UNCHANGED sbom_packages
    BY <1>1, <1>9 DEF tables
  <2> HIDE DEF next
  <2> QED
    BY <1>1, <2>1, JobMoves
<1>11. LicensesKnown' /\ MetadataKnown' /\ RegistriesKnown'
  BY <1>1, LicensesStay, MetadataStays, RegistriesStay DEF LookupInv, tables
<1>12. Shape'
  BY <1>1, <1>10 DEF LookupInv, Shape, tables
<1> QED
  BY <1>10, <1>11, <1>12 DEF LookupInv

-----------------------------------------------------------------------------
(* Normalising the licences and explaining why there is none.              *)

\* A reason that is given is the true one.
LEMMA ReasonIsTrue ==
  ASSUME LookupInv, NEW w \in Workers, NEW g \in RegistryNames, NEW purl, ReasonOf(w, g, purl) # ""
  PROVE  /\ ReasonOf(w, g, purl) \in Reasons /\ Extract(g, purl) # None
         /\ Negative(ReasonOf(w, g, purl)) \in Truth[g][Extract(g, purl)]
<1> DEFINE key == Extract(g, purl)
           cache == resolverCache[w][g]
<1>1. key # None /\ key \in DOMAIN cache /\ ReasonOf(w, g, purl) = cache[key].reason
  BY DEF ReasonOf
<1>2. key \in Keys(g) /\ cache[key] \in TrueValues(g, key)
  BY <1>1 DEF LookupInv, RegistriesKnown, CacheIsTrue
<1>3. cache[key].reason \in Reasons /\ cache[key] = Negative(cache[key].reason)
  BY <1>1, <1>2, ValuesAreDefinite DEF Definite
<1>4. Truth[g][key] = TrueValues(g, key)
  BY <1>2 DEF Truth
<1> QED
  BY <1>1, <1>2, <1>3, <1>4

LEMMA RegistriesAreFive == DOMAIN Registries = 1..5 /\ \A i \in 1..5 : Registries[i] \in RegistryNames
<1>1. Registries = <<"npm", "nuget", "depsdev", "packagist", "pypi">>
  BY DEF Registries
<1>2. DOMAIN Registries = 1..5
  BY <1>1
<1>3. \A i \in 1..5 : Registries[i] \in RegistryNames
  BY <1>1 DEF RegistryNames
<1> QED
  BY <1>2, <1>3

LEMMA UnresolvedReasonIsTrue ==
  ASSUME LookupInv, NEW w \in Workers, NEW package
  PROVE  LET reason == UnresolvedReason(w, package) IN
         /\ reason \notin Resolvers
         /\ reason \in Reasons => \E g \in RegistryNames :
              Extract(g, package.purl) # None /\ Negative(reason) \in Truth[g][Extract(g, package.purl)]
<1> DEFINE given == {i \in DOMAIN Registries : ReasonOf(w, Registries[i], package.purl) # ""}
           last == CHOOSE i \in given : \A j \in given : j <= i
           reason == UnresolvedReason(w, package)
<1>1. CASE reason \in {"first-party", "no-purl", "unsupported-ecosystem", "unresolved"}
  BY <1>1 DEF Resolvers, RegistryNames, Reasons
<1>2. CASE reason \notin {"first-party", "no-purl", "unsupported-ecosystem", "unresolved"}
  <2>1. given # {} /\ reason = ReasonOf(w, Registries[last], package.purl)
    BY <1>2 DEF UnresolvedReason
  <2>2. given \subseteq 1..5
    BY RegistriesAreFive
  <2>3. \E i \in given : \A j \in given : j <= i
    <3> HIDE DEF given
    <3>1. CASE 5 \in given
      BY <2>2, <3>1
    <3>2. CASE 5 \notin given /\ 4 \in given
      BY <2>2, <3>2
    <3>3. CASE 5 \notin given /\ 4 \notin given /\ 3 \in given
      BY <2>2, <3>3
    <3>4. CASE 5 \notin given /\ 4 \notin given /\ 3 \notin given /\ 2 \in given
      BY <2>2, <3>4
    <3>5. CASE 5 \notin given /\ 4 \notin given /\ 3 \notin given /\ 2 \notin given
      <4>1. PICK i \in given : TRUE
        BY <2>1
      <4>2. \A j \in given : j = 1
        BY <2>2, <3>5
      <4> QED
        BY <4>1, <4>2
    <3> QED
      BY <3>1, <3>2, <3>3, <3>4, <3>5
  <2>4. last \in given
    BY <2>3
  <2>5. Registries[last] \in RegistryNames
    <3>1. last \in 1..5
      BY <2>2, <2>4
    <3> QED
      BY <3>1, RegistriesAreFive
  <2>6. reason \in Reasons /\ Extract(Registries[last], package.purl) # None
        /\ Negative(reason) \in Truth[Registries[last]][Extract(Registries[last], package.purl)]
    BY <2>1, <2>4, <2>5, ReasonIsTrue
  <2>7. reason \notin Resolvers
    BY <2>6 DEF Reasons, Resolvers, RegistryNames
  <2> QED
    BY <2>5, <2>6, <2>7
<1> QED
  BY <1>1, <1>2

LEMMA NormalizeKeepsInv ==
  ASSUME LookupInv, NEW w \in Workers, NormalizeAndExplain(w)
  PROVE  LookupInv'
<1>1. PICK job : job = work[w]
  OBVIOUS
<1> DEFINE d == job.doc
           reason(i) == UnresolvedReason(w, Packages(w)[i])
           source(i) == IF job.licenses[i] = NoLicense THEN [NoSource EXCEPT !.origin = reason(i)]
                        ELSE IF Normalize(job.licenses[i]) # job.licenses[i]
                             THEN [job.sources[i] EXCEPT !.normalized = TRUE] ELSE job.sources[i]
<1>2. PICK licenses : licenses = [i \in DOMAIN job.licenses |-> Normalize(job.licenses[i])]
  OBVIOUS
<1>3. PICK sources : sources = [i \in DOMAIN job.sources |-> source(i)]
  OBVIOUS
<1>4. PICK done : done = [job EXCEPT !.stage = "persist licenses", !.licenses = licenses, !.sources = sources]
  OBVIOUS
<1>5. /\ UNCHANGED <<licenseCache, metadataCache, resolverCache, tables, unanswered>>
      /\ unanswered \subseteq unanswered'
      /\ job.stage = "normalize"
  BY <1>1 DEF NormalizeAndExplain, memory
<1>6. work' = [work EXCEPT ![w] = done]
  <2>1. w \in DOMAIN work /\ DOMAIN work[w] = Fields
    BY DEF LookupInv, Shape
  <2> QED
    BY <1>1, <1>2, <1>3, <1>4, <2>1 DEF NormalizeAndExplain, Fields
<1>7. RowsFit(job) /\ Told(job) /\ Heard(job) /\ DOMAIN job = Fields
  BY <1>1, <1>5 DEF LookupInv, JobsSound, JobIsSound, Shape
<1>8. DOMAIN done = Fields /\ done.stage = "persist licenses" /\ done.doc = d
      /\ done.licenses = licenses /\ done.sources = sources
  BY <1>7, <1>4 DEF Fields
<1>9. d \in DOMAIN Documents /\ DOMAIN licenses = DOMAIN Documents[d] /\ DOMAIN sources = DOMAIN Documents[d]
  BY <1>7, <1>2, <1>3 DEF RowsFit
<1>10. ASSUME NEW i \in DOMAIN Documents[d]
      PROVE  /\ licenses[i] = Normalize(job.licenses[i])
             /\ sources[i].origin = IF job.licenses[i] = NoLicense THEN reason(i) ELSE job.sources[i].origin
  <2>1. licenses[i] = Normalize(job.licenses[i])
    BY <1>9, <1>2
  <2>2. sources[i] = source(i)
    BY <1>9, <1>3
  <2>3. DOMAIN job.sources[i] = SourceFields
    BY <1>7 DEF RowsFit
  <2>4. source(i).origin = IF job.licenses[i] = NoLicense THEN reason(i) ELSE job.sources[i].origin
    <3>1. CASE job.licenses[i] = NoLicense
      BY <3>1 DEF NoSource
    <3>2. CASE job.licenses[i] # NoLicense
      BY <2>3, <3>2 DEF SourceFields
    <3> QED
      BY <3>1, <3>2
  <2> HIDE DEF source
  <2> QED
    BY <2>1, <2>2, <2>4
<1>11. ASSUME NEW i \in DOMAIN Documents[d]
      PROVE  /\ reason(i) \notin Resolvers
             /\ reason(i) \in Reasons => \E g \in RegistryNames :
                  /\ Extract(g, Documents[d][i].purl) # None
                  /\ Negative(reason(i)) \in Truth[g][Extract(g, Documents[d][i].purl)]
  BY <1>1, UnresolvedReasonIsTrue DEF Packages
<1> HIDE DEF reason, source
<1>12. NoOneOverheard(d, done)'
  <2> SUFFICES ASSUME NEW i \in DOMAIN Documents[d], Documents[d][i].license = NoLicense, NEW g \in Resolvers,
                      Licenses[Documents[d][i].purl][g] # {},
                      sources[i].origin \in Resolvers => Order[g] < Order[sources[i].origin]
               PROVE  NotHeard(g, Documents[d][i].purl)'
    BY <1>8 DEF NoOneOverheard
  <2>1. Behind(job, g, i)
    <3>1. CASE job.licenses[i] = NoLicense
      BY <1>5, <3>1 DEF Behind, Resolvers, RegistryNames
    <3>2. CASE job.licenses[i] # NoLicense
      BY <1>7, <1>10, <3>2 DEF Behind, Told
    <3> QED
      BY <3>1, <3>2
  <2>2. NotHeard(g, Documents[d][i].purl)
    BY <1>7, <2>1 DEF Heard
  <2> QED
    BY <1>5, <2>2, NotHeardStays
<1>13. TrueToSource(d, done)'
  <2> SUFFICES ASSUME NEW i \in DOMAIN Documents[d]
               PROVE  /\ sources[i].origin \in Resolvers =>
                           licenses[i] \in {Normalize(l) : l \in Licenses[Documents[d][i].purl][sources[i].origin]}
                      /\ sources[i].origin \in Reasons => \E g \in RegistryNames :
                           /\ Extract(g, Documents[d][i].purl) # None
                           /\ Negative(sources[i].origin) \in Truth[g][Extract(g, Documents[d][i].purl)]
    BY <1>8 DEF TrueToSource, Reasons
  <2>1. CASE job.licenses[i] = NoLicense
    BY <1>10, <1>11, <2>1
  <2>2. CASE job.licenses[i] # NoLicense
    <3>1. sources[i].origin = job.sources[i].origin /\ licenses[i] = Normalize(job.licenses[i])
      BY <1>10, <2>2
    <3>2. \/ job.sources[i].origin = "declared"
          \/ /\ job.sources[i].origin \in Resolvers
             /\ job.licenses[i] \in Licenses[Documents[d][i].purl][job.sources[i].origin]
      BY <1>7, <2>2 DEF Told
    <3> QED
      BY <3>1, <3>2 DEF Resolvers, RegistryNames, Reasons
  <2> QED
    BY <2>1, <2>2
<1>14. JobIsSound(done)'
  BY <1>8, <1>9, <1>12, <1>13 DEF JobIsSound, Resolvers, RegistryNames, Finishing
<1>15. JobsSound' /\ DOMAIN work' = Workers /\ \A v \in Workers : DOMAIN work'[v] = Fields
  BY <1>5, <1>6, <1>8, <1>14, JobMoves DEF tables
<1>16. LicensesKnown' /\ MetadataKnown' /\ RegistriesKnown'
  BY <1>5, LicensesStay, MetadataStays, RegistriesStay DEF LookupInv, tables
<1>17. Shape'
  BY <1>5, <1>15 DEF LookupInv, Shape, tables
<1> QED
  BY <1>15, <1>16, <1>17 DEF LookupInv

-----------------------------------------------------------------------------
(* Writing the caches and the packages.                                    *)

LEMMA PutAllMixes ==
  ASSUME NEW map, NEW new
  PROVE  /\ DOMAIN PutAll(map, new) = DOMAIN map \cup DOMAIN new
         /\ \A k \in DOMAIN new : PutAll(map, new)[k] = new[k]
         /\ \A k \in DOMAIN map \ DOMAIN new : PutAll(map, new)[k] = map[k]
BY DEF PutAll

LEMMA PutAdds ==
  ASSUME NEW map, NEW key, NEW value
  PROVE  /\ DOMAIN Put(map, key, value) = DOMAIN map \cup {key}
         /\ Put(map, key, value)[key] = value
         /\ \A k \in DOMAIN map : k # key => Put(map, key, value)[k] = map[k]
BY DEF Put

\* Every entry of a map that was written to comes from one of the two.
LEMMA EntryOfPutAll ==
  ASSUME NEW map, NEW new, NEW k \in DOMAIN PutAll(map, new)
  PROVE  \/ k \in DOMAIN new /\ PutAll(map, new)[k] = new[k]
         \/ k \in DOMAIN map /\ PutAll(map, new)[k] = map[k]
BY DEF PutAll

LEMMA EntryOfPut ==
  ASSUME NEW map, NEW key, NEW value, NEW k \in DOMAIN Put(map, key, value)
  PROVE  \/ k = key /\ Put(map, key, value)[k] = value
         \/ k \in DOMAIN map /\ Put(map, key, value)[k] = map[k]
BY DEF Put

\* The rows in hand do not change while the caches are written.
LEMMA RowsAreKept ==
  ASSUME LookupInv, NEW w \in Workers, work[w].stage \in Finishing, NEW s \in Finishing,
         unanswered \subseteq unanswered', UNCHANGED sbom_packages,
         work' = [work EXCEPT ![w].stage = s]
  PROVE  JobsSound' /\ DOMAIN work' = Workers /\ \A v \in Workers : DOMAIN work'[v] = Fields
<1>1. PICK old : old = work[w]
  OBVIOUS
<1>2. PICK job : job = [old EXCEPT !.stage = s]
  OBVIOUS
<1>3. DOMAIN old = Fields /\ w \in DOMAIN work
  BY <1>1 DEF LookupInv, Shape
<1>4. /\ DOMAIN job = Fields /\ job.stage = s /\ job.doc = old.doc
      /\ job.sources = old.sources /\ job.licenses = old.licenses
  BY <1>2, <1>3 DEF Fields
<1>5. old.doc \in DOMAIN Documents /\ NoOneOverheard(old.doc, old) /\ TrueToSource(old.doc, old)
  BY <1>1 DEF LookupInv, JobsSound, JobIsSound
<1>6. NoOneOverheard(old.doc, job) /\ TrueToSource(old.doc, job)
  BY <1>4, <1>5 DEF NoOneOverheard, TrueToSource
<1>7. NoOneOverheard(old.doc, job)' /\ TrueToSource(old.doc, job)'
  BY <1>6, RowsStay
<1>8. JobIsSound(job)'
  BY <1>4, <1>5, <1>7 DEF JobIsSound, Finishing, Resolvers, RegistryNames
<1>9. work' = [work EXCEPT ![w] = job]
  BY <1>1, <1>2, <1>3
<1> QED
  BY <1>4, <1>8, <1>9, JobMoves

LEMMA PersistLicensesKeepsInv ==
  ASSUME LookupInv, NEW w \in Workers, PersistLicenses(w)
  PROVE  LookupInv'
<1>1. /\ UNCHANGED <<licenseCache, metadataCache, resolverCache, sbom_packages>>
      /\ UNCHANGED <<github_repo_metadata, registry_license_cache, unanswered>>
      /\ unanswered \subseteq unanswered'
      /\ work[w].stage = "persist licenses" /\ work' = [work EXCEPT ![w].stage = "persist metadata"]
      /\ github_license_cache' \in {github_license_cache, PutAll(github_license_cache, licenseCache[w])}
  BY DEF PersistLicenses, memory
<1>2. JobsSound' /\ DOMAIN work' = Workers /\ \A v \in Workers : DOMAIN work'[v] = Fields
  BY <1>1, RowsAreKept DEF Finishing
<1>3. ASSUME NEW r \in DOMAIN github_license_cache' PROVE LicenseIsKnown(r, github_license_cache[r])'
  <2>1. \/ r \in DOMAIN github_license_cache /\ github_license_cache'[r] = github_license_cache[r]
        \/ r \in DOMAIN licenseCache[w] /\ github_license_cache'[r] = licenseCache[w][r]
    <3>1. CASE github_license_cache' = github_license_cache
      BY <1>3, <3>1
    <3>2. CASE github_license_cache' = PutAll(github_license_cache, licenseCache[w])
      BY <1>3, <3>2, EntryOfPutAll
    <3> QED
      BY <1>1, <3>1, <3>2
  <2> QED
    BY <1>1, <2>1 DEF LookupInv, LicensesKnown, LicenseIsKnown
<1>4. LicensesKnown'
  BY <1>1, <1>3 DEF LookupInv, LicensesKnown, LicenseIsKnown
<1>5. MetadataKnown' /\ RegistriesKnown'
  BY <1>1, MetadataStays, RegistriesStay DEF LookupInv
<1>6. Shape'
  BY <1>1, <1>2 DEF LookupInv, Shape
<1> QED
  BY <1>2, <1>4, <1>5, <1>6 DEF LookupInv

LEMMA PersistMetadataKeepsInv ==
  ASSUME LookupInv, NEW w \in Workers, PersistMetadata(w)
  PROVE  LookupInv'
<1> DEFINE rows == [r \in DOMAIN metadataCache[w] |-> MetadataRow(metadataCache[w][r])]
<1>1. /\ UNCHANGED <<licenseCache, metadataCache, resolverCache, sbom_packages>>
      /\ UNCHANGED <<github_license_cache, registry_license_cache, unanswered>>
      /\ unanswered \subseteq unanswered'
      /\ work[w].stage = "persist metadata" /\ work' = [work EXCEPT ![w].stage = "persist registries"]
      /\ github_repo_metadata' \in {github_repo_metadata, PutAll(github_repo_metadata, rows)}
  BY DEF PersistMetadata, memory
<1>2. JobsSound' /\ DOMAIN work' = Workers /\ \A v \in Workers : DOMAIN work'[v] = Fields
  BY <1>1, RowsAreKept DEF Finishing
<1>3. ASSUME NEW r \in DOMAIN github_repo_metadata' PROVE FlagIsKnown(r, github_repo_metadata[r].archived)'
  <2>1. CASE r \in DOMAIN github_repo_metadata /\ github_repo_metadata'[r] = github_repo_metadata[r]
    <3>1. FlagIsKnown(r, github_repo_metadata[r].archived)
      BY <2>1 DEF LookupInv, MetadataKnown
    <3> QED
      BY <1>1, <2>1, <3>1 DEF FlagIsKnown
  <2>2. CASE r \in DOMAIN rows /\ github_repo_metadata'[r] = rows[r]
    <3>1. FlagIsKnown(r, metadataCache[w][r].archived)
      BY <2>2 DEF LookupInv, MetadataKnown
    <3>2. github_repo_metadata'[r] = MetadataRow(metadataCache[w][r])
      BY <2>2
    <3>3. github_repo_metadata'[r].archived = metadataCache[w][r].archived
      BY <3>2 DEF MetadataRow
    <3> QED
      BY <1>1, <3>1, <3>3 DEF FlagIsKnown
  <2> HIDE DEF rows
  <2>3. CASE github_repo_metadata' = github_repo_metadata
    BY <1>3, <2>1, <2>3
  <2>4. CASE github_repo_metadata' = PutAll(github_repo_metadata, rows)
    BY <1>3, <2>1, <2>2, <2>4, EntryOfPutAll
  <2> QED
    BY <1>1, <2>3, <2>4
<1>4. ASSUME NEW v \in Workers, NEW r \in DOMAIN metadataCache[v]
      PROVE  FlagIsKnown(r, metadataCache[v][r].archived)' /\ AskedOrForgotten(r, metadataCache[v][r].license)'
  <2>1. FlagIsKnown(r, metadataCache[v][r].archived) /\ AskedOrForgotten(r, metadataCache[v][r].license)
    BY DEF LookupInv, MetadataKnown
  <2> QED
    BY <1>1, <2>1 DEF FlagIsKnown, AskedOrForgotten
<1>5. MetadataKnown'
  BY <1>1, <1>3, <1>4 DEF MetadataKnown
<1>6. LicensesKnown' /\ RegistriesKnown'
  BY <1>1, LicensesStay, RegistriesStay DEF LookupInv
<1>7. Shape'
  BY <1>1, <1>2 DEF LookupInv, Shape
<1> QED
  BY <1>2, <1>5, <1>6, <1>7 DEF LookupInv

LEMMA PersistRegistriesKeepsInv ==
  ASSUME LookupInv, NEW w \in Workers, PersistRegistries(w)
  PROVE  LookupInv'
<1>1. /\ UNCHANGED <<licenseCache, metadataCache, resolverCache, sbom_packages>>
      /\ UNCHANGED <<github_license_cache, github_repo_metadata, unanswered>>
      /\ unanswered \subseteq unanswered'
      /\ work[w].stage = "persist registries" /\ work' = [work EXCEPT ![w].stage = "insert packages"]
  BY DEF PersistRegistries, memory
<1>2. PICK lost : registry_license_cache' = [g \in RegistryNames |->
        IF g \in lost THEN registry_license_cache[g] ELSE PutAll(registry_license_cache[g], resolverCache[w][g])]
  BY DEF PersistRegistries
<1>3. JobsSound' /\ DOMAIN work' = Workers /\ \A v \in Workers : DOMAIN work'[v] = Fields
  BY <1>1, RowsAreKept DEF Finishing
<1>4. ASSUME NEW g \in RegistryNames PROVE CacheIsTrue(g, registry_license_cache[g])'
  <2>1. registry_license_cache'[g] \in {registry_license_cache[g], PutAll(registry_license_cache[g], resolverCache[w][g])}
    BY <1>2
  <2>2. CacheIsTrue(g, registry_license_cache[g]) /\ CacheIsTrue(g, resolverCache[w][g])
    BY DEF LookupInv, RegistriesKnown
  <2>3. CASE registry_license_cache'[g] = registry_license_cache[g]
    BY <2>2, <2>3 DEF CacheIsTrue
  <2>4. CASE registry_license_cache'[g] = PutAll(registry_license_cache[g], resolverCache[w][g])
    <3>1. \A key \in DOMAIN registry_license_cache'[g] :
            \/ key \in DOMAIN resolverCache[w][g] /\ registry_license_cache'[g][key] = resolverCache[w][g][key]
            \/ key \in DOMAIN registry_license_cache[g] /\ registry_license_cache'[g][key] = registry_license_cache[g][key]
      BY <2>4, EntryOfPutAll
    <3> QED
      BY <2>2, <3>1 DEF CacheIsTrue
  <2> QED
    BY <2>1, <2>3, <2>4
<1>5. RegistriesKnown'
  BY <1>1, <1>4 DEF LookupInv, RegistriesKnown, CacheIsTrue
<1>6. LicensesKnown' /\ MetadataKnown'
  BY <1>1, LicensesStay, MetadataStays DEF LookupInv
<1>7. Shape'
  BY <1>1, <1>2, <1>3 DEF LookupInv, Shape
<1> QED
  BY <1>3, <1>5, <1>6, <1>7 DEF LookupInv

LEMMA InsertPackagesKeepsInv ==
  ASSUME LookupInv, NEW w \in Workers, InsertPackages(w)
  PROVE  LookupInv'
<1>1. PICK job : job = work[w]
  OBVIOUS
<1>2. PICK rows : rows = [licenses |-> job.licenses, sources |-> job.sources]
  OBVIOUS
<1>3. /\ UNCHANGED <<licenseCache, metadataCache, resolverCache>>
      /\ UNCHANGED <<github_license_cache, github_repo_metadata, registry_license_cache, unanswered>>
      /\ unanswered \subseteq unanswered'
      /\ job.stage = "insert packages" /\ work' = [work EXCEPT ![w] = Idle]
      /\ sbom_packages' \in {sbom_packages, Put(sbom_packages, job.doc, rows)}
  BY <1>1, <1>2 DEF InsertPackages, memory
<1>4. NoOneOverheard(job.doc, job) /\ TrueToSource(job.doc, job)
  BY <1>1, <1>3 DEF LookupInv, JobsSound, JobIsSound, Finishing
<1>5. NoOneOverheard(job.doc, rows) /\ TrueToSource(job.doc, rows)
  BY <1>2, <1>4 DEF NoOneOverheard, TrueToSource
<1>6. ASSUME NEW d \in DOMAIN sbom_packages'
      PROVE  NoOneOverheard(d, sbom_packages[d])' /\ TrueToSource(d, sbom_packages[d])'
  <2>1. PICK new : new = sbom_packages'[d]
    OBVIOUS
  <2>2. NoOneOverheard(d, new) /\ TrueToSource(d, new)
    <3>1. CASE d = job.doc /\ new = rows
      BY <1>5, <3>1
    <3>2. CASE d \in DOMAIN sbom_packages /\ new = sbom_packages[d]
      BY <3>2 DEF LookupInv, JobsSound
    <3>3. CASE sbom_packages' = sbom_packages
      BY <1>6, <2>1, <3>2, <3>3
    <3>4. CASE sbom_packages' = Put(sbom_packages, job.doc, rows)
      BY <1>6, <2>1, <3>1, <3>2, <3>4, EntryOfPut
    <3> QED
      BY <1>3, <3>3, <3>4
  <2>3. NoOneOverheard(d, new)' /\ TrueToSource(d, new)'
    BY <1>3, <2>2, RowsStay
  <2> QED
    BY <2>1, <2>3
<1>7. /\ DOMAIN work' = Workers /\ work'[w] = Idle
      /\ \A v \in Workers : DOMAIN work'[v] = Fields /\ (v # w => work'[v] = work[v])
  BY <1>3, RestIsShaped DEF LookupInv, Shape
<1>8. ASSUME NEW v \in Workers PROVE JobIsSound(work[v])'
  <2>1. CASE v = w
    <3>1. Idle.stage \in Resting
      BY RestIsShaped DEF Resting
    <3>2. JobIsSound(Idle)'
      BY <3>1, RestIsSound
    <3> QED
      BY <1>7, <2>1, <3>2
  <2>2. CASE v # w
    BY <1>3, <1>7, <2>2, OthersStay
  <2> QED
    BY <2>1, <2>2
<1>9. JobsSound'
  BY <1>6, <1>8 DEF JobsSound
<1>10. LicensesKnown' /\ MetadataKnown' /\ RegistriesKnown'
  BY <1>3, LicensesStay, MetadataStays, RegistriesStay DEF LookupInv
<1>11. Shape'
  BY <1>3, <1>7 DEF LookupInv, Shape
<1> QED
  BY <1>9, <1>10, <1>11 DEF LookupInv

-----------------------------------------------------------------------------
(* Asking: a job stands at a question, and the answer is cached and        *)
(* recorded.                                                               *)

LEMMA AtWork ==
  ASSUME LookupInv, NEW w \in Workers, work[w].stage \in Resolvers
  PROVE  /\ DOMAIN work[w] = Fields /\ JobIsSound(work[w])
         /\ work[w].doc \in DOMAIN Documents /\ work[w].at \in DOMAIN Documents[work[w].doc]
         /\ work[w].at \in Nat /\ work[w].repo \in Nat /\ work[w].licenses[work[w].at] = NoLicense
         /\ Purl(w) = Documents[work[w].doc][work[w].at].purl
         /\ Purl(w) \in AllPurls /\ Asks(work[w].stage, Purl(w))
<1>1. PICK job : job = work[w]
  OBVIOUS
<1>2. DOMAIN job = Fields /\ JobIsSound(job)
  BY <1>1 DEF LookupInv, Shape, JobsSound
<1>3. RowsFit(job) /\ AtQuestion(job)
  BY <1>1, <1>2 DEF JobIsSound
<1>4. job.at \in DOMAIN Documents[job.doc] /\ Asks(job.stage, Documents[job.doc][job.at].purl)
  <2>1. PICK q : q = [stage |-> job.stage, at |-> job.at]
    OBVIOUS
  <2>2. q \in Questions[job.doc] /\ job.doc \in DOMAIN Documents
    BY <1>3, <2>1 DEF AtQuestion, RowsFit
  <2> QED
    BY <2>1, <2>2, QuestionsFit
<1>5. Purl(w) = Documents[job.doc][job.at].purl
  BY <1>1 DEF Purl, Packages
<1> QED
  BY <1>1, <1>2, <1>3, <1>4, <1>5, PurlsOfDocuments DEF AtQuestion, RowsFit

\* A job records what it was told.
LEMMA AnswerIsRecorded ==
  ASSUME LookupInv, unanswered \subseteq unanswered', UNCHANGED sbom_packages,
         NEW w \in Workers, NEW g \in Resolvers, work[w].stage = g,
         NEW purl, purl = Purl(w), NEW license, SoundAnswer(g, purl, license)',
         NEW source, DOMAIN source = SourceFields, source.origin = g,
         work' = [work EXCEPT ![w] = Record(@, license, source)]
  PROVE  JobsSound' /\ DOMAIN work' = Workers /\ \A v \in Workers : DOMAIN work'[v] = Fields
<1>1. PICK job : job = work[w]
  OBVIOUS
<1>2. PICK next : next = Record(job, license, source)
  OBVIOUS
<1>3. /\ DOMAIN job = Fields /\ JobIsSound(job) /\ job.stage = g
      /\ purl = Documents[job.doc][job.at].purl
  BY <1>1, AtWork
<1>4. JobIsSound(Record(job, license, source))' /\ DOMAIN Record(job, license, source) = Fields
  <2>1. SoundAnswer(job.stage, Documents[job.doc][job.at].purl, license)'
    BY <1>3
  <2> QED
    BY <1>3, <2>1, RecordIsSound
<1>5. work' = [work EXCEPT ![w] = next]
  BY <1>1, <1>2 DEF LookupInv, Shape
<1> QED
  BY <1>2, <1>4, <1>5, JobMoves

\* Only true values get into a cache.
LEMMA StoredIsTrue ==
  ASSUME NEW g, NEW cache, CacheIsTrue(g, cache), NEW key \in Keys(g), NEW value,
         value = NoAnswer \/ value \in TrueValues(g, key)
  PROVE  CacheIsTrue(g, StoreValue(cache, key, value))
<1>1. CASE value = NoAnswer
  BY <1>1 DEF StoreValue
<1>2. CASE value # NoAnswer
  <2>1. StoreValue(cache, key, value) = Put(cache, key, value)
    BY <1>2 DEF StoreValue
  <2>2. \A k \in DOMAIN Put(cache, key, value) :
          \/ k = key /\ Put(cache, key, value)[k] = value
          \/ k \in DOMAIN cache /\ Put(cache, key, value)[k] = cache[k]
    BY EntryOfPut
  <2> QED
    BY <1>2, <2>1, <2>2 DEF CacheIsTrue
<1> QED
  BY <1>1, <1>2

\* One registry's cache of one worker changes.
LEMMA OneCacheChanges ==
  ASSUME LookupInv, UNCHANGED registry_license_cache, NEW w \in Workers, NEW g \in RegistryNames, NEW cache,
         CacheIsTrue(g, cache), resolverCache' = [resolverCache EXCEPT ![w][g] = cache]
  PROVE  /\ RegistriesKnown' /\ DOMAIN resolverCache' = Workers
         /\ \A v \in Workers : DOMAIN resolverCache'[v] = RegistryNames
<1>1. DOMAIN resolverCache = Workers /\ \A v \in Workers : DOMAIN resolverCache[v] = RegistryNames
  BY DEF LookupInv, Shape
<1>2. /\ DOMAIN resolverCache' = Workers
      /\ \A v \in Workers : DOMAIN resolverCache'[v] = RegistryNames
      /\ \A v \in Workers, h \in RegistryNames :
           resolverCache'[v][h] = IF v = w /\ h = g THEN cache ELSE resolverCache[v][h]
  BY <1>1
<1>3. ASSUME NEW v \in Workers, NEW h \in RegistryNames PROVE CacheIsTrue(h, resolverCache[v][h])'
  <2>1. CacheIsTrue(h, resolverCache[v][h])
    BY DEF LookupInv, RegistriesKnown
  <2>2. CASE v = w /\ h = g
    BY <1>2, <2>2 DEF CacheIsTrue
  <2>3. CASE ~(v = w /\ h = g)
    BY <1>2, <2>1, <2>3 DEF CacheIsTrue
  <2> QED
    BY <2>2, <2>3
<1>4. \A h \in RegistryNames : CacheIsTrue(h, registry_license_cache[h])'
  BY DEF LookupInv, RegistriesKnown, CacheIsTrue
<1> QED
  BY <1>2, <1>3, <1>4 DEF RegistriesKnown

\* A registry's answer: a true value, or none.
LEMMA ResolvedKeepsInv ==
  ASSUME LookupInv, unanswered \subseteq unanswered', UNCHANGED <<metadataCache, tables>>,
         LicensesKnown', DOMAIN licenseCache' = Workers,
         NEW w \in Workers, NEW g \in RegistryNames, work[w].stage = g,
         NEW purl, purl = Purl(w), NEW key, key = Extract(g, purl), NEW value, NEW latest,
         value = NoAnswer \/ value \in TrueValues(g, key),
         SoundAnswer(g, purl, value.license)',
         Resolved(w, g, key, value, latest)
  PROVE  LookupInv'
<1>1. g \in Resolvers
  BY DEF Resolvers
<1>2. key \in Keys(g)
  BY <1>1, AtWork, LicensesOfRegistry
<1>3. PICK cache : cache = StoreValue(resolverCache[w][g], key, value)
  OBVIOUS
<1>4. PICK source : source = [NoSource EXCEPT !.origin = g, !.latest = latest]
  OBVIOUS
<1>5. PICK license : license = value.license
  OBVIOUS
<1>6. resolverCache' = [resolverCache EXCEPT ![w][g] = cache]
  BY <1>3 DEF Resolved, LookupInv, Shape
<1>7. CacheIsTrue(g, cache)
  <2>1. CacheIsTrue(g, resolverCache[w][g])
    BY DEF LookupInv, RegistriesKnown
  <2> QED
    BY <1>2, <1>3, <2>1, StoredIsTrue
<1>8. work' = [work EXCEPT ![w] = Record(@, license, source)]
  BY <1>4, <1>5 DEF Resolved
<1>9. DOMAIN source = SourceFields /\ source.origin = g
  BY <1>4 DEF NoSource, SourceFields
<1>10. SoundAnswer(g, purl, license)'
  BY <1>5
<1>11. JobsSound' /\ DOMAIN work' = Workers /\ \A v \in Workers : DOMAIN work'[v] = Fields
  BY <1>1, <1>8, <1>9, <1>10, AnswerIsRecorded DEF tables
<1>12. /\ RegistriesKnown' /\ DOMAIN resolverCache' = Workers
       /\ \A v \in Workers : DOMAIN resolverCache'[v] = RegistryNames
  BY <1>6, <1>7, OneCacheChanges DEF tables
<1>13. MetadataKnown'
  BY MetadataStays DEF LookupInv, tables
<1>14. Shape'
  BY <1>11, <1>12 DEF LookupInv, Shape, tables
<1> QED
  BY <1>11, <1>12, <1>13, <1>14 DEF LookupInv

\* Nothing but the worker's registry cache and job changes.
OnlyRegistries == unanswered \subseteq unanswered' /\ UNCHANGED <<licenseCache, metadataCache, tables>>

LEMMA TrueAnswerKeepsInv ==
  ASSUME LookupInv, OnlyRegistries, NEW w \in Workers, NEW g \in RegistryNames, work[w].stage = g,
         NEW key, key = Extract(g, Purl(w)), NEW value \in TrueValues(g, key), NEW latest,
         Resolved(w, g, key, value, latest)
  PROVE  LookupInv'
<1>1. PICK purl : purl = Purl(w)
  OBVIOUS
<1>2. purl \in AllPurls /\ Asks(g, purl)
  BY <1>1, AtWork DEF Resolvers
<1>3. SoundAnswer(g, purl, value.license)'
  <2>1. value \in TrueValues(g, Extract(g, purl))
    BY <1>1
  <2> QED
    BY <1>2, <2>1, TrueValueIsSound
<1>4. LicensesKnown' /\ DOMAIN licenseCache' = Workers
  BY LicensesStay DEF OnlyRegistries, LookupInv, Shape, tables
<1> QED
  BY <1>1, <1>3, <1>4, ResolvedKeepsInv DEF OnlyRegistries

LEMMA FailedAnswerKeepsInv ==
  ASSUME LookupInv, OnlyRegistries, NEW w \in Workers, NEW g \in RegistryNames, work[w].stage = g,
         NEW key, key = Extract(g, Purl(w)), <<g, key>> \in unanswered', NEW latest,
         Resolved(w, g, key, FailedAnswer, latest)
  PROVE  LookupInv'
<1>1. PICK purl : purl = Purl(w)
  OBVIOUS
<1>2. purl \in AllPurls /\ Asks(g, purl)
  BY <1>1, AtWork DEF Resolvers
<1>3. FailedAnswer = NoAnswer /\ FailedAnswer.license = NoLicense
  BY DEF FailedAnswer, NoAnswer
<1>4. SoundAnswer(g, purl, NoLicense)'
  <2>1. <<g, Extract(g, purl)>> \in unanswered'
    BY <1>1
  <2> QED
    BY <1>2, <2>1, FailureIsSound
<1>5. SoundAnswer(g, purl, FailedAnswer.license)'
  BY <1>3, <1>4 DEF FailedAnswer
<1>6. LicensesKnown' /\ DOMAIN licenseCache' = Workers
  BY LicensesStay DEF OnlyRegistries, LookupInv, Shape, tables
<1> QED
  BY <1>1, <1>3, <1>5, <1>6, ResolvedKeepsInv DEF OnlyRegistries

LEMMA CachedIsTrue ==
  ASSUME LookupInv, NEW w \in Workers, NEW g \in RegistryNames, NEW key \in DOMAIN resolverCache[w][g]
  PROVE  resolverCache[w][g][key] \in TrueValues(g, key)
BY DEF LookupInv, RegistriesKnown, CacheIsTrue

LEMMA AskRegistryKeepsInv ==
  ASSUME LookupInv, NEW w \in Workers, NEW g \in {"npm", "pypi"}, AskRegistry(w, g)
  PROVE  LookupInv'
<1>1. PICK key : key = Extract(g, Purl(w))
  OBVIOUS
<1>2. PICK value : value = IF key \in DOMAIN resolverCache[w][g] THEN resolverCache[w][g][key] ELSE Answer(g, key)
  OBVIOUS
<1>3. PICK latest : latest = (key.version = None)
  OBVIOUS
<1>4. g \in RegistryNames /\ work[w].stage = g /\ TrueValues(g, key) = {Answer(g, key)}
  BY DEF RegistryNames, AskRegistry, TrueValues
<1>5. OnlyRegistries
  BY DEF AskRegistry, OnlyRegistries, Misses
<1>6. value \in TrueValues(g, key)
  BY <1>2, <1>4, CachedIsTrue
<1>7. CASE Resolved(w, g, key, value, latest)
  BY <1>1, <1>4, <1>5, <1>6, <1>7, TrueAnswerKeepsInv
<1>8. CASE Misses({<<g, key>>}) /\ Resolved(w, g, key, FailedAnswer, latest)
  <2>1. <<g, key>> \in unanswered'
    BY <1>8 DEF Misses
  <2> QED
    BY <1>1, <1>4, <1>5, <1>8, <2>1, FailedAnswerKeepsInv
<1>9. \/ Resolved(w, g, key, value, latest)
      \/ Misses({<<g, key>>}) /\ Resolved(w, g, key, FailedAnswer, latest)
  BY <1>1, <1>2, <1>3 DEF AskRegistry
<1> QED
  BY <1>7, <1>8, <1>9

LEMMA AskPackagistKeepsInv ==
  ASSUME LookupInv, NEW w \in Workers, AskPackagist(w)
  PROVE  LookupInv'
<1> DEFINE g == "packagist"
<1>1. PICK key : key = Extract(g, Purl(w))
  OBVIOUS
<1>2. PICK value : value = IF key \in DOMAIN resolverCache[w][g] THEN resolverCache[w][g][key] ELSE PackagistAnswer(key)
  OBVIOUS
<1>3. PICK latest : latest = value.latest
  OBVIOUS
<1>4. g \in RegistryNames /\ work[w].stage = g /\ TrueValues(g, key) = {PackagistAnswer(key)}
  BY DEF RegistryNames, AskPackagist, TrueValues
<1>5. OnlyRegistries
  BY DEF AskPackagist, OnlyRegistries, Misses
<1>6. value \in TrueValues(g, key)
  BY <1>2, <1>4, CachedIsTrue
<1>7. CASE Resolved(w, g, key, value, latest)
  BY <1>1, <1>4, <1>5, <1>6, <1>7, TrueAnswerKeepsInv
<1>8. CASE Misses({<<g, key>>}) /\ Resolved(w, g, key, FailedAnswer, FALSE)
  <2>1. <<g, key>> \in unanswered'
    BY <1>8 DEF Misses
  <2> QED
    BY <1>1, <1>4, <1>5, <1>8, <2>1, FailedAnswerKeepsInv
<1>9. \/ Resolved(w, g, key, value, latest)
      \/ Misses({<<g, key>>}) /\ Resolved(w, g, key, FailedAnswer, FALSE)
  BY <1>1, <1>2, <1>3 DEF AskPackagist
<1> QED
  BY <1>7, <1>8, <1>9

-----------------------------------------------------------------------------
(* NuGet: the entry itself, and the repositories it names.                 *)

\* A job goes on to a repository once it has asked those before in vain.
LEMMA RepositoryIsNext ==
  ASSUME LookupInv, unanswered \subseteq unanswered', UNCHANGED sbom_packages,
         NEW w \in Workers, work[w].stage = "nuget", NEW key, key = Extract("nuget", Purl(w)),
         NEW n \in DOMAIN Upstream["nuget"][key].repos, key \in DOMAIN Upstream["nuget"],
         StatedLicense(Upstream["nuget"][key]) = NoLicense,
         \A m \in 1..(n - 1) : AskedInVain(key, m)',
         work' = [work EXCEPT ![w].repo = n]
  PROVE  JobsSound' /\ DOMAIN work' = Workers /\ \A v \in Workers : DOMAIN work'[v] = Fields
<1>1. PICK job : job = work[w]
  OBVIOUS
<1>2. PICK next : next = [job EXCEPT !.repo = n]
  OBVIOUS
<1>3. /\ DOMAIN job = Fields /\ JobIsSound(job) /\ job.stage = "nuget" /\ job.stage \in Resolvers
      /\ key = Extract("nuget", Documents[job.doc][job.at].purl)
  BY <1>1, AtWork DEF Resolvers, RegistryNames
<1>4. JobIsSound(job)'
  BY <1>3, JobStays
<1>5. /\ DOMAIN next = Fields /\ next.stage = job.stage /\ next.doc = job.doc /\ next.at = job.at /\ next.repo = n
      /\ next.licenses = job.licenses /\ next.sources = job.sources
  BY <1>2, <1>3 DEF Fields
<1>6. n \in Nat
  BY InputsAreSequences
<1>7. RowsFit(job) /\ Told(job) /\ Heard(job)' /\ AtQuestion(job)
  BY <1>3, <1>4 DEF JobIsSound
<1>8. RowsFit(next) /\ Told(next)
  BY <1>5, <1>6, <1>7 DEF RowsFit, Told
<1>9. Heard(next)'
  BY <1>5, <1>7 DEF Heard, Behind, Precedes
<1>10. AtQuestion(next)'
  <2>1. AtRepository(next, key)'
    BY <1>5 DEF AtRepository
  <2> QED
    BY <1>3, <1>5, <1>7, <2>1 DEF AtQuestion
<1>11. JobIsSound(next)'
  BY <1>3, <1>5, <1>8, <1>9, <1>10 DEF JobIsSound, RowsFit, Told, Finishing
<1>12. work' = [work EXCEPT ![w] = next]
  BY <1>1, <1>2, <1>3 DEF LookupInv, Shape
<1> QED
  BY <1>5, <1>11, <1>12, JobMoves

LEMMA AskNuGetKeepsInv ==
  ASSUME LookupInv, NEW w \in Workers, AskNuGet(w)
  PROVE  LookupInv'
<1> DEFINE g == "nuget"
           entry(key) == Upstream[g][key]
<1>1. PICK key : key = Extract(g, Purl(w))
  OBVIOUS
<1>2. PICK value :
        value = IF key \in DOMAIN resolverCache[w][g] THEN resolverCache[w][g][key]
                ELSE IF key \notin DOMAIN Upstream[g] THEN Negative("not-published")
                ELSE IF StatedLicense(entry(key)) # NoLicense THEN Found(StatedLicense(entry(key)))
                ELSE IF entry(key).bare THEN Negative("no-license-upstream")
                ELSE NoAnswer
  OBVIOUS
<1>3. g \in RegistryNames /\ work[w].stage = g
  BY DEF RegistryNames, AskNuGet
<1>4. OnlyRegistries
  BY DEF AskNuGet, OnlyRegistries, Misses
<1>5. \/ /\ key \notin DOMAIN resolverCache[w][g] /\ key \in DOMAIN Upstream[g]
         /\ StatedLicense(entry(key)) = NoLicense /\ entry(key).repos # <<>>
         /\ work' = [work EXCEPT ![w].repo = 1] /\ UNCHANGED resolverCache
      \/ /\ \/ key \in DOMAIN resolverCache[w][g] \/ key \notin DOMAIN Upstream[g]
            \/ StatedLicense(entry(key)) # NoLicense \/ entry(key).repos = <<>>
         /\ Resolved(w, g, key, value, FALSE)
      \/ Misses({<<g, key>>}) /\ Resolved(w, g, key, FailedAnswer, FALSE)
  BY <1>1, <1>2 DEF AskNuGet
<1>6. CASE /\ key \notin DOMAIN resolverCache[w][g] /\ key \in DOMAIN Upstream[g]
           /\ StatedLicense(entry(key)) = NoLicense /\ entry(key).repos # <<>>
           /\ work' = [work EXCEPT ![w].repo = 1] /\ UNCHANGED resolverCache
  <2>1. 1 \in DOMAIN entry(key).repos
    BY <1>6, InputsAreSequences
  <2>2. JobsSound' /\ DOMAIN work' = Workers /\ \A v \in Workers : DOMAIN work'[v] = Fields
    <3>1. \A m \in 1..(1 - 1) : AskedInVain(key, m)'
      OBVIOUS
    <3>2. unanswered \subseteq unanswered' /\ UNCHANGED sbom_packages
      BY <1>4 DEF OnlyRegistries, tables
    <3>3. key \in DOMAIN Upstream["nuget"] /\ StatedLicense(Upstream["nuget"][key]) = NoLicense
      BY <1>6
    <3>4. work[w].stage = "nuget" /\ 1 \in DOMAIN Upstream["nuget"][key].repos /\ work' = [work EXCEPT ![w].repo = 1]
      BY <1>3, <1>6, <2>1
    <3> HIDE DEF entry
    <3> QED
      BY <1>1, <3>1, <3>2, <3>3, <3>4, RepositoryIsNext
  <2>3. LicensesKnown' /\ MetadataKnown' /\ RegistriesKnown'
    BY <1>4, <1>6, LicensesStay, MetadataStays, RegistriesStay DEF OnlyRegistries, LookupInv, tables
  <2>4. Shape'
    BY <1>4, <1>6, <2>2 DEF OnlyRegistries, LookupInv, Shape, tables
  <2> QED
    BY <2>2, <2>3, <2>4 DEF LookupInv
<1>7. CASE /\ \/ key \in DOMAIN resolverCache[w][g] \/ key \notin DOMAIN Upstream[g]
              \/ StatedLicense(entry(key)) # NoLicense \/ entry(key).repos = <<>>
           /\ Resolved(w, g, key, value, FALSE)
  <2>1. CASE key \in DOMAIN resolverCache[w][g]
    <3>1. value \in TrueValues(g, key)
      BY <1>2, <1>3, <2>1, CachedIsTrue
    <3> QED
      BY <1>1, <1>3, <1>4, <1>7, <3>1, TrueAnswerKeepsInv
  <2>2. CASE /\ key \notin DOMAIN resolverCache[w][g]
             /\ key \notin DOMAIN Upstream[g] \/ StatedLicense(entry(key)) # NoLicense \/ entry(key).bare
    <3>1. value \in TrueValues(g, key)
      BY <1>2, <2>2 DEF TrueValues
    <3> QED
      BY <1>1, <1>3, <1>4, <1>7, <3>1, TrueAnswerKeepsInv
  <2>3. CASE /\ key \notin DOMAIN resolverCache[w][g] /\ key \in DOMAIN Upstream[g]
             /\ StatedLicense(entry(key)) = NoLicense /\ ~entry(key).bare
    <3>1. value = NoAnswer /\ entry(key).repos = <<>>
      BY <1>2, <1>7, <2>3
    <3>2. TrueValues(g, key) = {}
      BY <2>3, <3>1 DEF TrueValues
    <3>3. PICK purl : purl = Purl(w)
      OBVIOUS
    <3>4. purl \in AllPurls /\ Asks(g, purl)
      BY <1>3, <3>3, AtWork DEF Resolvers
    <3>5. Licenses[purl][g] = {}
      BY <1>1, <1>3, <3>2, <3>3, <3>4, LicensesOfRegistry
    <3>6. SoundAnswer(g, purl, value.license)'
      BY <3>1, <3>5 DEF SoundAnswer, NoAnswer
    <3>7. LicensesKnown' /\ DOMAIN licenseCache' = Workers
      BY <1>4, LicensesStay DEF OnlyRegistries, LookupInv, Shape, tables
    <3> QED
      BY <1>1, <1>3, <1>4, <1>7, <3>1, <3>3, <3>6, <3>7, ResolvedKeepsInv DEF OnlyRegistries
  <2> QED
    BY <2>1, <2>2, <2>3
<1>8. CASE Misses({<<g, key>>}) /\ Resolved(w, g, key, FailedAnswer, FALSE)
  <2>1. <<g, key>> \in unanswered'
    BY <1>8 DEF Misses
  <2> QED
    BY <1>1, <1>3, <1>4, <1>8, <2>1, FailedAnswerKeepsInv
<1> QED
  BY <1>5, <1>6, <1>7, <1>8

\* What the answer of the n-th repository says about it.
LEMMA RepositoryAnswers ==
  ASSUME LookupInv, unanswered \subseteq unanswered', NEW w \in Workers, NEW key, NEW n, NEW repo,
         repo = Upstream["nuget"][key].repos[n], NEW o \in ResolveLicense(Inquiry(w), repo),
         \A r \in o.failed : <<"github", r>> \in unanswered',
         o.limited \cup o.refused # {} => <<"nuget", key>> \in unanswered'
  PROVE  /\ o.license # NoLicense => o.license \in RepositoryLicenses(repo)
         /\ o.license = NoLicense => AskedInVain(key, n)'
         /\ \/ o.cache = licenseCache[w]
            \/ o.cache = Put(licenseCache[w], repo, o.license) /\ LicenseIsKnown(repo, o.license)'
<1>1. \/ /\ repo \in DOMAIN licenseCache[w] /\ o.license = licenseCache[w][repo]
         /\ o.cache = licenseCache[w]
      \/ o.license = NoLicense /\ o.limited \cup o.refused # {} /\ o.cache = licenseCache[w]
      \/ FileAnswer(repo, o) /\ o.cache = Put(licenseCache[w], repo, o.license)
  BY LicenseResolved
<1>2. CASE /\ repo \in DOMAIN licenseCache[w] /\ o.license = licenseCache[w][repo]
           /\ o.cache = licenseCache[w]
  <2>1. LicenseIsKnown(repo, licenseCache[w][repo])
    BY <1>2 DEF LookupInv, LicensesKnown
  <2> QED
    BY <1>2, <2>1 DEF LicenseIsKnown, AskedInVain
<1>3. CASE o.license = NoLicense /\ o.limited \cup o.refused # {} /\ o.cache = licenseCache[w]
  BY <1>3 DEF AskedInVain
<1>4. CASE FileAnswer(repo, o) /\ o.cache = Put(licenseCache[w], repo, o.license)
  <2>1. o.license \in RepositoryLicenses(repo)
    BY <1>4 DEF FileAnswer, RepositoryLicenses
  <2>2. o.license = NoLicense => FileLicense(repo) = NoLicense \/ <<"github", repo>> \in unanswered'
    BY <1>4 DEF FileAnswer
  <2> QED
    BY <1>4, <2>1, <2>2 DEF LicenseIsKnown, AskedInVain
<1> QED
  BY <1>1, <1>2, <1>3, <1>4

\* One worker's cache of repository licences gains an entry, or none.
LEMMA OneLicenseLearnt ==
  ASSUME LookupInv, unanswered \subseteq unanswered', UNCHANGED github_license_cache,
         NEW w \in Workers, NEW cache, licenseCache' = [licenseCache EXCEPT ![w] = cache], NEW repo, NEW license,
         \/ cache = licenseCache[w]
         \/ cache = Put(licenseCache[w], repo, license) /\ LicenseIsKnown(repo, license)'
  PROVE  LicensesKnown' /\ DOMAIN licenseCache' = Workers
<1>1. DOMAIN licenseCache' = Workers /\ \A v \in Workers : licenseCache'[v] = IF v = w THEN cache ELSE licenseCache[v]
  BY DEF LookupInv, Shape
<1>2. ASSUME NEW r \in DOMAIN cache PROVE LicenseIsKnown(r, cache[r])'
  <2>1. CASE r \in DOMAIN licenseCache[w] /\ cache[r] = licenseCache[w][r]
    <3>1. LicenseIsKnown(r, cache[r])
      BY <2>1 DEF LookupInv, LicensesKnown
    <3> QED
      BY <3>1, LicenseStays
  <2>2. CASE LicenseIsKnown(repo, license)' /\ r = repo /\ cache[r] = license
    BY <2>2 DEF LicenseIsKnown
  <2> QED
    BY <1>2, <2>1, <2>2, EntryOfPut
<1>3. ASSUME NEW v \in Workers, NEW r \in DOMAIN licenseCache'[v] PROVE LicenseIsKnown(r, licenseCache[v][r])'
  <2>1. CASE v = w
    BY <1>1, <1>2, <1>3, <2>1 DEF LicenseIsKnown
  <2>2. CASE v # w
    <3>1. licenseCache'[v] = licenseCache[v]
      BY <1>1, <2>2
    <3>2. LicenseIsKnown(r, licenseCache[v][r])
      BY <1>3, <3>1 DEF LookupInv, LicensesKnown
    <3> QED
      BY <3>1, <3>2 DEF LicenseIsKnown
  <2> QED
    BY <2>1, <2>2
<1>4. \A r \in DOMAIN github_license_cache : LicenseIsKnown(r, github_license_cache[r])'
  BY DEF LookupInv, LicensesKnown, LicenseIsKnown
<1> QED
  BY <1>1, <1>3, <1>4 DEF LicensesKnown

\* When all repositories were asked in vain, no licence was overheard.
LEMMA AllInVainIsSound ==
  ASSUME NEW purl \in AllPurls, Asks("nuget", purl), NEW key, key = Extract("nuget", purl),
         key \in DOMAIN Upstream["nuget"], StatedLicense(Upstream["nuget"][key]) = NoLicense,
         \A n \in DOMAIN Upstream["nuget"][key].repos : AskedInVain(key, n)'
  PROVE  SoundAnswer("nuget", purl, NoLicense)'
<1> DEFINE entry == Upstream["nuget"][key]
<1>1. /\ Licenses[purl]["nuget"] = {v.license : v \in TrueValues("nuget", key)} \ {NoLicense}
      /\ Resolver("nuget", purl) = key
  BY LicensesOfRegistry DEF RegistryNames
<1>2. ASSUME Licenses[purl]["nuget"] # {} PROVE NotHeard("nuget", purl)'
  <2>1. PICK v \in TrueValues("nuget", key) : v.license # NoLicense
    BY <1>1, <1>2
  <2>2. TrueValues("nuget", key) =
          IF entry.bare THEN {Negative("no-license-upstream")}
          ELSE {Found(l) : l \in (UNION {RepositoryLicenses(entry.repos[n]) : n \in DOMAIN entry.repos}) \ {NoLicense}}
    BY DEF TrueValues
  <2>3. PICK n \in DOMAIN entry.repos : \E l \in RepositoryLicenses(entry.repos[n]) : l # NoLicense
    BY <2>1, <2>2, NegativeIsDefinite DEF Reasons
  <2>4. FileLicense(entry.repos[n]) # NoLicense
    BY <2>3, NoLicenseAtAll
  <2>5. <<"github", entry.repos[n]>> \in unanswered' \/ <<"nuget", key>> \in unanswered'
    BY <2>4 DEF AskedInVain
  <2>6. entry.repos[n] \in ToSet(entry.repos)
    BY DEF ToSet
  <2> QED
    BY <1>1, <2>5, <2>6 DEF NotHeard
<1> QED
  BY <1>2 DEF SoundAnswer

LEMMA AskNuGetRepositoryKeepsInv ==
  ASSUME LookupInv, NEW w \in Workers, AskNuGetRepository(w)
  PROVE  LookupInv'
<1> DEFINE g == "nuget"
<1>1. PICK purl : purl = Purl(w)
  OBVIOUS
<1>2. PICK key : key = Extract(g, purl)
  OBVIOUS
<1>3. PICK n : n = work[w].repo
  OBVIOUS
<1>4. PICK entry : entry = Upstream[g][key]
  OBVIOUS
<1>5. PICK repo : repo = entry.repos[n]
  OBVIOUS
<1>6. PICK o \in ResolveLicense(Inquiry(w), repo) :
        /\ Learn(w, o)
        /\ Misses({<<"github", r>> : r \in o.failed} \cup {<<"nuget", key>> : r \in o.limited \cup o.refused})
        /\ CASE o.license # NoLicense -> Resolved(w, g, key, Found(o.license), FALSE)
             [] o.license = NoLicense /\ n < Len(entry.repos) ->
                  work' = [work EXCEPT ![w].repo = @ + 1] /\ UNCHANGED resolverCache
             [] OTHER -> Resolved(w, g, key, NoAnswer, FALSE)
  BY <1>1, <1>2, <1>3, <1>4, <1>5 DEF AskNuGetRepository
<1>7. /\ g \in RegistryNames /\ g \in Resolvers /\ work[w].stage = g /\ n > 0 /\ n \in Nat
      /\ purl \in AllPurls /\ Asks(g, purl)
  BY <1>1, <1>3, AtWork DEF RegistryNames, Resolvers, AskNuGetRepository
<1>8. unanswered \subseteq unanswered' /\ UNCHANGED <<metadataCache, tables>>
  BY <1>6 DEF AskNuGetRepository, Misses
<1>9. /\ key \in DOMAIN Upstream[g] /\ StatedLicense(entry) = NoLicense
      /\ n \in DOMAIN entry.repos /\ \A m \in 1..(n - 1) : AskedInVain(key, m)
  <2>1. PICK job : job = work[w]
    OBVIOUS
  <2>2. AtRepository(job, key)
    BY <1>1, <1>2, <1>3, <1>7, <2>1, AtWork DEF JobIsSound, AtQuestion
  <2> QED
    BY <1>3, <1>4, <2>1, <2>2 DEF AtRepository
<1>10. /\ o.license # NoLicense => o.license \in RepositoryLicenses(repo)
       /\ o.license = NoLicense => AskedInVain(key, n)'
       /\ \/ o.cache = licenseCache[w]
          \/ o.cache = Put(licenseCache[w], repo, o.license) /\ LicenseIsKnown(repo, o.license)'
  <2>1. \A r \in o.failed : <<"github", r>> \in unanswered'
    BY <1>6 DEF Misses
  <2>2. o.limited \cup o.refused # {} => <<"nuget", key>> \in unanswered'
    BY <1>6 DEF Misses
  <2> QED
    BY <1>4, <1>5, <1>6, <1>8, <2>1, <2>2, RepositoryAnswers
<1>11. LicensesKnown' /\ DOMAIN licenseCache' = Workers
  <2>1. PICK cache : cache = o.cache
    OBVIOUS
  <2>2. PICK license : license = o.license
    OBVIOUS
  <2>3. licenseCache' = [licenseCache EXCEPT ![w] = cache]
    BY <1>6, <2>1 DEF Learn
  <2>4. \/ cache = licenseCache[w]
        \/ cache = Put(licenseCache[w], repo, license) /\ LicenseIsKnown(repo, license)'
    BY <1>10, <2>1, <2>2
  <2> QED
    BY <1>8, <2>3, <2>4, OneLicenseLearnt DEF tables
<1>12. \A m \in 1..(n - 1) : AskedInVain(key, m)'
  BY <1>8, <1>9 DEF AskedInVain
<1>13. Len(entry.repos) \in Nat /\ DOMAIN entry.repos = 1..Len(entry.repos) /\ ~entry.bare
  <2>1. /\ Len(entry.repos) \in Nat /\ DOMAIN entry.repos = 1..Len(entry.repos)
        /\ entry.repos = <<>> <=> Len(entry.repos) = 0
    BY <1>4, <1>9, InputsAreSequences
  <2>2. entry.bare => entry.repos = <<>>
    BY <1>4, <1>9, LookupAssumption
  <2> QED
    BY <1>9, <2>1, <2>2
<1>14. CASE o.license # NoLicense
  <2>1. PICK value : value = Found(o.license)
    OBVIOUS
  <2>2. value \in TrueValues(g, key)
    BY <1>4, <1>5, <1>9, <1>10, <1>13, <1>14, <2>1 DEF TrueValues
  <2>3. Resolved(w, g, key, value, FALSE)
    BY <1>6, <1>14, <2>1
  <2>4. SoundAnswer(g, purl, value.license)'
    <3>1. value \in TrueValues(g, Extract(g, purl))
      BY <1>2, <2>2
    <3> QED
      BY <1>7, <3>1, TrueValueIsSound
  <2> QED
    BY <1>1, <1>2, <1>7, <1>8, <1>11, <2>2, <2>3, <2>4, ResolvedKeepsInv
<1>15. CASE o.license = NoLicense /\ n < Len(entry.repos)
  <2>1. UNCHANGED resolverCache /\ work' = [work EXCEPT ![w].repo = n + 1]
    BY <1>3, <1>6, <1>15
  <2>2. n + 1 \in DOMAIN entry.repos /\ \A m \in 1..((n + 1) - 1) : AskedInVain(key, m)'
    BY <1>7, <1>10, <1>12, <1>13, <1>15
  <2>3. JobsSound' /\ DOMAIN work' = Workers /\ \A v \in Workers : DOMAIN work'[v] = Fields
    <3>1. PICK next : next = n + 1
      OBVIOUS
    <3>2. next \in DOMAIN Upstream["nuget"][key].repos /\ \A m \in 1..(next - 1) : AskedInVain(key, m)'
      BY <1>4, <2>2, <3>1
    <3>3. work' = [work EXCEPT ![w].repo = next]
      BY <2>1, <3>1
    <3>4. StatedLicense(Upstream["nuget"][key]) = NoLicense /\ key \in DOMAIN Upstream["nuget"]
      BY <1>4, <1>9
    <3> QED
      BY <1>1, <1>2, <1>7, <1>8, <3>2, <3>3, <3>4, RepositoryIsNext DEF tables
  <2>4. MetadataKnown' /\ RegistriesKnown'
    BY <1>8, <2>1, MetadataStays, RegistriesStay DEF LookupInv, tables
  <2>5. Shape'
    BY <1>8, <1>11, <2>1, <2>3 DEF LookupInv, Shape, tables
  <2> QED
    BY <1>11, <2>3, <2>4, <2>5 DEF LookupInv
<1>16. CASE o.license = NoLicense /\ ~(n < Len(entry.repos))
  <2>1. Resolved(w, g, key, NoAnswer, FALSE)
    BY <1>6, <1>16
  <2>2. \A m \in DOMAIN entry.repos : AskedInVain(key, m)'
    BY <1>7, <1>9, <1>10, <1>12, <1>13, <1>16
  <2>3. SoundAnswer(g, purl, NoLicense)'
    BY <1>2, <1>4, <1>7, <1>9, <2>2, AllInVainIsSound
  <2>4. SoundAnswer(g, purl, NoAnswer.license)'
    BY <2>3 DEF NoAnswer
  <2> QED
    BY <1>1, <1>2, <1>7, <1>8, <1>11, <2>1, <2>4, ResolvedKeepsInv
<1> QED
  BY <1>14, <1>15, <1>16

-----------------------------------------------------------------------------
(* GitHub.                                                                 *)

\* Without a licence of its own a repository has none from its licence file, and
\* no override either.
LEMMA NoGitHubLicenseAtAll ==
  ASSUME NEW repo, GitHubLicense(repo) = NoLicense
  PROVE  /\ \A l \in GitHubLicenses(repo) : l = NoLicense
         /\ repo \in DOMAIN Repository => FileLicense(repo) = NoLicense
<1>1. CASE repo \notin DOMAIN Repository
  BY <1>1 DEF GitHubLicenses
<1>2. CASE repo \in DOMAIN Repository
  <2>1. Repository[repo].license \in NoInfo /\ FileLicense(repo) = NoLicense
    BY <1>2, JoinIsALicense DEF GitHubLicense
  <2>2. OverrideLicense(repo) = NoLicense
    BY <2>1, JoinIsALicense DEF FileLicense, OverrideLicense
  <2> QED
    BY <2>1, <2>2 DEF GitHubLicenses
<1> QED
  BY <1>1, <1>2

LEMMA KnownIsSound ==
  ASSUME NEW purl \in AllPurls, Asks("github", purl), NEW repo, repo = ExtractGitHubRepo(purl),
         NEW license, AskedOrForgotten(repo, license)'
  PROVE  SoundAnswer("github", purl, license)'
<1>1. Licenses[purl]["github"] = GitHubLicenses(repo) \ {NoLicense} /\ Resolver("github", purl) = repo
  BY LicensesOfGitHub
<1>2. CASE license # NoLicense
  BY <1>1, <1>2 DEF AskedOrForgotten, SoundAnswer
<1>3. CASE license = NoLicense
  <2>1. \/ GitHubLicense(repo) = NoLicense
        \/ <<"github", repo>> \in unanswered' \/ <<"forgotten", repo>> \in unanswered'
    BY <1>3 DEF AskedOrForgotten
  <2>2. GitHubLicense(repo) = NoLicense => Licenses[purl]["github"] = {}
    BY <1>1, NoGitHubLicenseAtAll
  <2>3. <<"github", repo>> \in unanswered' \/ <<"forgotten", repo>> \in unanswered' => NotHeard("github", purl)'
    BY <1>1 DEF NotHeard
  <2> QED
    BY <1>3, <2>1, <2>2, <2>3 DEF SoundAnswer
<1> QED
  BY <1>2, <1>3

\* What the metadata say of a repository.
LEMMA MetadataSays ==
  ASSUME NEW repo, NEW o, MetadataAnswer(repo, o), \A r \in o.failed : <<"github", r>> \in unanswered'
  PROVE  LET license == IF o.found THEN o.license ELSE NoLicense
             archived == IF o.found THEN Repository[repo].archived ELSE FALSE
         IN /\ AskedOrForgotten(repo, license)' /\ FlagIsKnown(repo, archived)'
            /\ o.found => LicenseIsKnown(repo, license)'
<1>1. CASE ~o.found /\ repo \notin DOMAIN Repository
  BY <1>1 DEF AskedOrForgotten, FlagIsKnown, GitHubLicense
<1>2. CASE ~o.found /\ repo \in o.failed
  BY <1>2 DEF AskedOrForgotten, FlagIsKnown
<1>3. CASE o.found /\ repo \in DOMAIN Repository /\ o.license = GitHubLicense(repo)
  BY <1>3, NoGitHubLicenseAtAll
  DEF AskedOrForgotten, FlagIsKnown, LicenseIsKnown, GitHubLicenses, RepositoryLicenses
<1>4. CASE o.found /\ repo \in DOMAIN Repository /\ Repository[repo].license \in NoInfo /\ FileAnswer(repo, o)
  <2>1. GitHubLicense(repo) = FileLicense(repo) /\ OverrideLicense(repo) \in GitHubLicenses(repo)
    BY <1>4 DEF GitHubLicense, GitHubLicenses
  <2>2. o.license = FileLicense(repo) \/ (<<"github", repo>> \in unanswered' /\ o.license = OverrideLicense(repo))
    BY <1>4 DEF FileAnswer
  <2> QED
    BY <1>4, <2>1, <2>2
    DEF AskedOrForgotten, FlagIsKnown, LicenseIsKnown, GitHubLicenses, RepositoryLicenses
<1> QED
  BY <1>1, <1>2, <1>3, <1>4 DEF MetadataAnswer

\* One worker's cache of metadata gains an entry.
LEMMA OneFlagLearnt ==
  ASSUME LookupInv, unanswered \subseteq unanswered', UNCHANGED github_repo_metadata,
         NEW w \in Workers, NEW repo, NEW meta,
         metadataCache' = [metadataCache EXCEPT ![w] = Put(@, repo, meta)],
         FlagIsKnown(repo, meta.archived)', AskedOrForgotten(repo, meta.license)'
  PROVE  MetadataKnown' /\ DOMAIN metadataCache' = Workers
<1>1. /\ DOMAIN metadataCache' = Workers
      /\ metadataCache'[w] = Put(metadataCache[w], repo, meta)
      /\ \A v \in Workers : v # w => metadataCache'[v] = metadataCache[v]
  BY DEF LookupInv, Shape
<1>2. ASSUME NEW v \in Workers, NEW r \in DOMAIN metadataCache'[v]
      PROVE  FlagIsKnown(r, metadataCache[v][r].archived)' /\ AskedOrForgotten(r, metadataCache[v][r].license)'
  <2>1. CASE r \in DOMAIN metadataCache[v] /\ metadataCache'[v][r] = metadataCache[v][r]
    <3>1. FlagIsKnown(r, metadataCache[v][r].archived) /\ AskedOrForgotten(r, metadataCache[v][r].license)
      BY <2>1 DEF LookupInv, MetadataKnown
    <3> QED
      BY <2>1, <3>1 DEF FlagIsKnown, AskedOrForgotten
  <2>2. CASE r = repo /\ metadataCache'[v][r] = meta
    BY <2>2 DEF FlagIsKnown, AskedOrForgotten
  <2>3. CASE v = w
    BY <1>1, <1>2, <2>1, <2>2, <2>3, EntryOfPut
  <2>4. CASE v # w
    BY <1>1, <1>2, <2>1, <2>4
  <2> QED
    BY <2>3, <2>4
<1>3. ASSUME NEW r \in DOMAIN github_repo_metadata PROVE FlagIsKnown(r, github_repo_metadata[r].archived)'
  <2>1. FlagIsKnown(r, github_repo_metadata[r].archived)
    BY DEF LookupInv, MetadataKnown
  <2> QED
    BY <2>1 DEF FlagIsKnown
<1> QED
  BY <1>1, <1>2, <1>3 DEF MetadataKnown

LEMMA AskGitHubKeepsInv ==
  ASSUME LookupInv, NEW w \in Workers, AskGitHub(w)
  PROVE  LookupInv'
<1>1. PICK purl : purl = Purl(w)
  OBVIOUS
<1>2. PICK repo : repo = ExtractGitHubRepo(purl)
  OBVIOUS
<1>3. PICK source : source = [NoSource EXCEPT !.origin = "github"]
  OBVIOUS
<1>4. DOMAIN source = SourceFields /\ source.origin = "github"
  BY <1>3 DEF NoSource, SourceFields
<1>5. /\ work[w].stage = "github" /\ "github" \in Resolvers
      /\ purl \in AllPurls /\ Asks("github", purl)
  BY <1>1, AtWork DEF AskGitHub, Resolvers
<1>6. UNCHANGED <<resolverCache, tables>>
  BY DEF AskGitHub
<1>7. RegistriesKnown'
  BY <1>6, RegistriesStay DEF LookupInv, tables
<1>8. CASE /\ repo \in DOMAIN metadataCache[w]
           /\ work' = [work EXCEPT ![w] = Record(@, metadataCache[w][repo].license, source)]
           /\ UNCHANGED <<licenseCache, metadataCache, unanswered>>
  <2>1. PICK license : license = metadataCache[w][repo].license
    OBVIOUS
  <2>2. AskedOrForgotten(repo, license)'
    <3>1. AskedOrForgotten(repo, license)
      BY <1>8, <2>1 DEF LookupInv, MetadataKnown
    <3> QED
      BY <1>8, <3>1, AskedStays
  <2>3. SoundAnswer("github", purl, license)'
    BY <1>2, <1>5, <2>2, KnownIsSound
  <2>4. work' = [work EXCEPT ![w] = Record(@, license, source)]
    BY <1>8, <2>1
  <2>5. JobsSound' /\ DOMAIN work' = Workers /\ \A v \in Workers : DOMAIN work'[v] = Fields
    BY <1>1, <1>4, <1>5, <1>6, <1>8, <2>3, <2>4, AnswerIsRecorded DEF tables
  <2>6. LicensesKnown' /\ MetadataKnown'
    BY <1>6, <1>8, LicensesStay, MetadataStays DEF LookupInv, tables
  <2>7. Shape'
    BY <1>6, <1>8, <2>5 DEF LookupInv, Shape, tables
  <2> QED
    BY <1>7, <2>5, <2>6, <2>7 DEF LookupInv
<1>9. CASE work' = [work EXCEPT ![w] = Idle] /\ UNCHANGED <<licenseCache, metadataCache, unanswered>>
  <2>1. JobsSound' /\ DOMAIN work' = Workers /\ \A v \in Workers : DOMAIN work'[v] = Fields
    BY <1>6, <1>9, WorkerRests DEF tables
  <2>2. LicensesKnown' /\ MetadataKnown'
    BY <1>6, <1>9, LicensesStay, MetadataStays DEF LookupInv, tables
  <2>3. Shape'
    BY <1>6, <1>9, <2>1 DEF LookupInv, Shape, tables
  <2> QED
    BY <1>7, <2>1, <2>2, <2>3 DEF LookupInv
<1>10. ASSUME NEW o \in FetchMetadata(Inquiry(w), repo), o.limited # {}, Learn(w, o),
              Misses({<<"github", r>> : r \in o.failed}), work' = [work EXCEPT ![w] = Idle], UNCHANGED metadataCache
       PROVE  LookupInv'
  <2>1. unanswered \subseteq unanswered'
    BY <1>10 DEF Misses
  <2>2. LicensesKnown' /\ DOMAIN licenseCache' = Workers
    <3>1. PICK cache : cache = o.cache
      OBVIOUS
    <3>2. cache = licenseCache[w] /\ licenseCache' = [licenseCache EXCEPT ![w] = cache]
      BY <1>10, <3>1, MetadataFetched DEF Learn
    <3> QED
      BY <1>6, <2>1, <3>2, OneLicenseLearnt DEF tables
  <2>3. JobsSound' /\ DOMAIN work' = Workers /\ \A v \in Workers : DOMAIN work'[v] = Fields
    BY <1>6, <1>10, <2>1, WorkerRests DEF tables
  <2>4. MetadataKnown'
    BY <1>6, <1>10, <2>1, MetadataStays DEF LookupInv, tables
  <2>5. Shape'
    BY <1>6, <1>10, <2>2, <2>3 DEF LookupInv, Shape, tables
  <2> QED
    BY <1>7, <2>2, <2>3, <2>4, <2>5 DEF LookupInv
<1>11. ASSUME NEW o \in FetchMetadata(Inquiry(w), repo), o.limited = {},
              Learn(w, IF o.found THEN [o EXCEPT !.cache = Put(@, repo, o.license)] ELSE o),
              Misses({<<"github", r>> : r \in o.failed}),
              NEW meta, meta = IF o.found THEN [license |-> o.license, archived |-> Repository[repo].archived]
                               ELSE [license |-> NoLicense, archived |-> FALSE],
              metadataCache' = [metadataCache EXCEPT ![w] = Put(@, repo, meta)],
              work' = [work EXCEPT ![w] = Record(@, meta.license, source)]
       PROVE  LookupInv'
  <2>1. unanswered \subseteq unanswered' /\ \A r \in o.failed : <<"github", r>> \in unanswered'
    BY <1>11 DEF Misses
  <2>2. DOMAIN o = InquiryFields /\ o.cache = licenseCache[w] /\ MetadataAnswer(repo, o)
    BY <1>11, MetadataFetched
  <2>3. PICK license : license = IF o.found THEN o.license ELSE NoLicense
    OBVIOUS
  <2>4. meta.license = license /\ meta.archived = IF o.found THEN Repository[repo].archived ELSE FALSE
    BY <1>11, <2>3
  <2>5. /\ AskedOrForgotten(repo, meta.license)' /\ FlagIsKnown(repo, meta.archived)'
        /\ o.found => LicenseIsKnown(repo, o.license)'
    <3>1. /\ AskedOrForgotten(repo, IF o.found THEN o.license ELSE NoLicense)'
          /\ FlagIsKnown(repo, IF o.found THEN Repository[repo].archived ELSE FALSE)'
          /\ o.found => LicenseIsKnown(repo, IF o.found THEN o.license ELSE NoLicense)'
      BY <2>1, <2>2, MetadataSays
    <3> QED
      BY <2>3, <2>4, <3>1
  <2>6. SoundAnswer("github", purl, meta.license)'
    BY <1>2, <1>5, <2>5, KnownIsSound
  <2>7. SoundAnswer("github", purl, license)' /\ work' = [work EXCEPT ![w] = Record(@, license, source)]
    BY <1>11, <2>4, <2>6
  <2>8. JobsSound' /\ DOMAIN work' = Workers /\ \A v \in Workers : DOMAIN work'[v] = Fields
    BY <1>1, <1>4, <1>5, <1>6, <2>1, <2>7, AnswerIsRecorded DEF tables
  <2>9. LicensesKnown' /\ DOMAIN licenseCache' = Workers
    <3>1. PICK cache : cache = IF o.found THEN Put(licenseCache[w], repo, o.license) ELSE licenseCache[w]
      OBVIOUS
    <3>2. licenseCache' = [licenseCache EXCEPT ![w] = cache]
      <4>1. CASE o.found
        BY <1>11, <2>2, <3>1, <4>1 DEF Learn, InquiryFields
      <4>2. CASE ~o.found
        BY <1>11, <2>2, <3>1, <4>2 DEF Learn
      <4> QED
        BY <4>1, <4>2
    <3>3. PICK found : found = o.license
      OBVIOUS
    <3>4. \/ cache = licenseCache[w]
          \/ cache = Put(licenseCache[w], repo, found) /\ LicenseIsKnown(repo, found)'
      BY <2>5, <3>1, <3>3
    <3> QED
      BY <1>6, <2>1, <3>2, <3>4, OneLicenseLearnt DEF tables
  <2>10. MetadataKnown' /\ DOMAIN metadataCache' = Workers
    BY <1>6, <1>11, <2>1, <2>5, OneFlagLearnt DEF tables
  <2>11. Shape'
    BY <1>6, <2>8, <2>9, <2>10 DEF LookupInv, Shape, tables
  <2> QED
    BY <1>7, <2>8, <2>9, <2>10, <2>11 DEF LookupInv
<1>12. \/ /\ repo \in DOMAIN metadataCache[w]
          /\ work' = [work EXCEPT ![w] = Record(@, metadataCache[w][repo].license, source)]
          /\ UNCHANGED <<licenseCache, metadataCache, unanswered>>
       \/ work' = [work EXCEPT ![w] = Idle] /\ UNCHANGED <<licenseCache, metadataCache, unanswered>>
       \/ \E o \in FetchMetadata(Inquiry(w), repo) : LET
            meta == IF o.found THEN [license |-> o.license, archived |-> Repository[repo].archived]
                    ELSE [license |-> NoLicense, archived |-> FALSE] IN
            /\ Misses({<<"github", r>> : r \in o.failed})
            /\ IF o.limited # {}
               THEN Learn(w, o) /\ work' = [work EXCEPT ![w] = Idle] /\ UNCHANGED metadataCache
               ELSE /\ Learn(w, IF o.found THEN [o EXCEPT !.cache = Put(@, repo, o.license)] ELSE o)
                    /\ metadataCache' = [metadataCache EXCEPT ![w] = Put(@, repo, meta)]
                    /\ work' = [work EXCEPT ![w] = Record(@, meta.license, source)]
  BY <1>1, <1>2, <1>3 DEF AskGitHub, OnRateLimit, HandBack
<1> QED
  BY <1>8, <1>9, <1>10, <1>11, <1>12

-----------------------------------------------------------------------------
(* deps.dev: one batch for all packages that are still without a licence.  *)

LEMMA KeysOfDepsDev ==
  ASSUME NEW k \in Keys("depsdev")
  PROVE  DOMAIN k = {"name", "version"} /\ DefaultKey(k).version = Default[k.name]
<1>1. ASSUME NEW p, Extract("depsdev", p) # None PROVE DOMAIN Extract("depsdev", p) = {"name", "version"}
  <2>1. Extract("depsdev", p) = Key(p, DepsDevVersion(p.version))
    BY <1>1 DEF Extract
  <2> QED
    BY <2>1 DEF Key
<1>2. \/ \E p \in AllPurls : k = Extract("depsdev", p) /\ k # None
      \/ \E p \in AllPurls : Extract("depsdev", p) # None /\ k = DefaultKey(Extract("depsdev", p))
  BY DEF Keys
<1>3. DOMAIN k = {"name", "version"}
  BY <1>1, <1>2 DEF DefaultKey
<1> QED
  BY <1>3 DEF DefaultKey

LEMMA ConcreteIsTrue ==
  ASSUME NEW cache, CacheIsTrue("depsdev", cache), NEW missing, NEW k, k.version # None \/ k \in DOMAIN cache
  PROVE  \/ k \notin DOMAIN cache /\ k \in missing /\ Concrete(cache, missing, k) = NoAnswer
         \/ Concrete(cache, missing, k) \in TrueValues("depsdev", k)
<1>1. CASE k \in DOMAIN cache
  BY <1>1 DEF Concrete, CacheIsTrue
<1>2. CASE k \notin DOMAIN cache /\ k \in missing
  BY <1>2 DEF Concrete, FailedAnswer
<1>3. CASE k \notin DOMAIN cache /\ k \notin missing
  BY <1>3 DEF Concrete, TrueValues
<1> QED
  BY <1>1, <1>2, <1>3

LEMMA BatchIsTrue ==
  ASSUME NEW cache, CacheIsTrue("depsdev", cache), NEW noDefault, NEW missing, NEW k \in Keys("depsdev")
  PROVE  LET value == BatchValue(cache, noDefault, missing, k) IN
         \/ value \in TrueValues("depsdev", k)
         \/ /\ value = NoAnswer
            /\ \/ k \in missing \/ k \in noDefault \/ TrueValues("depsdev", k) = {}
               \/ /\ k \notin DOMAIN cache /\ k.version = None /\ k \notin noDefault
                  /\ HasDefault(k) /\ DefaultKey(k) \in missing
<1> DEFINE value == BatchValue(cache, noDefault, missing, k)
<1>1. CASE k \in DOMAIN cache \/ k.version # None
  BY <1>1, ConcreteIsTrue DEF BatchValue
<1>2. CASE k \notin DOMAIN cache /\ k.version = None /\ k \in noDefault
  BY <1>2 DEF BatchValue, FailedAnswer
<1>3. CASE k \notin DOMAIN cache /\ k.version = None /\ k \notin noDefault /\ HasDefault(k)
  <2>1. value = Concrete(cache, missing, DefaultKey(k))
    BY <1>3 DEF BatchValue
  <2>2. DefaultKey(k).version = Default[k.name] /\ Default[k.name] # None
    BY <1>3, KeysOfDepsDev DEF HasDefault
  <2>3. \/ DefaultKey(k) \in missing /\ value = NoAnswer
        \/ value \in TrueValues("depsdev", DefaultKey(k))
    BY <2>1, <2>2, ConcreteIsTrue
  <2>4. TrueValues("depsdev", DefaultKey(k)) = {Answer("depsdev", DefaultKey(k))}
    BY <2>2 DEF TrueValues
  <2>5. TrueValues("depsdev", k) = {Answer("depsdev", DefaultKey(k))}
    BY <1>3 DEF TrueValues
  <2> QED
    BY <1>3, <2>3, <2>4, <2>5
<1>4. CASE k \notin DOMAIN cache /\ k.version = None /\ k \notin noDefault /\ ~HasDefault(k)
  <2>1. value = IF k.name \notin DOMAIN Default THEN Negative("not-published") ELSE NoAnswer
    BY <1>4 DEF BatchValue
  <2>2. TrueValues("depsdev", k) = IF k.name \in DOMAIN Default THEN {} ELSE {Negative("not-published")}
    BY <1>4 DEF TrueValues
  <2> QED
    BY <2>1, <2>2
<1> QED
  BY <1>1, <1>2, <1>3, <1>4

\* The answers of a batch are sound ones, package by package.
BatchAnswers(doc, new) == \A i \in DOMAIN new : SoundAnswer("depsdev", Documents[doc][i].purl, new[i])

\* What a job has after the batch: next is the job with the answers.
BatchMade(job, new, next) ==
  /\ DOMAIN new \subseteq DOMAIN Documents[job.doc]
  /\ \A i \in DOMAIN Documents[job.doc] :
       i \in DOMAIN new <=> [stage |-> "depsdev", at |-> i] \in Questions[job.doc] /\ job.licenses[i] = NoLicense
  /\ DOMAIN next = Fields /\ next.stage = job.stage /\ next.doc = job.doc /\ next.repo = job.repo
  /\ next.at = Len(Documents[job.doc]) + 1 /\ next.licenses = PutAll(job.licenses, new)
  /\ DOMAIN next.sources = DOMAIN job.sources
  /\ \A i \in DOMAIN next.sources :
       IF i \in DOMAIN new /\ new[i] # NoLicense
       THEN DOMAIN next.sources[i] = SourceFields /\ next.sources[i].origin = "depsdev"
       ELSE next.sources[i] = job.sources[i]

LEMMA BatchIsSound ==
  ASSUME NEW job, DOMAIN job = Fields, job.stage = "depsdev", JobIsSound(job), unanswered \subseteq unanswered',
         NEW new, BatchAnswers(job.doc, new)', NEW next, BatchMade(job, new, next)
  PROVE  JobIsSound(Onward(next))' /\ DOMAIN Onward(next) = Fields
<1>1. PICK todo : todo = DOMAIN new
  OBVIOUS
<1>2. /\ todo \in SUBSET DOMAIN Documents[job.doc]
      /\ \A i \in DOMAIN Documents[job.doc] :
           i \in todo <=> [stage |-> "depsdev", at |-> i] \in Questions[job.doc] /\ job.licenses[i] = NoLicense
  BY <1>1 DEF BatchMade
<1>3. /\ DOMAIN next = Fields /\ next.stage = job.stage /\ next.doc = job.doc /\ next.repo = job.repo
      /\ next.at = Len(Documents[job.doc]) + 1 /\ next.licenses = PutAll(job.licenses, new)
      /\ DOMAIN next.sources = DOMAIN job.sources
  BY DEF BatchMade
<1>4. \A i \in DOMAIN next.sources :
        IF i \in todo /\ new[i] # NoLicense
        THEN DOMAIN next.sources[i] = SourceFields /\ next.sources[i].origin = "depsdev"
        ELSE next.sources[i] = job.sources[i]
  BY <1>1 DEF BatchMade
<1> USE <1>1, <1>2, <1>3, <1>4
<1> DEFINE purl(i) == Documents[job.doc][i].purl
           none(i) == Documents[job.doc][i].license = NoLicense
<1>5. job.stage \in Resolvers
  BY DEF Resolvers, RegistryNames
<1>6. RowsFit(job) /\ Told(job) /\ Heard(job)'
  BY <1>5, JobStays DEF JobIsSound
<1>7. job.doc \in DOMAIN Documents
  BY <1>6 DEF RowsFit
<1>8. \A i \in DOMAIN Documents[job.doc] : i \in Nat /\ i < Len(Documents[job.doc]) + 1
  BY <1>7, InputsAreSequences
<1>9. PICK sources : sources = next.sources
  OBVIOUS
<1>10. sources = next.sources
  BY <1>9
<1>11. \A i \in DOMAIN Documents[job.doc] :
        next.licenses[i] = IF i \in todo THEN new[i] ELSE job.licenses[i]
  BY <1>6 DEF RowsFit, PutAll
<1>12. RowsFit(next)
  <2>1. DOMAIN next.licenses = DOMAIN Documents[job.doc]
    BY <1>6 DEF RowsFit, PutAll
  <2>2. \A i \in DOMAIN Documents[job.doc] : DOMAIN sources[i] = SourceFields
    BY <1>6, <1>10 DEF RowsFit
  <2>3. Len(Documents[job.doc]) + 1 \in Nat /\ next.repo = job.repo
    BY <1>7, InputsAreSequences
  <2> QED
    BY <1>6, <1>10, <2>1, <2>2, <2>3 DEF RowsFit
<1>13. ASSUME NEW i \in DOMAIN Documents[job.doc], i \in todo, new[i] # NoLicense
      PROVE  /\ none(i) /\ next.licenses[i] = new[i] /\ sources[i].origin = "depsdev"
             /\ new[i] \in Licenses[purl(i)]["depsdev"]
  <2>1. none(i)
    BY <1>6, <1>13 DEF Told
  <2>2. i \in DOMAIN sources
    BY <1>6, <1>10 DEF RowsFit
  <2> QED
    BY <1>10, <1>11, <1>13, <2>1, <2>2 DEF BatchAnswers, SoundAnswer
<1>14. ASSUME NEW i \in DOMAIN Documents[job.doc], ~(i \in todo /\ new[i] # NoLicense)
       PROVE  next.licenses[i] = job.licenses[i] /\ sources[i] = job.sources[i]
  BY <1>6, <1>10, <1>11, <1>14 DEF RowsFit
<1>15. Told(next)
  <2> SUFFICES ASSUME NEW i \in DOMAIN Documents[job.doc]
               PROVE  /\ Documents[job.doc][i].license # NoLicense =>
                           next.licenses[i] # NoLicense /\ sources[i].origin = "declared"
                      /\ none(i) /\ next.licenses[i] # NoLicense =>
                           /\ sources[i].origin \in Resolvers
                           /\ next.licenses[i] \in Licenses[purl(i)][sources[i].origin]
    BY <1>10 DEF Told
  <2>1. CASE i \in todo /\ new[i] # NoLicense
    BY <1>5, <1>13, <2>1
  <2>2. CASE ~(i \in todo /\ new[i] # NoLicense)
    BY <1>6, <1>14, <2>2 DEF Told
  <2> QED
    BY <2>1, <2>2
<1>16. Heard(next)'
  <2> SUFFICES ASSUME NEW i \in DOMAIN Documents[job.doc], NEW g \in Resolvers, none(i),
                      Licenses[purl(i)][g] # {}, Behind(next, g, i)
               PROVE  NotHeard(g, purl(i))'
    BY <1>10 DEF Heard, Behind
  <2>1. CASE Behind(job, g, i)
    BY <1>6, <2>1 DEF Heard, Behind
  <2>2. CASE ~Behind(job, g, i)
    <3>1. job.licenses[i] = NoLicense
      BY <1>10, <1>14, <2>2 DEF Behind
    <3>2. ~Precedes([stage |-> g, at |-> i], job)
      BY <2>2, <3>1 DEF Behind
    <3>3. next.licenses[i] = NoLicense
      <4> SUFFICES ASSUME next.licenses[i] # NoLicense PROVE FALSE
        OBVIOUS
      <4>1. i \in todo /\ new[i] # NoLicense
        BY <1>14, <3>1
      <4>2. Order[g] < Order["depsdev"]
        BY <1>10, <1>13, <4>1 DEF Behind
      <4> QED
        BY <3>2, <4>2 DEF Precedes
    <3>4. Precedes([stage |-> g, at |-> i], next)
      BY <1>5, <1>10, <3>3 DEF Behind
    <3>5. g = "depsdev"
      BY <1>10, <3>2, <3>4 DEF Precedes
    <3>6. Asks(g, purl(i))
      BY <1>7, PurlsOfDocuments, NothingUnlessAsked
    <3>7. [stage |-> g, at |-> i] \in Questions[job.doc]
      BY <1>7, <3>6 DEF Questions
    <3>8. i \in todo /\ new[i] = NoLicense
      BY <1>11, <3>1, <3>3, <3>5, <3>7
    <3>9. SoundAnswer("depsdev", purl(i), NoLicense)'
      BY <3>8 DEF BatchAnswers
    <3> QED
      BY <3>5, <3>9 DEF SoundAnswer
  <2> QED
    BY <2>1, <2>2
<1> QED
  BY <1>5, <1>10, <1>12, <1>15, <1>16, OnwardIsSound

LEMMA AskDepsDevKeepsInv ==
  ASSUME LookupInv, NEW w \in Workers, AskDepsDev(w)
  PROVE  LookupInv'
<1> DEFINE todo == {q.at : q \in {p \in Questions[work[w].doc] : p.stage = "depsdev" /\ work[w].licenses[p.at] = NoLicense}}
           cache == resolverCache[w]["depsdev"]
           key(i) == Extract("depsdev", Packages(w)[i].purl)
           pending == {key(i) : i \in todo} \ DOMAIN cache
           newest == {k \in pending : k.version = None}
           borrowed(noDefault) == {k \in newest \ noDefault : HasDefault(k)}
           items(noDefault) == (pending \ newest) \cup ({DefaultKey(k) : k \in borrowed(noDefault)} \ DOMAIN cache)
           source(i) == [NoSource EXCEPT !.origin = "depsdev", !.latest = key(i).version = None]
<1>0. ResolveBatch(w, todo)
  BY DEF AskDepsDev
<1>1. PICK noDefault \in SUBSET newest : \E missing \in SUBSET items(noDefault) :
        /\ Misses({<<"depsdev", k>> : k \in noDefault \cup missing}
                  \cup {<<"depsdev", k>> : k \in {n \in borrowed(noDefault) : DefaultKey(n) \in missing}})
        /\ resolverCache' = [resolverCache EXCEPT ![w]["depsdev"] =
             PutAll(cache, [k \in {q \in pending \cup items(noDefault) : BatchValue(cache, noDefault, missing, q) # NoAnswer}
                              |-> BatchValue(cache, noDefault, missing, k)])]
        /\ \E new \in {[i \in todo |-> BatchValue(cache, noDefault, missing, key(i)).license]} : LET
             next == [work[w] EXCEPT
               !.at = Len(Packages(w)) + 1,
               !.licenses = PutAll(@, new),
               !.sources = [i \in DOMAIN @ |-> IF i \in todo /\ new[i] # NoLicense THEN source(i) ELSE @[i]]]
             IN work' = [work EXCEPT ![w] = Onward(next)]
  BY <1>0 DEF ResolveBatch
<1>2. PICK missing \in SUBSET items(noDefault) :
        /\ Misses({<<"depsdev", k>> : k \in noDefault \cup missing}
                  \cup {<<"depsdev", k>> : k \in {n \in borrowed(noDefault) : DefaultKey(n) \in missing}})
        /\ resolverCache' = [resolverCache EXCEPT ![w]["depsdev"] =
             PutAll(cache, [k \in {q \in pending \cup items(noDefault) : BatchValue(cache, noDefault, missing, q) # NoAnswer}
                              |-> BatchValue(cache, noDefault, missing, k)])]
        /\ \E new \in {[i \in todo |-> BatchValue(cache, noDefault, missing, key(i)).license]} : LET
             next == [work[w] EXCEPT
               !.at = Len(Packages(w)) + 1,
               !.licenses = PutAll(@, new),
               !.sources = [i \in DOMAIN @ |-> IF i \in todo /\ new[i] # NoLicense THEN source(i) ELSE @[i]]]
             IN work' = [work EXCEPT ![w] = Onward(next)]
  BY <1>1
<1> DEFINE value(k) == BatchValue(cache, noDefault, missing, k)
           stored == [k \in {q \in pending \cup items(noDefault) : value(q) # NoAnswer} |-> value(k)]
<1>3. PICK new : /\ new = [i \in todo |-> value(key(i)).license]
                 /\ LET next == [work[w] EXCEPT
                           !.at = Len(Packages(w)) + 1,
                           !.licenses = PutAll(@, new),
                           !.sources = [i \in DOMAIN @ |-> IF i \in todo /\ new[i] # NoLicense THEN source(i) ELSE @[i]]]
                    IN work' = [work EXCEPT ![w] = Onward(next)]
  BY <1>2
<1>4. PICK job : job = work[w]
  OBVIOUS
<1>5. /\ job.stage = "depsdev" /\ "depsdev" \in RegistryNames /\ "depsdev" \in Resolvers
      /\ UNCHANGED <<licenseCache, metadataCache, tables>>
  BY <1>4 DEF AskDepsDev, RegistryNames, Resolvers
<1>6. /\ DOMAIN job = Fields /\ JobIsSound(job) /\ job.doc \in DOMAIN Documents
      /\ Packages(w) = Documents[job.doc]
  BY <1>4, <1>5, AtWork DEF Packages
<1>7. unanswered \subseteq unanswered'
  BY <1>2 DEF Misses
<1>8. CacheIsTrue("depsdev", cache)
  BY <1>5 DEF LookupInv, RegistriesKnown
<1>9. ASSUME NEW i \in todo
      PROVE  /\ i \in DOMAIN Documents[job.doc] /\ Documents[job.doc][i].purl \in AllPurls
             /\ Asks("depsdev", Documents[job.doc][i].purl)
             /\ key(i) = Extract("depsdev", Documents[job.doc][i].purl) /\ key(i) \in Keys("depsdev")
  <2>1. PICK q \in Questions[job.doc] : q.stage = "depsdev" /\ i = q.at
    BY <1>4
  <2>2. i \in DOMAIN Documents[job.doc] /\ Asks("depsdev", Documents[job.doc][i].purl)
    BY <1>6, <2>1, QuestionsFit
  <2> QED
    BY <1>5, <1>6, <2>2, PurlsOfDocuments, LicensesOfRegistry
<1>10. ASSUME NEW i \in todo PROVE SoundAnswer("depsdev", Documents[job.doc][i].purl, new[i])'
  <2>1. PICK k : k = key(i)
    OBVIOUS
  <2>2. PICK purl : purl = Documents[job.doc][i].purl
    OBVIOUS
  <2>3. PICK v : v = value(k)
    OBVIOUS
  <2>4. new[i] = v.license
    BY <1>3, <2>1, <2>3
  <2>5. purl \in AllPurls /\ Asks("depsdev", purl) /\ k = Extract("depsdev", purl) /\ k \in Keys("depsdev")
    BY <1>9, <2>1, <2>2
  <2>6. CASE v \in TrueValues("depsdev", k)
    <3>1. v \in TrueValues("depsdev", Extract("depsdev", purl))
      BY <2>5, <2>6
    <3>2. SoundAnswer("depsdev", purl, v.license)'
      BY <1>5, <2>5, <3>1, TrueValueIsSound
    <3> QED
      BY <2>2, <2>4, <3>2
  <2>7. CASE v = NoAnswer /\ TrueValues("depsdev", k) = {}
    <3>1. Licenses[purl]["depsdev"] = {}
      BY <1>5, <2>5, <2>7, LicensesOfRegistry
    <3>2. v.license = NoLicense
      BY <2>7 DEF NoAnswer
    <3>3. SoundAnswer("depsdev", purl, v.license)'
      BY <3>1, <3>2 DEF SoundAnswer
    <3> QED
      BY <2>2, <2>4, <3>3
  <2>8. CASE v = NoAnswer /\ <<"depsdev", k>> \in unanswered'
    <3>1. v.license = NoLicense
      BY <2>8 DEF NoAnswer
    <3>2. <<"depsdev", Extract("depsdev", purl)>> \in unanswered'
      BY <2>5, <2>8
    <3>3. SoundAnswer("depsdev", purl, NoLicense)'
      BY <1>5, <2>5, <3>2, FailureIsSound
    <3> QED
      BY <2>2, <2>4, <3>1, <3>3
  <2>9. \/ v \in TrueValues("depsdev", k)
        \/ /\ v = NoAnswer
           /\ \/ k \in missing \/ k \in noDefault \/ TrueValues("depsdev", k) = {}
              \/ /\ k \notin DOMAIN cache /\ k.version = None /\ k \notin noDefault
                 /\ HasDefault(k) /\ DefaultKey(k) \in missing
    <3> HIDE DEF cache
    <3> QED
      BY <1>8, <2>3, <2>5, BatchIsTrue
  <2>10. k \notin DOMAIN cache /\ k.version = None /\ k \notin noDefault /\ HasDefault(k)
         => k \in borrowed(noDefault)
    BY <2>1
  <2>11. k \in missing \/ k \in noDefault \/ (k \in borrowed(noDefault) /\ DefaultKey(k) \in missing)
         => <<"depsdev", k>> \in unanswered'
    <3> HIDE DEF borrowed, cache, pending, newest, todo, items
    <3> QED
      BY <1>2 DEF Misses
  <2> HIDE DEF borrowed
  <2> QED
    BY <2>6, <2>7, <2>8, <2>9, <2>10, <2>11
<1>11. \A k \in pending \cup items(noDefault) : k \in Keys("depsdev")
  <2>1. \A k \in pending : k \in Keys("depsdev")
    BY <1>9
  <2>2. ASSUME NEW k \in borrowed(noDefault) PROVE DefaultKey(k) \in Keys("depsdev")
    <3>1. PICK i \in todo : k = key(i)
      OBVIOUS
    <3>2. k \in {Extract("depsdev", p) : p \in AllPurls} \ {None} /\ HasDefault(k)
      BY <1>9, <3>1 DEF Asks, Resolver
    <3> QED
      BY <3>2 DEF Keys
  <2>3. items(noDefault) \subseteq pending \cup {DefaultKey(k) : k \in borrowed(noDefault)}
    OBVIOUS
  <2> HIDE DEF borrowed, pending, items
  <2> QED
    BY <2>1, <2>2, <2>3
<1>12. \A k \in DOMAIN stored : k \in Keys("depsdev") /\ stored[k] \in TrueValues("depsdev", k)
  <2> SUFFICES ASSUME NEW k \in pending \cup items(noDefault), value(k) # NoAnswer
               PROVE  k \in Keys("depsdev") /\ value(k) \in TrueValues("depsdev", k)
    OBVIOUS
  <2>1. k \in Keys("depsdev")
    BY <1>11
  <2> HIDE DEF cache
  <2> QED
    BY <1>8, <2>1, BatchIsTrue
<1>13. CacheIsTrue("depsdev", PutAll(cache, stored))
  <2> HIDE DEF stored, cache
  <2>1. \A k \in DOMAIN PutAll(cache, stored) :
          \/ k \in DOMAIN stored /\ PutAll(cache, stored)[k] = stored[k]
          \/ k \in DOMAIN cache /\ PutAll(cache, stored)[k] = cache[k]
    BY EntryOfPutAll
  <2> QED
    BY <1>8, <1>12, <2>1 DEF CacheIsTrue
<1>14. /\ RegistriesKnown' /\ DOMAIN resolverCache' = Workers
       /\ \A v \in Workers : DOMAIN resolverCache'[v] = RegistryNames
  <2>1. PICK known : known = PutAll(cache, stored)
    OBVIOUS
  <2>2. resolverCache' = [resolverCache EXCEPT ![w]["depsdev"] = known] /\ CacheIsTrue("depsdev", known)
    BY <1>2, <1>13, <2>1
  <2> QED
    BY <1>5, <2>2, OneCacheChanges DEF tables
<1>15. PICK next : next = [job EXCEPT
         !.at = Len(Documents[job.doc]) + 1, !.licenses = PutAll(@, new),
         !.sources = [i \in DOMAIN @ |-> IF i \in todo /\ new[i] # NoLicense THEN source(i) ELSE @[i]]]
  OBVIOUS
<1>16. PICK onward : onward = Onward(next)
  OBVIOUS
<1>17. work' = [work EXCEPT ![w] = onward]
  BY <1>3, <1>4, <1>6, <1>15, <1>16
<1>18. /\ DOMAIN next = Fields /\ next.stage = job.stage /\ next.doc = job.doc /\ next.repo = job.repo
       /\ next.at = Len(Documents[job.doc]) + 1 /\ next.licenses = PutAll(job.licenses, new)
       /\ next.sources = [i \in DOMAIN job.sources |->
                            IF i \in todo /\ new[i] # NoLicense THEN source(i) ELSE job.sources[i]]
  <2> HIDE DEF todo, source
  <2> QED
    BY <1>6, <1>15 DEF Fields
<1>19. JobIsSound(onward)' /\ DOMAIN onward = Fields
  <2>1. DOMAIN new \subseteq DOMAIN Documents[job.doc]
    BY <1>3, <1>9
  <2>2. \A i \in DOMAIN Documents[job.doc] :
          i \in DOMAIN new <=> [stage |-> "depsdev", at |-> i] \in Questions[job.doc] /\ job.licenses[i] = NoLicense
    <3> SUFFICES ASSUME NEW i \in DOMAIN Documents[job.doc]
                 PROVE  i \in todo <=> [stage |-> "depsdev", at |-> i] \in Questions[job.doc] /\ job.licenses[i] = NoLicense
      BY <1>3
    <3>1. ASSUME i \in todo
          PROVE  [stage |-> "depsdev", at |-> i] \in Questions[job.doc] /\ job.licenses[i] = NoLicense
      <4>1. PICK q \in Questions[job.doc] : q.stage = "depsdev" /\ job.licenses[q.at] = NoLicense /\ i = q.at
        BY <1>4, <3>1
      <4>2. q = [stage |-> q.stage, at |-> q.at]
        BY <1>6, QuestionsFit
      <4> QED
        BY <4>1, <4>2
    <3>2. ASSUME [stage |-> "depsdev", at |-> i] \in Questions[job.doc] /\ job.licenses[i] = NoLicense
          PROVE  i \in todo
      BY <1>4, <3>2
    <3> QED
      BY <3>1, <3>2
  <2>3. BatchAnswers(job.doc, new)'
    BY <1>3, <1>10 DEF BatchAnswers
  <2>4. \A i : DOMAIN source(i) = SourceFields /\ source(i).origin = "depsdev"
    BY DEF NoSource, SourceFields
  <2>5. DOMAIN new = todo
    BY <1>3
  <2>6. BatchMade(job, new, next)
    <3> HIDE DEF todo, source
    <3> QED
      BY <1>18, <2>1, <2>2, <2>4, <2>5 DEF BatchMade
  <2>7. JobIsSound(Onward(next))' /\ DOMAIN Onward(next) = Fields
    BY <1>5, <1>6, <1>7, <2>3, <2>6, BatchIsSound
  <2> QED
    BY <1>16, <2>7
<1>20. JobsSound' /\ DOMAIN work' = Workers /\ \A v \in Workers : DOMAIN work'[v] = Fields
  BY <1>5, <1>7, <1>17, <1>19, JobMoves DEF tables
<1>21. LicensesKnown' /\ MetadataKnown'
  BY <1>5, <1>7, LicensesStay, MetadataStays DEF LookupInv, tables
<1>22. Shape'
  BY <1>5, <1>14, <1>20 DEF LookupInv, Shape, tables
<1> QED
  BY <1>14, <1>20, <1>21, <1>22 DEF LookupInv

-----------------------------------------------------------------------------
(* The invariant and what follows from it.                                 *)

LEMMA InitIsSound ==
  ASSUME Init
  PROVE  LookupInv
<1>1. DOMAIN NoMap = {}
  BY DEF NoMap
<1>2. Shape
  BY RestIsShaped DEF Init, Shape
<1>3. LicensesKnown /\ MetadataKnown
  BY <1>1 DEF Init, LicensesKnown, MetadataKnown
<1>4. RegistriesKnown
  BY <1>1 DEF Init, RegistriesKnown, CacheIsTrue
<1>5. JobIsSound(Down)
  BY RestIsShaped DEF JobIsSound, Resolvers, RegistryNames, Finishing
<1>6. JobsSound
  BY <1>1, <1>5 DEF Init, JobsSound
<1> QED
  BY <1>2, <1>3, <1>4, <1>6 DEF LookupInv

LEMMA NextKeepsInv ==
  ASSUME LookupInv, [Next]_vars
  PROVE  LookupInv'
<1>1. ASSUME NEW w \in Workers, Step(w) PROVE LookupInv'
  <2>1. CASE PreloadLicenses(w)
    BY <2>1, PreloadLicensesKeepsInv
  <2>2. CASE PreloadMetadata(w)
    BY <2>2, PreloadMetadataKeepsInv
  <2>3. CASE PreloadRegistries(w)
    BY <2>3, PreloadRegistriesKeepsInv
  <2>4. CASE \E d \in DOMAIN Documents : Begin(w, d)
    BY <2>4, BeginKeepsInv
  <2>5. CASE AskGitHub(w)
    BY <2>5, AskGitHubKeepsInv
  <2>6. CASE AskNuGet(w)
    BY <2>6, AskNuGetKeepsInv
  <2>7. CASE AskNuGetRepository(w)
    BY <2>7, AskNuGetRepositoryKeepsInv
  <2>8. CASE AskDepsDev(w)
    BY <2>8, AskDepsDevKeepsInv
  <2>9. CASE AskPackagist(w)
    BY <2>9, AskPackagistKeepsInv
  <2>10. CASE \E registry \in {"npm", "pypi"} : AskRegistry(w, registry)
    BY <2>10, AskRegistryKeepsInv
  <2>11. CASE NormalizeAndExplain(w)
    BY <2>11, NormalizeKeepsInv
  <2>12. CASE PersistLicenses(w)
    BY <2>12, PersistLicensesKeepsInv
  <2>13. CASE PersistMetadata(w)
    BY <2>13, PersistMetadataKeepsInv
  <2>14. CASE PersistRegistries(w)
    BY <2>14, PersistRegistriesKeepsInv
  <2>15. CASE InsertPackages(w)
    BY <2>15, InsertPackagesKeepsInv
  <2> QED
    BY <1>1, <2>1, <2>2, <2>3, <2>4, <2>5, <2>6, <2>7, <2>8, <2>9, <2>10, <2>11, <2>12, <2>13,
       <2>14, <2>15
       DEF Step
<1>2. ASSUME NEW w \in Workers, Crash(w) PROVE LookupInv'
  BY <1>2, CrashKeepsInv
<1>3. CASE Tick
  BY <1>3, IdlingKeepsInv DEF Tick
<1>4. CASE UNCHANGED vars
  BY <1>4, IdlingKeepsInv DEF vars, memory, tables
<1> QED
  BY <1>1, <1>2, <1>3, <1>4 DEF Next

\* Whatever is in a cache, a table or the hands of a worker is true, or owed to a
\* request that was not answered.
THEOREM LookupIsSound == Spec => []LookupInv
<1>1. Init => LookupInv
  BY InitIsSound
<1>2. LookupInv /\ [Next]_vars => LookupInv'
  BY NextKeepsInv
<1> QED
  BY <1>1, <1>2, PTL DEF Spec

\* Failures, limits and restarts never leave anything but definite and true
\* answers in the registries' caches, in memory or in the table.
THEOREM CachesStayTrue == Spec => []RegistryCachesAreTrue
<1>1. LookupInv => RegistryCachesAreTrue
  <2> SUFFICES ASSUME LookupInv, NEW g \in RegistryNames,
                      NEW cache \in {registry_license_cache[g]} \cup {resolverCache[w][g] : w \in Workers},
                      NEW key \in DOMAIN cache
               PROVE  cache[key] \in Truth[g][key]
    BY DEF RegistryCachesAreTrue
  <2>1. CacheIsTrue(g, cache)
    BY DEF LookupInv, RegistriesKnown
  <2>2. key \in Keys(g) /\ cache[key] \in TrueValues(g, key)
    BY <2>1 DEF CacheIsTrue
  <2> QED
    BY <2>2 DEF Truth
<1> QED
  BY <1>1, LookupIsSound, PTL

\* A stored licence is what the service its source names has upstream, and a
\* stored reason is one that a registry really gives.
THEOREM StoredSourcesAreTrue == Spec => []SourcesAreTrue
<1>1. LookupInv => SourcesAreTrue
  BY DEF LookupInv, JobsSound, SourcesAreTrue
<1> QED
  BY <1>1, LookupIsSound, PTL

\* No stored licence, and no missing one, speaks over an earlier resolver of the
\* cascade that has a licence of the package, unless that one was not heard.
THEOREM FirstAnswersWin == Spec => []FirstAnswerWins
<1>1. LookupInv => FirstAnswerWins
  BY DEF LookupInv, JobsSound, FirstAnswerWins
<1> QED
  BY <1>1, LookupIsSound, PTL

\* Only the worker that writes a table changes it.
LEMMA TablesAreWrittenOnce ==
  ASSUME [Next]_vars
  PROVE  /\ UNCHANGED github_license_cache \/ \E w \in Workers : PersistLicenses(w)
         /\ UNCHANGED github_repo_metadata \/ \E w \in Workers : PersistMetadata(w)
<1>1. CASE Tick \/ UNCHANGED vars
  BY <1>1 DEF Tick, vars, tables
<1>2. ASSUME NEW w \in Workers, Crash(w) PROVE UNCHANGED <<github_license_cache, github_repo_metadata>>
  BY <1>2 DEF Crash, tables
<1>3. ASSUME NEW w \in Workers, Step(w)
      PROVE  \/ UNCHANGED <<github_license_cache, github_repo_metadata>>
             \/ PersistLicenses(w) /\ UNCHANGED github_repo_metadata
             \/ PersistMetadata(w) /\ UNCHANGED github_license_cache
  <2>1. CASE PreloadLicenses(w) \/ PreloadMetadata(w) \/ PreloadRegistries(w)
    BY <2>1 DEF PreloadLicenses, PreloadMetadata, PreloadRegistries, tables
  <2>2. CASE (\E d \in DOMAIN Documents : Begin(w, d)) \/ NormalizeAndExplain(w)
    BY <2>2 DEF Begin, NormalizeAndExplain, tables
  <2>3. CASE AskGitHub(w) \/ AskNuGet(w) \/ AskNuGetRepository(w) \/ AskDepsDev(w)
    BY <2>3 DEF AskGitHub, AskNuGet, AskNuGetRepository, AskDepsDev, tables
  <2>4. CASE AskPackagist(w) \/ \E registry \in {"npm", "pypi"} : AskRegistry(w, registry)
    BY <2>4 DEF AskPackagist, AskRegistry, tables
  <2>5. CASE PersistRegistries(w) \/ InsertPackages(w)
    BY <2>5 DEF PersistRegistries, InsertPackages
  <2>6. CASE PersistLicenses(w)
    BY <2>6 DEF PersistLicenses
  <2>7. CASE PersistMetadata(w)
    BY <2>7 DEF PersistMetadata
  <2> QED
    BY <1>3, <2>1, <2>2, <2>3, <2>4, <2>5, <2>6, <2>7 DEF Step
<1> QED
  BY <1>1, <1>2, <1>3 DEF Next

LEMMA FlagsStay ==
  ASSUME LookupInv, [Next]_vars, NEW r \in DOMAIN github_repo_metadata, github_repo_metadata[r].archived
  PROVE  github_repo_metadata'[r].archived \/ <<"github", r>> \in unanswered
<1>1. CASE UNCHANGED github_repo_metadata
  BY <1>1
<1>2. ASSUME NEW w \in Workers, PersistMetadata(w)
      PROVE  github_repo_metadata'[r].archived \/ <<"github", r>> \in unanswered
  <2> DEFINE rows == [s \in DOMAIN metadataCache[w] |-> MetadataRow(metadataCache[w][s])]
  <2>1. github_repo_metadata' \in {github_repo_metadata, PutAll(github_repo_metadata, rows)}
    BY <1>2 DEF PersistMetadata
  <2>2. r \in DOMAIN Repository /\ Repository[r].archived
    BY DEF LookupInv, MetadataKnown, FlagIsKnown
  <2>3. ASSUME r \in DOMAIN metadataCache[w] PROVE rows[r].archived \/ <<"github", r>> \in unanswered
    <3>1. FlagIsKnown(r, metadataCache[w][r].archived)
      BY <2>3 DEF LookupInv, MetadataKnown
    <3>2. rows[r].archived = metadataCache[w][r].archived
      BY <2>3 DEF MetadataRow
    <3> HIDE DEF rows
    <3> QED
      BY <2>2, <3>1, <3>2 DEF FlagIsKnown
  <2>4. DOMAIN rows = DOMAIN metadataCache[w]
    OBVIOUS
  <2> HIDE DEF rows
  <2>5. CASE github_repo_metadata' = github_repo_metadata
    BY <2>5
  <2>6. CASE github_repo_metadata' = PutAll(github_repo_metadata, rows)
    <3>1. CASE r \in DOMAIN rows
      BY <2>3, <2>4, <2>6, <3>1 DEF PutAll
    <3>2. CASE r \notin DOMAIN rows
      BY <2>6, <3>2 DEF PutAll
    <3> QED
      BY <3>1, <3>2
  <2> QED
    BY <2>1, <2>5, <2>6
<1> QED
  BY <1>1, <1>2, TablesAreWrittenOnce

LEMMA LicensesAreKept ==
  ASSUME LookupInv, [Next]_vars, NEW r \in DOMAIN github_license_cache, github_license_cache[r] # NoLicense
  PROVE  github_license_cache'[r] # NoLicense \/ <<"github", r>> \in unanswered
<1>1. CASE UNCHANGED github_license_cache
  BY <1>1
<1>2. ASSUME NEW w \in Workers, PersistLicenses(w)
      PROVE  github_license_cache'[r] # NoLicense \/ <<"github", r>> \in unanswered
  <2>1. github_license_cache' \in {github_license_cache, PutAll(github_license_cache, licenseCache[w])}
    BY <1>2 DEF PersistLicenses
  <2>2. FileLicense(r) # NoLicense
    <3>1. github_license_cache[r] \in RepositoryLicenses(r)
      BY DEF LookupInv, LicensesKnown, LicenseIsKnown
    <3> QED
      BY <3>1, NoLicenseAtAll
  <2>3. ASSUME r \in DOMAIN licenseCache[w]
        PROVE  licenseCache[w][r] # NoLicense \/ <<"github", r>> \in unanswered
    BY <2>2, <2>3 DEF LookupInv, LicensesKnown, LicenseIsKnown
  <2>4. CASE github_license_cache' = github_license_cache
    BY <2>4
  <2>5. CASE github_license_cache' = PutAll(github_license_cache, licenseCache[w])
    <3>1. CASE r \in DOMAIN licenseCache[w]
      BY <2>3, <2>5, <3>1 DEF PutAll
    <3>2. CASE r \notin DOMAIN licenseCache[w]
      BY <2>5, <3>2 DEF PutAll
    <3> QED
      BY <3>1, <3>2
  <2> QED
    BY <2>1, <2>4, <2>5
<1> QED
  BY <1>1, <1>2, TablesAreWrittenOnce

\* A flag or a licence that a table holds survives the writes of every worker,
\* whenever it read the table, unless a request about it failed.
THEOREM KnowledgeIsKept == Spec => KnowledgeStays
<1> DEFINE kept ==
      /\ \A r \in DOMAIN github_repo_metadata :
           github_repo_metadata[r].archived => github_repo_metadata'[r].archived \/ <<"github", r>> \in unanswered
      /\ \A r \in DOMAIN github_license_cache :
           github_license_cache[r] # NoLicense => github_license_cache'[r] # NoLicense \/ <<"github", r>> \in unanswered
<1>1. LookupInv /\ [Next]_vars => [kept]_vars
  BY FlagsStay, LicensesAreKept
<1> QED
  BY <1>1, LookupIsSound, PTL DEF Spec, KnowledgeStays
================================================================================
