----------------------------- MODULE LicenseLookup -----------------------------
(***************************************************************************)
(* How the packages of an SBOM get their licences: the declared one, else  *)
(* that of the GitHub repository, else the first answer of five package    *)
(* registries.  Each worker keeps what it was told in memory, writes all   *)
(* of it to ClickHouse with every SBOM, and reads it back when it starts.  *)
(* A request may fail, and GitHub may refuse one because of its rate       *)
(* limit: then the job is handed back until the limit is lifted.           *)
(*                                                                         *)
(* What the services would answer is external and does not change.         *)
(***************************************************************************)
EXTENDS Purls, FiniteSets, SequencesExt, Functions

CONSTANTS
  Workers,
  Documents,     \* SBOM |-> the sequence of its packages
  Repository,    \* repository |-> what GitHub knows of it; no key: 404
  Override,      \* repository |-> licence, verified by hand
  Upstream,      \* registry |-> (key |-> what it knows); no key: 404
  Default,       \* package name at deps.dev |-> its default version, or None
  Spelling,      \* free text |-> the SPDX id it unambiguously means
  Ids,           \* the texts that are SPDX ids
  NoInfo,        \* the texts that name no licence: "NOASSERTION", a URL
  LicenseURLs,   \* well-known licence URL |-> SPDX id
  Classifiers,   \* trove classifier |-> SPDX id
  MaxReset,      \* bound: how long a rate limit lasts
  MaxFaults      \* bound: failures, rate limits and crashes

-----------------------------------------------------------------------------
(* Licence expressions: the ids it is made of and how they are joined.     *)

NoLicense == [op |-> "", of |-> {}]
Join(op, ids) == [op |-> IF Cardinality(ids) > 1 THEN op ELSE "", of |-> ids]

Spell(text) == IF text \in DOMAIN Spelling THEN Spelling[text] ELSE text
Normalize(expr) == [expr EXCEPT !.of = {Spell(t) : t \in @}]
LicenseRef(text) == <<"LicenseRef", text>>

\* Recover: the ids a raw licence name stands for, none or one.
Recover(text) ==
  IF text \in NoInfo THEN {}
  ELSE IF Spell(text) \in Ids THEN {Spell(text)}
  ELSE {LicenseRef(text)}

\* A cached value: a licence, or a reason there is none.  Neither: the service
\* did not say.
NoAnswer == [license |-> NoLicense, reason |-> "", latest |-> FALSE]
Negative(reason) == [NoAnswer EXCEPT !.reason = reason]
Found(expr) == IF expr = NoLicense THEN Negative("no-license-upstream") ELSE [NoAnswer EXCEPT !.license = expr]

-----------------------------------------------------------------------------
(* What the metadata of a package means.                                   *)

\* npm's "license", or else its older "licenses".
NPMLicense(manifest) ==
  IF manifest.license \ NoInfo # {} THEN Join("OR", manifest.license \ NoInfo)
  ELSE Join("OR", manifest.licenses \ NoInfo)

\* deps.dev: the mapped licence of each detail or else what its text gives;
\* without details the flat list, if all of it is usable.
DepsDevLicense(version) ==
  LET detail(d) == IF d.spdx \in NoInfo THEN Recover(d.raw) ELSE {d.spdx}
  IN IF version.details # {} THEN Join("AND", UNION {detail(d) : d \in version.details})
     ELSE IF version.licenses \cap NoInfo # {} THEN NoLicense
     ELSE Join("AND", version.licenses)

\* Composer's list is of alternatives.
ComposerLicense(texts) == Join("OR", UNION {Recover(t) : t \in texts})

\* PyPI: the expression, the classifiers that name one licence, the short free
\* text, the first other classifier.
PyPILicense(info) ==
  LET mapped == {Classifiers[c] : c \in ToSet(info.classifiers) \cap DOMAIN Classifiers}
      others == SelectSeq(info.classifiers, LAMBDA c : c \notin DOMAIN Classifiers)
  IN IF Recover(info.expression) # {} THEN Join("", Recover(info.expression))
     ELSE IF mapped # {} THEN Join("AND", mapped)
     ELSE IF Recover(info.license) # {} THEN Join("", Recover(info.license))
     ELSE IF others # <<>> THEN Join("", {LicenseRef(Head(others))})
     ELSE NoLicense

-----------------------------------------------------------------------------
(* What the services answer when they do.                                  *)

\* One request: 404, or the metadata.
Answer(registry, key) ==
  IF key \notin DOMAIN Upstream[registry] THEN Negative("not-published")
  ELSE LET known == Upstream[registry][key]
       IN CASE registry = "npm" -> Found(NPMLicense(known))
            [] registry = "depsdev" -> Found(DepsDevLicense(known))
            [] registry = "pypi" -> Found(PyPILicense(known))

\* Packagist: the exact version, in the file of releases or of branches, or
\* else the newest release.
PackagistAnswer(key) ==
  LET stable == [name |-> key.name, version |-> "releases"]
      dev == [name |-> key.name, version |-> "branches"]
      files == Upstream["packagist"]
      versions(file) == IF file \in DOMAIN files THEN files[file] ELSE <<>>
      listed(file) == {i \in DOMAIN versions(file) : versions(file)[i].version = key.version}
      exact == IF key.version \in DevVersions THEN dev ELSE stable
  IN IF key.version # None /\ listed(exact) # {} THEN
            Found(ComposerLicense(versions(exact)[CHOOSE i \in listed(exact) : TRUE].license))
     ELSE IF stable \notin DOMAIN files THEN Negative("not-published")
     ELSE IF files[stable] = <<>> THEN Negative("no-license-upstream")
     ELSE IF ComposerLicense(Head(files[stable]).license) = NoLicense THEN Negative("no-license-upstream")
     ELSE [Found(ComposerLicense(Head(files[stable]).license)) EXCEPT !.latest = TRUE]

\* GitHub: the licence of the repository, of its licence file, or the manual
\* override.
OverrideLicense(repo) == IF repo \in DOMAIN Override THEN Join("", {Override[repo]}) ELSE NoLicense
FileLicense(repo) ==
  IF repo \in DOMAIN Repository /\ Repository[repo].file \notin NoInfo THEN Join("", {Repository[repo].file})
  ELSE OverrideLicense(repo)
GitHubLicense(repo) ==
  IF repo \notin DOMAIN Repository THEN NoLicense
  ELSE IF Repository[repo].license \notin NoInfo THEN Join("", {Repository[repo].license})
  ELSE FileLicense(repo)

\* Documents and the repositories of a NuGet package are sequences; a package
\* without URLs names no repository; a repository that GitHub names a licence of
\* has one that is found without its metadata.
ASSUME LookupAssumption ==
  /\ \A d \in DOMAIN Documents : Documents[d] \in Seq(ToSet(Documents[d]))
  /\ \A key \in DOMAIN Upstream["nuget"] : LET repos == Upstream["nuget"][key].repos
       IN repos \in Seq(ToSet(repos)) /\ (Upstream["nuget"][key].bare => repos = <<>>)
  /\ \A repo \in DOMAIN Repository : Repository[repo].license \notin NoInfo => FileLicense(repo) # NoLicense

-----------------------------------------------------------------------------
VARIABLES
  licenseCache,           \* per worker: repository |-> licence
  metadataCache,          \* per worker: repository |-> [license, archived]
  limitedFor,             \* per worker: time until the rate limit is lifted
  resolverCache,          \* per worker: registry |-> (key |-> value)
  files,                  \* per worker: the Packagist files it has fetched
  work,                   \* per worker: the SBOM in hand and how far it is
  github_license_cache, github_repo_metadata, registry_license_cache,  \* tables
  sbom_packages,          \* SBOM |-> the licences and sources of its packages
  retryAfter,             \* SBOM |-> time until its job may be claimed again
  faults,                 \* bound: failures, rate limits and crashes so far
  unanswered              \* history: <<resolver, key>> that should have been answered

memory == <<licenseCache, metadataCache, limitedFor, resolverCache, files>>
tables == <<github_license_cache, github_repo_metadata, registry_license_cache, sbom_packages>>
vars == <<memory, tables, work, retryAfter, faults, unanswered>>

NoMap == [k \in {} |-> NoAnswer]
Down == [stage |-> "down", doc |-> None, at |-> 1, repo |-> 0, licenses |-> <<>>, sources |-> <<>>]
Idle == [Down EXCEPT !.stage = "idle"]
NoSource == [origin |-> "", latest |-> FALSE, normalized |-> FALSE]

Init ==
  /\ licenseCache = [w \in Workers |-> NoMap]
  /\ metadataCache = [w \in Workers |-> NoMap]
  /\ limitedFor = [w \in Workers |-> 0]
  /\ resolverCache = [w \in Workers |-> [g \in RegistryNames |-> NoMap]]
  /\ files = [w \in Workers |-> {}]
  /\ work = [w \in Workers |-> Down]
  /\ github_license_cache = NoMap /\ github_repo_metadata = NoMap
  /\ registry_license_cache = [g \in RegistryNames |-> NoMap]
  /\ sbom_packages = NoMap
  /\ retryAfter = [d \in DOMAIN Documents |-> 0]
  /\ faults = 0 /\ unanswered = {}

Put(map, key, value) == [k \in DOMAIN map \cup {key} |-> IF k = key THEN value ELSE map[k]]
PutAll(map, new) == [k \in DOMAIN map \cup DOMAIN new |-> IF k \in DOMAIN new THEN new[k] ELSE map[k]]

\* StoreValue: what is not an answer is not cached.
StoreValue(map, key, value) == IF value = NoAnswer THEN map ELSE Put(map, key, value)

\* Failures of requests and statements, rate limits, crashes.
Fail(n) == faults + n <= MaxFaults /\ faults' = faults + n
Misses(set) == unanswered' = unanswered \cup set

-----------------------------------------------------------------------------
(* Starting a worker: main reads the tables, each read may fail.           *)

\* Either the rows or, after an error, nothing is loaded.
Reads(loaded) == IF loaded THEN UNCHANGED faults ELSE Fail(1)

PreloadLicenses(w) ==
  /\ work[w].stage = "down"
  /\ \E loaded \in BOOLEAN :
       /\ Reads(loaded)
       /\ licenseCache' = [licenseCache EXCEPT ![w] = IF loaded THEN github_license_cache ELSE @]
  /\ work' = [work EXCEPT ![w].stage = "preload metadata"]
  /\ UNCHANGED <<metadataCache, limitedFor, resolverCache, files, tables, retryAfter, unanswered>>

\* Mutation: the flag is not read back.
FlagForgotten(row) == [license |-> NoLicense, archived |-> FALSE]

\* The table of repositories has no column for the licence: an entry that is
\* read back says that there is none.
Reloaded(row) == [license |-> NoLicense, archived |-> row.archived]

PreloadMetadata(w) ==
  /\ work[w].stage = "preload metadata"
  /\ \E loaded \in BOOLEAN :
       LET rows == IF loaded THEN DOMAIN github_repo_metadata ELSE {}
       IN /\ Reads(loaded)
          /\ metadataCache' = [metadataCache EXCEPT ![w] =
               [r \in rows |-> Reloaded(github_repo_metadata[r])]]
          /\ Misses({<<"forgotten", r>> : r \in {s \in rows : GitHubLicense(s) # NoLicense}})
  /\ work' = [work EXCEPT ![w].stage = "preload registries"]
  /\ UNCHANGED <<licenseCache, limitedFor, resolverCache, files, tables, retryAfter>>

PreloadRegistries(w) ==
  /\ work[w].stage = "preload registries"
  /\ \E loaded \in BOOLEAN :
       /\ Reads(loaded)
       /\ resolverCache' = [resolverCache EXCEPT ![w] = IF loaded THEN registry_license_cache ELSE @]
  /\ work' = [work EXCEPT ![w] = Idle]
  /\ UNCHANGED <<licenseCache, metadataCache, limitedFor, files, tables, retryAfter, unanswered>>

\* Kill -9, or a restart: everything in memory is gone.
Crash(w) ==
  /\ work[w].stage # "down"
  /\ Fail(1)
  /\ licenseCache' = [licenseCache EXCEPT ![w] = NoMap]
  /\ metadataCache' = [metadataCache EXCEPT ![w] = NoMap]
  /\ limitedFor' = [limitedFor EXCEPT ![w] = 0]
  /\ resolverCache' = [resolverCache EXCEPT ![w] = [g \in RegistryNames |-> NoMap]]
  /\ files' = [files EXCEPT ![w] = {}]
  /\ work' = [work EXCEPT ![w] = Down]
  /\ UNCHANGED <<tables, retryAfter, unanswered>>

\* Time passes until the next limit or deferral ends.
Tick ==
  /\ \/ \E w \in Workers : limitedFor[w] > 0
     \/ \E d \in DOMAIN Documents : retryAfter[d] > 0
  /\ limitedFor' = [w \in Workers |-> IF limitedFor[w] > 0 THEN limitedFor[w] - 1 ELSE 0]
  /\ retryAfter' = [d \in DOMAIN Documents |-> IF retryAfter[d] > 0 THEN retryAfter[d] - 1 ELSE 0]
  /\ UNCHANGED <<licenseCache, metadataCache, resolverCache, files, tables, work, faults, unanswered>>

-----------------------------------------------------------------------------
(* GitHub.  An inquiry is what a worker knows while it asks: its licence   *)
(* cache, its rate limit, the requests that failed and were limited.       *)

Inquiry(w) == [license |-> NoLicense, found |-> FALSE, cache |-> licenseCache[w], limitedFor |-> limitedFor[w],
               failed |-> {}, limited |-> {}, refused |-> {}]

\* A request: answered, failed on the way, or limited.  noteRateLimit keeps the
\* later end of two limits.
Request(o, repo, answered) ==
  {answered}
  \cup (IF faults + Cardinality(o.failed) + Cardinality(o.limited) < MaxFaults
        THEN {[o EXCEPT !.failed = @ \cup {repo}]}
             \cup {[o EXCEPT !.limited = @ \cup {repo}, !.limitedFor = IF reset > @ THEN reset ELSE @] : reset \in 1..MaxReset}
        ELSE {})

\* fetchLicense and the override: a failure counts as no licence file.
FetchLicense(o, repo) ==
  {IF repo \in p.limited THEN p
   ELSE IF repo \in p.failed THEN [p EXCEPT !.license = OverrideLicense(repo)]
   ELSE [p EXCEPT !.license = FileLicense(repo)] : p \in Request(o, repo, o)}

\* fetchRepoMetadata: found unless there is no such repository, the request
\* failed, or the limit was reached; then the licence file, if need be.
FetchMetadata(o, repo) ==
  LET known == repo \in DOMAIN Repository
      first == Request(o, repo, [o EXCEPT !.found = known])
      named(p) == [p EXCEPT !.license = Join("", {Repository[repo].license})]
  IN UNION {IF ~p.found THEN {p}
            ELSE IF Repository[repo].license \notin NoInfo THEN {named(p)}
            ELSE {[q EXCEPT !.found = repo \notin q.limited] : q \in FetchLicense(p, repo)} : p \in first}

\* ResolveErr, as NuGet uses it through Resolve: a limit looks like no licence.
ResolveLicense(o, repo) ==
  IF repo \in DOMAIN o.cache THEN {[o EXCEPT !.license = o.cache[repo]]}
  ELSE IF o.limitedFor > 0 THEN {[o EXCEPT !.refused = @ \cup {repo}]}
  ELSE {IF repo \in p.limited THEN p ELSE [p EXCEPT !.cache = Put(@, repo, p.license)] : p \in FetchLicense(o, repo)}

\* What an inquiry leaves behind.
Learn(w, o) ==
  /\ licenseCache' = [licenseCache EXCEPT ![w] = o.cache]
  /\ limitedFor' = [limitedFor EXCEPT ![w] = o.limitedFor]
  /\ Fail(Cardinality(o.failed) + Cardinality(o.limited))

-----------------------------------------------------------------------------
(* The stages of resolvePackageLicenses.                                   *)

\* The resolvers in the order in which they are asked.
Resolvers == {"github"} \cup RegistryNames
Order == [github |-> 1, npm |-> 2, nuget |-> 3, depsdev |-> 4, packagist |-> 5, pypi |-> 6]

Packages(w) == Documents[work[w].doc]
Purl(w) == Packages(w)[work[w].at].purl
Resolver(stage, purl) == IF stage = "github" THEN ExtractGitHubRepo(purl) ELSE Extract(stage, purl)

\* NuGet has no answer without a version.
Asks(stage, purl) == /\ Resolver(stage, purl) # None
                     /\ stage = "nuget" => purl.version # None

\* What is asked about an SBOM, and in which order: each resolver about each
\* package.
Questions == [d \in DOMAIN Documents |->
  {q \in [stage : Resolvers, at : DOMAIN Documents[d]] : Asks(q.stage, Documents[d][q.at].purl)}]
Precedes(p, q) == Order[p.stage] < Order[q.stage] \/ (p.stage = q.stage /\ p.at < q.at)
First(questions) == CHOOSE q \in questions : \A p \in questions : ~Precedes(p, q)

\* A job goes on to the next question about a package without a licence.
Open(job) == {q \in Questions[job.doc] : job.licenses[q.at] = NoLicense /\ ~Precedes(q, job)}
Onward(job) ==
  LET open == Open(job)
      next == First(open)
  IN IF open = {} THEN [job EXCEPT !.stage = "normalize", !.at = 1, !.repo = 0]
     ELSE [job EXCEPT !.stage = next.stage, !.at = next.at, !.repo = 0]

\* The job is claimed and parsed.
Begin(w, d) ==
  /\ work[w].stage = "idle"
  /\ d \notin DOMAIN sbom_packages /\ retryAfter[d] = 0 /\ \A v \in Workers : work[v].doc # d
  /\ LET declared == [i \in DOMAIN Documents[d] |-> Documents[d][i].license]
     IN work' = [work EXCEPT ![w] = Onward(
          [stage |-> "github", doc |-> d, at |-> 1, repo |-> 0, licenses |-> declared,
           sources |-> [i \in DOMAIN declared |->
                          IF declared[i] = NoLicense THEN NoSource ELSE [NoSource EXCEPT !.origin = "declared"]]])]
  /\ UNCHANGED <<memory, tables, retryAfter, faults, unanswered>>

\* The answer, NoLicense for none, is recorded with its source.
Record(job, license, source) ==
  Onward(IF license = NoLicense THEN [job EXCEPT !.at = @ + 1]
         ELSE [job EXCEPT !.at = @ + 1, !.licenses[job.at] = license, !.sources[job.at] = source])

\* deferError: the job is handed back until the limit is lifted.
HandBack(w, left) ==
  /\ retryAfter' = [retryAfter EXCEPT ![work[w].doc] = left]
  /\ work' = [work EXCEPT ![w] = Idle]

\* Mutation: a limit is taken for "no licence".
CarryOn(w, left) == work' = [work EXCEPT ![w] = Record(@, NoLicense, NoSource)] /\ UNCHANGED retryAfter

\* What a rate limit means for the job in hand.
OnRateLimit(w, left) == HandBack(w, left)

\* ResolveWithMetadataErr: from the cache, refused, or asked and cached.
AskGitHub(w) ==
  /\ work[w].stage = "github"
  /\ LET repo == ExtractGitHubRepo(Purl(w))
         source == [NoSource EXCEPT !.origin = "github"]
     IN \/ /\ repo \in DOMAIN metadataCache[w]
           /\ work' = [work EXCEPT ![w] = Record(@, metadataCache[w][repo].license, source)]
           /\ UNCHANGED <<licenseCache, metadataCache, limitedFor, retryAfter, faults, unanswered>>
        \/ /\ repo \notin DOMAIN metadataCache[w] /\ limitedFor[w] > 0
           /\ OnRateLimit(w, limitedFor[w])
           /\ UNCHANGED <<licenseCache, metadataCache, limitedFor, faults, unanswered>>
        \/ /\ repo \notin DOMAIN metadataCache[w] /\ limitedFor[w] = 0
           /\ \E o \in FetchMetadata(Inquiry(w), repo) :
                LET meta == IF o.found THEN [license |-> o.license, archived |-> Repository[repo].archived]
                            ELSE [license |-> NoLicense, archived |-> FALSE]
                IN /\ Misses({<<"github", r>> : r \in o.failed})
                   /\ IF o.limited # {}
                      THEN /\ Learn(w, o)
                           /\ OnRateLimit(w, o.limitedFor)
                           /\ UNCHANGED metadataCache
                      ELSE /\ Learn(w, IF o.found THEN [o EXCEPT !.cache = Put(@, repo, o.license)] ELSE o)
                           /\ metadataCache' = [metadataCache EXCEPT ![w] = Put(@, repo, meta)]
                           /\ work' = [work EXCEPT ![w] = Record(@, meta.license, source)]
                           /\ UNCHANGED retryAfter
  /\ UNCHANGED <<resolverCache, files, tables>>

\* The registry's answer is cached and recorded.
Resolved(w, registry, key, value, latest) ==
  /\ resolverCache' = [resolverCache EXCEPT ![w][registry] = StoreValue(@, key, value)]
  /\ work' = [work EXCEPT ![w] = Record(@, value.license, [NoSource EXCEPT !.origin = registry, !.latest = latest])]

\* Mutation: every failure is "not published".
FailureIsNegative == Negative("not-published")

\* What a failed request is cached as.
FailedAnswer == NoAnswer

\* npm and PyPI: one request.
AskRegistry(w, registry) ==
  /\ work[w].stage = registry
  /\ LET key == Extract(registry, Purl(w))
         cached == key \in DOMAIN resolverCache[w][registry]
         latest == key.version = None
     IN \/ /\ Resolved(w, registry, key,
                       IF cached THEN resolverCache[w][registry][key] ELSE Answer(registry, key), latest)
           /\ UNCHANGED <<faults, unanswered>>
        \/ /\ ~cached /\ Fail(1) /\ Misses({<<registry, key>>})
           /\ Resolved(w, registry, key, FailedAnswer, latest)
  /\ UNCHANGED <<licenseCache, metadataCache, limitedFor, files, tables, retryAfter>>

\* Packagist: one file, or two for a branch it does not list.
AskPackagist(w) ==
  /\ work[w].stage = "packagist"
  /\ LET key == Extract("packagist", Purl(w))
         dev == [name |-> key.name, version |-> "branches"]
         stable == [name |-> key.name, version |-> "releases"]
         known == Upstream["packagist"]
         found == dev \in DOMAIN known /\ \E v \in ToSet(known[dev]) : v.version = key.version
         needed == IF key.version \notin DevVersions THEN {stable} ELSE IF found THEN {dev} ELSE {dev, stable}
         cached == key \in DOMAIN resolverCache[w]["packagist"]
         value == IF cached THEN resolverCache[w]["packagist"][key] ELSE PackagistAnswer(key)
     IN \/ /\ Resolved(w, "packagist", key, value, value.latest)
           /\ files' = [files EXCEPT ![w] = IF cached THEN @ ELSE @ \cup needed]
           /\ UNCHANGED <<faults, unanswered>>
        \/ /\ ~cached /\ Fail(1) /\ Misses({<<"packagist", key>>})
           /\ \E missing \in needed \ files[w] :
                files' = [files EXCEPT ![w] = IF missing = stable THEN @ \cup (needed \ {stable}) ELSE @]
           /\ Resolved(w, "packagist", key, FailedAnswer, FALSE)
  /\ UNCHANGED <<licenseCache, metadataCache, limitedFor, tables, retryAfter>>

\* What the catalogue entry of a NuGet package states itself.
StatedLicense(entry) ==
  IF entry.expression \notin NoInfo THEN Join("", {entry.expression})
  ELSE IF entry.url \in DOMAIN LicenseURLs THEN Join("", {LicenseURLs[entry.url]})
  ELSE NoLicense

\* NuGet: the leaf and the catalogue entry, and if need be on to the
\* repositories that the entry names.
AskNuGet(w) ==
  /\ work[w].stage = "nuget" /\ work[w].repo = 0
  /\ LET key == Extract("nuget", Purl(w))
         cached == key \in DOMAIN resolverCache[w]["nuget"]
         published == key \in DOMAIN Upstream["nuget"]
         entry == Upstream["nuget"][key]
         value == IF cached THEN resolverCache[w]["nuget"][key]
                  ELSE IF ~published THEN Negative("not-published")
                  ELSE IF StatedLicense(entry) # NoLicense THEN Found(StatedLicense(entry))
                  ELSE IF entry.bare THEN Negative("no-license-upstream")
                  ELSE NoAnswer
         goesOn == ~cached /\ published /\ StatedLicense(entry) = NoLicense /\ entry.repos # <<>>
     IN \/ /\ IF goesOn THEN work' = [work EXCEPT ![w].repo = 1] /\ UNCHANGED resolverCache
              ELSE Resolved(w, "nuget", key, value, FALSE)
           /\ UNCHANGED <<faults, unanswered>>
        \/ /\ ~cached /\ Fail(1) /\ Misses({<<"nuget", key>>})
           /\ Resolved(w, "nuget", key, FailedAnswer, FALSE)
  /\ UNCHANGED <<licenseCache, metadataCache, limitedFor, files, tables, retryAfter>>

\* licenseFromEntry: one repository after another until one has a licence.
AskNuGetRepository(w) ==
  /\ work[w].stage = "nuget" /\ work[w].repo > 0
  /\ LET key == Extract("nuget", Purl(w))
         repos == Upstream["nuget"][key].repos
     IN \E o \in ResolveLicense(Inquiry(w), repos[work[w].repo]) :
          /\ Learn(w, o)
          /\ Misses({<<"github", r>> : r \in o.failed} \cup {<<"nuget", key>> : r \in o.limited \cup o.refused})
          /\ CASE o.license # NoLicense -> Resolved(w, "nuget", key, Found(o.license), FALSE)
               [] o.license = NoLicense /\ work[w].repo < Len(repos) ->
                    work' = [work EXCEPT ![w].repo = @ + 1] /\ UNCHANGED resolverCache
               [] OTHER -> Resolved(w, "nuget", key, NoAnswer, FALSE)
  /\ UNCHANGED <<metadataCache, files, tables, retryAfter>>

\* A package without a version borrows the licence of the default version: the
\* key it stands for, and where that is cached.
DefaultKey(key) == [key EXCEPT !.version = Default[key.name]]
HasDefault(key) == key.name \in DOMAIN Default /\ Default[key.name] # None

\* What a batch says about a key: what is cached, or a request of its own; about
\* the newest version what it says about the default version.
Concrete(cache, missing, key) ==
  IF key \in DOMAIN cache THEN cache[key]
  ELSE IF key \in missing THEN FailedAnswer
  ELSE Answer("depsdev", key)
BatchValue(cache, noDefault, missing, key) ==
  IF key \in DOMAIN cache \/ key.version # None THEN Concrete(cache, missing, key)
  ELSE IF key \in noDefault THEN FailedAnswer
  ELSE IF HasDefault(key) THEN Concrete(cache, missing, DefaultKey(key))
  ELSE IF key.name \notin DOMAIN Default THEN Negative("not-published")
  ELSE NoAnswer

\* ResolveBatch: what was asked for and is not cached, one request for all of
\* it, one for each if that fails; the default versions are asked for before.
ResolveBatch(w, todo) ==
  LET cache == resolverCache[w]["depsdev"]
      key(i) == Extract("depsdev", Packages(w)[i].purl)
      pending == {key(i) : i \in todo} \ DOMAIN cache
      newest == {k \in pending : k.version = None}
  IN \E noDefault \in SUBSET newest : LET
       borrowed == {k \in newest \ noDefault : HasDefault(k)}
       items == (pending \ newest) \cup ({DefaultKey(k) : k \in borrowed} \ DOMAIN cache)
     IN \E missing \in SUBSET items, split \in BOOLEAN : LET
          value(k) == BatchValue(cache, noDefault, missing, k)
          asked == pending \cup items
          source(i) == [NoSource EXCEPT !.origin = "depsdev", !.latest = key(i).version = None]
        IN /\ missing # {} => split
           /\ split => items # {}
           /\ Fail(Cardinality(noDefault) + Cardinality(missing) + (IF split THEN 1 ELSE 0))
           /\ Misses({<<"depsdev", k>> : k \in noDefault \cup missing}
                     \cup {<<"depsdev", k>> : k \in {n \in borrowed : DefaultKey(n) \in missing}})
           /\ resolverCache' = [resolverCache EXCEPT ![w]["depsdev"] =
                PutAll(cache, [k \in {q \in asked : value(q) # NoAnswer} |-> value(k)])]
           /\ \E new \in {[i \in todo |-> value(key(i)).license]} : LET
                next == [work[w] EXCEPT
                  !.at = Len(Packages(w)) + 1,
                  !.licenses = PutAll(@, new),
                  !.sources = [i \in DOMAIN @ |-> IF i \in todo /\ new[i] # NoLicense THEN source(i) ELSE @[i]]]
              IN work' = [work EXCEPT ![w] = Onward(next)]

\* deps.dev gets one batch of all packages without a licence.
AskDepsDev(w) ==
  /\ work[w].stage = "depsdev"
  /\ \E todo \in {{q.at : q \in {p \in Questions[work[w].doc] : p.stage = "depsdev" /\ work[w].licenses[p.at] = NoLicense}}} :
       ResolveBatch(w, todo)
  /\ UNCHANGED <<licenseCache, metadataCache, limitedFor, files, tables, retryAfter>>

\* The resolvers that are explainers: NuGet keeps its reasons to itself.
Explainers == RegistryNames \ {"nuget"}

\* Explain: what the resolver has cached about a purl without a licence.
ReasonOf(w, registry, purl) ==
  LET key == Extract(registry, purl)
  IN IF registry \in Explainers /\ key # None /\ key \in DOMAIN resolverCache[w][registry] THEN resolverCache[w][registry][key].reason ELSE ""

\* Mutation: what nobody said counts as "not published".
NotPublishedOrKnown(w, package) ==
  IF \E g \in RegistryNames : ReasonOf(w, g, package.purl) = "no-license-upstream"
  THEN "no-license-upstream" ELSE "not-published"

\* unresolvedReason: the last registry that has one knows best.
UnresolvedReason(w, package) ==
  LET given == {i \in DOMAIN Registries : ReasonOf(w, Registries[i], package.purl) # ""}
  IN IF package.root \/ FirstPartyPURL(package.purl) THEN "first-party"
     ELSE IF package.purl = NoPURL THEN "no-purl"
     ELSE IF package.purl.type \notin Covered THEN "unsupported-ecosystem"
     ELSE IF given # {} THEN ReasonOf(w, Registries[CHOOSE i \in given : \A j \in given : j <= i], package.purl)
     ELSE "unresolved"

\* Free text becomes SPDX, and what is still unknown gets a reason.
NormalizeAndExplain(w) ==
  /\ work[w].stage = "normalize"
  /\ work' = [work EXCEPT
       ![w].stage = "persist licenses",
       ![w].licenses = [i \in DOMAIN @ |-> Normalize(@[i])],
       ![w].sources = [i \in DOMAIN @ |->
         IF work[w].licenses[i] = NoLicense THEN [NoSource EXCEPT !.origin = UnresolvedReason(w, Packages(w)[i])]
         ELSE IF Normalize(work[w].licenses[i]) # work[w].licenses[i] THEN [@[i] EXCEPT !.normalized = TRUE]
         ELSE @[i]]]
  /\ UNCHANGED <<memory, tables, retryAfter, faults, unanswered>>

-----------------------------------------------------------------------------
(* Writing the caches, if there is anything in them, and the packages: an  *)
(* insert may fail, which only matters for the packages.                   *)

Inserts(done) == IF done THEN UNCHANGED faults ELSE Fail(1)
InsertsCache(done, cache) == Inserts(done) /\ (~done => DOMAIN cache # {})

PersistLicenses(w) ==
  /\ work[w].stage = "persist licenses"
  /\ \E done \in BOOLEAN :
       /\ InsertsCache(done, licenseCache[w])
       /\ github_license_cache' = IF done THEN PutAll(github_license_cache, licenseCache[w]) ELSE github_license_cache
  /\ work' = [work EXCEPT ![w].stage = "persist metadata"]
  /\ UNCHANGED <<memory, github_repo_metadata, registry_license_cache, sbom_packages, retryAfter, unanswered>>

\* What is written of an entry: not its licence.
MetadataRow(entry) == [archived |-> entry.archived]

PersistMetadata(w) ==
  /\ work[w].stage = "persist metadata"
  /\ \E done \in BOOLEAN :
       /\ InsertsCache(done, metadataCache[w])
       /\ github_repo_metadata' =
            IF done THEN PutAll(github_repo_metadata, [r \in DOMAIN metadataCache[w] |-> MetadataRow(metadataCache[w][r])])
            ELSE github_repo_metadata
  /\ work' = [work EXCEPT ![w].stage = "persist registries"]
  /\ UNCHANGED <<memory, github_license_cache, registry_license_cache, sbom_packages, retryAfter, unanswered>>

\* Any of the inserts may fail, one for each registry.
PersistRegistries(w) ==
  /\ work[w].stage = "persist registries"
  /\ \E lost \in SUBSET {g \in RegistryNames : DOMAIN resolverCache[w][g] # {}} :
       /\ Fail(Cardinality(lost))
       /\ registry_license_cache' = [g \in RegistryNames |->
            IF g \in lost THEN registry_license_cache[g] ELSE PutAll(registry_license_cache[g], resolverCache[w][g])]
  /\ work' = [work EXCEPT ![w].stage = "insert packages"]
  /\ UNCHANGED <<memory, github_license_cache, github_repo_metadata, sbom_packages, retryAfter, unanswered>>

\* InsertSBOMPackages; after an error the job fails and is queued again.
InsertPackages(w) ==
  /\ work[w].stage = "insert packages"
  /\ \E done \in BOOLEAN :
       /\ Inserts(done)
       /\ sbom_packages' = IF done
            THEN Put(sbom_packages, work[w].doc, [licenses |-> work[w].licenses, sources |-> work[w].sources])
            ELSE sbom_packages
  /\ work' = [work EXCEPT ![w] = Idle]
  /\ UNCHANGED <<memory, github_license_cache, github_repo_metadata, registry_license_cache, retryAfter, unanswered>>

Step(w) ==
  \/ PreloadLicenses(w) \/ PreloadMetadata(w) \/ PreloadRegistries(w)
  \/ \E d \in DOMAIN Documents : Begin(w, d)
  \/ AskGitHub(w) \/ AskNuGet(w) \/ AskNuGetRepository(w) \/ AskDepsDev(w) \/ AskPackagist(w)
  \/ \E registry \in {"npm", "pypi"} : AskRegistry(w, registry)
  \/ NormalizeAndExplain(w)
  \/ PersistLicenses(w) \/ PersistMetadata(w) \/ PersistRegistries(w) \/ InsertPackages(w)

Next == Tick \/ \E w \in Workers : Step(w) \/ Crash(w)

Spec == Init /\ [][Next]_vars

-----------------------------------------------------------------------------
(* What is true: the licences a resolver can have been told of.            *)

\* A failed request for the licence file makes the override speak.
GitHubLicenses(repo) ==
  {GitHubLicense(repo)} \cup {OverrideLicense(r) : r \in {repo} \cap {q \in DOMAIN Repository : Repository[q].license \in NoInfo}}
RepositoryLicenses(repo) == {GitHubLicense(repo), FileLicense(repo), OverrideLicense(repo)}

\* The values that can be cached for a key.
TrueValues(registry, key) ==
  IF registry = "packagist" THEN {PackagistAnswer(key)}
  ELSE IF registry = "depsdev" /\ key.version = None THEN
         IF HasDefault(key) THEN {Answer("depsdev", DefaultKey(key))}
         ELSE IF key.name \in DOMAIN Default THEN {} ELSE {Negative("not-published")}
  ELSE IF registry = "nuget" /\ key \in DOMAIN Upstream["nuget"] THEN
         LET entry == Upstream["nuget"][key]
         IN IF StatedLicense(entry) # NoLicense THEN {Found(StatedLicense(entry))}
            ELSE IF entry.bare THEN {Negative("no-license-upstream")}
            ELSE {Found(l) : l \in (UNION {RepositoryLicenses(entry.repos[n]) : n \in DOMAIN entry.repos}) \ {NoLicense}}
  ELSE IF registry = "nuget" THEN {Negative("not-published")}
  ELSE {Answer(registry, key)}

\* The truth about every package: the values each registry can have cached, and
\* the licences each resolver can have given.
AllPurls == {p.purl : p \in UNION {ToSet(Documents[d]) : d \in DOMAIN Documents}}
Keys(g) ==
  LET asked == {Extract(g, p) : p \in AllPurls} \ {None}
  IN asked \cup (IF g = "depsdev" THEN {DefaultKey(k) : k \in {j \in asked : HasDefault(j)}} ELSE {})
Truth == [g \in RegistryNames |-> [key \in Keys(g) |-> TrueValues(g, key)]]
Licenses == [purl \in AllPurls |-> [g \in Resolvers |->
  IF ~Asks(g, purl) THEN {}
  ELSE (IF g = "github" THEN GitHubLicenses(ExtractGitHubRepo(purl))
        ELSE {v.license : v \in TrueValues(g, Extract(g, purl))}) \ {NoLicense}]]

\* A resolver was not heard: a request failed, a limit was swallowed, or what it
\* had said was forgotten by a restart.
NotHeard(resolver, purl) ==
  LET key == Resolver(resolver, purl)
      repos == IF resolver = "github" THEN {key}
               ELSE IF resolver = "nuget" /\ key \in DOMAIN Upstream["nuget"] THEN ToSet(Upstream["nuget"][key].repos)
               ELSE {}
  IN \/ <<resolver, key>> \in unanswered
     \/ \E r \in repos : <<"github", r>> \in unanswered \/ (resolver = "github" /\ <<"forgotten", r>> \in unanswered)

-----------------------------------------------------------------------------
(* Properties.                                                             *)

\* What the rows of an SBOM must not get wrong.
NoOneOverheard(d, rows) ==
  \A i \in DOMAIN Documents[d] : Documents[d][i].license = NoLicense =>
    LET purl == Documents[d][i].purl
        origin == rows.sources[i].origin
    IN \A g \in Resolvers :
         Licenses[purl][g] # {} /\ (origin \in Resolvers => Order[g] < Order[origin]) => NotHeard(g, purl)

TrueToSource(d, rows) ==
  \A i \in DOMAIN Documents[d] :
    LET purl == Documents[d][i].purl
        origin == rows.sources[i].origin
        key(g) == Extract(g, purl)
    IN /\ origin \in Resolvers => rows.licenses[i] \in {Normalize(l) : l \in Licenses[purl][origin]}
       /\ origin \in {"not-published", "no-license-upstream"} =>
            \E g \in RegistryNames : key(g) # None /\ Negative(origin) \in Truth[g][key(g)]

\* The licence of a package comes from the first resolver, in the documented
\* order, that has one: no later one speaks for a resolver that was not heard
\* because of a rate limit.  Not so where a request failed otherwise, where NuGet
\* met the limit, and where a restart has forgotten a licence (see NotHeard).
FirstAnswerWins == \A d \in DOMAIN sbom_packages : NoOneOverheard(d, sbom_packages[d])

\* A stored licence is what the service its source names has upstream, also if
\* it went through the caches of several workers, and a stored reason is one
\* that some registry really gives.
SourcesAreTrue == \A d \in DOMAIN sbom_packages : TrueToSource(d, sbom_packages[d])

\* Only definite answers are cached, in memory and in the table, whatever fails
\* and whichever worker wrote them: a failure is never kept.
RegistryCachesAreTrue ==
  \A g \in RegistryNames :
    \A cache \in {registry_license_cache[g]} \cup {resolverCache[w][g] : w \in Workers} :
      \A key \in DOMAIN cache : cache[key] \in Truth[g][key]

\* A repository known to be archived stays so, and one known to have a licence
\* does, although every worker writes back all it has with each SBOM, unless a
\* request about it failed.
KnowledgeStays ==
  [][/\ \A r \in DOMAIN github_repo_metadata :
          github_repo_metadata[r].archived => github_repo_metadata'[r].archived \/ <<"github", r>> \in unanswered
     /\ \A r \in DOMAIN github_license_cache :
          github_license_cache[r] # NoLicense => github_license_cache'[r] # NoLicense \/ <<"github", r>> \in unanswered]_vars
================================================================================
