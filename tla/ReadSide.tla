-------------------------------- MODULE ReadSide --------------------------------
(***************************************************************************)
(* The pages of licenses and archived repositories, which are put together *)
(* in batches and streams, and what the pages of the gateway promise each  *)
(* other while VEXScope's workers write the tables they read.              *)
(***************************************************************************)
EXTENDS ProjectViews

CONSTANTS
  Blanket,        \* the licenses an exception covers as a whole
  Covered,        \* the <<package, license, document name>> an exception covers
  Archived,       \* the archived repositories
  RepoOf,         \* the repository of each purl that has one, whatever its version
  Matches,        \* the SBOMs a search term matches
  BatchSize       \* scopeBatchSize, archivedPurlBatchSize

-----------------------------------------------------------------------------
(* License violations.                                                     *)

LicenseRows(s) == {[sbom |-> s] @@ r : r \in Content[s].licenses}
Bad(r) == r.category \in {"copyleft", "unapproved", "unknown"}
BadRows(sboms_) == {r \in UNION {LicenseRows(s) : s \in sboms_} : Bad(r)}

\* The server's order: by SBOM, then by license.
Sorted(rows_, ids) == FlattenSeq([i \in DOMAIN ids |-> SetToSeq({r \in rows_ : r.sbom = ids[i]})])

\* The name a package exception is matched with: '' for an SBOM not in sboms yet.
NameOf(c, s) == IF s \in c.sboms THEN Content[s].name ELSE <<>>

NoOne == [sbom |-> None]
Emit(acc) == [acc EXCEPT !.out = IF acc.current = NoOne THEN @ ELSE Append(@, acc.current), !.current = NoOne]

Violations(c, r) ==
  IF r.license \in Blanket THEN {} ELSE {p \in r.packages : <<p, r.license, NameOf(c, r.sbom)>> \notin Covered}

NoCounts == [k \in {"copyleft", "unapproved", "unknown"} |-> 0]
Begun(acc, s) ==
  IF acc.current # NoOne THEN acc
  ELSE [acc EXCEPT !.current = [sbom |-> s, packages |-> <<>>, licenses |-> {}, count |-> NoCounts]]

Counting(acc, r, violating) ==
  IF violating = {} THEN acc
  ELSE [Begun(acc, r.sbom) EXCEPT !.current.count[r.category] = @ + Cardinality(violating),
                                  !.current.licenses = @ \cup {r.license},
                                  !.current.packages = @ \o SetToSeq(violating)]

\* violationAccumulator.add: a row of another SBOM ends the one before.
Add(c, acc, r) ==
  Counting(IF acc.current # NoOne /\ acc.current.sbom # r.sbom THEN Emit(acc) ELSE acc, r, Violations(c, r))

Fed(c, rows_) == FoldLeft(LAMBDA acc, r : Add(c, acc, r), [current |-> NoOne, out |-> <<>>], rows_)

\* Mutation: the SBOM in progress is not flushed at the end of a batch.
Unflushed(c, ids) == Fed(c, Sorted(BadRows(Range(ids)), ids)).out

\* scanLicenseViolations over the SBOMs ids.
Scan(c, ids) == Emit(Fed(c, Sorted(BadRows(Range(ids)), ids))).out

Chunks(ids) ==
  [k \in 1..((Len(ids) + BatchSize - 1) \div BatchSize) |->
     SubSeq(ids, (k - 1) * BatchSize + 1, Min({k * BatchSize, Len(ids)}))]

\* The scope of a package name: its nearest occurrence, if any is known.
NearestOf(c, s, name) ==
  Min({Unknown} \cup {c.depths[s][i] : i \in {j \in DOMAIN Content[s].packages : Content[s].packages[j].name = name}})

violationScopes(c, s) ==
  [name \in {n \in UNION {r.packages : r \in BadRows({s})} : NearestOf(c, s, n) # Unknown} |-> Scope(NearestOf(c, s, name))]

Entry(c, e) == [sbom |-> e.sbom, count |-> e.count, licenses |-> e.licenses, packages |-> e.packages,
                scopes |-> violationScopes(c, e.sbom)]
Mapped(f(_), seq) == [i \in DOMAIN seq |-> f(seq[i])]
QueryProjectsWithLicenseViolations(c, ids) == Mapped(LAMBDA e : Entry(c, e), Scan(c, ids))

\* The listing without the package lists.
InScopes(scopes, e, scope) ==
  Cardinality({i \in DOMAIN e.packages : e.packages[i] \in DOMAIN scopes /\ scopes[e.packages[i]] = scope})
Brief(scopes, e) ==
  [sbom |-> e.sbom, count |-> e.count, licenses |-> e.licenses, packages |-> Len(e.packages),
   direct |-> InScopes(scopes, e, "direct"), transitive |-> InScopes(scopes, e, "transitive")]

Summaries(c, chunks) ==
  FlattenSeq(Mapped(LAMBDA ids : Mapped(LAMBDA e : Brief(violationScopes(c, e.sbom), e), Scan(c, ids)), chunks))

\* In batches; a search needs the sboms row.
QueryProjectLicenseViolationSummaries(c, ids, search) ==
  Summaries(c, Chunks(SelectSeq(ids, LAMBDA s : BadRows({s}) # {} /\ (search => s \in c.sboms /\ s \in Matches))))

\* The page of one SBOM: a row without violating packages lists all of its license.
Listed(s, r) ==
  IF r.packages # {} \/ r.count = 0 THEN r.packages
  ELSE {p.name : p \in {q \in Range(Content[s].packages) : q.license = r.license}} \ {""}

LicenseRow(c, s, r, names) ==
  [license |-> r.license, category |-> r.category, count |-> r.count, packages |-> names,
   scopes |-> [n \in {m \in names \cup r.exempted : NearestOf(c, s, m) # Unknown} |-> Scope(NearestOf(c, s, n))]]

QuerySBOMLicenses(c, s) == {LicenseRow(c, s, r, Listed(s, r)) : r \in LicenseRows(s)}

\* All rows by license.
QueryLicenseCompliance(c) ==
  LET all == UNION {LicenseRows(s) : s \in c.written}
      of(k) == {r \in all : <<r.license, r.category>> = k}
  IN {[license |-> k[1], category |-> k[2], count |-> MapThenSumSet(LAMBDA r : r.count, of(k)),
       sboms |-> {r.sbom : r \in of(k)}] : k \in {<<r.license, r.category>> : r \in all}}

LicenseBreakdown(c, f) ==
  [k \in {r.category : r \in UNION {LicenseRows(s) : s \in Owned(c, f)}} |->
     MapThenSumSet(LAMBDA r : r.count, {r \in UNION {LicenseRows(s) : s \in Owned(c, f)} : r.category = k})]

-----------------------------------------------------------------------------
(* Archived repositories.                                                  *)

\* queryArchivedPurls: the packages of archived repositories, versions cut off.
ArchivedPurls(sboms_) ==
  {p \in UNION {{q.purl : q \in Range(Content[s].packages)} : s \in sboms_} :
     p \in DOMAIN RepoOf /\ RepoOf[p] \in Archived}

QueryArchivedReposInUse(c) == {RepoOf[p] : p \in ArchivedPurls(c.written)}

\* Batch by batch: the SBOMs in sboms that have one of the purls.
Carriers(c, purls) ==
  UNION {{<<s, p>> : p \in {q.purl : q \in Range(Content[s].packages)} \cap purls} : s \in c.sboms}
Hits(c, chunks) == UNION {Carriers(c, Range(chunks[k])) : k \in DOMAIN chunks}

QueryArchivedPackages(c) ==
  {[sbom |-> x[1], purl |-> x[2], repo |-> RepoOf[x[2]]] : x \in Hits(c, Chunks(SetToSeq(ArchivedPurls(c.written))))}

\* One page of repositories, with the SBOMs of each.
ReposWith(repos, hits) == {[repo |-> r, sboms |-> {x[1] : x \in {y \in hits : RepoOf[y[2]] = r}}] : r \in repos}
QueryArchivedRepos(c, repos) ==
  ReposWith(repos \cap QueryArchivedReposInUse(c),
            Hits(c, Chunks(SetToSeq({p \in ArchivedPurls(c.written) : RepoOf[p] \in repos}))))

-----------------------------------------------------------------------------
(* What the pages promise each other.                                      *)

\* Ingested in one order or another, after the earlier ones.
Ages == {[s \in Documents |-> CHOOSE i \in DOMAIN q : q[i] = s] :
           q \in {SetToSeq(Earlier) \o p : p \in SetToSeqs(SBOMs)}}

\* The corpora a page can meet when the SBOMs `in` have their sboms row: of any of
\* the others the other rows may be there.
Corpora(in, vex) ==
  {[sboms |-> in \cup Earlier, written |-> in \cup Earlier \cup x, vex |-> vex, age |-> age,
    depths |-> Depths, vulnerabilities |-> UNION {FindingsOf[s] : s \in in \cup Earlier \cup x}] :
     x \in SUBSET (SBOMs \ in), age \in Ages}

ProjectNames(c) == {projectKeyExpr(s) : s \in c.sboms}
OfProjects(names) == [NoFilter EXCEPT !.projects = names]
FlawNames(c) == UNION {Names(g) : g \in c.vulnerabilities}
Vulns(rows_) == MapThenSumSet(LAMBDA r : r.vulns, rows_)

\* A statement about the package and one about its whole product.
Compete(c, s, purl, id) ==
  \E r, q \in c.vex : /\ r.sbom = s /\ q.sbom = s /\ {Says[r.st].vuln, Says[q.st].vuln} \subseteq MatchIDs(c, id)
                     /\ ProductPURL(r) = purl /\ ProductPURL(q) = Everything

Statuses(rows_) == {<<Pair(v.finding), v.status>> : v \in rows_}

\* The pages of one SBOM and of a project that has only this one.
SameOnProject(c, name, s, page) ==
  /\ {<<r.pair, r.status>> : r \in QueryProjectVulnerabilities(c, name, "")} = Statuses(page)
  /\ QueryDashboardStats(c, OfProjects({name})).effective = Total(BadgeVulns(c, s))

SameStatus(c, list) ==
  /\ QueryDashboardStats(c, NoFilter).suppressed = Cardinality({v \in list : v.status = "not_affected"})
  /\ \A s \in c.written : QuerySBOMVulnerabilities(c, s, "") = {v \in list : v.finding.sbom = s}
  /\ \A name \in ProjectNames(c) : \A s \in SBOMsOf(c, name) :
       SBOMsOf(c, name) = {s} => SameOnProject(c, name, s, QuerySBOMVulnerabilities(c, s, ""))
  /\ \A id \in FlawNames(c) : \A a \in QueryAffectedProjectsByCVE(c, id, NoFilter), v \in list :
       /\ v.finding.sbom = a.sbom /\ v.finding.purl = a.purl /\ id \in Names(v.finding)
       /\ MatchIDs(c, id) = Names(v.finding) /\ ~Compete(c, a.sbom, a.purl, id)
       => a.status = v.status
  /\ \A e \in QueryVEXStatements(c), v \in list :
       (v.finding.sbom = e.row.sbom /\ v.finding.purl = ProductPURL(e.row)) => e.row.sbom \in e.affected

SuppressionIsOne(c) == SameStatus(c, QueryVulnerabilities(c, "", NoFilter))

-----------------------------------------------------------------------------
\* The packages within k steps of the product, and the least such k.
Within(s, edges) ==
  LET W[k \in 0..Len(Content[s].packages)] ==
        IF k = 0 THEN Content[s].roots
        ELSE W[k - 1] \cup {e[2] : e \in {d \in edges : d[1] \in W[k - 1]}}
               \cup (IF k = 1 THEN Content[s].seeds ELSE {})
  IN W

AreDistances(depths, within) ==
  \A i \in DOMAIN depths : depths[i] = Min({Unknown} \cup {k \in DOMAIN within : i \in within[k]})

Counted(breakdown, scope) ==
  MapThenSumSet(LAMBDA k : breakdown[k], {k \in DOMAIN breakdown : k[2] = scope})

\* A project's row has the nearest depth of its pair: filtered by scope, it is
\* listed at least where it counts.
SameScopeOnProject(c, name, scope, nearest) ==
  /\ Cardinality(nearest) = Counted(QueryProjectDetail(c, name).breakdown, scope)
  /\ {r.pair : r \in nearest} \subseteq {r.pair : r \in QueryProjectVulnerabilities(c, name, scope)}

SameScope(c, scope) ==
  /\ Cardinality(QueryVulnerabilities(c, scope, NoFilter))
       = Counted(QueryDashboardStats(c, NoFilter).breakdown, scope)
  /\ \A s \in c.written :
       Cardinality(QuerySBOMVulnerabilities(c, s, scope)) = Counted(QuerySBOMDetail(c, s), scope)
  /\ \A name \in ProjectNames(c) :
       SameScopeOnProject(c, name, scope,
         {r \in QueryProjectVulnerabilities(c, name, "") : Scope(r.depth) = scope})

SameDepth(c, affected, list) ==
  \A a \in affected, v \in list : v.finding.sbom = a.sbom /\ v.finding.purl = a.purl => a.depth = v.finding.depth

\* The violations and the page of their SBOM.
SameLicenseScopes(c, entry) ==
  \A r \in QuerySBOMLicenses(c, entry.sbom) : \A n \in DOMAIN r.scopes \cap Range(entry.packages) :
    n \in DOMAIN entry.scopes /\ entry.scopes[n] = r.scopes[n]

ScopesAreOne(c) ==
  /\ \A s \in c.written : Content[s].roots \cup Content[s].seeds # {} =>
       AreDistances(c.depths[s], Within(s, Usable(Len(Content[s].packages), Content[s].rels)))
  /\ \A scope \in {"root", "direct", "transitive", "unknown"} : SameScope(c, scope)
  /\ \A id \in FlawNames(c) :
       SameDepth(c, QueryAffectedProjectsByCVE(c, id, NoFilter), QueryVulnerabilities(c, "", NoFilter))
  /\ \A entry \in Range(QueryProjectsWithLicenseViolations(c, SetToSeq(c.written))) : SameLicenseScopes(c, entry)

-----------------------------------------------------------------------------
\* A project is the same on the listing, on its page and in the lists it links to.
OnePage(c, item, d, versions) ==
  /\ item.packages = d.packages /\ d.packages = Cardinality(QueryProjectPackages(c, item.name))
  /\ item.vulns = Total(d.breakdown) /\ item.vulns = Cardinality(QueryProjectVulnerabilities(c, item.name, ""))
  /\ item.sboms = d.sboms /\ item.sboms = Cardinality(versions)
  /\ item.latest = d.latest /\ item.tags = d.tags
  /\ \A v \in versions : ~\E w \in versions :
       w.sbom = item.latest /\ Content[w.sbom].version # Content[v.sbom].version
         /\ NotAfter(Content[w.sbom].version.numbers, Content[v.sbom].version.numbers)
         /\ (Content[v.sbom].version.release \/ ~Content[w.sbom].version.release)
  /\ QueryProjectSBOMIDByVersion(c, item.name, Content[item.latest].version) = item.latest
  /\ QueryDashboardStats(c, OfProjects({item.name})).vulnerabilities = Vulns(versions)

\* The group pages, the ?parent= filter and the children on the parent's page.
SameGroups(c, one, groups) ==
  LET filtered(gs) == QueryVulnerabilities(c, "", Filter(one, gs, {}))
  IN /\ UNION {g.members : g \in groups} = ProjectNames(c)
     /\ MapThenSumSet(LAMBDA g : g.sboms, groups) = Cardinality(c.sboms)
     /\ \A g \in groups :
          /\ {v.finding.sbom : v \in filtered({g.name})} \subseteq UNION {SBOMsOf(c, m) : m \in g.members}
          /\ g.vulns = Cardinality({Pair(v.finding) : v \in filtered({g.name})})
          /\ g.members \ {g.name} \subseteq G!ChildrenOf(one, g.name)
          /\ \A m \in g.members \ {g.name} : G!ParentOf(one, m) = g.name
     /\ filtered({g.name : g \in groups}) = QueryVulnerabilities(c, "", OfProjects(ProjectNames(c)))

\* However the rows of the signals come, the parents are the same.
OneGrouping(c, one) ==
  /\ \A order \in SetToSeqs(ProjectNames(c)) : Assignments(c, order) = one
  /\ SameGroups(c, one, QueryProjectGroups(c, one, <<>>))

\* A tag and the projects under it; it may be a project's name itself.
SameTag(c, tag, items) ==
  /\ tag.projects = Cardinality(items)
  /\ tag.sboms = MapThenSumSet(LAMBDA p : p.sboms, items)
  /\ tag.isProject => QueryProjectDetail(c, tag.tag).related >= tag.projects - 1
  /\ \A p \in items : tag.isProject <=> tag.tag \in QueryProjectDetail(c, p.name).parents

SameClusters(c, clusters, tree) ==
  /\ {<<k.name, k.sboms, k.vulns>> : k \in clusters} = {<<k.name, k.sboms, k.vulns>> : k \in tree}
  /\ Vulns(clusters) = QueryDashboardStats(c, NoFilter).vulnerabilities
  /\ \A k \in clusters :
       /\ k.vulns = QueryDashboardStats(c, [NoFilter EXCEPT !.clusters = {k.name}]).vulnerabilities
       /\ k.name # "" => k.vulns = Vulns(QueryNamespaces(c, k.name))
  /\ \A n \in QueryNamespaces(c, "") :
       n.vulns = QueryDashboardStats(c, [NoFilter EXCEPT !.namespaces = {n.name}]).vulnerabilities

\* The parts of the corpus add up to it; those by label once all is committed.
AddsUp(c) ==
  /\ Vulns(QuerySBOMs(c, <<>>)) = QueryDashboardStats(c, OfProjects(ProjectNames(c))).vulnerabilities
  /\ \A tag \in QueryTags(c) : SameTag(c, tag, QueryProjects(c, tag.tag))
  /\ c.written = c.sboms => SameClusters(c, QueryClusters(c), QueryFleetTree(c))

\* The package pages, over all names.
OneUsage(c, uses, found) ==
  /\ \A d \in QueryDependencySearch(c, {u.name : u \in uses}) :
       /\ d.projects = Cardinality(QueryPackageDetail(c, d.name))
       /\ [name |-> d.name, projects |-> d.projects] \in found.packages
       /\ \A k \in {x \in QueryDependencyStats(c) : x.name = d.name} : k.projects <= d.projects
  /\ \A k \in QueryVersionSkew(c) :
       UNION {v.projects : v \in k.versions} \subseteq QueryPackageDetail(c, k.name)
         /\ k.projects = Cardinality(UNION {v.projects : v \in k.versions})
  /\ \A f \in found.flaws :
       f.sboms <= Cardinality({a.sbom : a \in QueryAffectedProjectsByCVE(c, f.vuln, NoFilter)})

ProjectsAreOne(c) ==
  /\ \A item \in QueryProjects(c, <<>>) :
       OnePage(c, item, QueryProjectDetail(c, item.name), QuerySBOMs(c, item.name))
  /\ OneGrouping(c, Assignments(c, SetToSeq(ProjectNames(c))))
  /\ AddsUp(c)
  /\ OneUsage(c, Uses(c), QueryGlobalSearch(c, {u.name : u \in Uses(c)} \cup FlawNames(c)))

-----------------------------------------------------------------------------
\* A batch is the whole in parts.  The license and package that violate in an SBOM:
Violating(c, s) ==
  {x \in UNION {{<<r.license, p>> : p \in r.packages} : r \in BadRows({s})} :
     x[1] \notin Blanket /\ <<x[2], x[1], NameOf(c, s)>> \notin Covered}

SameListing(c, full, brief, hits) ==
  /\ {full[i].sbom : i \in DOMAIN full} = {s \in c.written : Violating(c, s) # {}}
  /\ \A i \in DOMAIN full : Len(full[i].packages) = Cardinality(Violating(c, full[i].sbom))
  /\ Len(brief) = Len(full)
  /\ \A i \in DOMAIN brief :
       /\ brief[i].sbom = full[i].sbom /\ brief[i].count = full[i].count
       /\ brief[i].licenses = full[i].licenses /\ brief[i].packages = Len(full[i].packages)
       /\ brief[i].direct = Cardinality({j \in DOMAIN full[i].packages :
                              full[i].packages[j] \in DOMAIN full[i].scopes
                                /\ full[i].scopes[full[i].packages[j]] = "direct"})
  /\ Range(hits) = {e \in Range(brief) : e.sbom \in c.sboms \cap Matches}

SameRepos(c, repos, packages) ==
  /\ {r.repo : r \in repos} = QueryArchivedReposInUse(c)
  /\ \A r \in repos : r.sboms = {p.sbom : p \in {q \in packages : q.repo = r.repo}}
  /\ c.written = c.sboms => \A r \in repos : r.sboms # {}

SameLicenses(c, compliance, breakdown) ==
  /\ \A k \in compliance :
       k.count = MapThenSumSet(LAMBDA s : (CHOOSE r \in QuerySBOMLicenses(c, s) :
                                             <<r.license, r.category>> = <<k.license, k.category>>).count, k.sboms)
  /\ \A category \in DOMAIN breakdown :
       breakdown[category] = MapThenSumSet(LAMBDA k : k.count, {k \in compliance : k.category = category})

BatchesAreOne(c) ==
  LET ids == SetToSeq(c.written)
  IN /\ SameListing(c, QueryProjectsWithLicenseViolations(c, ids),
                     QueryProjectLicenseViolationSummaries(c, ids, FALSE),
                     QueryProjectLicenseViolationSummaries(c, ids, TRUE))
     /\ SameRepos(c, QueryArchivedRepos(c, QueryArchivedReposInUse(c)), QueryArchivedPackages(c))
     /\ SameLicenses(c, QueryLicenseCompliance(c), LicenseBreakdown(c, NoFilter))

-----------------------------------------------------------------------------
(* The promises in every state: for the rows that are there, no corpus in    *)
(* which the pages differ.                                                  *)

Stored == {[st |-> r.st, sbom |-> r.sbom] : r \in {q \in Final : q.sbom # None}}

\* The rows of statements about the SBOMs of their products.
Scopings == {x \in [st : Statements, sbom : SBOMs] : Product[x.st] \in Describes[x.sbom]}

WithStatements == UNION {Corpora(in, vex) : in \in SUBSET SBOMs, vex \in SUBSET Scopings}
WithoutStatements == UNION {Corpora(in, {}) : in \in SUBSET SBOMs}

SuppressionDiffers == {<<c.sboms, c.vex>> : c \in {x \in WithStatements : ~SuppressionIsOne(x)}}
ScopesDiffer == {c.sboms : c \in {x \in WithoutStatements : ~ScopesAreOne(x)}}
ProjectsDiffer == {c.sboms : c \in {x \in WithoutStatements : ~ProjectsAreOne(x)}}
BatchesDiffer == {c.sboms : c \in {x \in WithoutStatements : ~BatchesAreOne(x)}}

\* While documents and statements come in, in whatever order, a finding is suppressed
\* on every page or on none: the dashboard's count, the listing, the pages of its
\* SBOM, of its project and of the flaw, and the badge (#350, #335, #356).  Except:
\* the page of the flaw prefers a statement about the package to a newer one about
\* the whole product.
SuppressionAgrees == <<sboms \cup Earlier, Stored>> \notin SuppressionDiffers

\* A package is as near as its shortest path from the product, and a finding as its
\* nearest package, wherever a page shows, counts or filters by it.
ScopesAgree == sboms \cup Earlier \notin ScopesDiffer

\* The counts of a project, a group, a tag, a cluster and a package are the same on
\* every page that has them and add up to the dashboard's; parents do not depend on
\* the order of rows and are what ?parent= filters by ("the stats attach to project
\* names nothing else produces").
ProjectsAgree == sboms \cup Earlier \notin ProjectsDiffer

\* What is read in batches and folded as a stream is what one query would give, each
\* SBOM once; the archived banner and the list behind it show the same repositories.
BatchesAgree == sboms \cup Earlier \notin BatchesDiffer
================================================================================
