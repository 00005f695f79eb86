------------------------------ MODULE ProjectViews ------------------------------
(***************************************************************************)
(* The pages of projects, their groups, tags, clusters and namespaces, and *)
(* of the packages they use (internal/clickhouse, cmd/api-gateway).  Counts *)
(* of the same thing are worked out by a query per page.                   *)
(***************************************************************************)
EXTENDS FindingViews

CONSTANTS
  MappingFile,                  \* the groups of the project mapping file
  Rank, Lower, Hosts, Majors    \* as in ProjectGroups

G == INSTANCE ProjectGroups

\* packageKeyExpr: the purl, or the name and version.
Key3(p) == IF p.purl # "" THEN <<p.purl>> ELSE <<p.name, p.version>>
PackageKeys(sboms_) == UNION {{Key3(p) : p \in Range(Content[s].packages)} : s \in sboms_}

\* The SBOMs of a project, as projectSBOMs selects them.
SBOMsOf(c, name) == {s \in c.sboms : projectKeyExpr(s) = name}

\* latestKey: the numbers of the version, a release above its pre-releases, then
\* the ingest.
NotAfter(v, w) ==
  \/ v = w
  \/ \E i \in 0..Min({Len(v), Len(w)}) :
       /\ SubSeq(v, 1, i) = SubSeq(w, 1, i)
       /\ IF i = Len(v) THEN i < Len(w) ELSE i < Len(w) /\ v[i + 1] < w[i + 1]

Latest(c, sboms_) ==
  CHOOSE s \in sboms_ : \A t \in sboms_ :
    LET v == Content[s].version
        w == Content[t].version
    IN IF v.numbers # w.numbers THEN NotAfter(w.numbers, v.numbers)
       ELSE IF v.release # w.release THEN v.release
       ELSE c.age[t] <= c.age[s]

-----------------------------------------------------------------------------
\* Mutation: the stats are joined by the name the search derives.
PathKeyOf(d) == KeyOf([d EXCEPT !.project = <<>>])
SearchKey(s) == PathKeyOf(Content[s])

StatsBySearchKey(c, names) ==
  LET of(name) == {s \in c.sboms : SearchKey(s) = name}
  IN [name \in names |-> [packages |-> Cardinality(PackageKeys(of(name))),
                          vulns |-> Cardinality({Pair(g) : g \in Findings(c, of(name))})]]

\* The components and the pairs of a project, each once.
enrichProjectStats(c, names) ==
  LET keys == UNION {{<<projectKeyExpr(s), k>> : k \in PackageKeys({s})} : s \in c.sboms}
      pairs == UNION {{<<projectKeyExpr(s), Pair(g)>> : g \in Findings(c, {s})} : s \in c.sboms}
  IN [name \in names |-> [packages |-> Cardinality({x \in keys : x[1] = name}),
                          vulns |-> Cardinality({x \in pairs : x[1] = name})]]

ProjectRows(c, chosen, stats) ==
  LET of(name) == {s \in chosen : projectKeyExpr(s) = name}
  IN {[name |-> name, sboms |-> Cardinality(of(name)), latest |-> Latest(c, of(name)),
       tags |-> UNION {Content[s].tags : s \in of(name)},
       packages |-> stats[name].packages, vulns |-> stats[name].vulns] : name \in DOMAIN stats}

\* The SBOMs that carry a tag, if one is asked for, by project.
QueryProjects(c, tag) ==
  LET chosen == {s \in c.sboms : tag = <<>> \/ tag \in Content[s].tags}
  IN ProjectRows(c, chosen, enrichProjectStats(c, {projectKeyExpr(s) : s \in chosen}))

\* A pair counts under its worst severity and its nearest depth.
WorstAndNearest(all) ==
  LET of(pair) == {g \in all : Pair(g) = pair}
  IN {[vuln |-> pair[1], purl |-> pair[2], severity |-> Worst({g.severity : g \in of(pair)}),
       depth |-> Min({g.depth : g \in of(pair)})] : pair \in {Pair(g) : g \in all}}

ProjectPage(c, name, own, tags) ==
  [sboms |-> Cardinality(own), latest |-> Latest(c, own), tags |-> tags,
   parents |-> {t \in tags : SBOMsOf(c, t) # {}},
   related |-> Cardinality({projectKeyExpr(s) : s \in {t \in c.sboms : name \in Content[t].tags}} \ {name}),
   packages |-> Cardinality(PackageKeys(own)),
   breakdown |-> Breakdown(WorstAndNearest(Findings(c, own)))]

QueryProjectDetail(c, name) ==
  ProjectPage(c, name, SBOMsOf(c, name), UNION {Content[s].tags : s \in SBOMsOf(c, name)})

\* A row per component, with the number of SBOMs and of flaws.
QueryProjectPackages(c, name) ==
  LET rows_ == UNION {{<<s, Key3(p), p>> : p \in Range(Content[s].packages)} : s \in SBOMsOf(c, name)}
      flaws(purl) == {g.vuln : g \in {h \in Findings(c, SBOMsOf(c, name)) : purl # "" /\ h.purl = purl}}
  IN {LET of == {x \in rows_ : x[2] = key}
          one == (CHOOSE x \in of : TRUE)[3]
      IN [key |-> key, sboms |-> Cardinality({x[1] : x \in of}), vulns |-> Cardinality(flaws(one.purl))] :
       key \in {x[2] : x \in rows_}}

\* The SBOM list: a project's, or all.
QuerySBOMs(c, name) ==
  {[sbom |-> s, packages |-> IF s \in c.written THEN Len(Content[s].packages) ELSE 0,
    vulns |-> Cardinality(Findings(c, {s}))] :
     s \in {t \in c.sboms : name = <<>> \/ projectKeyExpr(t) = name}}

QueryProjectSBOMIDByVersion(c, name, version) ==
  CHOOSE s \in SBOMsOf(c, name) :
    /\ Content[s].version = version
    /\ \A t \in SBOMsOf(c, name) : Content[t].version = version => c.age[t] <= c.age[s]

QueryTags(c) ==
  {[tag |-> tag, sboms |-> Cardinality({s \in c.sboms : tag \in Content[s].tags}),
    projects |-> Cardinality({projectKeyExpr(s) : s \in {t \in c.sboms : tag \in Content[t].tags}}),
    isProject |-> \E s \in c.sboms : projectKeyExpr(s) = tag] :
     tag \in UNION {Content[s].tags : s \in c.sboms}}

-----------------------------------------------------------------------------
(* Groups.                                                                 *)

NewestIn(c, sboms_) == CHOOSE s \in sboms_ : \A t \in sboms_ : c.age[t] <= c.age[s]

\* The newest value of a field that is not empty.
NewestAmong(c, have, field, empty) == IF have = {} THEN empty ELSE Content[NewestIn(c, have)][field]
NewestOf(c, own, field, empty) == NewestAmong(c, {s \in own : Content[s][field] # empty}, field, empty)

NoRepo == [host |-> "", path |-> <<>>]
NoPurl == [type |-> "", path |-> <<>>]

SignalsOf(c, name, own) ==
  [project |-> name,
   explicit |-> NewestOf(c, own, "parent", <<>>),
   tags |-> UNION {Content[s].tags : s \in own},
   repo |-> NewestOf(c, own, "repo", NoRepo),
   doc |-> Content[NewestIn(c, own)].docPath,
   purl |-> NewestOf(c, own, "purl", NoPurl),
   supplier |-> NewestOf(c, own, "supplier", <<>>)]

Signals(c, name) == SignalsOf(c, name, SBOMsOf(c, name))

\* QueryProjectSignals and Resolve; the rows come in any order.
Assignments(c, order) == G!Resolve([i \in DOMAIN order |-> Signals(c, order[i])], MappingFile)

GroupRow(g, members, own, all, vulnerabilities) ==
  [name |-> g, members |-> members, isProject |-> g \in members,
   sboms |-> Cardinality(own), tags |-> UNION {Content[s].tags : s \in own},
   packages |-> Cardinality(PackageKeys(all)), vulns |-> Cardinality({Pair(f) : f \in vulnerabilities})]

GroupRows(c, groups, listed) ==
  {GroupRow(g, groups[g], {s \in listed : projectKeyExpr(s) \in groups[g]},
            {s \in c.sboms : projectKeyExpr(s) \in groups[g]},
            {f \in c.vulnerabilities : f.sbom \in c.sboms /\ projectKeyExpr(f.sbom) \in groups[g]}) :
     g \in DOMAIN groups}

GroupedRows(c, assignments, listed) ==
  GroupRows(c, G!ProjectGroups(assignments, {projectKeyExpr(s) : s \in listed}), listed)

QueryProjectGroups(c, assignments, tag) ==
  GroupedRows(c, assignments, {s \in c.sboms : tag = <<>> \/ tag \in Content[s].tags})

\* The request parameters: ?parent= stands for the members of those groups.
Filter(assignments, parents, projects) ==
  [NoFilter EXCEPT !.projects = projects,
     !.members = IF parents = {} THEN {} ELSE G!ParentMembers(assignments, parents)]

-----------------------------------------------------------------------------
(* Clusters and namespaces: by the labels on the rows of each table.       *)

\* The list and the totals; "" is every cluster.
InCluster(s, cluster) == cluster = "" \/ Content[s].cluster = cluster

QueryClusters(c) ==
  {[name |-> k, sboms |-> Cardinality({s \in c.sboms : Content[s].cluster = k}),
    vulns |-> Cardinality({g \in c.vulnerabilities : Content[g.sbom].cluster = k})] :
     k \in {Content[s].cluster : s \in c.sboms}}

QueryNamespaces(c, cluster) ==
  LET listed == {s \in c.sboms : InCluster(s, cluster)}
  IN {[name |-> n, sboms |-> Cardinality({s \in listed : Content[s].namespace = n}),
       clusters |-> Cardinality({Content[s].cluster : s \in {t \in listed : Content[t].namespace = n}}),
       vulns |-> Cardinality({g \in c.vulnerabilities :
                   InCluster(g.sbom, cluster) /\ Content[g.sbom].namespace = n})] :
       n \in {Content[s].namespace : s \in listed}}

\* The tree: the counts of a branch are sums over its leaves.
Place(s) == <<Content[s].cluster, Content[s].namespace, Content[s].project>>

Leaves(c) ==
  {[place |-> p, sboms |-> Cardinality({s \in c.sboms : Place(s) = p}),
    vulns |-> Cardinality({g \in c.vulnerabilities : Place(g.sbom) = p})] : p \in {Place(s) : s \in c.sboms}}

Branch(k, leaves) ==
  [name |-> k, sboms |-> MapThenSumSet(LAMBDA l : l.sboms, leaves), vulns |-> MapThenSumSet(LAMBDA l : l.vulns, leaves)]

QueryFleetTree(c) ==
  {Branch(k, {l \in Leaves(c) : l.place[1] = k}) : k \in {Content[s].cluster : s \in c.sboms}}

-----------------------------------------------------------------------------
(* Packages across projects, by the project column of the package rows.    *)

packageProjectKey(s) == IF Content[s].project # <<>> THEN Content[s].project ELSE Content[s].file

Uses(c) == UNION {{[sbom |-> s, project |-> packageProjectKey(s), name |-> p.name, version |-> p.version,
                    purl |-> p.purl] : p \in Range(Content[s].packages)} : s \in c.written}

QueryDependencyStats(c) ==
  {[name |-> k[1], purl |-> k[2],
    projects |-> Cardinality({u.project : u \in {x \in Uses(c) : <<x.name, x.purl>> = k}}),
    vulns |-> Cardinality({g.vuln : g \in {h \in c.vulnerabilities : k[2] # "" /\ h.purl = k[2]}})] :
     k \in {<<u.name, u.purl>> : u \in {x \in Uses(c) : x.name # ""}}}

QueryVersionSkew(c) ==
  LET named == {u \in Uses(c) : u.name # "" /\ u.version # ""}
      versions(name) == {u.version : u \in {x \in named : x.name = name}}
      of(name, v) == {u.project : u \in {x \in Uses(c) : x.name = name /\ x.version = v}}
  IN {[name |-> name, projects |-> Cardinality({u.project : u \in {x \in named : x.name = name}}),
       versions |-> {[version |-> v, projects |-> of(name, v)] : v \in versions(name)}] :
        name \in {u.name : u \in {x \in named : Cardinality(versions(x.name)) > 1}}}

QueryDependencySearch(c, found) ==
  {[name |-> name, projects |-> Cardinality({u.project : u \in {x \in Uses(c) : x.name = name}}),
    versions |-> {u.version : u \in {x \in Uses(c) : x.name = name}}] :
     name \in {u.name : u \in Uses(c)} \cap found}

QueryPackageDetail(c, name) == {u.project : u \in {x \in Uses(c) : x.name = name}}

\* The search box: packages, projects and flaws.
QueryGlobalSearch(c, found) ==
  [packages |-> {[name |-> name, projects |-> Cardinality({u.project : u \in {x \in Uses(c) : x.name = name}})] :
                   name \in {u.name : u \in Uses(c)} \cap found},
   projects |-> {[name |-> k, sboms |-> Cardinality({s \in c.sboms : SearchKey(s) = k})] :
                   k \in {SearchKey(s) : s \in c.sboms}},
   flaws |-> {[vuln |-> v, sboms |-> Cardinality({g.sbom : g \in {h \in c.vulnerabilities : h.vuln = v}})] :
                v \in {g.vuln : g \in {h \in c.vulnerabilities : Names(h) \cap found # {}}}}]
================================================================================
