------------------------------ MODULE FindingViews ------------------------------
(***************************************************************************)
(* The pages of the API gateway that show findings and which of them VEX   *)
(* suppresses (internal/clickhouse).  Each page has a query of its own over *)
(* the tables the workers write, so that two pages agree on a number only  *)
(* if their joins do; here each query is an operator over a corpus c:      *)
(*   c.sboms    the SBOMs with a row in sboms                              *)
(*   c.written  those with rows in the other tables: written before sboms  *)
(*   c.depths   the depth of each of their packages                        *)
(*   c.vulnerabilities   the rows of `vulnerabilities`                      *)
(*   c.vex      the rows of vex_statements                                 *)
(* A page reads the tables one after the other; c is one state of them.    *)
(* A LEFT JOIN without a match gives '' and 0, as the server is configured.*)
(***************************************************************************)
EXTENDS VEXScope, Depgraph

CONSTANTS
  Earlier,        \* SBOMs ingested before VEXScope's run, of no product it describes
  Content,        \* the parsed document of each SBOM
  Says            \* of each statement: the finding's id, its package, status and time

Documents == SBOMs \cup Earlier

\* What the worker stores of an SBOM: depths, and the findings with theirs.
Depths == [s \in Documents |->
  Compute(Len(Content[s].packages), Content[s].rels, Content[s].roots, Content[s].seeds)]

FindingsOf == [s \in Documents |->
  {[sbom |-> s, vuln |-> f.vuln, purl |-> f.purl, severity |-> f.severity, aliases |-> f.aliases,
    depth |-> MinDepthForPURL(Content[s].packages, Depths[s], f.purl)] : f \in Content[s].findings}]

\* The rows of these SBOMs.
Findings(c, sboms_) == {g \in c.vulnerabilities : g.sbom \in sboms_}
Pair(f) == <<f.vuln, f.purl>>
Names(f) == {f.vuln} \cup f.aliases

Severities == <<"LOW", "MEDIUM", "HIGH", "CRITICAL">>
Rank4(severity) == CHOOSE i \in DOMAIN Severities : Severities[i] = severity
Worst(severities) == Severities[Max({Rank4(x) : x \in severities})]

\* argMax(status, vex_timestamp): equal times are left to the engine.
Newest(rows_) == Says[(CHOOSE r \in rows_ : \A q \in rows_ : Says[q.st].time <= Says[r.st].time).st].status
Status(rows_) == IF rows_ = {} THEN "" ELSE Newest(rows_)

\* product_purl.
Everything == "*"
ProductPURL(r) == IF r.st \in Wide THEN Everything ELSE Says[r.st].purl
ScopedRows(c) == {r \in c.vex : r.sbom # None}

-----------------------------------------------------------------------------
(* Ownership filters.                                                      *)

\* The project of an SBOM: its column, or the path in the bucket, or what comes
\* before the first " - " of its document name.  Paths are sequences of segments.
KeyOf(d) ==
  IF d.project # <<>> THEN d.project
  ELSE IF d.file[1] = "s3:" THEN IF Len(d.file) > 5 THEN SubSeq(d.file, 3, 4) ELSE <<d.file[3]>>
  ELSE IF d.name # <<>> THEN d.name[1]
  ELSE d.file
projectKeyExpr(s) == KeyOf(Content[s])

NoFilter == [clusters |-> {}, namespaces |-> {}, projects |-> {}, members |-> {}, tags |-> {}]

\* ownerPredicate: values of a field are alternatives, fields are conjuncts.
\* Without a filter the rows of SBOMs that are not in sboms yet count, too.
Owned(c, f) ==
  IF f = NoFilter THEN c.written
  ELSE {s \in c.sboms :
         /\ f.clusters # {} => Content[s].cluster \in f.clusters
         /\ f.namespaces # {} => Content[s].namespace \in f.namespaces
         /\ f.projects # {} => projectKeyExpr(s) \in f.projects
         /\ f.members # {} => projectKeyExpr(s) \in f.members
         /\ f.tags # {} => Content[s].tags \cap f.tags # {}}

\* depthPredicate: "" is no filter.
InScope(f, scope) ==
  CASE scope = "root" -> f.depth = 0
    [] scope = "direct" -> f.depth = 1
    [] scope = "transitive" -> f.depth \in 2..(Unknown - 1)
    [] scope = "unknown" -> f.depth = Unknown
    [] OTHER -> TRUE

-----------------------------------------------------------------------------
(* The queries.                                                            *)

NotAffected(hits) == hits # {} /\ Newest(hits) = "not_affected"

\* Mutation: statements about the whole product are not joined.
ComponentsOnly(c, findings) ==
  {f \in findings : NotAffected({r \in ScopedRows(c) : /\ r.sbom = f.sbom /\ Says[r.st].vuln \in Names(f)
                                                      /\ ProductPURL(r) = f.purl})}

\* The dashboard's join: the findings whose newest statement is not_affected.
Suppressed(c, findings) ==
  {f \in findings : NotAffected({r \in ScopedRows(c) : /\ r.sbom = f.sbom /\ Says[r.st].vuln \in Names(f)
                                                      /\ ProductPURL(r) \in {f.purl, Everything}})}

\* scanSeverityScopes: counts per severity and scope.
Breakdown(findings) ==
  [k \in {<<f.severity, Scope(f.depth)>> : f \in findings} |->
     Cardinality({f \in findings : <<f.severity, Scope(f.depth)>> = k})]

Total(breakdown) == MapThenSumSet(LAMBDA k : breakdown[k], DOMAIN breakdown)

Counts(c, own, findings, suppressed) ==
  [sboms |-> Cardinality(own \cap c.sboms),
   vulnerabilities |-> Cardinality(findings),
   breakdown |-> Breakdown(findings),
   suppressed |-> suppressed,
   effective |-> Cardinality(findings) - suppressed]

StatsOf(c, own) == Counts(c, own, Findings(c, own), Cardinality(Suppressed(c, Findings(c, own))))
QueryDashboardStats(c, f) == StatsOf(c, Owned(c, f))

\* vulnerabilityListSQL, the listing and its CSV export: the statements are joined
\* to every finding first, the filters choose among the rows.
Joined(c) ==
  {<<g, r>> \in c.vulnerabilities \X ScopedRows(c) :
     /\ Says[r.st].vuln \in Names(g) /\ r.sbom = g.sbom
     /\ ProductPURL(r) \in {g.purl, Everything}}

WithStatus(rows_, joined) ==
  {[finding |-> g, status |-> Status({j[2] : j \in {i \in joined : i[1].sbom = g.sbom /\ Pair(i[1]) = Pair(g)}})] :
     g \in rows_}

QueryVulnerabilities(c, scope, f) == WithStatus({h \in Findings(c, Owned(c, f)) : InScope(h, scope)}, Joined(c))

\* The page of one SBOM.
QuerySBOMVulnerabilities(c, s, scope) ==
  LET own == {r \in c.vex : r.sbom = s}
      covers(g) == {r \in own : Says[r.st].vuln \in Names(g) /\ ProductPURL(r) \in {g.purl, Everything}}
  IN {[finding |-> g, status |-> Status(covers(g))] :
        g \in {h \in Findings(c, {s}) : InScope(h, scope)}}

QuerySBOMDetail(c, s) == Breakdown(Findings(c, {s}))

\* A project's badge: the findings of its latest SBOM that are not suppressed.
BadgeVulns(c, s) ==
  [severity \in {"LOW", "MEDIUM", "HIGH", "CRITICAL"} |->
     Cardinality({v \in QuerySBOMVulnerabilities(c, s, "") :
                    v.status # "not_affected" /\ v.finding.severity = severity})]

\* The page of a project: a row per pair, with the newest statement of all its SBOMs.
PairRow(c, pair, of, hits) ==
  [pair |-> pair, severity |-> Worst({g.severity : g \in of}), sboms |-> {g.sbom : g \in of},
   depth |-> Min({g.depth : g \in of}), status |-> Status(hits)]

PairRows(c, own, all, scope) ==
  {PairRow(c, pair, {g \in all : Pair(g) = pair /\ InScope(g, scope)},
           {r \in ScopedRows(c) : /\ r.sbom \in own /\ ProductPURL(r) \in {pair[2], Everything}
                                  /\ \E g \in all : Pair(g) = pair /\ Says[r.st].vuln \in Names(g)}) :
     pair \in {Pair(g) : g \in {h \in all : InScope(h, scope)}}}

ProjectFindings(c, own, scope) == PairRows(c, own, Findings(c, own), scope)
QueryProjectVulnerabilities(c, name, scope) ==
  ProjectFindings(c, {s \in c.sboms : projectKeyExpr(s) = name}, scope)

-----------------------------------------------------------------------------
(* Who is affected by a flaw, under any of its names.                      *)

resolveVulnIDs(c, id) == {g.vuln : g \in {h \in c.vulnerabilities : id \in Names(h)}}

\* aliasGroups: the other names of an id in the findings that know it.
lookupAliases(c, id) == UNION {Names(g) : g \in {h \in c.vulnerabilities : id \in Names(h)}} \ {id}

MatchIDs(c, id) ==
  {id} \cup resolveVulnIDs(c, id) \cup UNION {lookupAliases(c, v) : v \in resolveVulnIDs(c, id)}

\* A statement about the package is preferred, whatever its time.
Preferred(exact, wide_) == IF exact # {} THEN Newest(exact) ELSE Status(wide_)

AffectedRows(c, own, hits, said) ==
  UNION {{[sbom |-> s, purl |-> purl,
           severity |-> Worst({g.severity : g \in {h \in hits : h.purl = purl}}),
           status |-> Preferred({r \in said : r.sbom = s /\ ProductPURL(r) = purl},
                                {r \in said : r.sbom = s /\ ProductPURL(r) = Everything}),
           depth |-> MinDepthForPURL(Content[s].packages, c.depths[s], purl)] :
            purl \in {p.purl : p \in Range(Content[s].packages)} \cap {g.purl : g \in hits}} : s \in own}

QueryAffectedProjectsByCVE(c, id, f) ==
  AffectedRows(c, Owned(c, f), {g \in c.vulnerabilities : g.vuln \in resolveVulnIDs(c, id)},
               {r \in c.vex : Says[r.st].vuln \in MatchIDs(c, id)})

\* The SBOMs a statement is shown to affect: those that carry its package.
QueryVEXStatements(c) ==
  {[row |-> r, affected |-> {s \in c.written : \E p \in Range(Content[s].packages) : p.purl = ProductPURL(r)}] :
     r \in c.vex}
================================================================================
