------------------------------ MODULE MCVEXScope ------------------------------
(* Model-checking instances: one document about two products, whose SBOMs   *)
(* come into a corpus of five earlier ones.                                 *)
EXTENDS ReadSide, TLC

CONSTANTS w1, w2, s1, s2, v1, v2, p1, p2, wide, part, also, d, e1, e2, e3, e4, e5

\* p1 is the product of s1, p2 of s2.
Products == (s1 :> {p1}) @@ (s2 :> {p2})
\* A statement about the whole of p1, one about a component of p2 and one of p1.
ProductOf == (wide :> p1) @@ (part :> p2) @@ (also :> p1)
DocOf == [x \in {v1, v2, wide, part, also} |-> d]
IDsOf == [st \in {wide, part, also} |-> st]
NoTarget == [j \in VEXJobs |-> None]

SaysOf ==
  (wide :> [vuln |-> "CVE-1", purl |-> "", status |-> "not_affected", time |-> 3])
    @@ (part :> [vuln |-> "GHSA-1", purl |-> "pa", status |-> "not_affected", time |-> 2])
    @@ (also :> [vuln |-> "CVE-1", purl |-> "pa", status |-> "affected", time |-> 1])

-----------------------------------------------------------------------------
Pkg(name, version, purl, license) == [name |-> name, version |-> version, purl |-> purl, license |-> license]
Rel(i, kind, j) == [source |-> i, kind |-> kind, target |-> j]
Flaw(vuln, purl, severity, aliases) == [vuln |-> vuln, purl |-> purl, severity |-> severity, aliases |-> aliases]
Lic(license, category, count, packages, exempted) ==
  [license |-> license, category |-> category, count |-> count, packages |-> packages, exempted |-> exempted]

\* A document without labels, packages or relationships.
Blank ==
  [project |-> <<>>, file |-> <<"local.json">>, name |-> <<>>, docPath |-> <<>>,
   version |-> [numbers |-> <<1>>, release |-> TRUE],
   tags |-> {}, cluster |-> "", namespace |-> "", parent |-> <<>>,
   repo |-> [host |-> "", path |-> <<>>], purl |-> [type |-> "", path |-> <<>>], supplier |-> <<>>,
   packages |-> <<>>, rels |-> {}, roots |-> {}, seeds |-> {}, findings |-> {}, licenses |-> {}]

pa == Pkg("a", "1", "pa", "MIT")
pb == Pkg("b", "1", "pb", "GPL-3.0-only")
pc == Pkg("c", "1", "pc", "AGPL-3.0-only")
A(aliases) == Flaw("CVE-1", "pa", "HIGH", aliases)
GPL == Lic("GPL-3.0-only", "copyleft", 1, {"b"}, {})

\* Two versions of one project.  In s1 a package is a child of the root and of a
\* seed; in s2 packages of one purl lie at two depths.
Shop(minor) == [Blank EXCEPT !.project = <<"shop">>, !.version.numbers = <<1, minor>>, !.cluster = "c1",
                             !.namespace = "n1", !.tags = {<<"core">>},
                             !.repo = [host |-> "github.com", path |-> <<"acme", "shop">>]]
Shop9 == [Shop(9) EXCEPT
  !.packages = <<Pkg("shop", "1", "ps", "MIT"), pa, pb, pc>>,
  !.rels = {Rel(1, "forward", 3), Rel(2, "forward", 3), Rel(4, "backward", 3), Rel(3, "ignore", 4), Rel(3, "forward", 9)},
  !.roots = {1}, !.seeds = {2},
  !.findings = {A({"GHSA-1"}), Flaw("CVE-2", "pb", "LOW", {})},
  !.licenses = {GPL, Lic("AGPL-3.0-only", "copyleft", 1, {"c"}, {}), Lic("MIT", "permissive", 2, {}, {})}]
Shop10 == [Shop(10) EXCEPT
  !.packages = <<Pkg("shop", "2", "", "MIT"), pb, pa, Pkg("a", "2", "pa", "MIT")>>,
  !.rels = {Rel(1, "forward", 2), Rel(3, "backward", 2), Rel(1, "forward", 4), Rel(2, "forward", 2)},
  !.roots = {1},
  !.findings = {A({"GHSA-1"}), Flaw("CVE-2", "pb", "MEDIUM", {})},
  !.licenses = {GPL, Lic("MIT", "permissive", 3, {}, {})}]

\* A release and its pre-release, named by their documents and tagged with a project.
Web(release, at) == [Blank EXCEPT
  !.file = <<"web.json">>, !.name = <<<<"web">>, at>>, !.version = [numbers |-> <<2, 0>>, release |-> release],
  !.cluster = "c1", !.namespace = "n2", !.tags = {<<"shop">>, <<"core">>}, !.supplier = <<"Web Inc">>,
  !.packages = <<pa, Pkg("b", "2", "", "GPL-3.0-only")>>, !.rels = {Rel(1, "forward", 2)},
  !.findings = {A({})},
  !.licenses = {Lic("GPL-3.0-only", "copyleft", 1, {"b"}, {}), Lic("MIT", "permissive", 1, {}, {})}]

\* Two projects of one owner, written in two ways, in a bucket.
OrgA == [Blank EXCEPT
  !.project = <<"Org", "a">>, !.file = <<"s3:", "bucket", "team", "x", "a.json">>, !.cluster = "c2", !.namespace = "n1",
  !.repo = [host |-> "github.com", path |-> <<"Org", "a">>],
  !.packages = <<pc, pb>>, !.seeds = {1}, !.findings = {Flaw("CVE-3", "pc", "CRITICAL", {"GHSA-3"})},
  !.licenses = {Lic("AGPL-3.0-only", "copyleft", 1, {"c"}, {}), GPL}]
OrgB == [Blank EXCEPT
  !.file = <<"s3:", "bucket", "org", "b", "v1", "b.json">>, !.namespace = "n1",
  !.purl = [type |-> "golang", path |-> <<"github.com", "org", "b", "v2">>],
  !.packages = <<pa, pc>>, !.findings = {Flaw("CVE-3", "pc", "HIGH", {})},
  !.licenses = {Lic("AGPL-3.0-only", "copyleft", 1, {"c"}, {}), Lic("MIT", "permissive", 1, {}, {})}]

\* A project that names web as its parent.
Tool == [Blank EXCEPT
  !.file = <<"tool">>, !.parent = <<"web">>, !.docPath = <<"ghcr.io", "acme", "tool">>,
  !.packages = <<Pkg("", "", "pb", "NOASSERTION")>>, !.findings = {Flaw("CVE-2", "pb", "LOW", {})},
  !.licenses = {Lic("NOASSERTION", "unknown", 1, {"b"}, {})}]

ContentOf ==
  (s1 :> Shop9) @@ (s2 :> Shop10) @@ (e1 :> Web(FALSE, <<"rc">>)) @@ (e2 :> Web(TRUE, <<"2.0">>))
    @@ (e3 :> OrgA) @@ (e4 :> OrgB) @@ (e5 :> Tool)

\* Names, in their order.
NameOrder == <<<<"Org">>, <<"Org", "a">>, <<"acme">>, <<"core">>, <<"org">>, <<"org", "b">>, <<"shop">>, <<"tool">>,
               <<"web">>, <<"Web Inc">>, <<"github.com", "org">>>>
RankOf == [n \in Range(NameOrder) |-> CHOOSE i \in DOMAIN NameOrder : NameOrder[i] = n]
LowerOf == <<"Org">> :> <<"org">> @@ <<"Web Inc">> :> <<"web inc">>
NoMapping == <<>>

\* An exception for one license, and one for a package of one document.
CoveredOf == {<<"b", "GPL-3.0-only", <<<<"web">>, <<"rc">>>>>>}
ReposOf == "ps" :> "gh/s" @@ "pa" :> "gh/a" @@ "pb" :> "gh/b" @@ "pc" :> "gh/c"

\* The two jobs bring the same document.
Symmetry == Permutations(Workers) \cup Permutations(VEXJobs)
================================================================================
