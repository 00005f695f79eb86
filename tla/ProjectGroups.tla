----------------------------- MODULE ProjectGroups -----------------------------
(***************************************************************************)
(* Which project an SBOM belongs to is a name; which parent a project      *)
(* belongs to is worked out from signals in its SBOMs at every request.    *)
(* The result is used in four places that have to agree: the grouped       *)
(* listing, the parent of a listed project, the children on a project's    *)
(* page, and the ?parent= filter of the vulnerability listings.            *)
(*                                                                         *)
(* A name or path (of a project, a repository, a document, a purl) is the  *)
(* sequence of its segments; a glob is the set of names it matches.        *)
(***************************************************************************)
EXTENDS Naturals, Sequences, FiniteSets

CONSTANTS
  Rank,      \* the alphabetical order of names: a number for each
  Lower,     \* the lower case of each name that is not lower case
  Hosts,     \* the path segments that contain a "."
  Majors     \* the path segments of the form v[0-9]+

Nameless == <<>>
Fold(x) == IF x \in DOMAIN Lower THEN Lower[x] ELSE x

\* The alphabetically first of a set of names.
First(names) == CHOOSE n \in names : \A m \in names : Rank[n] <= Rank[m]

-----------------------------------------------------------------------------
(* Owner keys.                                                             *)

Parent(path) == SubSeq(path, 1, Len(path) - 1)

\* Everything between the host and the repository's name; Azure DevOps and
\* Bitbucket Server have markers in their paths.
OwnerFromRepo(repo) ==
  LET path == repo.path
  IN IF repo.host = "" THEN Nameless
     ELSE IF repo.host = "dev.azure.com" /\ Len(path) >= 4 /\ path[3] = "_git" THEN SubSeq(path, 1, 2)
     ELSE IF repo.host = "visualstudio.com" /\ Len(path) >= 3 /\ path[2] = "_git" THEN <<repo.org, path[1]>>
     ELSE IF Len(path) >= 3 /\ path[1] = "scm" THEN <<path[2]>>
     ELSE IF Len(path) >= 4 /\ path[1] = "projects" /\ path[3] = "repos" THEN <<path[2]>>
     ELSE IF Len(path) < 2 THEN Nameless
     ELSE Parent(path)

\* A path without its leading registry or host.
WithoutHost(path) == IF Len(path) > 2 /\ path[1] \in Hosts THEN Tail(path) ELSE path

\* The first token of the name, if it has the form owner/repo.
OwnerFromDocumentName(token) == IF Len(token) < 2 THEN Nameless ELSE Parent(WithoutHost(token))

\* The namespace of a purl, normalised by its type.
Namespace(purl) ==
  IF purl.type = "golang" /\ Len(purl.path) > 1 /\ purl.path[Len(purl.path)] \in Majors
  THEN Parent(Parent(purl.path)) ELSE Parent(purl.path)

OwnerFromNamespace(purl, ns) ==
  IF purl.path = Nameless THEN Nameless
  ELSE IF purl.type = "golang" /\ Len(ns) > 1 /\ ns[1] \in Hosts THEN Tail(ns)
  ELSE IF purl.type \in {"oci", "docker"} /\ ns = Nameless THEN OwnerFromDocumentName(purl.repository)
  ELSE ns

OwnerFromPURL(purl) == OwnerFromNamespace(purl, Namespace(purl))

FirstNamed(sources) ==
  LET named == {i \in DOMAIN sources : sources[i].owner # Nameless}
  IN IF named = {} THEN [owner |-> Nameless, src |-> ""]
     ELSE sources[CHOOSE i \in named : \A j \in named : i <= j]

\* The owner by the most direct signal that has one, and which that is.
OwnerKey(s) ==
  FirstNamed(<< [owner |-> OwnerFromRepo(s.repo), src |-> "repo"],
                [owner |-> OwnerFromDocumentName(s.doc), src |-> "document"],
                [owner |-> OwnerFromPURL(s.purl), src |-> "purl"],
                [owner |-> s.supplier, src |-> "supplier"] >>)

-----------------------------------------------------------------------------
(* The mapping file: its groups in order, the first that matches wins.     *)

Applies(g, s) ==
  \/ s.project \in g.projects
  \/ s.repo.path # Nameless /\ s.repo \in g.repos
  \/ OwnerKey(s).owner # Nameless /\ Fold(OwnerKey(s).owner) \in g.owners
  \/ s.supplier # Nameless /\ Fold(s.supplier) \in g.suppliers

\* ParseRules: each group has a parent or is standalone, and matches something.
ValidRules(rules) ==
  \A i \in DOMAIN rules :
    /\ (rules[i].parent # Nameless) # rules[i].standalone
    /\ rules[i].projects \cup rules[i].repos \cup rules[i].owners \cup rules[i].suppliers # {}

Matching(rules, s) == {i \in DOMAIN rules : Applies(rules[i], s)}
FirstGroup(rules, s) == rules[CHOOSE i \in Matching(rules, s) : \A j \in Matching(rules, s) : i <= j]

-----------------------------------------------------------------------------
(* Resolve.  `signals` is a sequence: the rows of a GROUP BY come in any   *)
(* order.  An assignment gives the projects that have a parent.            *)

Names(signals) == {signals[i].project : i \in DOMAIN signals}

\* tagParent: the first tag that is another project's name.
TagParents(s, names) == (s.tags \cap names) \ {s.project}

\* Which of the four rules decides: the file (perhaps for no parent at all),
\* the explicit parent, a tag, or the owner.
RuleFor(s, names, rules) ==
  IF Matching(rules, s) # {} THEN "config"
  ELSE IF s.explicit \notin {Nameless, s.project} THEN "explicit"
  ELSE IF TagParents(s, names) # {} THEN "tag"
  ELSE IF OwnerKey(s).owner # Nameless THEN "owner"
  ELSE "none"

\* Families: the positions of the projects that share an owner, which only
\* the owner can group.
Family(signals, rules, i) ==
  {j \in DOMAIN signals : /\ RuleFor(signals[j], Names(signals), rules) = "owner"
                          /\ Fold(OwnerKey(signals[j]).owner) = Fold(OwnerKey(signals[i]).owner)}

\* The members whose name has no "/".
TopLevel(signals, family) == {j \in family : Len(signals[j].project) = 1}

\* Mutation: the owner as the first row writes it.
LabelOfFirstRow(signals, family) ==
  OwnerKey(signals[CHOOSE j \in family : \A k \in family : j <= k]).owner

\* familyLabel: the owner as its alphabetically first member writes it.
FamilyLabel(signals, family) ==
  LET first == First({signals[j].project : j \in family})
  IN OwnerKey(signals[CHOOSE j \in family : signals[j].project = first]).owner

\* The parent of a family's members: its one top-level project, or the owner if
\* it has none and at least two members.  Several top-level ones: ambiguous.
FamilyParent(signals, family) ==
  LET tops == TopLevel(signals, family)
  IN IF Cardinality(tops) = 1 THEN signals[CHOOSE j \in tops : TRUE].project
     ELSE IF tops = {} /\ Cardinality(family) >= 2 THEN FamilyLabel(signals, family)
     ELSE Nameless

NoParent == [parent |-> Nameless, source |-> ""]
To(s, parent, source) ==
  IF parent \in {Nameless, s.project} THEN NoParent ELSE [parent |-> parent, source |-> source]

\* The parent of the project in row i, Nameless or a name, by the rule that decides.
ParentBy(rule, signals, rules, i) ==
  LET s == signals[i]
  IN IF rule = "config" /\ FirstGroup(rules, s).standalone THEN NoParent
     ELSE IF rule = "config" THEN To(s, FirstGroup(rules, s).parent, "config")
     ELSE IF rule = "explicit" THEN To(s, s.explicit, "explicit")
     ELSE IF rule = "tag" THEN To(s, First(TagParents(s, Names(signals))), "tag")
     ELSE IF rule = "owner" THEN To(s, FamilyParent(signals, Family(signals, rules, i)), OwnerKey(s).src)
     ELSE NoParent

Resolved(signals, rules, i) == ParentBy(RuleFor(signals[i], Names(signals), rules), signals, rules, i)

\* The projects that have a parent.
Given(all) == [p \in {q \in DOMAIN all : all[q].parent # Nameless} |-> all[p]]

Resolve(signals, rules) ==
  Given([p \in Names(signals) |->
           Resolved(signals, rules, CHOOSE i \in DOMAIN signals : signals[i].project = p)])

-----------------------------------------------------------------------------
(* What the gateway makes of the assignments.                              *)

ParentOf(assignments, p) == IF p \in DOMAIN assignments THEN assignments[p].parent ELSE Nameless
Heads(assignments) == {assignments[p].parent : p \in DOMAIN assignments}

\* groupName: a project others name as their parent heads its own group.
GroupName(assignments, p) ==
  IF p \in Heads(assignments) \/ p \notin DOMAIN assignments THEN p ELSE assignments[p].parent

\* QueryProjectGroups: the groups of the listed projects with their members.
ProjectGroups(assignments, listed) ==
  [g \in {GroupName(assignments, p) : p \in listed} |-> {p \in listed : GroupName(assignments, p) = g}]

\* AnnotateProjectDetail.
ChildrenOf(assignments, name) == {p \in DOMAIN assignments : assignments[p].parent = name}

\* Mutation: the projects that head a group of their own are included.
AllAssigned(assignments, parents) == parents \cup {p \in DOMAIN assignments : assignments[p].parent \in parents}

\* parentMembers: the projects that ?parent= stands for.
ParentMembers(assignments, parents) ==
  parents \cup {p \in DOMAIN assignments : assignments[p].parent \in parents /\ p \notin Heads(assignments)}
================================================================================
