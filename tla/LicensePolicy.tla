----------------------------- MODULE LicensePolicy -----------------------------
(***************************************************************************)
(* Which category a license string has, what the license exceptions cover, *)
(* and the split of an SBOM's packages that follows from both              *)
(* (internal/license).  The split is made three times: by the worker that  *)
(* ingests the SBOM, by the recheck of its stored rows under newer rules,  *)
(* and by the gateway each time it lists violations.                       *)
(*                                                                         *)
(* A license string is a sequence of words.  A word is the sequence of its *)
(* parts: MIT-0 is <<"MIT", "0">>, and GPL-2.0+ is <<"GPL", "2.0", "+">>.   *)
(***************************************************************************)
EXTENDS Integers, FiniteSets, SequencesExt

CONSTANTS
  Permissive, Copyleft,   \* the lists of the policy file: license strings
  Spellings,              \* free-text words and the SPDX text they stand for
  TempNames,              \* package names Go builds leave behind
  Everywhere              \* the scopes that mean every project: "", "*", "all ... projects"

And == <<"AND">>
Or == <<"OR">>
With == <<"WITH">>
Comma == <<",">>
Open == <<"(">>
Close == <<")">>
Operators == {And, Or, With, Comma, Open, Close}

-----------------------------------------------------------------------------
(* The expression parser.                                                  *)

Failed == [op |-> "failed"]
Leaf(text) == [op |-> "leaf", text |-> text]

Level(text, i) ==
  Cardinality({k \in 1..i : text[k] = Open}) - Cardinality({k \in 1..i : text[k] = Close})

\* The positions of an operator outside all parentheses.
Cuts(text, ops) == {i \in DOMAIN text : text[i] \in ops /\ Level(text, i) = 0}

\* The texts between the cuts.
Operands(text, cuts) ==
  {SubSeq(text, i + 1, Min({j - 1 : j \in {k \in cuts : k > i}} \cup {Len(text)})) : i \in cuts \cup {0}}

IsPrimary(text) ==
  \/ Len(text) = 1 /\ text[1] \notin Operators
  \/ Len(text) > 1 /\ text[1] = Open /\ Last(text) = Close

RECURSIVE parseExpression(_)

Node(op, operands) ==
  LET of == {parseExpression(t) : t \in operands}
  IN IF Failed \in of THEN Failed ELSE [op |-> op, of |-> of]

\* Mutation: AND and OR bind the other way round.
AndFirst(text) ==
  IF Cuts(text, {And, Comma}) # {} THEN Node("and", Operands(text, Cuts(text, {And, Comma})))
  ELSE IF Cuts(text, {Or}) # {} THEN Node("or", Operands(text, Cuts(text, {Or})))
  ELSE IF Len(text) = 1 /\ text[1] \notin Operators THEN Leaf(text)
  ELSE IF IsPrimary(text) THEN parseExpression(SubSeq(text, 2, Len(text) - 1))
  ELSE Failed

\* WITH binds tighter than AND, AND tighter than OR; a comma is an AND.
parseExpression(text) ==
  LET front == SubSeq(text, 1, Len(text) - 2)
  IN IF Cuts(text, {Or}) # {} THEN Node("or", Operands(text, Cuts(text, {Or})))
     ELSE IF Cuts(text, {And, Comma}) # {} THEN Node("and", Operands(text, Cuts(text, {And, Comma})))
     ELSE IF Len(text) = 1 /\ text[1] \notin Operators THEN Leaf(text)
     ELSE IF IsPrimary(text) THEN parseExpression(SubSeq(text, 2, Len(text) - 1))
     ELSE IF Len(text) > 2 /\ text[Len(text) - 1] = With /\ Last(text) \notin Operators /\ IsPrimary(front) THEN
            LET license == parseExpression(front)
            IN IF license.op = "leaf" THEN Leaf(license.text \o <<With, Last(text)>>) ELSE Failed
     ELSE Failed

RECURSIVE leafIDs(_)
leafIDs(tree) == IF tree.op = "leaf" THEN {tree.text} ELSE UNION {leafIDs(c) : c \in tree.of}

-----------------------------------------------------------------------------
(* Categories.                                                             *)

\* Free-text words are replaced by the SPDX text they stand for.
Normalize(text) ==
  FlattenSeq([i \in DOMAIN text |-> IF text[i] \in DOMAIN Spellings THEN Spellings[text[i]] ELSE <<text[i]>>])

isNoLicenseInfo(text) == text \in {<<>>, << <<"NOASSERTION">> >>, << <<"NONE">> >>, << <<"UNKNOWN">> >>}

\* The string goes on with a "-" after the base.
Extends(text, base) ==
  LET n == Len(base) IN
  /\ n \in 1..Len(text) /\ Front(base) = SubSeq(text, 1, n - 1)
  /\ IsStrictPrefix(base[n], text[n]) /\ text[n][Len(base[n]) + 1] # "+"

\* "unknown" is "not listed" here.
categorizeSingle(text) ==
  IF text \in Permissive THEN "permissive"
  ELSE IF text \in Copyleft THEN "copyleft"
  ELSE IF \E base \in Permissive : Extends(text, base) THEN "permissive"
  ELSE IF \E base \in Copyleft : Extends(text, base) THEN "copyleft"
  ELSE "unknown"

\* The string with another ending.
Suffixed(text, ending) == Append(Front(text), Last(text) \o ending)

\* The first of the spellings that is listed.
FirstListed(texts) ==
  LET listed == SelectSeq(texts, LAMBDA t : categorizeSingle(t) # "unknown")
  IN IF listed = <<>> THEN "unknown" ELSE categorizeSingle(listed[1])

\* Bare and "-with-" identifiers are deprecated spellings of "-only" ones.
lookupDeprecated(text) ==
  LET cut == {i \in DOMAIN Last(text) : Last(text)[i] = "with"}
      base == IF cut = {} THEN text ELSE Append(Front(text), SubSeq(Last(text), 1, Min(cut) - 1))
  IN FirstListed(<<base, Suffixed(base, <<"only">>)>>)

\* The identifier itself, without its exception, or in a newer spelling.
resolveLeaf(text) ==
  LET with == {i \in DOMAIN text : text[i] = With}
      plain == Append(Front(text), Front(Last(text)))
  IN IF categorizeSingle(text) # "unknown" THEN categorizeSingle(text)
     ELSE IF with # {} THEN categorizeSingle(SubSeq(text, 1, Min(with) - 1))
     ELSE IF Last(Last(text)) = "+" THEN FirstListed(<<Suffixed(plain, <<"or", "later">>), plain>>)
     ELSE lookupDeprecated(text)

lookupLeaf(text) ==
  IF resolveLeaf(text) # "unknown" THEN resolveLeaf(text)
  ELSE IF isNoLicenseInfo(text) THEN "unknown"
  ELSE "unapproved"

severity == [permissive |-> 0, unknown |-> 1, unapproved |-> 2, copyleft |-> 3]
combineChoice(cats) == CHOOSE c \in cats : \A d \in cats : severity[c] <= severity[d]
combineConjunction(cats) == CHOOSE c \in cats : \A d \in cats : severity[c] >= severity[d]

RECURSIVE evaluate(_, _)
evaluate(tree, mode) ==
  IF tree.op = "leaf" THEN lookupLeaf(tree.text)
  ELSE LET cats == {evaluate(c, mode) : c \in tree.of}
       IN IF tree.op = "or" \/ mode = "permissive-wins" THEN combineChoice(cats) ELSE combineConjunction(cats)

\* A policy entry for the whole string wins, as does one it is an extension of.
Categorize(raw, mode) ==
  LET text == Normalize(raw)
      tree == parseExpression(text)
  IN IF isNoLicenseInfo(text) THEN "unknown"
     ELSE IF categorizeSingle(text) # "unknown" THEN categorizeSingle(text)
     ELSE IF mode = "off" THEN "unapproved"
     ELSE IF \A i \in DOMAIN text : text[i] \notin Operators THEN lookupLeaf(text)
     ELSE IF tree = Failed THEN "unknown"
     ELSE evaluate(tree, mode)

-----------------------------------------------------------------------------
(* Exceptions: a document has blanket entries and package rules.           *)

statusIsApproved(entry) == entry.status \in {"approved", "allowlisted"}

\* The licenses an entry names; one that does not parse is taken literally.
splitLicenses(text) ==
  LET tree == parseExpression(text)
  IN IF text = <<>> THEN {}
     ELSE IF tree = Failed THEN {text}
     ELSE leafIDs(tree)

\* IsExempt with no package: by a blanket entry for the license or a base of it.
IsBlanket(doc, license) ==
  \E entry \in doc.blanket :
    /\ statusIsApproved(entry)
    /\ \E base \in splitLicenses(entry.license) : license = base \/ Extends(license, base)

\* A package name is a path; a rule may leave out its beginning.
Names(rule, package) == rule.package # <<>> /\ IsSuffix(rule.package, package)

matchesProject(rule, project) == rule.project \in Everywhere \cup {project}

IsExempt(doc, package, license, project) ==
  \/ IsBlanket(doc, license)
  \/ \E rule \in doc.rules :
       /\ statusIsApproved(rule) /\ Names(rule, package) /\ matchesProject(rule, project)
       /\ rule.license = <<>> \/ license \in splitLicenses(rule.license)

-----------------------------------------------------------------------------
(* The split.  A package is a record with a name and a license.            *)

\* CheckWithExceptions: a row per license.
CheckWithExceptions(packages, doc, project, mode) ==
  LET kept == {p \in packages : p.name \notin TempNames}
      row(license) ==
        LET own == {p \in kept : p.license = license}
            category == Categorize(license, mode)
            exempt == {p \in own : IsExempt(doc, p.name, license, project)}
        IN [license |-> license, category |-> category, count |-> Cardinality(own),
            nonCompliant |-> IF category = "permissive" THEN {} ELSE own \ exempt,
            exempted |-> IF IsBlanket(doc, license) THEN own
                         ELSE IF category = "permissive" THEN {}
                         ELSE exempt]
  IN {row(license) : license \in {p.license : p \in kept}}

\* Mutation: only the packages that violated before are looked at.
ForgivesOnly(row, doc, project) ==
  LET exempt == {p \in row.nonCompliant : IsExempt(doc, p.name, row.license, project)}
  IN [row EXCEPT !.nonCompliant = @ \ exempt, !.exempted = @ \cup exempt]

\* The recheck of a stored row.
Reevaluate(row, doc, project) ==
  LET all == row.nonCompliant \cup row.exempted
      exempt == {p \in all : IsExempt(doc, p.name, row.license, project)}
  IN IF IsBlanket(doc, row.license) THEN [row EXCEPT !.nonCompliant = {}, !.exempted = all]
     ELSE IF row.category = "permissive" THEN [row EXCEPT !.nonCompliant = {}, !.exempted = {}]
     ELSE [row EXCEPT !.nonCompliant = all \ exempt, !.exempted = exempt]

\* violationAccumulator.add: the packages of a row the gateway shows.
Violating(row, doc, project) ==
  IF IsBlanket(doc, row.license) THEN {}
  ELSE {p \in row.nonCompliant : ~IsExempt(doc, p.name, row.license, project)}

-----------------------------------------------------------------------------
(* What a string means: the licensee picks an operand of every OR and is   *)
(* bound by every operand of an AND.                                       *)

RECURSIVE Written(_), Bindings(_)

Written(tree) ==
  LET in(c) == IF tree.op = "and" /\ c.op = "or" THEN <<Open>> \o Written(c) \o <<Close>> ELSE Written(c)
  IN IF tree.op = "leaf" THEN tree.text
     ELSE in(tree.left) \o << IF tree.op = "and" THEN And ELSE Or >> \o in(tree.right)

Bindings(tree) ==
  CASE tree.op = "leaf" -> {{Normalize(tree.text)}}
    [] tree.op = "or" -> Bindings(tree.left) \cup Bindings(tree.right)
    [] OTHER -> {a \cup b : a \in Bindings(tree.left), b \in Bindings(tree.right)}

BestChoice(tree) ==
  combineChoice({combineConjunction({lookupLeaf(t) : t \in choice}) : choice \in Bindings(tree)})
================================================================================
