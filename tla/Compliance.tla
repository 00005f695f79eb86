------------------------------- MODULE Compliance -------------------------------
(***************************************************************************)
(* The license exceptions at work: the document a RulesWatcher keeps for   *)
(* the gateway is the one the workers ingest and recheck under, so what    *)
(* the gateway shows of a row depends on when the row was written          *)
(* (internal/license, internal/clickhouse/queries_license_violations.go).  *)
(***************************************************************************)
EXTENDS RulesWatcher, LicensePolicy

CONSTANTS
  Exceptions,     \* the exceptions in each accepted document; none in a missing one
  Projects,       \* the packages of each project's SBOM
  Leaves          \* license strings without AND and OR

-----------------------------------------------------------------------------
\* The expressions with up to three operands.
Pairs(trees) == [op : {"and", "or"}, left : trees, right : trees]
Single == {[op |-> "leaf", text |-> t] : t \in Leaves}
Expressions == Pairs(Single \cup Pairs(Single))

\* The texts that no policy entry decides on its own.
Folded == {tree \in Expressions : categorizeSingle(Normalize(Written(tree))) = "unknown"}
FoldsToTheBestChoice == \A tree \in Folded : Categorize(Written(tree), "strict") = BestChoice(tree)

\* The rules a request is answered with, and the rows the workers wrote under others.
InUse == Answer \in Good \cup {Missing}
Row(old, project) == CheckWithExceptions(Projects[project], Exceptions[old], project, "strict")

\* The categories the gateway counts by: however operators nest, a license string
\* has the category of the best choice among its operands in strict mode ("it never
\* hides a copyleft obligation"), unless the policy lists it, or its beginning up to
\* a "-".
StrictIsTheBestChoice == InUse => FoldsToTheBestChoice

\* Under the rules the gateway has loaded, the recheck of a row written under any
\* earlier rules gives what a fresh ingest would ("the same result a fresh ingest
\* would"): the same violations, and for a license that can violate the same
\* exempted packages; the gateway then shows these violations, and never fewer than
\* the old row and the new rules have in common.
RecheckIsReingest ==
  InUse =>
    \A old \in Good \cup {Missing}, project \in DOMAIN Projects :
      \A row \in Row(old, project), fresh \in Row(Answer, project) :
        row.license = fresh.license =>
          LET again == Reevaluate(row, Exceptions[Answer], project)
          IN /\ again.nonCompliant = fresh.nonCompliant
             /\ row.category # "permissive" => again = fresh
             /\ Violating(again, Exceptions[Answer], project) = fresh.nonCompliant
             /\ Violating(row, Exceptions[Answer], project) = row.nonCompliant \cap fresh.nonCompliant
================================================================================
