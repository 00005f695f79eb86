------------------------------- MODULE Depgraph -------------------------------
(***************************************************************************)
(* How far each package is from the product an SBOM describes              *)
(* (internal/depgraph): the parsers store a depth per package, and the     *)
(* pages of the gateway tell direct findings from transitive ones by it.   *)
(*                                                                         *)
(* Packages are numbered from 1.  A relationship has a source, a target    *)
(* and a kind: forward, backward or ignore.                                *)
(***************************************************************************)
EXTENDS Naturals, FiniteSets, SequencesExt

Unknown == 65535

Scope(depth) ==
  CASE depth = Unknown -> "unknown" [] depth = 0 -> "root" [] depth = 1 -> "direct"
    [] OTHER -> "transitive"

\* What depends on what.
Edges(rels) ==
  {<<r.source, r.target>> : r \in {q \in rels : q.kind = "forward"}}
    \cup {<<r.target, r.source>> : r \in {q \in rels : q.kind = "backward"}}

\* Edges beyond the n packages, and of a package to itself, are skipped.
Usable(n, rels) == {e \in Edges(rels) : e[1] \in 1..n /\ e[2] \in 1..n /\ e[1] # e[2]}

\* The walk: breadth first, each package at its first visit.
Visit(depths, fresh, depth) == [i \in DOMAIN depths |-> IF i \in fresh THEN depth ELSE depths[i]]
Unvisited(depths, edges, i) == {j \in DOMAIN depths : <<i, j>> \in edges /\ depths[j] = Unknown}

RECURSIVE Walk(_, _, _)
Walk(pending, depths, edges) ==
  CASE pending = <<>> -> depths
    [] pending # <<>> /\ depths[Head(pending)] + 1 = Unknown -> Walk(Tail(pending), depths, edges)
    [] OTHER -> LET fresh == Unvisited(depths, edges, Head(pending))
                IN Walk(Tail(pending) \o SetToSeq(fresh), Visit(depths, fresh, depths[Head(pending)] + 1), edges)

\* Without roots and seeds, the one package nothing depends on that depends on others.
Sources(n, edges) ==
  {i \in 1..n : (\E e \in edges : e[1] = i) /\ \A e \in edges : e[2] # i}

\* Mutation: the seeds are visited first.
SeedsFirst(roots, seeds) == SetToSeq(seeds \ roots) \o SetToSeq(roots)

FirstVisits(roots, seeds) == SetToSeq(roots) \o SetToSeq(seeds \ roots)

From(n, start, seeds, edges) ==
  Walk(FirstVisits(start, seeds),
       [i \in 1..n |-> IF i \in start THEN 0 ELSE IF i \in seeds THEN 1 ELSE Unknown], edges)

Start(roots, seeds, sources) ==
  IF roots \cup seeds # {} THEN roots ELSE IF Cardinality(sources) = 1 THEN sources ELSE {}

DepthsOn(n, edges, roots, seeds) == From(n, Start(roots, seeds, Sources(n, edges)), seeds, edges)
Compute(n, rels, roots, seeds) == DepthsOn(n, Usable(n, rels), roots, seeds)

\* A finding concerns the nearest place its package is pulled in from.
MinDepthForPURL(packages, depths, purl) ==
  Min({Unknown} \cup {depths[i] : i \in {j \in DOMAIN packages : packages[j].purl = purl}})
================================================================================
