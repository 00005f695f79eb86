----------------------------- MODULE MCCVERefresh -----------------------------
(* Model-checking instances of CVERefresh.                                  *)
EXTENDS CVERefresh, TLC

CONSTANTS s1, s2, a, b, v1, v2

\* Package a is in both SBOMs.
Shared == (s1 :> {a}) @@ (s2 :> {a, b})
AffectsOf == (v1 :> {a, b}) @@ (v2 :> {b})
================================================================================
