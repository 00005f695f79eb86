----------------------------- MODULE MCSBOMIngest -----------------------------
(* Model-checking instances of SBOMIngest.                                  *)
EXTENDS SBOMIngest, TLC

CONSTANTS j1, j2, f1, f2, l1, l2

\* Two files with the same content.
TwoFiles == (j1 :> f1) @@ (j2 :> f2)

\* A package whose look-up fails or answers (l1, l2), beside one that has l2.
OneOrBoth == {{l1, l2}, {l2}}
================================================================================
