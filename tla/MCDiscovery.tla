---------------------------- MODULE MCDiscovery ----------------------------
(* A model-checking instance of Discovery.                                 *)
EXTENDS Discovery, TLC

CONSTANTS f1, u1, u2, a, e

\* A VEX document that an operator put under SBOM_DIR, and two uploads of one
\* SBOM: u1 is stored under SBOM_DIR, u2 in the bucket.
Places == (f1 :> e) @@ (u1 :> a) @@ (u2 :> a)
============================================================================
