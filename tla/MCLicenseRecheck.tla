--------------------------- MODULE MCLicenseRecheck ---------------------------
(* Model-checking instances of LicenseRecheck.                              *)
EXTENDS LicenseRecheck, TLC

Symmetry == Permutations(Workers) \cup Permutations(Docs)

=============================================================================
