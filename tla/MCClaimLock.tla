------------------------------ MODULE MCClaimLock ------------------------------
(* The model-checking instance of ClaimLock.                              *)
EXTENDS ClaimLock

=============================================================================
