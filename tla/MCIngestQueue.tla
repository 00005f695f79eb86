---------------------------- MODULE MCIngestQueue ----------------------------
(* Model-checking instances of IngestQueue.                                *)
EXTENDS IngestQueue, TLC

Symmetry == Permutations(Workers)

==============================================================================
