----------------------------- MODULE MCJobQueue -----------------------------
(* Instances of JobQueue for TLC.                                          *)
EXTENDS JobQueue, TLC

CONSTANTS w1, w2, c1, d1, d2, h1, h2

OneHost == [e \in Executors |-> h1]
DocumentSymmetry == Permutations(Documents)

=============================================================================
