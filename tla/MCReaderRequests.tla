-------------------------- MODULE MCReaderRequests --------------------------
(***************************************************************************)
(* Small instances of ReaderRequests.                                      *)
(***************************************************************************)
EXTENDS ReaderRequests, TLC

CONSTANTS r1, r2, r3, v1, v2

\* For the runs of state and action properties only.
RequestSymmetry == Permutations(Requests)

=============================================================================
