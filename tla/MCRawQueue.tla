----------------------------- MODULE MCRawQueue -----------------------------
(* Small instances of RawQueue.                                            *)
EXTENDS RawQueue

CONSTANTS s1, s2, s3, o1, o2

Symmetry == Permutations(Subs) \cup Permutations(Others)
=============================================================================
