------------------------------- MODULE MCUploads -------------------------------
(* Model values for Uploads.  All of them are interchangeable.  *)
EXTENDS Uploads, TLC

CONSTANTS c1, c2, d1, d2, d3, d4, f1, f2, s1, s2

Interchangeable == Permutations(Callers) \cup Permutations(DocIds) \cup Permutations(Files)
                        \cup Permutations(Stores)

=============================================================================
