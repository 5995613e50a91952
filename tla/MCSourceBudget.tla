--------------------------- MODULE MCSourceBudget ---------------------------
(* Three paths in the root, one outside, two regular files and a pipe; room  *)
(* for two files, and for less than two of the larger size.                   *)
EXTENDS SourceBudget, TLC

CONSTANTS p1, p2, p3, out, i1, i2, pipe

Interchangeable == Permutations({p1, p2, p3}) \union Permutations({i1, i2})
=============================================================================
