---- MODULE MCDocPipeline ----
EXTENDS DocPipeline, TLC
Symmetry == Permutations(Reqs) \cup Permutations(Jobs)
====
