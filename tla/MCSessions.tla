---- MODULE MCSessions ----
EXTENDS Sessions, TLC
Symmetry == Permutations(Tabs) \cup Permutations(Reqs)
====
