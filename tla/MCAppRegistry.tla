--------------------------- MODULE MCAppRegistry ---------------------------
(* AppRegistry for TLC: apps, groups and ports are interchangeable.        *)
EXTENDS AppRegistry, TLC

Symmetry == Permutations(Apps) \cup Permutations(Groups) \cup Permutations(Ports)
=============================================================================
