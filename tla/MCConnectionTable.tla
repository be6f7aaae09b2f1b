---- MODULE MCConnectionTable ----
EXTENDS ConnectionTable, TLC
Symmetry == Permutations(Clients)
====
