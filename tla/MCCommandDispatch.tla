---- MODULE MCCommandDispatch ----
EXTENDS CommandDispatch, TLC
Symmetry == Permutations(Clients) \cup Permutations(Handlers)
====
