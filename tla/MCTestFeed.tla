------------------------------ MODULE MCTestFeed ------------------------------
EXTENDS TestFeed, TLC

\* Bound of the run: at most three lines or texts, departures of a client, and beginnings of
\* burn-in mode, in all, of which diagnostics take one more; and at most four commands that
\* wait for the handler.
Bound ==
  /\ printed + left + (IF isBurnout THEN 1 ELSE 0) + (IF count["DIAG"] > 0 THEN 1 ELSE 0) <= 3
  /\ Len(messageQueue) <= 4

\* Nothing tells the descriptors apart.
Symmetry == Permutations(Descriptors)
===============================================================================
