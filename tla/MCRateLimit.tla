----------------------------- MODULE MCRateLimit -----------------------------
EXTENDS RateLimit, TLC

Symmetry == Permutations(Requests) \cup Permutations(Keys) \cup Permutations(Processes)
=============================================================================
