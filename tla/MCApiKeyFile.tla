---------------------------- MODULE MCApiKeyFile ----------------------------
(* ApiKeyFile for a few interchangeable commands.                           *)
EXTENDS ApiKeyFile, TLC

Symmetry == Permutations(Processes)
=============================================================================
