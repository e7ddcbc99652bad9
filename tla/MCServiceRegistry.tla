------------------------- MODULE MCServiceRegistry -------------------------
(* The registry for two terminals; the second name is not for agents.      *)
EXTENDS ServiceRegistry, TLC

MCMetas == {[name |-> 1, noAgent |-> FALSE], [name |-> 2, noAgent |-> TRUE]}

Symmetry == Permutations(Processes) \cup Permutations(Ports) \cup Permutations(Confs)
=============================================================================
