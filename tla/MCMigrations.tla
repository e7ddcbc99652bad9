---------------------------- MODULE MCMigrations ----------------------------
(* Migrations for two terminals and a schema program that registers table  *)
(* 1, or the same table with a second column and table 2.                  *)
EXTENDS Migrations, TLC

Field(column, kind, primary, auto) ==
  [column |-> column, kind |-> kind, primary |-> primary, auto |-> auto,
   notNull |-> FALSE, unique |-> FALSE]

ID == Field(1, "int64", TRUE, TRUE)
Users == [table |-> 1, fields |-> <<ID>>]
NamedUsers == [table |-> 1, fields |-> <<Field(3, "string", FALSE, FALSE), ID>>]
Posts == [table |-> 2, fields |-> <<Field(1, "int64", TRUE, FALSE)>>]

MCModelSets == {<<Users>>, <<Posts, NamedUsers>>}
MCReserved == {9}

Symmetry == Permutations(Processes)
=============================================================================
