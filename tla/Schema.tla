------------------------------- MODULE Schema -------------------------------
(***************************************************************************)
(* Schemas and the SQL that leads from one to the next (core/orm/schema.go)*)
(* as pure operators: what models describe, which schemas are accepted,    *)
(* and the forward and reverse statements of a generated migration.        *)
(*                                                                         *)
(* Names of tables and columns are natural numbers in their sort order; 0  *)
(* stands for every name that is refused (quoteIdentifier, or a dot in it).*)
(* A statement is a record instead of SQL text, and a database is the set  *)
(* of its tables.                                                          *)
(***************************************************************************)
EXTENDS Naturals, Sequences, FiniteSets, SequencesExt

CONSTANTS Reserved   \* the table names godo keeps for itself

SchemaVersion == 1
Dialects == {"sqlite", "postgres"}

-----------------------------------------------------------------------------
(* From models to a schema.  A field is [column, kind, primary, auto,      *)
(* notNull, unique] with kind "int64" or "string"; a model is [table,      *)
(* fields].                                                                *)

Fields == [column : Nat, kind : {"int64", "string"}, primary : BOOLEAN, auto : BOOLEAN,
           notNull : BOOLEAN, unique : BOOLEAN]
Models == [table : Nat, fields : Seq(Fields)]

Primary(model) == SelectSeq(model.fields, LAMBDA f : f.primary)

\* What modelFor accepts as a model.
modelFor(model) ==
  LET fields == model.fields IN
  /\ model.table # 0 /\ fields # <<>>
  /\ \A i, j \in DOMAIN fields : fields[i].column = fields[j].column => i = j
  /\ \A i \in DOMAIN fields : fields[i].auto =>
       fields[i].primary /\ fields[i].kind = "int64" /\ Len(Primary(model)) = 1

columnType(dialect, field) ==
  CASE field.kind = "string" -> "TEXT"
    [] dialect = "sqlite"    -> "INTEGER"
    [] field.auto            -> "BIGSERIAL"
    [] OTHER                 -> "BIGINT"

\* A lone INTEGER primary key would be SQLite's rowid.
describedType(dialect, model, field) ==
  LET type == columnType(dialect, field) IN
  IF /\ dialect = "sqlite" /\ type = "INTEGER"
     /\ field.primary /\ ~field.auto /\ Len(Primary(model)) = 1
  THEN "BIGINT" ELSE type

ByName(S) == CHOOSE s \in [1..Cardinality(S) -> S] :
               \A i, j \in DOMAIN s : i < j => s[i].name < s[j].name

describedTable(dialect, model) ==
  [name |-> model.table,
   columns |-> ByName({[name |-> f.column, type |-> describedType(dialect, model, f),
                        notNull |-> f.notNull \/ f.primary, unique |-> f.unique,
                        auto |-> f.auto] : f \in ToSet(model.fields)}),
   primaryKey |-> [i \in DOMAIN Primary(model) |-> Primary(model)[i].column]]

\* Describe fails on a model it cannot use, a table named twice or reserved.
Describable(models) ==
  /\ \A i \in DOMAIN models : modelFor(models[i]) /\ models[i].table \notin Reserved
  /\ \A i, j \in DOMAIN models : models[i].table = models[j].table => i = j

Describe(dialect, models) ==
  [version |-> SchemaVersion, dialect |-> dialect,
   tables |-> ByName({describedTable(dialect, m) : m \in ToSet(models)})]

emptySchema(dialect) == [version |-> SchemaVersion, dialect |-> dialect, tables |-> <<>>]

-----------------------------------------------------------------------------
(* Schemas that are accepted.                                              *)

Distinct(names) == \A i, j \in DOMAIN names : names[i] = names[j] => i = j
NamesOf(s) == [i \in DOMAIN s |-> s[i].name]

validateTable(dialect, table) ==
  LET columns == NamesOf(table.columns) IN
  /\ table.name # 0 /\ table.name \notin Reserved
  /\ 0 \notin ToSet(columns) /\ Distinct(columns)
  /\ ToSet(table.primaryKey) \subseteq ToSet(columns) /\ Distinct(table.primaryKey)
  /\ \A c \in ToSet(table.columns) : c.auto =>
       /\ table.primaryKey = <<c.name>>
       /\ c.type = IF dialect = "sqlite" THEN "INTEGER" ELSE "BIGSERIAL"

validateSchema(schema) ==
  /\ schema.version = SchemaVersion /\ schema.dialect \in Dialects
  /\ Distinct(NamesOf(schema.tables))
  /\ \A t \in ToSet(schema.tables) : validateTable(schema.dialect, t)

-----------------------------------------------------------------------------
(* GenerateMigration: safe additions only.                                 *)

Named(s, name) == {x \in ToSet(s) : x.name = name}

\* A column that an existing table may be given.
Addable(table, column) ==
  /\ ~column.notNull /\ ~column.unique /\ ~column.auto
  /\ column.name \notin ToSet(table.primaryKey)

Additive(old, table) ==
  /\ old.primaryKey = table.primaryKey
  /\ ToSet(old.columns) \subseteq ToSet(table.columns)
  /\ \A c \in ToSet(table.columns) : Named(old.columns, c.name) = {} => Addable(table, c)

Generable(previous, current) ==
  /\ validateSchema(current) /\ validateSchema(previous)
  /\ previous.dialect = current.dialect
  /\ \A old \in ToSet(previous.tables) :
       \E table \in Named(current.tables, old.name) : Additive(old, table)
  /\ \A t \in ToSet(current.tables) :
       Named(previous.tables, t.name) = {} => t.columns # <<>>

createTable(table) == [op |-> "create table", table |-> table]
dropTable(table) == [op |-> "drop table", table |-> table]
addColumn(table, column) == [op |-> "add column", table |-> table, column |-> column]
dropColumn(table, column) == [op |-> "drop column", table |-> table, column |-> column]

columnUp(old, table, column) ==
  IF \E o \in old : Named(o.columns, column.name) # {} THEN <<>> ELSE <<addColumn(table, column)>>

tableUp(previous, table) ==
  LET old == Named(previous.tables, table.name) IN
  IF old = {} THEN <<createTable(table)>>
  ELSE FlattenSeq([i \in DOMAIN table.columns |-> columnUp(old, table, table.columns[i])])

migrationUp(previous, current) ==
  FlattenSeq([i \in DOMAIN current.tables |-> tableUp(previous, current.tables[i])])

Undo(s) ==
  IF s.op = "create table" THEN dropTable(s.table) ELSE dropColumn(s.table, s.column)

\* FAULT: a new column is left to be dropped with its table.
migrationDownTables(previous, current) ==
  LET up == SelectSeq(migrationUp(previous, current), LAMBDA s : s.op = "create table")
  IN  Reverse([i \in DOMAIN up |-> Undo(up[i])])

\* Every reverse statement is put before those already there.
migrationDown(previous, current) ==
  LET up == migrationUp(previous, current)
  IN  Reverse([i \in DOMAIN up |-> Undo(up[i])])

-----------------------------------------------------------------------------
(* The database that runs the statements: a set of [name, columns,         *)
(* primaryKey] with sets of columns.                                       *)

Table(t) == [name |-> t.name, columns |-> ToSet(t.columns), primaryKey |-> t.primaryKey]
Tables(schema) == {Table(t) : t \in ToSet(schema.tables)}
Held(tables, name) == {t \in tables : t.name = name}

\* The database refuses a statement that does not fit what it holds.
Possible(s, tables) ==
  LET held == Held(tables, s.table.name) IN
  CASE s.op = "create table" -> held = {}
    [] s.op = "drop table"   -> held # {}
    [] s.op = "add column"   -> \E t \in held : \A c \in t.columns : c.name # s.column.name
    [] s.op = "drop column"  -> \E t \in held : \E c \in t.columns : c.name = s.column.name

After(s, tables) ==
  LET held == Held(tables, s.table.name) IN
  CASE s.op = "create table" -> tables \cup {Table(s.table)}
    [] s.op = "drop table"   -> tables \ held
    [] s.op = "add column"   ->
         (tables \ held) \cup {[t EXCEPT !.columns = @ \cup {s.column}] : t \in held}
    [] s.op = "drop column"  ->
         (tables \ held) \cup
           {[t EXCEPT !.columns = {c \in @ : c.name # s.column.name}] : t \in held}
=============================================================================
