------------------------------ MODULE Postgres ------------------------------
(***************************************************************************)
(* What PostgreSQL does with the statements the generator writes; external *)
(* to the repository.  A catalog maps each table to its columns, its       *)
(* unique keys (sets of columns) and its foreign keys.                     *)
(***************************************************************************)
EXTENDS Integers, Sequences, SequencesExt

CONSTANT
    Prefix      \* the names of 63 bytes and more, each with its first 63

(* Identifiers are cut to 63 bytes. *)
Identifier(name) == IF name \in DOMAIN Prefix THEN Prefix[name] ELSE name

EmptyCatalog == [t \in {} |-> <<>>]

(* Types an index can order. *)
Ordered(kind) == kind # "json"

(* A foreign key column can be compared with the key it refers to: their   *)
(* types share an operator family, or the column's is cast implicitly.     *)
Comparable(column, key) ==
    LET together == {{"text", "varchar", "char"},
                     {"smallint", "integer", "bigint"}, {"real", "double"},
                     {"date", "timestamp", "timestamptz"}}
    IN \/ column = key
       \/ \E S \in together : {column, key} \subseteq S
       \/ column = "numeric" /\ key \in {"real", "double"}
       \/ column \in {"smallint", "integer", "bigint"}
          /\ key \in {"numeric", "real", "double"}

ColumnNames(columns) == {Identifier(columns[k].name) : k \in DOMAIN columns}

(* The table a CREATE TABLE leaves; a primary key is NOT NULL. *)
TableOf(s) ==
    LET key == {Identifier(c) : c \in s.key}
        ColumnAt(name) == CHOOSE k \in DOMAIN s.columns :
                              Identifier(s.columns[k].name) = name
        uniques == {{Identifier(s.columns[k].name)} :
                      k \in {j \in DOMAIN s.columns : s.columns[j].unique}}
    IN [columns |-> [name \in ColumnNames(s.columns) |->
                        [kind |-> s.columns[ColumnAt(name)].type.kind,
                         not_null |-> \/ s.columns[ColumnAt(name)].not_null
                                      \/ name \in key]],
        key |-> key,
        unique_keys |-> (IF key = {} THEN {} ELSE {key}) \cup uniques,
        foreign_keys |-> {}]

AcceptsTable(catalog, s) ==
    /\ Identifier(s.table) \notin DOMAIN catalog
    /\ \A j, k \in DOMAIN s.columns :
         j # k => Identifier(s.columns[j].name) # Identifier(s.columns[k].name)
    /\ LET table == TableOf(s)
       IN \A name \in UNION table.unique_keys : Ordered(table.columns[name].kind)

AcceptsForeignKey(catalog, s) ==
    LET table == Identifier(s.table)
        target == Identifier(s.target)
        column == Identifier(s.column)
        key == Identifier(s.key)
    IN /\ {table, target} \subseteq DOMAIN catalog
       /\ column \in DOMAIN catalog[table].columns
       /\ key \in DOMAIN catalog[target].columns
       /\ {key} \in catalog[target].unique_keys
       /\ Comparable(catalog[table].columns[column].kind,
                     catalog[target].columns[key].kind)
       /\ \A f \in catalog[table].foreign_keys : f.name # s.name

Accepts(catalog, s) ==
    CASE s.do = "create table" -> AcceptsTable(catalog, s)
      [] s.do = "add foreign key" -> AcceptsForeignKey(catalog, s)
      [] s.do = "comment on table" -> Identifier(s.table) \in DOMAIN catalog
      [] s.do = "comment on column" ->
            /\ Identifier(s.table) \in DOMAIN catalog
            /\ Identifier(s.column) \in DOMAIN catalog[Identifier(s.table)].columns

(* The catalog after a statement it accepts. *)
After(catalog, s) ==
    LET table == Identifier(s.table)
    IN CASE s.do = "create table" ->
              [t \in DOMAIN catalog \cup {table} |->
                 IF t = table THEN TableOf(s) ELSE catalog[t]]
         [] s.do = "add foreign key" ->
              [catalog EXCEPT ![table].foreign_keys =
                 @ \cup {[name |-> s.name, column |-> Identifier(s.column),
                          target |-> Identifier(s.target),
                          key |-> Identifier(s.key)]}]
         [] OTHER -> catalog
=============================================================================
