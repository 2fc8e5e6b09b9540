------------------------------ MODULE Generator -----------------------------
(***************************************************************************)
(* PostgresGenerator (core/service/generator): the statements of the       *)
(* script, in order.  Every identifier is quoted, so a name reaches the    *)
(* database as it was drawn; the layout comments the database throws away  *)
(* are left out.                                                           *)
(***************************************************************************)
EXTENDS Diagram

CONSTANT
    Prefix      \* the names of 63 bytes and more, each with its first 63

(* constraint_name: fk_<table>_<column> cut to 63 bytes.  A long table     *)
(* name leaves nothing of the column's.                                    *)
ConstraintName(table, column) ==
    IF table \in DOMAIN Prefix THEN <<"fk", Prefix[table]>>
    ELSE IF column \in DOMAIN Prefix THEN <<"fk", table, Prefix[column]>>
    ELSE <<"fk", table, column>>

(* column: the key is declared once at the foot of the table, so a key     *)
(* column does not say UNIQUE.                                             *)
Column(attribute) ==
    [name |-> attribute.name, type |-> attribute.data_type,
     not_null |-> ~attribute.nullable,
     unique |-> attribute.unique /\ ~attribute.primary_key]

CreateTable(entity) ==
    [do |-> "create table", table |-> entity.name,
     columns |-> [k \in DOMAIN entity.attributes |-> Column(entity.attributes[k])],
     key |-> {PrimaryKey(entity)[k].name : k \in DOMAIN PrimaryKey(entity)}]

(* Mutant: every reference is to the key of its target. *)
ForeignKeyToKey(schema, entity, attribute) ==
    LET found == IF attribute.foreign_key = None THEN None
                 ELSE Resolve(schema, attribute.foreign_key)
    IN IF found = None THEN <<>>
       ELSE <<[do |-> "add foreign key", table |-> entity.name,
               name |-> ConstraintName(entity.name, attribute.name),
               column |-> attribute.name, target |-> found.entity.name,
               key |-> PrimaryKey(found.entity)[1].name]>>

(* A reference that does not resolve adds no statement. *)
ForeignKey(schema, entity, attribute) ==
    LET found == IF attribute.foreign_key = None THEN None
                 ELSE Resolve(schema, attribute.foreign_key)
    IN IF found = None THEN <<>>
       ELSE <<[do |-> "add foreign key", table |-> entity.name,
               name |-> ConstraintName(entity.name, attribute.name),
               column |-> attribute.name,
               target |-> found.entity.name, key |-> found.attribute.name]>>

ForeignKeysOf(schema, entity) ==
    FlattenSeq([k \in DOMAIN entity.attributes |->
                  ForeignKey(schema, entity, entity.attributes[k])])

ForeignKeys(schema) ==
    FlattenSeq([k \in DOMAIN schema.entities |->
                  ForeignKeysOf(schema, schema.entities[k])])

Comments(schema) ==
    LET Table(e) == IF e.description # Blank
                    THEN <<[do |-> "comment on table", table |-> e.name]>>
                    ELSE <<>>
        OnColumn(e, a) ==
            IF a.description # Blank
            THEN <<[do |-> "comment on column", table |-> e.name,
                    column |-> a.name]>>
            ELSE <<>>
    IN FlattenSeq([k \in DOMAIN schema.entities |->
           LET e == schema.entities[k]
           IN Table(e) \o FlattenSeq([j \in DOMAIN e.attributes |->
                                        OnColumn(e, e.attributes[j])])])

(* Mutant: each table is followed by its own foreign keys. *)
GenerateTableByTable(schema, include_comments) ==
    FlattenSeq([k \in DOMAIN schema.entities |->
                  <<CreateTable(schema.entities[k])>>
                  \o ForeignKeysOf(schema, schema.entities[k])])
    \o IF include_comments THEN Comments(schema) ELSE <<>>

(* Generator::generate: all the tables in the order drawn, then the        *)
(* foreign keys, then the comments.                                        *)
Generate(schema, include_comments) ==
    [k \in DOMAIN schema.entities |-> CreateTable(schema.entities[k])]
    \o ForeignKeys(schema)
    \o IF include_comments THEN Comments(schema) ELSE <<>>
=============================================================================
