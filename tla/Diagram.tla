------------------------------ MODULE Diagram -------------------------------
(***************************************************************************)
(* The canonical schema model (core/domain): entities with attributes, and *)
(* relationships drawn between two attributes.  A name or a description    *)
(* stands for its trimmed spelling (the verifier and the generator trim    *)
(* what they read).                                                        *)
(*                                                                         *)
(*   schema        [entities, relationships], both sequences               *)
(*   entity        [id, name, description, attributes]                     *)
(*   attribute     [id, name, description, data_type, nullable,            *)
(*                  primary_key, unique, foreign_key]                      *)
(*   foreign_key   [entity_id, attribute_id], or None                      *)
(*   data_type     [kind, length, precision, scale], None where absent     *)
(*   relationship  [id, description, from, to, cardinality], the ends      *)
(*                 being [entity_id, attribute_id]                         *)
(*                                                                         *)
(* The journey of a schema through files and adapters (SchemaJourney) also *)
(* has the name of a schema and a relationship, an entity's position and   *)
(* an attribute's default_value, which the verifier does not read.         *)
(***************************************************************************)
EXTENDS Integers, Sequences, SequencesExt

CONSTANTS
    None,       \* an Option without a value
    Blank,      \* the empty name, id or description
    Lower(_)    \* a name in lower case

(* Names are told apart without regard to case throughout. *)
Same(left, right) == Lower(left) = Lower(right)

(* str::trim, where a text is a sequence of symbols (Documents, SqlScan). *)
Spaces == {" ", "\n"}

Trim(text) ==
    LET kept == {k \in DOMAIN text : text[k] \notin Spaces}
    IN IF kept = {} THEN <<>> ELSE SubSeq(text, Min(kept), Max(kept))

(* DataTypeKind::family. *)
Family ==
    [text |-> "textual", varchar |-> "textual", char |-> "textual",
     smallint |-> "integral", integer |-> "integral", bigint |-> "integral",
     numeric |-> "decimal", real |-> "decimal", double |-> "decimal",
     boolean |-> "boolean", date |-> "temporal", time |-> "temporal",
     timestamp |-> "temporal", timestamptz |-> "temporal", uuid |-> "uuid",
     json |-> "document", jsonb |-> "document", bytea |-> "binary"]

TakesLength(kind) == kind \in {"varchar", "char"}
TakesPrecision(kind) == kind = "numeric"

(* "Two types a foreign key may span." *)
IsCompatibleWith(column, key) == Family[column.kind] = Family[key.kind]

(* Schema::entity and Entity::attribute find the first with the id. *)
FirstWithId(items, id) ==
    LET at == SelectInSeq(items, LAMBDA item : item.id = id)
    IN IF at = 0 THEN None ELSE items[at]

(* Schema::resolve: the entity and the attribute a reference names. *)
Resolve(schema, reference) ==
    LET entity == FirstWithId(schema.entities, reference.entity_id)
        attribute == IF entity = None THEN None
                     ELSE FirstWithId(entity.attributes, reference.attribute_id)
    IN IF attribute = None THEN None
       ELSE [entity |-> entity, attribute |-> attribute]

(* iter().filter(): the items that pass the test, in their order. *)
Where(items, Test(_)) ==
    FlattenSeq([k \in DOMAIN items |-> IF Test(items[k]) THEN <<items[k]>> ELSE <<>>])

(* Entity::primary_key, in declaration order. *)
PrimaryKey(entity) == Where(entity.attributes, LAMBDA a : a.primary_key)

(* data_type_from: "Parameters that do not apply to the kind are dropped". *)
DataTypeFrom(type) ==
    [type EXCEPT
        !.length = IF TakesLength(type.kind) THEN @ ELSE None,
        !.precision = IF TakesPrecision(type.kind) THEN @ ELSE None,
        !.scale = IF TakesPrecision(type.kind) THEN @ ELSE None]

(* Mutant: the flags are taken over as they were sent. *)
AttributeAsSent(payload) ==
    [payload EXCEPT !.data_type = DataTypeFrom(@)]

(* attribute_from of both mappers: "A primary key is never nullable,       *)
(* whatever the request claimed."                                          *)
AttributeFrom(payload) ==
    [payload EXCEPT !.nullable = @ /\ ~payload.primary_key,
                    !.data_type = DataTypeFrom(@)]

(* The mappers add no violation: ids and names are there, and a reference  *)
(* names both its halves.                                                  *)
Readable(payload) ==
    LET Whole(reference) == Blank \notin {reference.entity_id, reference.attribute_id}
    IN /\ \A e \in ToSet(payload.entities) :
            /\ Blank \notin {e.id, e.name}
            /\ \A a \in ToSet(e.attributes) :
                 /\ Blank \notin {a.id, a.name}
                 /\ a.foreign_key # None => Whole(a.foreign_key)
       /\ \A r \in ToSet(payload.relationships) :
            r.id # Blank /\ Whole(r.from) /\ Whole(r.to)

(* entity_from of both mappers. *)
EntityFrom(payload) ==
    [payload EXCEPT !.attributes =
        [a \in DOMAIN payload.attributes |-> AttributeFrom(payload.attributes[a])]]

(* A draft as the mappers hand it to the service. *)
SchemaFrom(payload) ==
    [payload EXCEPT !.entities =
        [e \in DOMAIN payload.entities |-> EntityFrom(payload.entities[e])]]
=============================================================================
