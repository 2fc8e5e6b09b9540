------------------------------ MODULE Documents -----------------------------
(***************************************************************************)
(* A schema outside the domain: the messages of the two doors (the HTTP    *)
(* mapper, the gRPC mapper), the row the repository stores and the JSON    *)
(* file of an export.  Each has the fields of the canonical model in its   *)
(* own spelling of a data type and a cardinality, and its own rules on     *)
(* what may be absent (None).                                              *)
(*                                                                         *)
(*   style      written by             spells a kind as                    *)
(*   "name"     HTTP, the repository   the domain's own name               *)
(*   "number"   gRPC                   the number of the proto enum        *)
(*   "contract" the file               the name in the proto enum          *)
(*                                                                         *)
(* An id is a text, a sequence of symbols, and Blank the empty one, which  *)
(* also stands for a text of nothing but spaces.  A position is [x, y] in  *)
(* half units.                                                             *)
(***************************************************************************)
EXTENDS Diagram, TLC

CONSTANTS
    GridColumns, GridWidth, GridHeight    \* grid_slot, in half units

(* grid_slot: "Where a table goes when the file does not say." *)
GridSlot(index) ==
    [x |-> ((index - 1) % GridColumns) * GridWidth,
     y |-> ((index - 1) \div GridColumns) * GridHeight]

(* A new UUID with a prefix, taken from its place in the file: it differs  *)
(* from every other id of the draft, and no two drafts mix their ids.      *)
FreshId(format, prefix, numbers) ==
    <<format, prefix>> \o [k \in DOMAIN numbers |-> ToString(numbers[k])]

(* The kinds in the order of the proto enum, whose number 0 is             *)
(* UNSPECIFIED, and their names in the domain and in the contract.         *)
KindNames ==
    <<<<"text", "text", "DATA_TYPE_KIND_TEXT">>,
      <<"varchar", "varchar", "DATA_TYPE_KIND_VARCHAR">>,
      <<"char", "char", "DATA_TYPE_KIND_CHAR">>,
      <<"smallint", "smallint", "DATA_TYPE_KIND_SMALL_INT">>,
      <<"integer", "integer", "DATA_TYPE_KIND_INTEGER">>,
      <<"bigint", "bigint", "DATA_TYPE_KIND_BIG_INT">>,
      <<"numeric", "numeric", "DATA_TYPE_KIND_NUMERIC">>,
      <<"real", "real", "DATA_TYPE_KIND_REAL">>,
      <<"double", "double precision", "DATA_TYPE_KIND_DOUBLE_PRECISION">>,
      <<"boolean", "boolean", "DATA_TYPE_KIND_BOOLEAN">>,
      <<"date", "date", "DATA_TYPE_KIND_DATE">>,
      <<"time", "time", "DATA_TYPE_KIND_TIME">>,
      <<"timestamp", "timestamp", "DATA_TYPE_KIND_TIMESTAMP">>,
      <<"timestamptz", "timestamptz", "DATA_TYPE_KIND_TIMESTAMPTZ">>,
      <<"uuid", "uuid", "DATA_TYPE_KIND_UUID">>,
      <<"json", "json", "DATA_TYPE_KIND_JSON">>,
      <<"jsonb", "jsonb", "DATA_TYPE_KIND_JSONB">>,
      <<"bytea", "bytea", "DATA_TYPE_KIND_BYTEA">>>>

CardinalityNames ==
    <<<<"1:1", "1:1", "CARDINALITY_ONE_TO_ONE">>,
      <<"1:N", "1:N", "CARDINALITY_ONE_TO_MANY">>,
      <<"N:M", "N:M", "CARDINALITY_MANY_TO_MANY">>>>

(* What a style writes for a value of such a table. *)
Spell(names, style, value) ==
    LET at == CHOOSE k \in DOMAIN names : names[k][1] = value
    IN CASE style = "number" -> at
         [] style = "name" -> names[at][2]
         [] style = "contract" -> names[at][3]

(* What it reads, None where it knows no such value; the file knows the    *)
(* domain's names too.  A number and a name are never compared.            *)
Unspell(names, style, spelling) ==
    LET Means(k) == CASE style = "number" -> k = spelling
                      [] style = "name" -> names[k][2] = spelling
                      [] style = "contract" -> spelling \in {names[k][2], names[k][3]}
        known == {k \in DOMAIN names : Means(k)}
    IN IF spelling = None \/ known = {} THEN None
       ELSE names[CHOOSE k \in known : TRUE][1]

-----------------------------------------------------------------------------
(* Outward: From<domain::Schema> of the HTTP mapper, schema_to of the gRPC *)
(* mapper, the Stored* records of the repository, and json::write.         *)

AttributeDoc(style, attribute) ==
    [attribute EXCEPT !.data_type.kind = Spell(KindNames, style, @)]

EntityDoc(style, entity) ==
    [entity EXCEPT !.attributes = [k \in DOMAIN @ |-> AttributeDoc(style, @[k])]]

RelationshipDoc(style, link) ==
    [link EXCEPT !.cardinality = Spell(CardinalityNames, style, @)]

SchemaDoc(style, schema) ==
    [schema EXCEPT !.entities = [k \in DOMAIN @ |-> EntityDoc(style, @[k])],
                   !.relationships = [k \in DOMAIN @ |-> RelationshipDoc(style, @[k])]]

(* json::write: the positions only when they are asked for. *)
FileDoc(schema, include_positions) ==
    LET doc == SchemaDoc("contract", schema)
    IN [doc EXCEPT !.entities =
           [k \in DOMAIN @ |->
               [@[k] EXCEPT !.position = IF include_positions THEN @ ELSE None]]]

-----------------------------------------------------------------------------
(* Inward. *)

AttributesOf(doc) == UNION {ToSet(entity.attributes) : entity \in ToSet(doc.entities)}

(* data_type_from and cardinality_from find a value they know everywhere. *)
Known(style, doc) ==
    /\ \A attribute \in AttributesOf(doc) :
         /\ attribute.data_type # None
         /\ Unspell(KindNames, style, attribute.data_type.kind) # None
    /\ \A link \in ToSet(doc.relationships) :
         Unspell(CardinalityNames, style, link.cardinality) # None

(* The document with its spellings read and its absences filled in: `flag` *)
(* stands for an absent nullable, where[k] for an absent position of the   *)
(* kth entity.                                                             *)
Decoded(style, doc, flag, where) ==
    LET AttributeOf(a) ==
            [a EXCEPT !.data_type.kind = Unspell(KindNames, style, @),
                      !.nullable = IF @ = None THEN flag ELSE @]
        EntityOf(k, e) ==
            [e EXCEPT !.position = IF @ = None THEN where[k] ELSE @,
                      !.attributes = [j \in DOMAIN @ |-> AttributeOf(@[j])]]
    IN [doc EXCEPT
           !.entities = [k \in DOMAIN @ |-> EntityOf(k, @[k])],
           !.relationships =
               [k \in DOMAIN @ |->
                   [@[k] EXCEPT !.cardinality = Unspell(CardinalityNames, style, @)]]]

AtOrigin(doc) == [k \in DOMAIN doc.entities |-> [x |-> 0, y |-> 0]]

StyleOf(door) == IF door = "http" THEN "name" ELSE "number"

(* draft_from of both mappers: None when there is any violation.  "An      *)
(* absent position is the origin rather than an error"; an absent nullable *)
(* is true in JSON and false in proto3.                                    *)
DraftFrom(door, doc) ==
    IF ~Known(StyleOf(door), doc) \/ ~Readable(doc) THEN None
    ELSE SchemaFrom(Decoded(StyleOf(door), doc, door = "http", AtOrigin(doc)))

(* TryFrom<Stored*>: as it was stored, or None where the row cannot be     *)
(* read.                                                                   *)
FromStored(row) ==
    IF ~Known("name", row) THEN None
    ELSE Decoded("name", row, TRUE, AtOrigin(row))

(* identity of json.rs: an id is trimmed, and one that is missing is made  *)
(* up.  References and the ends of lines are read as they stand.           *)
Identity(id, fresh) == IF Trim(id) = Blank THEN fresh ELSE Trim(id)

(* Mutant: a reference is not read back. *)
FileAttributeAlone(attribute, fresh) ==
    [AttributeFrom(attribute) EXCEPT !.id = Identity(@, fresh), !.foreign_key = None]

(* attribute_from of json.rs: a primary key is never nullable, parameters  *)
(* that do not apply are dropped.                                          *)
FileAttribute(attribute, fresh) ==
    [AttributeFrom(attribute) EXCEPT !.id = Identity(@, fresh)]

(* relationship_from of json.rs: a line without a cardinality is 1:N. *)
FileRelationship(link, fresh) ==
    [link EXCEPT
        !.id = Identity(@, fresh),
        !.cardinality = IF @ = None THEN Spell(CardinalityNames, "contract", "1:N") ELSE @]

(* json::read: None where the file is refused.  A line may only join       *)
(* tables that are in the file, by the ids they have once trimmed.         *)
FileRead(content, include_positions) ==
    LET filled == [content EXCEPT !.relationships =
                      [k \in DOMAIN @ |->
                          FileRelationship(@[k], FreshId("json", "r", <<k>>))]]
        placed == IF include_positions THEN filled
                  ELSE [filled EXCEPT !.entities =
                           [k \in DOMAIN @ |-> [@[k] EXCEPT !.position = None]]]
        grid == [k \in DOMAIN content.entities |-> GridSlot(k)]
        decoded == Decoded("contract", placed, TRUE, grid)
        draft ==
            [decoded EXCEPT !.entities =
                [k \in DOMAIN @ |->
                    [@[k] EXCEPT !.id = Identity(@, FreshId("json", "e", <<k>>)),
                                 !.attributes =
                        [j \in DOMAIN @ |-> FileAttribute(@[j], FreshId("json", "a", <<k, j>>))]]]]
        ids == {entity.id : entity \in ToSet(draft.entities)}
    IN IF /\ Known("contract", filled)
          /\ \A link \in ToSet(draft.relationships) :
               {link.from.entity_id, link.to.entity_id} \subseteq ids
       THEN draft ELSE None
=============================================================================
