------------------------------ MODULE Verifier ------------------------------
(***************************************************************************)
(* SchemaVerifier (core/service/verifier): ten checks in a fixed order,    *)
(* each adding diagnostics to one report.  A diagnostic is its code, its   *)
(* severity and the ids it blames; messages and canvas positions are left  *)
(* out.  check_cycles is given by what its algorithm computes, which       *)
(* CycleCheck shows.                                                       *)
(***************************************************************************)
EXTENDS Diagram, Cycles

CONSTANTS
    MaxLength,              \* MAX_LENGTH of a varchar
    MaxPrecision            \* MAX_PRECISION of a numeric

Error(code, about) == [code |-> code, severity |-> "error", about |-> about]
Warning(code, about) == [code |-> code, severity |-> "warning", about |-> about]
When(condition, diagnostic) == IF condition THEN <<diagnostic>> ELSE <<>>

(* One loop over the entities, and one over each entity's attributes. *)
PerItem(items, Check(_)) == FlattenSeq([k \in DOMAIN items |-> Check(items[k])])
PerEntity(schema, Check(_)) == PerItem(schema.entities, Check)
PerAttribute(schema, Check(_, _)) ==
    PerEntity(schema, LAMBDA e : PerItem(e.attributes, LAMBDA a : Check(e, a)))

Ids(items) == [k \in DOMAIN items |-> items[k].id]

-----------------------------------------------------------------------------
(* syntax.rs *)

CheckNotEmpty(schema) ==
    When(schema.entities = <<>>, Warning("SF-SCHEMA-EMPTY", <<>>))

CheckNames(schema) ==
    PerEntity(schema, LAMBDA e :
        When(e.name = Blank, Error("SF-NAME-EMPTY", <<e.id>>))
        \o PerItem(e.attributes, LAMBDA a :
               When(a.name = Blank, Error("SF-NAME-EMPTY", <<e.id, a.id>>))))

ParameterProblem(type) ==
    \/ /\ TakesLength(type.kind)
       /\ type.length # None
       /\ type.length = 0 \/ type.length > MaxLength
    \/ /\ TakesPrecision(type.kind)
       /\ \/ type.precision = None /\ type.scale # None
          \/ type.precision # None
             /\ (type.precision = 0 \/ type.precision > MaxPrecision)
          \/ type.scale # None /\ type.scale > MaxPrecision

CheckTypeParameters(schema) ==
    PerAttribute(schema, LAMBDA e, a :
        When(ParameterProblem(a.data_type), Error("SF-TYPE-PARAM", <<e.id, a.id>>)))

CheckRelationshipEnds(schema) ==
    PerItem(schema.relationships, LAMBDA link :
        When(None \in {Resolve(schema, link.from), Resolve(schema, link.to)},
             Error("SF-REL-DANGLING", <<link.id>>)))

-----------------------------------------------------------------------------
(* structure.rs *)

(* Items with one folded name, two or more, in order of first appearance. *)
SameNameGroups(items) ==
    LET Members(k) ==
            Where(items, LAMBDA item : Lower(item.name) = Lower(items[k].name))
        Leads(k) ==
            /\ items[k].name # Blank
            /\ \A j \in 1..(k - 1) : Lower(items[j].name) # Lower(items[k].name)
            /\ Len(Members(k)) > 1
        leaders == Where([k \in DOMAIN items |-> k], Leads)
    IN [g \in DOMAIN leaders |-> Members(leaders[g])]

CheckDuplicateNames(schema) ==
    PerItem(SameNameGroups(schema.entities), LAMBDA group :
        <<Error("SF-DUP-ENTITY", Ids(group))>>)
    \o PerEntity(schema, LAMBDA e :
        PerItem(SameNameGroups(e.attributes), LAMBDA group :
            <<Error("SF-DUP-ATTRIBUTE", <<e.id>> \o Ids(group))>>))

CheckPrimaryKeys(schema) ==
    PerEntity(schema, LAMBDA e :
        When(PrimaryKey(e) = <<>>, Error("SF-KEY-MISSING", <<e.id>>)))

-----------------------------------------------------------------------------
(* references.rs *)

(* is_unique_key: unique on its own, or the whole primary key. *)
IsUniqueKey(entity, attribute) ==
    attribute.unique \/ (attribute.primary_key /\ Len(PrimaryKey(entity)) = 1)

Width(kind) == IF kind = "smallint" THEN 2 ELSE IF kind = "integer" THEN 4 ELSE 8
Bound(type) == IF type.kind = "text" THEN None ELSE type.length

(* is_narrower: some keys will not fit in the column. *)
IsNarrower(column, key) ==
    \/ /\ Family[column.kind] = "integral"
       /\ Width(column.kind) < Width(key.kind)
    \/ /\ Family[column.kind] = "textual"
       /\ Bound(column) # None
       /\ Bound(key) = None \/ Bound(column) < Bound(key)

CheckForeignKey(schema, e, a) ==
    LET found == Resolve(schema, a.foreign_key)
        blamed == <<e.id, a.id, found.entity.id, found.attribute.id>>
        key == found.attribute.data_type
    IN IF found = None THEN <<Error("SF-FK-INVALID", <<e.id, a.id>>)>>
       ELSE When(~IsUniqueKey(found.entity, found.attribute),
                 Error("SF-FK-NOT-A-KEY", blamed))
            \o IF ~IsCompatibleWith(a.data_type, key)
               THEN <<Error("SF-TYPE-MISMATCH", blamed)>>
               ELSE When(IsNarrower(a.data_type, key),
                         Warning("SF-TYPE-MISMATCH", blamed))

CheckForeignKeys(schema) ==
    PerAttribute(schema, LAMBDA e, a :
        IF a.foreign_key = None THEN <<>> ELSE CheckForeignKey(schema, e, a))

(* Mutant: any foreign key to the other end's table will do. *)
PointsAtTable(end, other) ==
    /\ end.attribute.foreign_key # None
    /\ end.attribute.foreign_key.entity_id = other.entity.id

(* points_at: the attribute of this end is a foreign key to the other end. *)
PointsAt(end, other) ==
    end.attribute.foreign_key
        = [entity_id |-> other.entity.id, attribute_id |-> other.attribute.id]

(* Mutant: only the end the line starts at is looked at. *)
HolderFrom(from, to) == IF PointsAt(from, to) THEN from ELSE None

(* The end that holds the foreign key. *)
Holder(from, to) ==
    IF PointsAt(from, to) THEN from ELSE IF PointsAt(to, from) THEN to ELSE None

CardinalityMismatch(cardinality, unique) ==
    \/ cardinality = "1:1" /\ ~unique
    \/ cardinality = "1:N" /\ unique

(* A many-to-many line becomes a join table; a line that dangles has been  *)
(* reported.                                                               *)
CheckRelationship(schema, link) ==
    LET from == Resolve(schema, link.from)
        to == Resolve(schema, link.to)
        holder == Holder(from, to)
    IN IF link.cardinality = "N:M" \/ None \in {from, to} THEN <<>>
       ELSE IF holder = None THEN <<Error("SF-REL-NO-FK", <<link.id>>)>>
       ELSE When(CardinalityMismatch(link.cardinality,
                                     IsUniqueKey(holder.entity, holder.attribute)),
                 Warning("SF-REL-CARDINALITY",
                         <<link.id, holder.entity.id, holder.attribute.id>>))

CheckRelationships(schema) ==
    PerItem(schema.relationships, LAMBDA link : CheckRelationship(schema, link))

-----------------------------------------------------------------------------
(* cycles.rs *)

(* The index of tables by id keeps the last entity with an id. *)
IndexOf(schema, id) == SelectLastInSeq(schema.entities, LAMBDA e : e.id = id)

(* The other tables each table refers to, by columns that allow no NULL    *)
(* where only required ones are asked for.                                 *)
Dependencies(schema, required) ==
    LET To(a) == IndexOf(schema, a.foreign_key.entity_id)
        Kept(from) == {a \in ToSet(schema.entities[from].attributes) :
                          /\ a.foreign_key # None
                          /\ To(a) \notin {0, from}
                          /\ required => ~a.nullable}
    IN [from \in DOMAIN schema.entities |-> {To(a) : a \in Kept(from)}]

(* The tables of a cycle, in the order of the schema. *)
InCycle(entities, cycle) ==
    LET places == SetToSortSeq(cycle, LAMBDA i, j : i < j)
    IN Ids([k \in DOMAIN places |-> entities[places[k]]])

CheckCycles(schema) ==
    LET cycles == InSchemaOrder(MutualGroups(Dependencies(schema, FALSE)))
        blocked == UNION MutualGroups(Dependencies(schema, TRUE))
    IN [k \in DOMAIN cycles |->
            IF cycles[k] \cap blocked # {}
            THEN Error("SF-DEP-CYCLE", InCycle(schema.entities, cycles[k]))
            ELSE Warning("SF-DEP-CYCLE", InCycle(schema.entities, cycles[k]))]

-----------------------------------------------------------------------------
(* documentation.rs: one warning per table, one per relationship. *)

CheckDocumentation(schema) ==
    PerEntity(schema, LAMBDA e :
        LET undocumented == Where(e.attributes, LAMBDA a : a.description = Blank)
        IN When(e.description = Blank \/ undocumented # <<>>,
                Warning("SF-DOC-MISSING", <<e.id>> \o Ids(undocumented))))
    \o PerItem(schema.relationships, LAMBDA link :
           When(link.description = Blank, Warning("SF-DOC-MISSING", <<link.id>>)))

-----------------------------------------------------------------------------
(* SchemaVerifier::verify, the CHECKS in their order. *)
Verify(schema) ==
    CheckNotEmpty(schema) \o CheckNames(schema)
    \o CheckTypeParameters(schema) \o CheckRelationshipEnds(schema)
    \o CheckDuplicateNames(schema) \o CheckPrimaryKeys(schema)
    \o CheckForeignKeys(schema) \o CheckRelationships(schema)
    \o CheckCycles(schema) \o CheckDocumentation(schema)

(* Report::is_valid: nothing rose above a warning. *)
IsValid(report) == \A k \in DOMAIN report : report[k].severity # "error"
=============================================================================
