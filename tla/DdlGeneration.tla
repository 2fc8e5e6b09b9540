---------------------------- MODULE DdlGeneration ---------------------------
(***************************************************************************)
(* generate_ddl of the schema service, from the drawing a client sends to  *)
(* the database its user runs the script on: the mapper, the verifier, the *)
(* gate between verifier and generator, the generator, and PostgreSQL      *)
(* taking the script statement by statement.                               *)
(***************************************************************************)
EXTENDS Verifier, Generator

INSTANCE Postgres

CONSTANTS
    Payloads    \* sets of drawings a client may send, by what they vary

(* A payload has the fields of its type, whatever was sent, and a          *)
(* cardinality of the three (Documents models what becomes of another).    *)
IsDrawing(drawing) ==
    LET Listed(items) == items \in Seq(ToSet(items))
    IN /\ DOMAIN drawing = {"entities", "relationships"}
       /\ Listed(drawing.entities) /\ Listed(drawing.relationships)
       /\ \A e \in ToSet(drawing.entities) :
            /\ DOMAIN e = {"id", "name", "description", "attributes"}
            /\ Listed(e.attributes)
            /\ \A a \in ToSet(e.attributes) :
                 /\ DOMAIN a = {"id", "name", "description", "data_type", "nullable",
                                "primary_key", "unique", "foreign_key"}
                 /\ DOMAIN a.data_type = {"kind", "length", "precision", "scale"}
                 /\ [entity_id |-> e.id, attribute_id |-> a.id] # None
       /\ \A r \in ToSet(drawing.relationships) :
            /\ DOMAIN r = {"id", "description", "from", "to", "cardinality"}
            /\ r.cardinality \in {"1:1", "1:N", "N:M"}

ASSUME PayloadsAssumption ==
    \A family \in DOMAIN Payloads : \A drawing \in Payloads[family] : IsDrawing(drawing)

VARIABLES
    payload,    \* the drawing, as sent
    stage,      \* "asked", "verified", then "withheld" or "generated";
                \* "invalid", "unimplemented" and "not found" end the
                \* request early
    schema,     \* the schema the drawing is read as
    report,     \* its diagnostics
    script,     \* the statements the caller receives
    at,         \* how many of them the database has taken
    catalog     \* what the database holds

vars == <<payload, stage, schema, report, script, at, catalog>>

Init ==
    /\ \E family \in DOMAIN Payloads : payload \in Payloads[family]
    /\ stage = "asked"
    /\ schema = None
    /\ report = <<>>
    /\ script = <<>>
    /\ at = 0
    /\ catalog = EmptyCatalog

Answer(outcome) ==
    /\ stage = "asked"
    /\ stage' = outcome
    /\ UNCHANGED <<payload, schema, report, script, at, catalog>>

(* draft_from: the drawing cannot be read as a schema. *)
RefusePayload == ~Readable(payload) /\ Answer("invalid")

(* generator_for: MySQL has no generator yet. *)
OtherDialect == Readable(payload) /\ Answer("unimplemented")

(* resolve: the stored schema that was named does not exist. *)
NoSuchSchema == Answer("not found")

(* resolve and verify. *)
VerifySchema ==
    /\ stage = "asked"
    /\ Readable(payload)
    /\ stage' = "verified"
    /\ schema' = SchemaFrom(payload)
    /\ report' = Verify(schema')
    /\ UNCHANGED <<payload, script, at, catalog>>

(* "SQL built from a broken diagram is SQL no database would accept". *)
Withhold ==
    /\ stage = "verified"
    /\ ~IsValid(report)
    /\ stage' = "withheld"
    /\ UNCHANGED <<payload, schema, report, script, at, catalog>>

GenerateDdl(include_comments) ==
    /\ stage = "verified"
    /\ IsValid(report)
    /\ stage' = "generated"
    /\ script' = Generate(schema, include_comments)
    /\ UNCHANGED <<payload, schema, report, at, catalog>>

(* The database takes the next statement of the script. *)
RunStatement ==
    /\ stage = "generated"
    /\ at < Len(script)
    /\ Accepts(catalog, script[at + 1])
    /\ catalog' = After(catalog, script[at + 1])
    /\ at' = at + 1
    /\ UNCHANGED <<payload, stage, schema, report, script>>

Next ==
    \/ RefusePayload
    \/ OtherDialect
    \/ NoSuchSchema
    \/ VerifySchema
    \/ Withhold
    \/ \E include_comments \in BOOLEAN : GenerateDdl(include_comments)
    \/ RunStatement

Spec == Init /\ [][Next]_vars

-----------------------------------------------------------------------------
(* What the properties are about. *)

Entities == ToSet(schema.entities)
AttributesOf(entity) == ToSet(entity.attributes)

Generated == stage = "generated"
ScriptRun == Generated /\ at = Len(script)

(* A column of a composite key that is also unique on its own.  The        *)
(* verifier lets a foreign key refer to it, and the generator leaves its   *)
(* UNIQUE off as it does for every key column.                             *)
KeyHidesUnique(entity) ==
    Len(PrimaryKey(entity)) > 1 /\ \E a \in ToSet(PrimaryKey(entity)) : a.unique

UniqueInsideKey == \E e \in Entities : KeyHidesUnique(e)

(* Names that are still different once they are cut to 63 bytes. *)
NamesSurviveCut ==
    /\ \A e, f \in Entities : e # f => Identifier(e.name) # Identifier(f.name)
    /\ \A e \in Entities : \A a, b \in AttributesOf(e) :
         a # b =>
           /\ Identifier(a.name) # Identifier(b.name)
           /\ None \notin {a.foreign_key, b.foreign_key} =>
                ConstraintName(e.name, a.name) # ConstraintName(e.name, b.name)

(* Types of one family that PostgreSQL can also compare, and keys it can   *)
(* index.                                                                  *)
TypesAgree ==
    \A e \in Entities : \A a \in AttributesOf(e) :
        /\ a.primary_key \/ a.unique => Ordered(a.data_type.kind)
        /\ a.foreign_key # None =>
             LET found == Resolve(schema, a.foreign_key)
             IN Comparable(a.data_type.kind, found.attribute.data_type.kind)

NextIsAccepted == at < Len(script) => Accepts(catalog, script[at + 1])

(* PostgreSQL accepts every statement of a script that was generated: the  *)
(* checks of the verifier and the order of the generator leave nothing     *)
(* missing, doubled or not yet there.  It takes a drawing with no unique   *)
(* column inside a composite key (ReferencedColumnsUnique shows what one   *)
(* does), names the cut keeps apart and types that compare.                *)
VerifiedScriptRuns ==
    Generated /\ ~UniqueInsideKey /\ NamesSurviveCut /\ TypesAgree => NextIsAccepted

(* A foreign key of a script points at a column the script makes unique:   *)
(* "PostgreSQL only lets a foreign key point at columns with a unique      *)
(* constraint" (is_unique_key), and generate_ddl hands out nothing that    *)
(* breaks it.                                                              *)
ReferencedColumnsUnique ==
    \A s, t \in ToSet(script) :
        s.do = "add foreign key" /\ t.do = "create table" /\ t.table = s.target
            => {Identifier(s.key)} \in TableOf(t).unique_keys

(* The table of an entity in the database: its columns, NULLs, key, unique *)
(* keys and references.                                                    *)
TableAsDrawn(e) ==
    LET table == catalog[Identifier(e.name)]
        Named(attributes) == {Identifier(a.name) : a \in attributes}
        uniques == {a \in AttributesOf(e) : a.unique}
        references == {a \in AttributesOf(e) : a.foreign_key # None}
    IN /\ DOMAIN table.columns = Named(AttributesOf(e))
       /\ \A a \in AttributesOf(e) :
            table.columns[Identifier(a.name)].not_null <=> ~a.nullable
       /\ table.key = Named(ToSet(PrimaryKey(e)))
       /\ KeyHidesUnique(e)
          \/ table.unique_keys = {table.key} \cup {{name} : name \in Named(uniques)}
       /\ {[column |-> f.column, target |-> f.target, key |-> f.key] :
             f \in table.foreign_keys}
            = {LET found == Resolve(schema, a.foreign_key)
               IN [column |-> Identifier(a.name),
                   target |-> Identifier(found.entity.name),
                   key |-> Identifier(found.attribute.name)] :
                 a \in references}

(* The database a script leaves has the tables that were drawn, with the   *)
(* columns, the NULLs, the keys, the UNIQUEs and the references drawn in   *)
(* them, and no others.  One thing drawn is lost and therefore excepted:   *)
(* the UNIQUE of a column inside a composite key (KeyHidesUnique; what     *)
(* follows from it is ReferencedColumnsUnique).  And one thing the code    *)
(* announces is not there: "no others" includes the join table that        *)
(* requires_join_table says "the generator has to synthesise".             *)
CatalogMatchesDrawing ==
    ScriptRun =>
        /\ DOMAIN catalog = {Identifier(e.name) : e \in Entities}
        /\ \A e \in Entities : TableAsDrawn(e)

(* Every table of a database a script leaves can take a row, in some       *)
(* order: check_cycles on the drawing has kept out every circle of NOT     *)
(* NULL references there is in the database.                               *)
EveryTableFillable ==
    ScriptRun => ~\E S \in (SUBSET DOMAIN catalog) \ {{}} : \A t \in S :
        \E f \in catalog[t].foreign_keys :
            f.target \in S \ {t} /\ catalog[t].columns[f.column].not_null

(* A one-to-one or one-to-many line of the diagram holds in the database:  *)
(* a foreign key joins the two columns, and where the verifier did not     *)
(* warn, the column that holds it is unique for a one-to-one line and not  *)
(* for a one-to-many.  A many-to-many line is excepted because nothing in  *)
(* the database enforces it: check_relationships passes it on since it     *)
(* "becomes a join table", and the generator writes a table for entities   *)
(* only (CatalogMatchesDrawing).                                           *)
RelationshipsEnforced ==
    ScriptRun /\ ~UniqueInsideKey =>
        \A link \in ToSet(schema.relationships) :
            LET from == Resolve(schema, link.from)
                to == Resolve(schema, link.to)
                warned == \E d \in ToSet(report) :
                    d.code = "SF-REL-CARDINALITY" /\ link.id = d.about[1]
                Held(h, other) ==
                    LET table == catalog[Identifier(h.entity.name)]
                        column == Identifier(h.attribute.name)
                        unique == {column} \in table.unique_keys
                    IN /\ \E f \in table.foreign_keys :
                            /\ f.column = column
                            /\ f.target = Identifier(other.entity.name)
                            /\ f.key = Identifier(other.attribute.name)
                       /\ warned \/ (unique <=> link.cardinality = "1:1")
            IN link.cardinality = "N:M" \/ Held(from, to) \/ Held(to, from)

Flipped ==
    [schema EXCEPT !.relationships =
        [k \in DOMAIN @ |-> [@[k] EXCEPT !.from = schema.relationships[k].to,
                                         !.to = schema.relationships[k].from]]]

Findings(diagnostics) ==
    {[code |-> d.code, severity |-> d.severity, about |-> ToSet(d.about)] :
       d \in ToSet(diagnostics)}

(* The two columns of a line are foreign keys to each other. *)
PointAtEachOther(link) ==
    LET from == Resolve(schema, link.from)
        to == Resolve(schema, link.to)
    IN None \notin {from, to} /\ PointsAt(from, to) /\ PointsAt(to, from)

(* What the verifier says of a drawing does not depend on which end of a   *)
(* line is "from", which "differs between clients".  It does when the two  *)
(* columns refer to each other: then the "from" end counts as the holder.  *)
DirectionDoesNotMatter ==
    /\ stage = "verified"
    /\ \A link \in ToSet(schema.relationships) : ~PointAtEachOther(link)
    => Findings(Verify(Flipped)) = Findings(report)
=============================================================================
