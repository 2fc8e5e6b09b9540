---------------------------- MODULE SchemaJourney ---------------------------
(***************************************************************************)
(* Where a drawing goes: from the canvas of a client through one of the    *)
(* two doors (handler/schema.rs over HTTP, rpc/schema.rs over gRPC) to the *)
(* service, into the repository, into a JSON file or a script, and back.   *)
(* Every call of the schema service is an action; a call that is refused   *)
(* leaves an answer and nothing else.  One schema is stored at a time:     *)
(* names, owners and overlapping calls are SchemaStore's subject.          *)
(*                                                                         *)
(* Beside each carrier the model keeps `of`, the draft it stands for: the  *)
(* one that was drawn, handed on from carrier to carrier without being     *)
(* encoded.  It is history, no call reads it.                              *)
(***************************************************************************)
EXTENDS Verifier, SqlRead, SqlMeaning, Comparing

CONSTANTS
    Families    \* [documents, files, legs] by name: what a client may hold
                \* at first, [door, doc]; the files it may have; how many
                \* calls and edits are followed

VARIABLES
    family,     \* the family of this journey
    legs,       \* calls and edits so far
    canvas,     \* [door, doc, of]: the document the client holds
    stored,     \* [row, of], or None
    file,       \* [format, content, of, options, written], or None
    answer      \* what the last call answered beside a schema

vars == <<family, legs, canvas, stored, file, answer>>

Doors == {"http", "grpc"}
Targets == {"id", "draft", "none", "both"}
Options == [include_comments : BOOLEAN, include_positions : BOOLEAN]

Nothing == [call |-> "none"]
Refused(error) == [call |-> "refused", error |-> error]

Init ==
    /\ family \in DOMAIN Families
    /\ legs = 0
    /\ \E held \in Families[family].documents :
         canvas = [door |-> held.door, doc |-> held.doc, of |-> DraftFrom(held.door, held.doc)]
    /\ stored = None
    /\ file \in Families[family].files
    /\ answer = Nothing

(* One call or edit. *)
Leg ==
    /\ legs < Families[family].legs
    /\ legs' = legs + 1
    /\ UNCHANGED family

Refuse(error) ==
    /\ answer' = Refused(error)
    /\ UNCHANGED <<canvas, stored, file>>

(* What a client holds after a door showed it a draft. *)
Show(door, draft, of) ==
    [door |-> door, doc |-> SchemaDoc(StyleOf(door), draft), of |-> of]

-----------------------------------------------------------------------------
(* Storing. *)

Sent == DraftFrom(canvas.door, canvas.doc)

(* draft_from and check_draft. *)
Storable == Sent # None /\ Sent.name # Blank

(* Create, and Replace when there is a schema: the row is written from the *)
(* draft, and the answer is read from the row.                             *)
Store ==
    /\ stored' = [row |-> SchemaDoc("name", Sent), of |-> canvas.of]
    /\ canvas' = Show(canvas.door, FromStored(stored'.row), canvas.of)
    /\ answer' = Nothing
    /\ UNCHANGED file

Create ==
    /\ Leg
    /\ stored = None
    /\ IF Storable THEN Store ELSE Refuse("validation")

Replace ==
    /\ Leg
    /\ IF ~Storable THEN Refuse("validation")
       ELSE IF stored = None THEN Refuse("not found")
       ELSE Store

Get(door) ==
    /\ Leg
    /\ IF stored = None THEN Refuse("not found")
       ELSE /\ canvas' = Show(door, FromStored(stored.row), stored.of)
            /\ answer' = Nothing
            /\ UNCHANGED <<stored, file>>

Delete ==
    /\ Leg
    /\ IF stored = None THEN Refuse("not found")
       ELSE /\ stored' = None
            /\ answer' = Nothing
            /\ UNCHANGED <<canvas, file>>

-----------------------------------------------------------------------------
(* Calls on a target: a stored schema or the draft the client holds. *)

(* target_from of the HTTP handler, target_of of the gRPC one (whose       *)
(* message has room for one target only), then SchemaServiceImpl::resolve. *)
TargetError(target) ==
    CASE target \in {"none", "both"} -> "validation"
      [] target = "draft" -> IF Sent = None THEN "validation" ELSE None
      [] target = "id" -> IF stored = None THEN "not found" ELSE None

Target(target) == IF target = "draft" THEN Sent ELSE FromStored(stored.row)
TargetOf(target) == IF target = "draft" THEN canvas.of ELSE stored.of

Given(target) == target = "both" => canvas.door = "http"

Validate(target) ==
    /\ Leg
    /\ Given(target)
    /\ IF TargetError(target) # None THEN Refuse(TargetError(target))
       ELSE /\ answer' = [call |-> "validate", valid |-> IsValid(Verify(Target(target)))]
            /\ UNCHANGED <<canvas, stored, file>>

(* generate_ddl: a dialect nobody writes is turned away first, then the    *)
(* target is resolved, then nothing is handed out that is not valid.       *)
GenerateDdl(target, dialect, options) ==
    /\ Leg
    /\ Given(target)
    /\ IF target \in {"none", "both"} \/ (target = "draft" /\ Sent = None)
       THEN Refuse("validation")
       ELSE IF dialect # "postgres" THEN Refuse("unimplemented")
       ELSE IF TargetError(target) # None THEN Refuse(TargetError(target))
       ELSE \E schema \in {Target(target)}, valid \in {IsValid(Verify(Target(target)))} :
              /\ file' = IF ~valid THEN file
                         ELSE [format |-> "sql", of |-> TargetOf(target), options |-> options,
                               content |-> ScriptText(schema, options.include_comments,
                                                      options.include_positions),
                               written |-> None]
              /\ answer' = [call |-> "generate", valid |-> valid]
              /\ UNCHANGED <<canvas, stored>>

(* The tables where a file without positions lets them lie. *)
OnGrid(draft) ==
    [draft EXCEPT !.entities = [k \in DOMAIN @ |-> [@[k] EXCEPT !.position = GridSlot(k)]]]

(* export: "nothing is verified here"; a script is not exported. *)
Export(target, format, include_positions) ==
    /\ Leg
    /\ Given(target)
    /\ IF TargetError(target) # None THEN Refuse(TargetError(target))
       ELSE IF format = "sql" THEN Refuse("unimplemented")
       ELSE /\ file' = [format |-> "json",
                        of |-> IF include_positions THEN TargetOf(target)
                               ELSE OnGrid(TargetOf(target)),
                        options |-> [include_comments |-> TRUE,
                                     include_positions |-> include_positions],
                        content |-> FileDoc(Target(target), include_positions),
                        written |-> None]
            /\ answer' = Nothing
            /\ UNCHANGED <<canvas, stored>>

(* import: the draft opens on the canvas, what was skipped is answered     *)
(* beside it.  A blank HTTP content is refused before the format is read.  *)
ReadFile(include_positions) ==
    IF file.format = "sql" THEN ReadSql(file.content, include_positions)
    ELSE LET draft == FileRead(file.content, include_positions)
         IN [ok |-> draft # None, draft |-> draft, report |-> <<>>]

(* Every id of a draft stands without spaces around it.  A JSON file of    *)
(* another draft is read as another drawing: its ids change and what       *)
(* refers to them does not.                                                *)
IdsTrimmed(draft) ==
    LET ids == {item.id : item \in ToSet(draft.entities) \cup ToSet(draft.relationships)}
               \cup {a.id : a \in AttributesOf(draft)}
    IN \A id \in ids : Trim(id) = id

Open(door, include_positions, read) ==
    LET of == IF file.format = "sql" \/ file.of = None \/ ~IdsTrimmed(file.of) THEN read.draft
              ELSE IF include_positions THEN file.of ELSE OnGrid(file.of)
    IN /\ canvas' = Show(door, read.draft, of)
       /\ answer' = [call |-> "import", draft |-> read.draft, report |-> read.report,
                     include_positions |-> include_positions]
       /\ UNCHANGED <<stored, file>>

Import(door, include_positions) ==
    /\ Leg
    /\ file # None
    /\ \E read \in {ReadFile(include_positions)} :
         IF read.ok THEN Open(door, include_positions, read) ELSE Refuse("validation")

Compared(expected, actual, include_positions) ==
    [call |-> "compare", expected |-> expected, actual |-> actual,
     include_positions |-> include_positions,
     comparison |-> CompareDrafts(expected, actual, include_positions)]

(* compare: "Nothing is verified. A comparison is a measurement". *)
Compare(expected, actual, include_positions) ==
    LET errors == <<TargetError(expected), TargetError(actual)>>
        early == {k \in 1..2 : errors[k] = "validation"}
        late == {k \in 1..2 : errors[k] # None}
    IN /\ Leg
       /\ Given(expected) /\ Given(actual)
       /\ IF early # {} THEN Refuse("validation")
          ELSE IF late # {} THEN Refuse("not found")
          ELSE /\ answer' = Compared(Target(expected), Target(actual), include_positions)
               /\ UNCHANGED <<canvas, stored, file>>

(* compare_sql, over HTTP only: the script is read as an import reads it,  *)
(* and held against the stored schema.                                     *)
CompareSql(include_positions) ==
    /\ Leg
    /\ canvas.door = "http"
    /\ file # None /\ file.format = "sql"
    /\ \E read \in {ReadSql(file.content, include_positions)} :
         IF ~read.ok THEN Refuse("validation")
         ELSE IF stored = None THEN Refuse("not found")
         ELSE /\ answer' = Compared(FromStored(stored.row), read.draft, include_positions)
              /\ UNCHANGED <<canvas, stored, file>>

-----------------------------------------------------------------------------
(* The client at its canvas: another document, or a name for the draft an  *)
(* import left without one.                                                *)

Draw ==
    /\ Leg
    /\ \E held \in Families[family].documents :
         canvas' = [door |-> held.door, doc |-> held.doc, of |-> DraftFrom(held.door, held.doc)]
    /\ answer' = Nothing
    /\ UNCHANGED <<stored, file>>

Name(name) ==
    /\ Leg
    /\ canvas.of # None
    /\ canvas.doc.name = Blank
    /\ canvas' = [canvas EXCEPT !.doc.name = name, !.of.name = name]
    /\ answer' = Nothing
    /\ UNCHANGED <<stored, file>>

Next ==
    \/ Create \/ Replace \/ Delete \/ Draw
    \/ \E door \in Doors : Get(door)
    \/ \E target \in Targets :
         \/ Validate(target)
         \/ \E dialect \in {"postgres", "mysql"}, options \in Options :
              GenerateDdl(target, dialect, options)
         \/ \E format \in {"json", "sql"}, include_positions \in BOOLEAN :
              Export(target, format, include_positions)
         \/ \E actual \in Targets, include_positions \in BOOLEAN :
              Compare(target, actual, include_positions)
    \/ \E door \in Doors, include_positions \in BOOLEAN : Import(door, include_positions)
    \/ \E include_positions \in BOOLEAN : CompareSql(include_positions)
    \/ Name(<<"imported">>)

Spec == Init /\ [][Next]_vars

-----------------------------------------------------------------------------
(* A reference leads somewhere, and a line joins two tables of the draft. *)
LinesJoinTables(draft) ==
    \A link \in ToSet(draft.relationships) :
        \A end \in {link.from, link.to} : FirstWithId(draft.entities, end.entity_id) # None

(* What was drawn is what every carrier gives back: the document a client  *)
(* got from either door, sent back through it; the row, read again; the    *)
(* JSON file, imported again.  Kinds and cardinalities change their        *)
(* spelling on each of these ways and absent fields are filled in          *)
(* differently, and no sequence of calls and edits may wear the drawing    *)
(* down.  Three things are let off: a draft opened from a file with a      *)
(* blank name in it, which no door takes back; a file whose lines join     *)
(* tables that are not drawn, which relationship_from refuses; and a file  *)
(* of a draft with spaces around an id, which both doors and the row keep: *)
(* identity trims the id in the file and not the references to it, so they *)
(* lead nowhere and a line makes the import fail.                          *)
EveryLegKeepsTheDrawing ==
    /\ canvas.of # None /\ Readable(canvas.of) => DraftFrom(canvas.door, canvas.doc) = canvas.of
    /\ stored # None => FromStored(stored.row) = stored.of
    /\ file # None /\ file.format = "json" /\ file.of # None
       /\ LinesJoinTables(file.of) /\ IdsTrimmed(file.of) =>
         FileRead(file.content, TRUE) = file.of

(* A draft without its ids: a reference and the ends of a line are the     *)
(* places of a table and a column.                                         *)
ByPlace(draft) ==
    LET At(items, id) == SelectInSeq(items, LAMBDA item : item.id = id)
        Spot(end) == LET e == At(draft.entities, end.entity_id)
                     IN <<e, At(draft.entities[e].attributes, end.attribute_id)>>
        Column(a) == [a EXCEPT !.id = Blank, !.foreign_key = IF @ = None THEN None ELSE Spot(@)]
        Table(e) == [e EXCEPT !.id = Blank,
                              !.attributes = [k \in DOMAIN @ |-> Column(@[k])]]
        Line(r) == [r EXCEPT !.id = Blank, !.from = Spot(@), !.to = Spot(@)]
    IN [draft EXCEPT !.entities = [k \in DOMAIN @ |-> Table(@[k])],
                     !.relationships = [k \in DOMAIN @ |-> Line(@[k])]]

(* What is left of a draft in a script: no name and no prose of its own, a *)
(* key column that is also unique, one line for every foreign key, the     *)
(* comments and whole positions where they were asked for.                 *)
InScript(draft, options, include_positions) ==
    LET Column(a) == [a EXCEPT !.unique = @ \/ a.primary_key,
                               !.description = IF options.include_comments THEN @ ELSE Blank]
        Spot(k, at) == IF options.include_positions /\ include_positions
                       THEN [x |-> 2 * Rounded(at.x), y |-> 2 * Rounded(at.y)] ELSE GridSlot(k)
        Table(k, e) ==
            [e EXCEPT !.description = IF options.include_comments THEN @ ELSE Blank,
                      !.position = Spot(k, @),
                      !.attributes = [j \in DOMAIN @ |-> Column(@[j])]]
        Line(k, j) ==
            [id |-> Blank, name |-> Blank, description |-> Blank, cardinality |-> "1:N",
             from |-> draft.entities[k].attributes[j].foreign_key, to |-> <<k, j>>]
        Lines(k) ==
            LET attributes == draft.entities[k].attributes
                held == SelectSeq([j \in DOMAIN attributes |-> j],
                                  LAMBDA j : attributes[j].foreign_key # None)
            IN [n \in DOMAIN held |-> Line(k, held[n])]
    IN [name |-> Blank, description |-> Blank,
        entities |-> [k \in DOMAIN draft.entities |-> Table(k, draft.entities[k])],
        relationships |-> FlattenSeq([k \in DOMAIN draft.entities |-> Lines(k)])]

(* A default that is spelled the way render spells it and ends where a     *)
(* column ends: one token after another, no `::` and no word of            *)
(* AFTER_TYPE outside parentheses.                                         *)
SettledAs(value, tokens) ==
    /\ tokens # <<>>
    /\ Render(tokens) = value
    /\ Separator(CursorAt(tokens, 1), AFTER_TYPE) > Len(tokens)

Settled(value) == SettledAs(value, FlattenSeq(Scan(value).statements))

(* The names and defaults a script can carry: a line break ends a layout   *)
(* line, and the last dot of a comment's target parts column from table.   *)
Carried(draft) ==
    /\ \A e \in ToSet(draft.entities) : "\n" \notin ToSet(e.name)
    /\ \A a \in AttributesOf(draft) :
         /\ "." \notin ToSet(a.name)
         /\ a.default_value # None => Settled(a.default_value)

(* A generated script, imported, draws the schema it was generated from    *)
(* again, up to what a script cannot hold, and nothing of it is reported   *)
(* as skipped: quoting, the escapes of names and comments, the layout      *)
(* lines, the constraints written apart from their columns and the foreign *)
(* keys added at the end all lead back (generator, then exchange/sql).     *)
ScriptReadsBack ==
    answer.call = "import" /\ file.format = "sql" /\ file.of # None /\ Carried(file.of) =>
        /\ answer.report = <<>>
        /\ ByPlace(answer.draft)
             = InScript(ByPlace(file.of), file.options, answer.include_positions)

(* A draft by its names alone, as far as a comparison looks at it: no      *)
(* order, no ids, no line names, and a blank default for an absent one.    *)
ByName(draft, include_positions) ==
    LET End(end) == Lower(PointAt(draft, end))
        Column(a) == [a EXCEPT !.id = Blank, !.name = Lower(@),
                               !.default_value = OptionalText(@),
                               !.foreign_key = IF @ = None THEN None ELSE End(@)]
        Table(e) == [e EXCEPT !.id = Blank, !.name = Lower(@),
                              !.position = IF include_positions THEN @ ELSE None,
                              !.attributes = {Column(a) : a \in ToSet(@)}]
        Line(r) == [r EXCEPT !.id = Blank, !.name = Blank, !.from = End(@), !.to = End(@)]
    IN [tables |-> {Table(e) : e \in ToSet(draft.entities)},
        lines |-> {Line(r) : r \in ToSet(draft.relationships)}]

NoneAlike(names) == \A j, k \in DOMAIN names : Same(names[j], names[k]) => j = k

(* The names say which is which, and every reference leads somewhere. *)
WellNamed(draft) ==
    /\ NoneAlike(NamesOf(draft.entities))
    /\ NoneAlike(Links(draft))
    /\ \A e \in ToSet(draft.entities) :
         /\ "." \notin ToSet(e.name)
         /\ NoneAlike(NamesOf(e.attributes))
         /\ \A a \in ToSet(e.attributes) :
              a.foreign_key # None => Resolve(draft, a.foreign_key) # None

Holders(draft) == [k \in DOMAIN References(draft) |-> References(draft)[k].holder]

(* Two comparisons, the one the other with its sides changed. *)
Mirrors(there, back) ==
    \A category \in Categories :
        /\ CountOf(there, category, "matched") = CountOf(back, category, "matched")
        /\ Precision(there, category) = Recall(back, category)
        /\ Recall(there, category) = Precision(back, category)

(* Two well named drafts compare as equal exactly when they are equal by   *)
(* their names.  And however they are named, the two ways of comparing     *)
(* them mirror each other: what is missing one way is extra the other way, *)
(* category by category, so that precision and recall change places        *)
(* (entities, entity, relationships with their `taken`, foreign_keys by    *)
(* holder, which must be distinct).                                        *)
ComparisonIsExact ==
    answer.call = "compare" =>
        /\ WellNamed(answer.expected) /\ WellNamed(answer.actual) =>
             (IsEqual(answer.comparison) <=>
                ByName(answer.expected, answer.include_positions)
                    = ByName(answer.actual, answer.include_positions))
        /\ NoneAlike(Holders(answer.expected)) /\ NoneAlike(Holders(answer.actual)) =>
             Mirrors(answer.comparison,
                     CompareDrafts(answer.actual, answer.expected, answer.include_positions))

-----------------------------------------------------------------------------
(* The imported table that a handwritten one became. *)
ImportedTable(written) ==
    answer.draft.entities[SelectInSeq(answer.draft.entities,
                                      LAMBDA e : Same(e.name, written.name))]

(* Types the reader takes for what they are.  parameters drops the words   *)
(* behind the numbers, and with them the zone of `timestamp(2) with time   *)
(* zone` (drawn as TIMESTAMP) and of `time(2) with time zone` (drawn as    *)
(* TIME); a float with a number is drawn as DOUBLE PRECISION, also where   *)
(* PostgreSQL makes it a real; a bpchar without one is drawn as CHAR,      *)
(* which in PostgreSQL is a single character.                              *)
TypeFollowed(type) ==
    /\ "with" \notin ToSet(type.rest)
    /\ type.words = <<"float">> /\ type.size # <<>> => type.size[1] > 24
    /\ type.words = <<"bpchar">> => type.size # <<>>

(* Handwritten tables the reader follows to the end: nothing stands behind *)
(* a constraint of the table but the actions of a foreign key, a key names *)
(* columns that are already there, no action is SET NULL, and the types    *)
(* are such that their name alone tells them.                              *)
Followed(written) ==
    /\ \A k \in DOMAIN written.items :
         LET part == written.items[k]
         IN part.item \notin {"column", "check"} =>
              /\ part.tail = <<>> \/ (part.item = "foreign key" /\ Len(part.columns) = 1)
              /\ part.item # "foreign key" =>
                   \A name \in ToSet(part.columns) :
                       \E j \in 1 .. k - 1 : /\ written.items[j].item = "column"
                                             /\ Same(written.items[j].name, name)
    /\ \A column \in ToSet(ColumnsOf(written)) :
         /\ TypeFollowed(column.type)
         /\ \A rule \in ToSet(column.rules) :
              /\ rule.rule = "references" => "null" \notin ToSet(rule.tail)
              /\ rule.rule = "default" => Settled(rule.value)

(* What a handwritten CREATE TABLE means to PostgreSQL is what the canvas  *)
(* shows after an import: the type of every column under the names and     *)
(* with the numbers PostgreSQL gives it, its defaults and flags whichever  *)
(* order and form their rules come in, and a column one of its references  *)
(* leads to (table.rs, types.rs, link; the model has room for one          *)
(* reference per column).  A column of a type the domain does not have is  *)
(* not drawn, and the columns beside it are.  What Followed leaves out is  *)
(* read as something else or not at all.                                   *)
ReadsWhatWasWritten ==
    answer.call = "import" /\ file.format = "sql" /\ file.written # None
    /\ Followed(file.written) =>
        \A column \in ToSet(ColumnsOf(file.written)) :
            LET table == ImportedTable(file.written)
                meant == Meaning(file.written, column)
                Is(attribute) ==
                    /\ Same(attribute.name, column.name)
                    /\ \A field \in {"data_type", "nullable", "primary_key", "unique",
                                      "default_value"} : attribute[field] = meant[field]
                Leads(attribute, reference) ==
                    LET end == Resolve(answer.draft, attribute.foreign_key)
                        exact == \E e \in ToSet(answer.draft.entities) : Same(e.name, reference.table)
                    IN /\ IF exact THEN Same(end.entity.name, reference.table)
                          ELSE SameTable(end.entity.name, reference.table)
                       /\ IF reference.key = None THEN end.attribute.primary_key
                          ELSE Same(end.attribute.name, reference.key)
            IN IF meant.data_type.kind = None
               THEN \A attribute \in ToSet(table.attributes) : ~Same(attribute.name, column.name)
               ELSE \E attribute \in ToSet(table.attributes) :
                      /\ Is(attribute)
                      /\ \/ meant.references = {} /\ attribute.foreign_key = None
                         \/ /\ attribute.foreign_key # None
                            /\ \E reference \in meant.references : Leads(attribute, reference)

(* "A file it could only partly read still opens, with the parts it gave   *)
(* up on named here" (Imported.report): every column of a table somebody   *)
(* wrote is drawn or named in the report.                                  *)
PartsGivenUpAreNamed ==
    answer.call = "import" /\ file.format = "sql" /\ file.written # None =>
        \A column \in ToSet(ColumnsOf(file.written)) :
            \/ \E attribute \in ToSet(ImportedTable(file.written).attributes) :
                  Same(attribute.name, column.name)
            \/ \E note \in ToSet(answer.report) : Same(note.name, column.name)
=============================================================================
