------------------------------- MODULE SqlRead ------------------------------
(***************************************************************************)
(* Reading a script onto the canvas (exchange/sql/mod.rs): the tables, the *)
(* foreign keys written on them or added later, the comments and the       *)
(* layout lines.                                                           *)
(*                                                                         *)
(* A warning is [about, table, part, name]: about a "statement" (then      *)
(* `name` is its tokens), a "note" on a table that was kept, a "key" that  *)
(* links nothing, or a "comment" on something that is not in the file.     *)
(***************************************************************************)
EXTENDS SqlTable, Documents

Warn(about, table, part, name) ==
    [about |-> about, table |-> table, part |-> part, name |-> name]

(* alter: ALTER TABLE .. ADD [CONSTRAINT c] FOREIGN KEY (a) REFERENCES y,  *)
(* of one column; None for any other.                                      *)
AlteredTo(holder, column, target, keys) ==
    IF target.name = None THEN None
    ELSE [holder |-> holder, column |-> column, table |-> target.name,
          target |-> FirstOf(keys.names)]

AlteredKey(holder, column, target) == AlteredTo(holder, column, target, NameList(target.c))

AlteredColumns(holder, columns) ==
    IF columns.names = None \/ ~AtWord(columns.c, "references") THEN None
    ELSE IF Len(columns.names) # 1 THEN None
    ELSE AlteredKey(holder, columns.names[1], QualifiedName(Ahead(columns.c, 1)))

AlteredTable(holder) ==
    LET added == Ahead(holder.c, 1)
        key == IF AtWord(added, "constraint") THEN Skip(Ahead(added, 1)) ELSE added
    IN IF holder.name = None \/ ~AtWord(holder.c, "add") \/ ~AtWords(key, <<"foreign", "key">>)
       THEN None
       ELSE AlteredColumns(holder.name, NameList(Ahead(key, 2)))

Alter(tokens) ==
    IF ~AtWord(CursorAt(tokens, 2), "table") THEN None
    ELSE AlteredTable(QualifiedName(
             EatWords(EatWords(CursorAt(tokens, 3), <<"if", "exists">>), <<"only">>)))

LastDot(name) == Max({0} \cup {k \in DOMAIN name : name[k] = "."})

(* comment: COMMENT ON TABLE or COLUMN .. IS '..'; the last dot of a name  *)
(* parts the column from its table.                                        *)
RemarkOn(column, name, text) ==
    IF /\ name.name # None
       /\ AtWord(name.c, "is")
       /\ text # None /\ text.is = "text"
       /\ column => LastDot(name.name) > 0
    THEN [table |-> IF column THEN SubSeq(name.name, 1, LastDot(name.name) - 1) ELSE name.name,
          column |-> IF ~column THEN None
                     ELSE SubSeq(name.name, LastDot(name.name) + 1, Len(name.name)),
          text |-> text.v]
    ELSE None

RemarkAbout(column, name) == RemarkOn(column, name, Peek(Ahead(name.c, 1)))

Remark(tokens) ==
    LET Is(word) == AtWords(CursorAt(tokens, 2), <<"on", word>>)
    IN IF Is("column") \/ Is("table")
       THEN RemarkAbout(Is("column"), QualifiedName(CursorAt(tokens, 4))) ELSE None

(* classify *)
Classify(tokens) ==
    LET first == CursorAt(tokens, 1)
        Of(kind, read) ==
            IF read = None THEN [kind |-> "skipped", read |-> tokens]
            ELSE [kind |-> kind, read |-> read]
    IN CASE AtWord(first, "create") -> Of("table", Parse(tokens))
         [] AtWord(first, "alter") -> Of("key", Alter(tokens))
         [] AtWord(first, "comment") -> Of("comment", Remark(tokens))
         [] OTHER -> Of("skipped", None)

(* entity_from: "the flag is put back rather than read off a script that   *)
(* had no reason to carry it".                                             *)
ImportedEntity(index, parsed) ==
    [id |-> FreshId("sql", "e", <<index>>), name |-> parsed.name, description |-> Blank,
     position |-> GridSlot(index),
     attributes |->
        [k \in DOMAIN parsed.columns |->
            [unique |-> parsed.columns[k].unique \/ parsed.columns[k].primary_key,
             id |-> FreshId("sql", "a", <<index, k>>), description |-> Blank, foreign_key |-> None]
            @@ parsed.columns[k]]]

(* same_table: the names are equal, or equal behind their last dots. *)
SameTable(left, right) ==
    LET Behind(name) == SubSeq(name, LastDot(name) + 1, Len(name))
    IN Same(left, right) \/ Same(Behind(left), Behind(right))

(* Mutant: any table of the name behind the last dot will do. *)
TableAtTail(draft, name) ==
    SelectInSeq(draft.entities, LAMBDA entity : SameTable(entity.name, name))

(* find: the exact name goes first. *)
TableAt(draft, name) ==
    LET exact == SelectInSeq(draft.entities, LAMBDA entity : Same(entity.name, name))
    IN IF exact # 0 THEN exact
       ELSE SelectInSeq(draft.entities, LAMBDA entity : SameTable(entity.name, name))

(* attribute_by_name *)
ColumnAt(entity, name) ==
    SelectInSeq(entity.attributes, LAMBDA attribute : Same(attribute.name, name))

(* link: the column gets its reference and the canvas a line, "from the    *)
(* key it points at to the column that holds it".                          *)
Link(s, key) ==
    LET holder == TableAt(s.draft, key.holder)
        target == TableAt(s.draft, key.table)
        column == ColumnAt(s.draft.entities[holder], key.column)
        named == IF key.target # None THEN ColumnAt(s.draft.entities[target], key.target)
                 ELSE SelectInSeq(s.draft.entities[target].attributes,
                                  LAMBDA attribute : attribute.primary_key)
        End(entity, attribute) ==
            [entity_id |-> s.draft.entities[entity].id,
             attribute_id |-> s.draft.entities[entity].attributes[attribute].id]
        line == [id |-> FreshId("sql", "r", <<Len(s.draft.relationships) + 1>>), name |-> Blank,
                 description |-> Blank, from |-> End(target, named),
                 to |-> End(holder, column), cardinality |-> "1:N"]
    IN IF holder = 0 \/ target = 0 \/ column = 0 \/ named = 0
       THEN [s EXCEPT !.report = Append(@, Warn("key", key.holder, "key", key.column))]
       ELSE [s EXCEPT !.draft.entities[holder].attributes[column].foreign_key =
                            End(target, named),
                      !.draft.relationships = Append(@, line)]

(* describe *)
Describe(s, remark) ==
    LET table == TableAt(s.draft, remark.table)
        column == ColumnAt(s.draft.entities[table], remark.column)
        lost == Append(s.report, Warn("comment", remark.table, "column", remark.column))
    IN CASE table = 0 -> [s EXCEPT !.report = lost]
         [] table # 0 /\ remark.column = None ->
              [s EXCEPT !.draft.entities[table].description = remark.text]
         [] OTHER ->
              IF column = 0 THEN [s EXCEPT !.report = lost]
              ELSE [s EXCEPT !.draft.entities[table].attributes[column].description =
                                remark.text]

(* place: "A line written directly above the table beats one from the      *)
(* block older files wrote at the foot of the script".                     *)
Place(draft, hints, table_at) ==
    LET Named(index, hint) == SameTable(hint.table, draft.entities[index].name)
        Above(index) == SelectInSeq(hints, LAMBDA hint : /\ hint.above = table_at[index]
                                                         /\ Named(index, hint))
        Found(index) == IF Above(index) # 0 THEN Above(index)
                        ELSE SelectInSeq(hints, LAMBDA hint : Named(index, hint))
    IN [draft EXCEPT !.entities =
           [index \in DOMAIN @ |->
               IF Found(index) = 0 THEN @[index]
               ELSE [@[index] EXCEPT !.position = [x |-> hints[Found(index)].x,
                                                   y |-> hints[Found(index)].y]]]]

(* What has been read of a script so far: `table_at` are the statements    *)
(* the tables came from.                                                   *)
NothingRead == [tables |-> <<>>, table_at |-> <<>>, keys |-> <<>>, comments |-> <<>>,
                report |-> <<>>, at |-> 0]

Filed(s, kind, read) ==
    CASE kind = "table" -> [s EXCEPT !.tables = Append(@, read),
                                     !.table_at = Append(@, s.at + 1), !.at = @ + 1]
      [] kind = "key" -> [s EXCEPT !.keys = Append(@, read), !.at = @ + 1]
      [] kind = "comment" -> [s EXCEPT !.comments = Append(@, read), !.at = @ + 1]
      [] kind = "skipped" ->
           [s EXCEPT !.report = Append(@, Warn("statement", Blank, "statement", read)),
                     !.at = @ + 1]

FileStatement(s, classified) == Filed(s, classified.kind, classified.read)

(* The draft: entities with their notes, then the foreign keys written on  *)
(* the tables, then those added later, then the comments.                  *)
DraftOf(s) ==
    LET Notes(table) == [k \in DOMAIN table.skipped |->
            Warn("note", table.name, table.skipped[k].part, table.skipped[k].name)]
        start == [draft |-> [name |-> Blank, description |-> Blank,
                             entities |-> [k \in DOMAIN s.tables |-> ImportedEntity(k, s.tables[k])],
                             relationships |-> <<>>],
                  report |-> s.report \o FlattenSeq([k \in DOMAIN s.tables |-> Notes(s.tables[k])])]
        keys == FlattenSeq([k \in DOMAIN s.tables |->
                    [j \in DOMAIN s.tables[k].foreign_keys |->
                        [holder |-> s.tables[k].name] @@ s.tables[k].foreign_keys[j]]])
                \o s.keys
    IN FoldLeft(Describe, FoldLeft(Link, start, keys), s.comments)

Answered(done, hints, table_at, include_positions) ==
    [ok |-> TRUE, report |-> done.report,
     draft |-> IF include_positions THEN Place(done.draft, hints, table_at) ELSE done.draft]

Assembled(s, hints, include_positions) ==
    IF s.tables = <<>> THEN [ok |-> FALSE]
    ELSE Answered(DraftOf(s), hints, s.table_at, include_positions)

ReadScanned(scanned, include_positions) ==
    Assembled(FoldLeft(LAMBDA s, tokens : FileStatement(s, Classify(tokens)), NothingRead,
                       scanned.statements),
              scanned.hints, include_positions)

(* read: [ok, draft, report], nothing but ok = FALSE for a file without a  *)
(* table.                                                                  *)
ReadSql(text, include_positions) == ReadScanned(Scan(text), include_positions)
=============================================================================
