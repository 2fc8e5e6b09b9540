------------------------------- MODULE SqlText ------------------------------
(***************************************************************************)
(* The script of PostgresGenerator as text (core/service/generator), for   *)
(* the reader that takes it back in: what Generator states as statements,  *)
(* spelled in the symbols of SqlScan, the layout lines included.           *)
(***************************************************************************)
EXTENDS SqlTable

(* join *)
Joined(texts, between) ==
    FlattenSeq([k \in DOMAIN texts |-> (IF k = 1 THEN <<>> ELSE between) \o texts[k]])

Optional(condition, text) == IF condition THEN text ELSE <<>>

(* quote: "Every identifier is quoted." *)
Quote(name) == <<"\"">> \o Doubled(name, "\"") \o <<"\"">>

(* Mutant: the apostrophes of a description stay as they are. *)
LiteralAsTyped(value) == <<"'">> \o value \o <<"'">>

(* literal: "an apostrophe in it has to be doubled". *)
Literal(value) == <<"'">> \o Doubled(value, "'") \o <<"'">>

(* The Display of a DataType. *)
TypeText(type) ==
    LET kind == IF type.kind = "double" THEN <<"double", " ", "precision">> ELSE <<type.kind>>
        In(texts) == <<"(">> \o Joined(texts, <<",", " ">>) \o <<")">>
        N(number) == <<ToString(number)>>
    IN kind
       \o CASE TakesLength(type.kind) /\ type.length # None -> In(<<N(type.length)>>)
            [] TakesPrecision(type.kind) /\ type.precision # None ->
                 In(<<N(type.precision)>>
                    \o IF type.scale = None THEN <<>> ELSE <<N(type.scale)>>)
            [] OTHER -> <<>>

(* column *)
ColumnText(attribute) ==
    Quote(attribute.name) \o <<" ">> \o TypeText(attribute.data_type)
    \o Optional(~attribute.nullable, <<" ", "not", " ", "null">>)
    \o (IF attribute.default_value = None THEN <<>>
        ELSE <<" ", "default", " ">> \o attribute.default_value)
    \o Optional(attribute.unique /\ ~attribute.primary_key, <<" ", "unique">>)

(* create_table and primary_key, which is "Written as a table constraint". *)
TableText(entity) ==
    LET key == PrimaryKey(entity)
        names == [k \in DOMAIN key |-> Quote(key[k].name)]
        lines == [k \in DOMAIN entity.attributes |-> ColumnText(entity.attributes[k])]
                 \o IF key = <<>> THEN <<>>
                    ELSE <<<<"primary", " ", "key", " ", "(">>
                           \o Joined(names, <<",", " ">>) \o <<")">>>>
    IN <<"create", " ", "table", " ">> \o Quote(entity.name) \o <<" ", "(">>
       \o Optional(lines # <<>>, <<"\n">> \o Joined(lines, <<",", "\n">>) \o <<"\n">>)
       \o <<")", ";">>

(* round() as i64, on half units: half goes away from zero. *)
Rounded(halves) == IF halves >= 0 THEN (halves + 1) \div 2 ELSE -((1 - halves) \div 2)

(* layout::position: the line above a table. *)
LayoutLine(entity) ==
    LET Whole(halves) ==
            IF Rounded(halves) < 0 THEN <<"-", ToString(-Rounded(halves))>>
            ELSE <<ToString(Rounded(halves))>>
    IN <<"-", "-", " ", "@", "table", " ">> \o Quote(entity.name) \o <<" ">>
       \o Whole(entity.position.x) \o <<" ">> \o Whole(entity.position.y) \o <<"\n">>

(* foreign_keys: one statement for a reference that resolves. *)
KeyTexts(schema, entity) ==
    LET Found(attribute) ==
            IF attribute.foreign_key = None THEN None ELSE Resolve(schema, attribute.foreign_key)
        held == SelectSeq(entity.attributes, LAMBDA attribute : Found(attribute) # None)
    IN [k \in DOMAIN held |->
           <<"alter", " ", "table", " ">> \o Quote(entity.name)
           \o <<"\n", "add", " ", "constraint", " ">>
           \o Quote(<<"fk_">> \o entity.name \o <<"_">> \o held[k].name)
           \o <<" ", "foreign", " ", "key", " ", "(">> \o Quote(held[k].name)
           \o <<")", " ", "references", " ">> \o Quote(Found(held[k]).entity.name)
           \o <<" ", "(">> \o Quote(Found(held[k]).attribute.name) \o <<")", ";">>]

(* comments: of the documented tables and columns. *)
CommentTexts(entity) ==
    LET On(what, name, description) ==
            <<"comment", " ", "on", " ", what, " ">> \o name
            \o <<" ", "is", " ">> \o Literal(description) \o <<";">>
        documented == SelectSeq(entity.attributes, LAMBDA a : a.description # Blank)
    IN (IF entity.description = Blank THEN <<>>
        ELSE <<On("table", Quote(entity.name), entity.description)>>)
       \o [k \in DOMAIN documented |->
              On("column", Quote(entity.name) \o <<".">> \o Quote(documented[k].name),
                 documented[k].description)]

(* generate: the tables in the order drawn, each below its layout line,    *)
(* then the foreign keys, then the comments.                               *)
ScriptText(schema, include_comments, include_positions) ==
    LET EachEntity(Texts(_)) ==
            FlattenSeq([k \in DOMAIN schema.entities |-> Texts(schema.entities[k])])
        Table(e) == <<Optional(include_positions, LayoutLine(e)) \o TableText(e)>>
        comments == EachEntity(CommentTexts)
    IN Joined(EachEntity(Table) \o EachEntity(LAMBDA e : KeyTexts(schema, e))
              \o IF include_comments /\ comments # <<>>
                 THEN <<Joined(comments, <<"\n">>)>> ELSE <<>>,
              <<"\n", "\n">>)
=============================================================================
