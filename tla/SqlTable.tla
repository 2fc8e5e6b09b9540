------------------------------ MODULE SqlTable ------------------------------
(***************************************************************************)
(* The reader of one CREATE TABLE (exchange/sql/cursor.rs, table.rs and    *)
(* types.rs).  A cursor is [tokens, at]; what reads from one returns the   *)
(* cursor it leaves behind as `c`, also where it gives up.  A parsed table *)
(* is [name, columns, foreign_keys, skipped]; a note in `skipped` is       *)
(* [part, name], the name being the column's where there is one.           *)
(***************************************************************************)
EXTENDS SqlScan

CursorAt(tokens, at) == [tokens |-> tokens, at |-> at]
Done(c) == c.at > Len(c.tokens)
Peek(c) == IF Done(c) THEN None ELSE c.tokens[c.at]
Ahead(c, n) == [c EXCEPT !.at = @ + n]
Skip(c) == IF Done(c) THEN c ELSE Ahead(c, 1)

AtWord(c, word) == Peek(c) = [is |-> "word", v |-> <<word>>]
AtPunct(c, mark) == Peek(c) = [is |-> "punct", v |-> <<mark>>]
AtWords(c, words) == \A k \in DOMAIN words : AtWord(Ahead(c, k - 1), words[k])
EatWords(c, words) == IF AtWords(c, words) THEN Ahead(c, Len(words)) ELSE c
EatPunct(c, mark) == IF AtPunct(c, mark) THEN Ahead(c, 1) ELSE c

(* Token::name: "Either spelling of a name". *)
NameAt(c) ==
    IF ~Done(c) /\ Peek(c).is \in {"word", "quoted"} THEN Peek(c).v ELSE None

RECURSIVE QualifiedName(_)
(* qualified_name: "with the schema kept on the front". *)
QualifiedName(c) ==
    LET dot == Skip(c)
        rest == QualifiedName(Ahead(dot, 1))
    IN IF NameAt(c) = None THEN [name |-> None, c |-> dot]
       ELSE IF ~AtPunct(dot, ".") THEN [name |-> NameAt(c), c |-> dot]
       ELSE [rest EXCEPT !.name = IF @ = None THEN None
                                  ELSE NameAt(c) \o <<".">> \o @]

RECURSIVE NamesFrom(_)
NamesFrom(c) ==
    LET after == Skip(c)
        rest == NamesFrom(Ahead(after, 1))
    IN IF NameAt(c) = None THEN [names |-> None, c |-> after]
       ELSE IF AtPunct(after, ",")
            THEN [rest EXCEPT !.names = IF @ = None THEN None ELSE <<NameAt(c)>> \o @]
       ELSE IF AtPunct(after, ")") THEN [names |-> <<NameAt(c)>>, c |-> Ahead(after, 1)]
       ELSE [names |-> None, c |-> after]

(* name_list: the names inside `(a, b, c)`, or None. *)
NameList(c) ==
    IF AtPunct(c, "(") THEN NamesFrom(Ahead(c, 1)) ELSE [names |-> None, c |-> c]

(* The parentheses opened between two positions of a cursor's tokens. *)
DepthAt(c, k) ==
    LET Counted(mark) == Cardinality({j \in c.at .. k - 1 : AtPunct([c EXCEPT !.at = j], mark)})
    IN Counted("(") - Counted(")")

(* take_until_separator: "Everything up to the next comma or closing paren *)
(* at this depth", or up to a stop word.                                   *)
Separator(c, stop) ==
    LET Stops(k) ==
            LET here == [c EXCEPT !.at = k]
            IN /\ DepthAt(c, k) = 0
               /\ \/ AtPunct(here, ")") \/ AtPunct(here, ",")
                  \/ \E word \in stop : AtWord(here, word)
    IN FirstAt(c.tokens, c.at, Stops)

TakenUntil(c, stop) == SubSeq(c.tokens, c.at, Separator(c, stop) - 1)
PastUntil(c, stop) == [c EXCEPT !.at = Separator(c, stop)]

SkipBalanced(c) ==
    IF ~AtPunct(c, "(") THEN c
    ELSE LET end == FirstAt(c.tokens, c.at, LAMBDA k : DepthAt(c, k + 1) = 0)
         IN [c EXCEPT !.at = Min({end, Len(c.tokens)}) + 1]

(* A text with every `mark` in it doubled. *)
Doubled(text, mark) ==
    FlattenSeq([k \in DOMAIN text |-> IF text[k] = mark THEN <<mark, mark>> ELSE <<text[k]>>])

(* render: tokens written back out, a blank between two of them except     *)
(* around parentheses and before a comma.                                  *)
Render(tokens) ==
    LET Piece(token) ==
            CASE token.is = "quoted" -> <<"\"">> \o Doubled(token.v, "\"") \o <<"\"">>
              [] token.is = "text" -> <<"'">> \o Doubled(token.v, "'") \o <<"'">>
              [] OTHER -> token.v
        Join(out, token) ==
            LET tight == \/ out = <<>>
                         \/ Piece(token) \in {<<")">>, <<",">>, <<"(">>}
                         \/ out[Len(out)] = "("
            IN out \o (IF tight THEN <<>> ELSE <<" ">>) \o Piece(token)
    IN FoldLeft(Join, <<>>, tokens)

(* kind_of: the spellings of a type. *)
Spellings ==
    [text |-> {<<"text">>}, varchar |-> {<<"varchar">>, <<"character", "varying">>},
     char |-> {<<"char">>, <<"character">>, <<"bpchar">>},
     smallint |-> {<<"smallint">>, <<"int2">>, <<"smallserial">>, <<"serial2">>},
     integer |-> {<<"int">>, <<"integer">>, <<"int4">>, <<"serial">>, <<"serial4">>},
     bigint |-> {<<"bigint">>, <<"int8">>, <<"bigserial">>, <<"serial8">>},
     numeric |-> {<<"numeric">>, <<"decimal">>}, real |-> {<<"real">>, <<"float4">>},
     double |-> {<<"double", "precision">>, <<"float8">>, <<"float">>},
     boolean |-> {<<"boolean">>, <<"bool">>}, date |-> {<<"date">>},
     time |-> {<<"time">>, <<"time", "without", "time", "zone">>},
     timestamp |-> {<<"timestamp">>, <<"timestamp", "without", "time", "zone">>},
     timestamptz |-> {<<"timestamptz">>, <<"timestamp", "with", "time", "zone">>},
     uuid |-> {<<"uuid">>}, json |-> {<<"json">>}, jsonb |-> {<<"jsonb">>},
     bytea |-> {<<"bytea">>}]

KindOf(words) ==
    LET kinds == {kind \in DOMAIN Spellings : words \in Spellings[kind]}
    IN IF kinds = {} THEN None ELSE CHOOSE kind \in kinds : TRUE

IsSerial(words) ==
    words \in {<<"smallserial">>, <<"serial2">>, <<"serial">>, <<"serial4">>,
               <<"bigserial">>, <<"serial8">>}

AFTER_TYPE ==
    {"not", "null", "primary", "unique", "default", "references", "check",
     "constraint", "collate", "generated"}

(* type_name, and the trailing words parameters drops: where the words     *)
(* that are no constraint end.                                             *)
TypeEnd(c) ==
    FirstAt(c.tokens, c.at, LAMBDA k : LET token == c.tokens[k]
                                       IN token.is # "word" \/ token.v[1] \in AFTER_TYPE)

RECURSIVE NumbersFrom(_)
NumbersFrom(c) ==
    LET token == Peek(c)
        read == IF token # None /\ token.is = "number" /\ Len(token.v) = 1
                THEN <<NumberOf(token.v[1])>> ELSE <<>>
        rest == NumbersFrom(Ahead(c, 2))
    IN IF token = None \/ token.is # "number" THEN [numbers |-> <<>>, c |-> c]
       ELSE IF ~AtPunct(Ahead(c, 1), ",") THEN [numbers |-> read, c |-> Ahead(c, 1)]
       ELSE [rest EXCEPT !.numbers = read \o @]

(* parameters *)
Parameters(c, kind) ==
    LET inside == NumbersFrom(Ahead(c, 1))
        open == AtPunct(c, "(")
        numbers == IF open THEN inside.numbers ELSE <<>>
        Nth(n) == IF Len(numbers) >= n THEN numbers[n] ELSE None
        after == IF open THEN EatPunct(inside.c, ")") ELSE c
    IN [type |-> [kind |-> kind,
                  length |-> IF TakesLength(kind) THEN Nth(1) ELSE None,
                  precision |-> IF TakesPrecision(kind) THEN Nth(1) ELSE None,
                  scale |-> IF TakesPrecision(kind) THEN Nth(2) ELSE None],
        c |-> [after EXCEPT !.at = TypeEnd(after)]]

RECURSIVE Constraints(_, _)
(* constraints: up to the end of the item or to a REFERENCES, "left in     *)
(* place here".                                                            *)
Constraints(c, column) ==
    LET value == TakenUntil(Ahead(c, 1), AFTER_TYPE)
    IN CASE Done(c) \/ AtPunct(c, ",") \/ AtPunct(c, ")") \/ AtWord(c, "references") ->
              [c |-> c, column |-> column]
         [] AtWords(c, <<"not", "null">>) ->
              Constraints(Ahead(c, 2), [column EXCEPT !.nullable = FALSE])
         [] AtWords(c, <<"primary", "key">>) ->
              Constraints(Ahead(c, 2), [column EXCEPT !.primary_key = TRUE, !.nullable = FALSE])
         [] AtWord(c, "unique") -> Constraints(Ahead(c, 1), [column EXCEPT !.unique = TRUE])
         [] AtWord(c, "null") -> Constraints(Ahead(c, 1), [column EXCEPT !.nullable = TRUE])
         [] AtWord(c, "default") ->
              Constraints(PastUntil(Ahead(c, 1), AFTER_TYPE),
                          [column EXCEPT !.default_value =
                              IF value = <<>> THEN @ ELSE Render(value)])
         [] AtWord(c, "constraint") -> Constraints(Skip(Ahead(c, 1)), column)
         [] AtWord(c, "check") -> Constraints(SkipBalanced(Ahead(c, 1)), column)
         [] OTHER -> Constraints(Ahead(c, 1), column)

Note(table, part, name) ==
    [table EXCEPT !.skipped = Append(@, [part |-> part, name |-> name])]

FirstOf(names) == IF names = None THEN None ELSE names[1]

(* inline_reference and the constraints behind it; read_foreign_key pushes *)
(* the same record.                                                        *)
AddReference(table, column, target, names) ==
    [table EXCEPT !.foreign_keys =
        Append(@, [column |-> column, table |-> target, target |-> FirstOf(names)])]

AddColumn(table, column) == [table EXCEPT !.columns = Append(@, column)]

(* A column once its constraints are read, those behind its reference      *)
(* included.                                                               *)
ColumnBehind(rules, table) == [c |-> rules.c, table |-> AddColumn(table, rules.column)]

ReferringTo(read, target, keys, table) ==
    IF target.name = None
    THEN ColumnBehind(Constraints(target.c, read.column),
                      Note(table, "reference", read.column.name))
    ELSE ColumnBehind(Constraints(keys.c, read.column),
                      AddReference(table, read.column.name, target.name, keys.names))

ReferenceOf(read, target, table) == ReferringTo(read, target, NameList(target.c), table)

(* inline_reference *)
InlineReference(read, table) ==
    IF ~AtWord(read.c, "references") THEN ColumnBehind(read, table)
    ELSE ReferenceOf(read, QualifiedName(Ahead(read.c, 1)), table)

TypedColumn(name, serial, given, table) ==
    InlineReference(Constraints(given.c,
                        [name |-> name, data_type |-> given.type, nullable |-> ~serial,
                         primary_key |-> FALSE, unique |-> FALSE, default_value |-> None]),
                    table)

(* From behind the name and the words of the type. *)
ColumnOfType(name, words, c, table) ==
    IF KindOf(words) = None
    THEN [c |-> PastUntil(c, {}), table |-> Note(table, "column", name)]
    ELSE TypedColumn(name, IsSerial(words), Parameters(c, KindOf(words)), table)

(* column, and what item makes of it. *)
ReadColumn(c, table) ==
    LET Word(k) == c.tokens[c.at + k].v[1]
        end == TypeEnd(Ahead(c, 1))
    IN IF NameAt(c) = None THEN [c |-> PastUntil(c, {}), table |-> Note(table, "column", Blank)]
       ELSE ColumnOfType(NameAt(c), [k \in 1 .. end - c.at - 1 |-> Word(k)],
                         [c EXCEPT !.at = end], table)

(* read_foreign_key, from behind FOREIGN KEY: its columns, its table, the  *)
(* columns there.                                                          *)
KeyWith(columns, target, keys, table) ==
    IF target.name = None THEN [c |-> target.c, table |-> Note(table, "foreign key", Blank)]
    ELSE IF Len(columns) # 1 THEN [c |-> keys.c, table |-> Note(table, "foreign key", Blank)]
    ELSE [c |-> PastUntil(keys.c, {}),
          table |-> AddReference(table, columns[1], target.name, keys.names)]

KeyTo(columns, target, table) == KeyWith(columns, target, NameList(target.c), table)

KeyOver(columns, table) ==
    IF columns.names = None \/ ~AtWord(columns.c, "references")
    THEN [c |-> columns.c, table |-> Note(table, "foreign key", Blank)]
    ELSE KeyTo(columns.names, QualifiedName(Ahead(columns.c, 1)), table)

ReadForeignKey(c, table) == KeyOver(NameList(c), table)

(* find: the first column of the name; a mark on a column the table does   *)
(* not have yet changes nothing.                                           *)
MarkColumn(table, name, Mark(_)) ==
    LET at == SelectInSeq(table.columns, LAMBDA column : Same(column.name, name))
    IN IF at = 0 THEN table ELSE [table EXCEPT !.columns[at] = Mark(@)]

MarkPrimary(table, names) ==
    FoldLeft(LAMBDA t, name :
                MarkColumn(t, name, LAMBDA column :
                    [column EXCEPT !.primary_key = TRUE, !.nullable = FALSE]),
             table, names)

MarkUnique(table, name) ==
    MarkColumn(table, name, LAMBDA column : [column EXCEPT !.unique = TRUE])

(* item: one entry between the parentheses, a table constraint or a        *)
(* column.                                                                 *)
Item(start, table) ==
    LET named == AtWord(start, "constraint")
        c == IF named THEN Skip(Ahead(start, 1)) ELSE start
        keys == NameList(Ahead(c, 2))
        uniques == NameList(Ahead(c, 1))
    IN CASE AtWords(c, <<"primary", "key">>) ->
              [c |-> keys.c,
               table |-> IF keys.names = None THEN Note(table, "primary key", Blank)
                         ELSE MarkPrimary(table, keys.names)]
         [] AtWords(c, <<"foreign", "key">>) -> ReadForeignKey(Ahead(c, 2), table)
         [] AtWord(c, "unique") ->
              [c |-> uniques.c,
               table |-> IF uniques.names = None \/ Len(uniques.names) # 1
                         THEN Note(table, "unique constraint", Blank)
                         ELSE MarkUnique(table, uniques.names[1])]
         [] AtWord(c, "check") \/ AtWord(c, "exclude") ->
              [c |-> SkipBalanced(Ahead(c, 1)), table |-> Note(table, "check", Blank)]
         [] OTHER ->
              IF named THEN [c |-> PastUntil(c, {}), table |-> Note(table, "constraint", Blank)]
              ELSE ReadColumn(c, table)

RECURSIVE Items(_, _)
Items(c, table) ==
    LET read == Item(c, table)
    IN IF Done(c) \/ AtPunct(c, ")") THEN table
       ELSE IF AtPunct(read.c, ",") THEN Items(Ahead(read.c, 1), read.table)
       ELSE read.table

(* parse: the table of a CREATE statement, or None. *)
Parse(tokens) ==
    LET table == FirstAt(tokens, 2, LAMBDA k : AtWord(CursorAt(tokens, k), "table"))
        name == QualifiedName(EatWords(CursorAt(tokens, table + 1), <<"if", "not", "exists">>))
        empty == [name |-> name.name, columns |-> <<>>, foreign_keys |-> <<>>, skipped |-> <<>>]
    IN IF table > Len(tokens) \/ name.name = None THEN None
       ELSE IF AtPunct(name.c, "(") THEN Items(Ahead(name.c, 1), empty)
       ELSE empty
=============================================================================
