----------------------------- MODULE SqlMeaning -----------------------------
(***************************************************************************)
(* A CREATE TABLE as somebody writes it by hand: its parts, its text, and  *)
(* what PostgreSQL makes of it.  The reference the reader of SqlTable is   *)
(* held against; no code of the repository is modelled here.               *)
(*                                                                         *)
(*   table   [name, items]                                                 *)
(*   column  [item |-> "column", name, type, rules]: its type and rules    *)
(*           [rule, ...] in order                                          *)
(*   type    [words, size, rest]: `timestamp (2) with time zone` has words *)
(*           before the numbers and the rest behind them                   *)
(*   constraint [item |-> rule, columns, table, key, tail]: a table        *)
(*           constraint on columns; `tail` are the words behind it         *)
(*   rule    "not null", "null", "primary key", "unique", "default"        *)
(*           (value), "references" (table, key, tail), "check" (body)      *)
(***************************************************************************)
EXTENDS SqlText

Spaced(words) == Joined([k \in DOMAIN words |-> <<words[k]>>], <<" ">>)
Listed(texts) == <<"(">> \o Joined(texts, <<",", " ">>) \o <<")">>

RuleText(rule) ==
    CASE rule.rule = "not null" -> <<"not", " ", "null">>
      [] rule.rule = "primary key" -> <<"primary", " ", "key">>
      [] rule.rule = "default" -> <<"default", " ">> \o rule.value
      [] rule.rule = "check" -> <<"check", " ", "(">> \o rule.body \o <<")">>
      [] rule.rule = "references" ->
           <<"references", " ">> \o rule.table
           \o (IF rule.key = None THEN <<>> ELSE Listed(<<rule.key>>))
           \o (IF rule.tail = <<>> THEN <<>> ELSE <<" ">> \o Spaced(rule.tail))
      [] OTHER -> <<rule.rule>>

(* The numbers of a type stand directly behind its first words. *)
WrittenType(type) ==
    Spaced(type.words)
    \o (IF type.size = <<>> THEN <<>>
        ELSE Listed([k \in DOMAIN type.size |-> <<ToString(type.size[k])>>]))
    \o (IF type.rest = <<>> THEN <<>> ELSE <<" ">> \o Spaced(type.rest))

ItemText(part) ==
    CASE part.item = "column" ->
           Joined(<<part.name, WrittenType(part.type)>>
                  \o [k \in DOMAIN part.rules |-> RuleText(part.rules[k])], <<" ">>)
      [] part.item = "check" -> RuleText([rule |-> "check", body |-> part.body])
      [] OTHER ->
           (CASE part.item = "primary key" -> <<"primary", " ", "key", " ">>
              [] part.item = "foreign key" ->
                   <<"constraint", " ", "c", " ", "foreign", " ", "key", " ">>
              [] part.item = "unique" -> <<"unique", " ">>)
           \o Listed(part.columns)
           \o (IF part.item # "foreign key" THEN <<>>
               ELSE <<" ">> \o RuleText([rule |-> "references", table |-> part.table,
                                         key |-> part.key, tail |-> <<>>]))
           \o (IF part.tail = <<>> THEN <<>> ELSE <<" ">> \o Spaced(part.tail))

Written(table) ==
    <<"create", " ", "table", " ">> \o table.name \o <<" ", "(", "\n">>
    \o Joined([k \in DOMAIN table.items |-> ItemText(table.items[k])], <<",", "\n">>)
    \o <<"\n", ")", ";", "\n">>

ColumnsOf(table) == SelectSeq(table.items, LAMBDA part : part.item = "column")

(* PostgreSQL's names and aliases of the types the domain has ("Data       *)
(* Types", table 8.1 of its manual): what a name means, not what the       *)
(* importer makes of it.                                                   *)
PgNames ==
    LET Alias(kind, names) == [name \in names |-> kind]
        Zone(word) == <<word, "time", "zone">>
    IN Alias("smallint", {<<"smallint">>, <<"int2">>, <<"smallserial">>, <<"serial2">>})
       @@ Alias("integer", {<<"integer">>, <<"int">>, <<"int4">>, <<"serial">>, <<"serial4">>})
       @@ Alias("bigint", {<<"bigint">>, <<"int8">>, <<"bigserial">>, <<"serial8">>})
       @@ Alias("numeric", {<<"numeric">>, <<"decimal">>})
       @@ Alias("real", {<<"real">>, <<"float4">>})
       @@ Alias("double", {<<"double", "precision">>, <<"float8">>, <<"float">>})
       @@ Alias("char", {<<"character">>, <<"char">>, <<"bpchar">>})
       @@ Alias("varchar", {<<"character", "varying">>, <<"varchar">>})
       @@ Alias("time", {<<"time">>, <<"time">> \o Zone("without")})
       @@ Alias("timestamp", {<<"timestamp">>, <<"timestamp">> \o Zone("without")})
       @@ Alias("timestamptz", {<<"timestamptz">>, <<"timestamp">> \o Zone("with")})
       @@ [name \in {<<kind>> : kind \in {"text", "boolean", "date", "uuid", "json", "jsonb", "bytea"}}
             |-> name[1]]
       @@ Alias("boolean", {<<"bool">>})

PgSerials == {<<"smallserial">>, <<"serial">>, <<"bigserial">>,
              <<"serial2">>, <<"serial4">>, <<"serial8">>}

(* float(1) to float(24) is real, and a bpchar without a number is a text  *)
(* of any length.  None is a type the domain does not have.                *)
PgKind(type) ==
    LET name == type.words \o type.rest
    IN IF name = <<"float">> /\ type.size # <<>> /\ type.size[1] <= 24 THEN "real"
       ELSE IF (name = <<"bpchar">> /\ type.size = <<>>) \/ name \notin DOMAIN PgNames THEN None
       ELSE PgNames[name]

(* What PostgreSQL makes of a column, as far as the domain has room for    *)
(* it: the rules on it and the constraints of the table over it alone, a   *)
(* key over several columns making each of them required.  A key column    *)
(* counts as unique (the domain's rule).  The digits of a time and the     *)
(* sequence behind a serial have no place in the domain.                   *)
Meaning(table, column) ==
    LET Over(kind) == {part \in ToSet(table.items) :
                          part.item = kind /\ \E n \in ToSet(part.columns) : Same(n, column.name)}
        Rules(kind) == {rule \in ToSet(column.rules) : rule.rule = kind}
        key == Rules("primary key") \cup Over("primary key") # {}
        unique == \/ Rules("unique") # {}
                  \/ \E part \in Over("unique") : Len(part.columns) = 1
        references == Rules("references")
                      \cup {part \in Over("foreign key") : Len(part.columns) = 1}
        size == column.type.size
        Nth(n) == IF Len(size) >= n THEN size[n] ELSE None
    IN [name |-> column.name,
        data_type |-> DataTypeFrom([kind |-> PgKind(column.type), length |-> Nth(1),
                                    precision |-> Nth(1), scale |-> Nth(2)]),
        nullable |-> ~key /\ Rules("not null") = {} /\ column.type.words \notin PgSerials,
        primary_key |-> key,
        unique |-> unique \/ key,
        default_value |-> IF Rules("default") = {} THEN None
                          ELSE (CHOOSE rule \in Rules("default") : TRUE).value,
        references |-> {[table |-> r.table, key |-> r.key] : r \in references}]
=============================================================================
