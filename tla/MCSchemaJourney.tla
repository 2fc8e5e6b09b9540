-------------------------- MODULE MCSchemaJourney ---------------------------
(* SchemaJourney over families of small drawings, files and scripts, each  *)
(* varying one concern; `legs` is the length of the journeys of a family.  *)
EXTENDS SchemaJourney

MCBlank == <<>>

\* "Users" and "B" are other spellings of "users" and "b".
MCLower(text) ==
  [k \in DOMAIN text |-> CASE text[k] = "Users" -> "users"
                           [] text[k] = "B" -> "b"
                           [] OTHER -> text[k]]

-----------------------------------------------------------------------------
\* Drawings.

Type(kind) == [kind |-> kind, length |-> None, precision |-> None, scale |-> None]
Sized(kind, length) == [Type(kind) EXCEPT !.length = length]
Decimal(precision, scale) == [Type("numeric") EXCEPT !.precision = precision, !.scale = scale]

To(entity, attribute) == [entity_id |-> entity, attribute_id |-> attribute]

Attribute(id, name, type, flags) ==
  [id |-> id, name |-> name, description |-> Blank, data_type |-> type,
   nullable |-> "nullable" \in flags, primary_key |-> "key" \in flags,
   unique |-> "unique" \in flags, foreign_key |-> None, default_value |-> None]

Table(id, name, x, y, attributes) ==
  [id |-> id, name |-> name, description |-> Blank, position |-> [x |-> x, y |-> y],
   attributes |-> attributes]

Line(id, from, to, cardinality) ==
  [id |-> id, name |-> <<"writes">>, description |-> Blank, from |-> from, to |-> to,
   cardinality |-> cardinality]

Drawing(entities, relationships) ==
  [name |-> <<"shop">>, description |-> <<"a", " ", "shop">>, entities |-> entities,
   relationships |-> relationships]

Key(id) == Attribute(id, <<"id">>, Type("uuid"), {"key", "nullable"})

\* A drawing as a client of a door holds it.
Held(door, drawing) == [door |-> door, doc |-> SchemaDoc(StyleOf(door), drawing)]
HeldBy(doors, drawings) == {Held(door, drawing) : door \in doors, drawing \in drawings}

\* Two tables that refer to each other, with marks in their names, their
\* descriptions and their defaults, between grid lines and left of the
\* origin, and three kinds of lines.
Users(name, x) ==
  Table(<<"e1">>, name, x, -3,
    <<Key(<<"a1">>),
      [Attribute(<<"a2">>, <<"say", "\"", "so">>, Sized("varchar", 3), {"unique"})
         EXCEPT !.description = <<"it", "'", "s", ";", "\n", "-", "-", " ", "so">>,
                !.default_value = <<"'", "o", "'", "'", "k", "'">>],
      [Attribute(<<"a3">>, <<"best">>, Type("bigint"), {"nullable"})
         EXCEPT !.foreign_key = To(<<"e2">>, <<"b1">>)]>>)
Posts(name, default) ==
  [Table(<<"e2">>, name, 1, 4,
    <<Attribute(<<"b1">>, <<"id">>, Type("bigint"), {"key", "unique"}),
      [Attribute(<<"b2">>, <<"author">>, Type("uuid"), {})
         EXCEPT !.foreign_key = To(<<"e1">>, <<"a1">>)],
      [Attribute(<<"b3">>, <<"price">>, Decimal(4, 2), {"nullable"})
         EXCEPT !.default_value = default]>>)
    EXCEPT !.description = <<"what", " ", "$", "$", " ", "is">>]

Shop(users, posts, x, default) ==
  Drawing(<<Users(users, x), Posts(posts, default)>>,
          <<Line(<<"r1">>, To(<<"e1">>, <<"a1">>), To(<<"e2">>, <<"b2">>), "1:N"),
            [Line(<<"r2">>, To(<<"e2">>, <<"b1">>), To(<<"e1">>, <<"a3">>), "1:1")
               EXCEPT !.description = <<"told">>],
            Line(<<"r3">>, To(<<"e1">>, <<"a2">>), To(<<"e2">>, <<"b3">>), "N:M")>>)

Call == <<"coalesce", "(", "1", ",", " ", "2", ")">>
Cast == <<"1", ":", ":", "int">>    \* render parts the two colons

Shops ==
  {Shop(<<"users">>, <<"post", "\"", "s">>, 1, Call),
   Shop(<<"Users">>, <<"app", ".", "users">>, -2, None)}
PlainShop == {Shop(<<"users">>, <<"posts">>, 0, Cast)}

\* Every kind of column, two of them the key together.
AllKinds ==
  Drawing(<<Table(<<"e1">>, <<"users">>, 0, 0,
              [k \in DOMAIN KindNames |->
                 Attribute(<<"a", ToString(k)>>, <<"c", ToString(k)>>,
                           IF KindNames[k][1] = "char" THEN Sized("char", 2)
                           ELSE IF KindNames[k][1] = "numeric" THEN Decimal(3, None)
                           ELSE Type(KindNames[k][1]),
                           IF k \in {4, 5} THEN {"key"} ELSE {"nullable"})])>>, <<>>)

\* Spaces around the ids, which the references repeat: of a table with and
\* without a line, and of a column alone.
Padded(entity, attribute, lines) ==
  Drawing(<<Table(entity, <<"users">>, 2, 2,
              <<Key(attribute),
                [Attribute(<<"a2">>, <<"b">>, Type("uuid"), {})
                   EXCEPT !.foreign_key = To(entity, attribute)]>>)>>,
          [k \in 1..lines |-> Line(<<"r1", " ">>, To(entity, attribute), To(entity, <<"a2">>), "1:N")])
PaddedDrawings ==
  {Padded(<<" ", "e1">>, <<"a1">>, 1), Padded(<<" ", "e1">>, <<"a1">>, 0),
   Padded(<<"e1">>, <<" ", "a1", " ">>, 1)}

-----------------------------------------------------------------------------
\* Documents a client may send that no schema was shown as.

Small == Drawing(<<Table(<<"e1">>, <<"users">>, 2, 2,
                         <<Key(<<"a1">>),
                           [Attribute(<<"a2">>, <<"b">>, Type("uuid"), {})
                              EXCEPT !.foreign_key = To(<<"e1">>, <<"a1">>)]>>)>>,
                 <<Line(<<"r1">>, To(<<"e1">>, <<"a1">>), To(<<"e1">>, <<"a2">>), "1:N")>>)

Malformed(door) ==
  LET small == SchemaDoc(StyleOf(door), Small)
      kinds == IF door = "http" THEN {"money", "double precision"} ELSE {0, 19, 9}
      ends == IF door = "http" THEN {"1:2", None} ELSE {0, 4}
      docs ==
        {[small EXCEPT !.name = Blank],
         [small EXCEPT !.entities[1].position = None],
         [small EXCEPT !.entities[1].id = Blank],
         [small EXCEPT !.entities[1].name = Blank],
         [small EXCEPT !.entities[1].attributes[2].name = Blank],
         [small EXCEPT !.entities[1].attributes[2].data_type = None],
         [small EXCEPT !.entities[1].attributes[2].nullable = None],
         [small EXCEPT !.entities[1].attributes[2].foreign_key.entity_id = Blank],
         [small EXCEPT !.entities[1].attributes[2].foreign_key.entity_id = <<"gone">>],
         [small EXCEPT !.entities[1].attributes[2].data_type.length = 3],
         [small EXCEPT !.entities = @ \o @],
         [small EXCEPT !.relationships[1].to.attribute_id = Blank],
         [small EXCEPT !.relationships[1].to.entity_id = <<"gone">>]}
        \cup {[small EXCEPT !.entities[1].attributes[1].data_type.kind = kind] : kind \in kinds}
        \cup {[small EXCEPT !.relationships[1].cardinality = end] : end \in ends}
  IN {[door |-> door, doc |-> doc] : doc \in docs}

\* The drawings that are held against each other.
Variants ==
  LET base == Drawing(<<[Table(<<"e1">>, <<"users">>, 2, 2,
                           <<Key(<<"a1">>),
                             [Attribute(<<"a2">>, <<"b">>, Type("uuid"), {})
                                EXCEPT !.foreign_key = To(<<"e1">>, <<"a1">>)]>>)
                          EXCEPT !.description = <<"told">>],
                        Table(<<"e2">>, <<"tags">>, 0, 0, <<Key(<<"b1">>)>>)>>,
                      <<Line(<<"r1">>, To(<<"e1">>, <<"a1">>), To(<<"e1">>, <<"a2">>), "1:N")>>)
  IN {base,
      [base EXCEPT !.entities = Reverse(@), !.entities[2].attributes = Reverse(@)],
      [base EXCEPT !.entities[1].name = <<"Users">>, !.entities[1].attributes[2].name = <<"B">>],
      [base EXCEPT !.entities[2].name = <<"users">>],
      [base EXCEPT !.entities = @ \o [k \in DOMAIN @ |->
                                        [@[k] EXCEPT !.id = <<"copy">> \o @,
                                                     !.attributes = SubSeq(@, 1, 1)]]],
      [base EXCEPT !.entities[1].description = Blank],
      [base EXCEPT !.entities[1].position.x = 3],
      [base EXCEPT !.entities[1].attributes[2].default_value = Blank,
                   !.relationships[1].name = Blank],
      [base EXCEPT !.entities[1].attributes[2].unique = TRUE],
      [base EXCEPT !.entities[1].attributes[2].foreign_key = To(<<"e2">>, <<"b1">>)],
      [base EXCEPT !.entities[1].attributes[2].foreign_key = None,
                   !.entities[1].attributes[2].data_type.kind = "text"],
      [base EXCEPT !.relationships[1].cardinality = "1:1"],
      [base EXCEPT !.relationships = @ \o @],
      [base EXCEPT !.relationships[1].to = To(<<"e2">>, <<"b1">>)]}

-----------------------------------------------------------------------------
\* Files somebody wrote.

Asked == [include_comments |-> TRUE, include_positions |-> TRUE]

JsonFile(doc) ==
  [format |-> "json", content |-> doc, of |-> None, options |-> Asked, written |-> None]

JsonFiles ==
  LET small == SchemaDoc("contract", Small)
      docs ==
        {SchemaDoc("name", Small),
         [small EXCEPT !.name = Blank, !.relationships = <<>>, !.entities[1].id = Blank],
         [small EXCEPT !.entities[1].id = Blank],
         [small EXCEPT !.entities[1].id = <<" ", "e1", "\n">>],
         [small EXCEPT !.entities[1].name = Blank],
         [small EXCEPT !.entities[1].position = None],
         [small EXCEPT !.entities[1].attributes[2].id = Blank],
         [small EXCEPT !.entities[1].attributes[2].nullable = None],
         [small EXCEPT !.entities[1].attributes[2].data_type = None],
         [small EXCEPT !.entities[1].attributes[2].data_type.kind = "money"],
         [small EXCEPT !.entities[1].attributes[2].data_type.length = 3],
         [small EXCEPT !.relationships[1].id = Blank, !.relationships[1].cardinality = None],
         [small EXCEPT !.relationships[1].cardinality = "many"],
         [small EXCEPT !.relationships[1].to.entity_id = <<"gone">>]}
  IN {JsonFile(doc) : doc \in docs}

Script(content, written) ==
  [format |-> "sql", content |-> content, of |-> None, options |-> Asked, written |-> written]

Rule(rule) == [rule |-> rule]
DefaultRule(value) == [rule |-> "default", value |-> value]
ReferenceRule(table, key, tail) == [rule |-> "references", table |-> table, key |-> key, tail |-> tail]
Numbered(words, size, rest) == [words |-> words, size |-> size, rest |-> rest]
Bare(words) == Numbered(words, <<>>, <<>>)
Column(name, type, rules) ==
  [item |-> "column", name |-> name, type |-> type, rules |-> rules]
Constraint(item, columns, table, key, tail) ==
  [item |-> item, columns |-> columns, table |-> table, key |-> key, tail |-> tail]
Check == [item |-> "check", body |-> <<"b", "=", "(", "1", ")">>]

\* Two tables of one name that are there already, and a remark that looks
\* like the start of something else.
Before ==
  <<"create", " ", "table", " ", "x", ".", "users", "(", "id", " ", "uuid", ",", " ", "primary", " ",
    "key", " ", "(", "id", ")", ")", ";",
    "create", " ", "temp", " ", "table", " ", "if", " ", "not", " ", "exists", " ",
    "app", ".", "users", " ", "(", "id", " ", "uuid", " ", "primary", " ", "key", ")", ";", "\n",
    "/", "*", " ", ";", " ", "/", "*", "*", "/", " ", "create", "*", "/", "\n">>

\* The rules of one column in every order.
RuleSets ==
  {{Rule("not null"), DefaultRule(<<"gen", "(", ")">>), Rule("unique")},
   {Rule("primary key"), ReferenceRule(<<"users">>, None, <<"on", "delete", "cascade">>)},
   {Rule("not null"), [rule |-> "check", body |-> <<"b", " ", "not", " ", "null">>],
    ReferenceRule(<<"app", ".", "users">>, <<"id">>, <<>>)},
   {Rule("null"), ReferenceRule(<<"t">>, <<"a">>, <<"on", "delete", "set", "null">>),
    DefaultRule(<<"'", "a", ",", "'", "'", ")", "'">>)},
   {Rule("not null"), ReferenceRule(<<"t">>, <<"a">>, <<"on", "delete", "set", "null">>)},
   {DefaultRule(<<"-", " ", "1">>), Rule("not null")}}

A == Column(<<"a">>, Bare(<<"uuid">>), <<Rule("not null"), Rule("unique")>>)
WrittenTable(items) == [name |-> <<"t">>, items |-> items]

RuleTables ==
  UNION {{WrittenTable(<<A, Column(<<"b">>, Bare(<<"uuid">>), rules)>>) :
            rules \in SetToSeqs(set)} : set \in RuleSets}

\* Every name of a type, and the numbers PostgreSQL allows behind it.
NumberedTypes ==
  LET With(word) == <<word, "time", "zone">>
  IN {Numbered(words, <<2>>, <<>>) :
        words \in {<<"varchar">>, <<"character", "varying">>, <<"char">>, <<"character">>, <<"bpchar">>,
                  <<"numeric">>, <<"decimal">>, <<"time">>, <<"timestamp">>, <<"timestamptz">>}}
     \cup {Numbered(words, <<3, 1>>, <<>>) : words \in {<<"numeric">>, <<"decimal">>}}
     \cup {Numbered(<<"float">>, <<bits>>, <<>>) : bits \in {24, 25}}
     \cup {Numbered(<<word>>, <<2>>, With(zone)) :
             word \in {"time", "timestamp"}, zone \in {"with", "without"}}
OtherTypes ==
  {Bare(<<"money">>), Bare(<<"timetz">>), Bare(<<"time", "with", "time", "zone">>),
   Numbered(<<"bit">>, <<3>>, <<>>), Numbered(<<"bit", "varying">>, <<3>>, <<>>)}

TypeTables ==
  LET Of(type, rules) == Column(<<"b">>, type, rules)
  IN {WrittenTable(<<A, Of(type, <<Rule("null")>>)>>) :
        type \in NumberedTypes \cup {Bare(words) : words \in DOMAIN PgNames \ PgSerials}}
     \cup {WrittenTable(<<A, Of(Bare(words), <<>>)>>) : words \in PgSerials}
     \cup {WrittenTable(<<Of(type, <<Rule("not null")>>), A>>) : type \in OtherTypes}

\* Constraints of the table, before, between and behind its columns.
ConstraintTables ==
  LET b == Column(<<"B">>, Bare(<<"uuid">>), <<>>)
      parts == {Constraint("primary key", <<<<"a">>>>, None, None, <<>>),
                Constraint("primary key", <<<<"a">>, <<"b">>>>, None, None, <<>>),
                Constraint("unique", <<<<"b">>>>, None, None, <<>>),
                Constraint("unique", <<<<"a">>, <<"b">>>>, None, None, <<>>),
                Constraint("foreign key", <<<<"b">>>>, <<"app", ".", "users">>, <<"id">>, <<>>),
                Constraint("foreign key", <<<<"b">>>>, <<"t">>, <<"a">>,
                           <<"on", "delete", "set", "null">>),
                Check}
      Placed(part) == {<<A, b, part>>, <<A, part, b>>, <<part, A, b>>}
      Both(part, other) ==
        IF part.item = other.item THEN {} ELSE {<<A, part, b, other>>, <<A, b, part, other>>}
  IN {WrittenTable(items) :
        items \in UNION ({Placed(part) : part \in parts}
                         \cup {Both(part, other) : part, other \in parts})}

\* Words behind a constraint of the table.
TailTables ==
  {WrittenTable(<<A, Constraint(item, <<<<"a">>>>, <<"t">>, <<"a">>, <<"deferrable">>),
                  Column(<<"b">>, Bare(<<"text">>), <<>>)>>) :
     item \in {"primary key", "unique", "foreign key"}}

Scripts(tables) == {Script(Before \o Written(table), table) : table \in tables}

\* What else a script may hold.
OddScripts ==
  LET t == Written(WrittenTable(<<A>>))
      On(what, name) == <<"comment", " ", "on", " ", what, " ">> \o name
                        \o <<" ", "is", " ", "$", "x", "$", "it", "'", "s", "$", "x", "$", ";">>
      AlterText(table) == <<"alter", " ", "table", " ", "only", " ">> \o table
                      \o <<" ", "add", " ", "foreign", " ", "key", " ", "(", "a", ")", " ",
                           "references", " ", "app", ".", "users", ";">>
      Layout(name, x, y) == <<"-", "-", " ", "@", "table", " ">> \o name \o <<" ">> \o x
                            \o <<" ">> \o y \o <<"\n">>
  IN {Script(text, None) :
        text \in {<<>>,
                  <<"create", " ", "index", " ", "i", ";">>,
                  <<"create", " ", "table", " ", "t">>,
                  <<"create", " ", "table", " ", "\"", "\"", " ", "(", "a", " ", "int", ")">>,
                  Before \o t \o On("column", <<"t", ".", "a">>) \o On("table", <<"users">>),
                  t \o On("column", <<"a">>) \o On("view", <<"t">>) \o On("column", <<"t", ".", "z">>)
                    \o On("table", <<"gone">>),
                  Before \o t \o AlterText(<<"t">>) \o AlterText(<<"gone">>),
                  t \o AlterText(<<"t">>),
                  Layout(<<"t">>, <<"1">>, <<"-", "2", ".", "5">>) \o t
                    \o Layout(<<"\"", "t", "\"">>, <<"3">>, <<"4">>),
                  t \o Layout(<<"\"", "t", "\"">>, <<"3">>, <<"4">>)
                    \o Layout(<<"t">>, <<"3">>, <<"x">>),
                  <<"create", " ", "table", " ", "x", ".", "users", "(", ")", ";">>
                    \o t \o AlterText(<<"t">>)}}

-----------------------------------------------------------------------------
Journeys(documents, files, length) == [documents |-> documents, files |-> files, legs |-> length]

OnCanvas == {Held("http", Small)}

AllFamilies ==
  [shops |-> Journeys(HeldBy(Doors, Shops), {None}, 3),
   plain |-> Journeys(HeldBy({"http"}, PlainShop), {None}, 4),
   padded |-> Journeys(HeldBy(Doors, PaddedDrawings), {None}, 3),
   kinds |-> Journeys(HeldBy(Doors, {AllKinds}), {None}, 3),
   malformed |-> Journeys(Malformed("http") \cup Malformed("grpc"), {None}, 2),
   compared |-> Journeys(HeldBy({"http"}, Variants), {None}, 3),
   json |-> Journeys(OnCanvas, JsonFiles, 3),
   scripts |-> Journeys(OnCanvas, Scripts(RuleTables \cup TypeTables \cup ConstraintTables
                                          \cup TailTables), 1),
   odd |-> Journeys(OnCanvas, OddScripts, 3)]
MCFamilies == AllFamilies

\* Only scripts with words behind a constraint.
MCTails == [tails |-> Journeys(OnCanvas, Scripts(TailTables), 1)]
=============================================================================
