-------------------------- MODULE MCDdlGeneration ---------------------------
(* DdlGeneration over families of small drawings, each varying one concern *)
(* in full: keys and references, circles, names, types and lines.          *)
EXTENDS DdlGeneration

\* "Users" folds to "users"; two long names begin with the same 63 bytes.
MCLower(name) == IF name = "Users" THEN "users" ELSE name
MCPrefix == [long_1 |-> "long", long_2 |-> "long"]

Type(kind) == [kind |-> kind, length |-> None, precision |-> None, scale |-> None]

To(entity, attribute) == [entity_id |-> entity, attribute_id |-> attribute]

Attribute(id, name, type, flags, reference) ==
  [id |-> id, name |-> name, description |-> "told", data_type |-> type,
   nullable |-> "nullable" \in flags, primary_key |-> "key" \in flags,
   unique |-> "unique" \in flags, foreign_key |-> reference]

\* A column named after its id.
Plain(id, flags, reference) == Attribute(id, id, Type("uuid"), flags, reference)

Entity(id, name, attributes) ==
  [id |-> id, name |-> name, description |-> "told", attributes |-> attributes]

Drawing(entities, relationships) ==
  [entities |-> entities, relationships |-> relationships]

\* Two tables; every combination of flags, references inside and across.
Keys ==
  LET Flags == SUBSET {"nullable", "key", "unique"}
  IN {Drawing(<<Entity("e1", "users", <<Plain("a1", f1, r1), Plain("a2", f2, r2)>>),
                Entity("e2", "posts", <<Plain("b1", f3, r3)>>)>>, <<>>) :
        f1, f2, f3 \in Flags,
        r1 \in {None, To("e2", "b1"), To("e2", "gone")},
        r2 \in {None, To("e1", "a1"), To("e2", "b1")},
        r3 \in {None, To("e1", "a1"), To("e1", "a2")}}

\* Three tables, each with a key and perhaps a reference to each of the
\* others: one that allows NULL, one that does not, or one that is itself
\* part of the key although the drawing calls it nullable.
Circles ==
  LET tables == <<"e1", "e2", "e3">>
      Pairs == {p \in (1..3) \X (1..3) : p[1] # p[2]}
      Choice == {"none", "nullable", "required", "key"}
      Flags(c) == IF c = "nullable" THEN {"nullable"}
                  ELSE IF c = "key" THEN {"nullable", "key"} ELSE {}
      Reference(choice, from, to) ==
        IF from = to THEN <<Plain("id", {"key", "unique"}, None)>>
        ELSE IF choice[from, to] = "none" THEN <<>>
        ELSE <<Plain(tables[to], Flags(choice[from, to]), To(tables[to], "id"))>>
  IN {Drawing([from \in 1..3 |->
                 Entity(tables[from], tables[from],
                        FlattenSeq([to \in 1..3 |-> Reference(choice, from, to)]))],
              <<>>) : choice \in {c \in [Pairs -> Choice] : c[3, 1] # "key" /\ c[3, 2] # "key"}}

\* Names that are blank, fold together or are cut to the same, with and
\* without descriptions.
Names ==
  LET Spellings == {"users", "Users", "long_1", "long_2", Blank}
      Told(entity, told) == [entity EXCEPT !.description = IF told THEN @ ELSE Blank]
  IN {Drawing(<<>>, <<>>)} \cup
     {Drawing(<<Told(Entity("e1", t1,
                  <<Plain("id", {"key"}, None),
                    Attribute("c1", c1, Type("uuid"), {}, To("e2", "id")),
                    Attribute("c2", c2, Type("uuid"), {}, To("e2", "id"))>>), told),
                Entity("e2", t2, <<Plain("id", {"key"}, None)>>)>>, <<>>) :
        t1, t2, c1, c2 \in Spellings, told \in BOOLEAN}

\* A reference of every kind to a key of every kind, and the parameters.
Types ==
  LET Sized == {[Type(k) EXCEPT !.length = n] :
                  k \in {"varchar", "char", "text"}, n \in {None, 0, 1, 3, 4}}
      Scaled == {[Type("numeric") EXCEPT !.precision = p, !.scale = s] :
                   p, s \in {None, 0, 2, 3}}
      Pairs == {<<Type(k), Type(l)>> : k, l \in DOMAIN Family}
                 \cup (Sized \X Sized) \cup {<<t, t>> : t \in Scaled}
  IN {Drawing(<<Entity("e1", "users", <<Attribute("id", "id", p[2], {"key"}, None)>>),
                Entity("e2", "posts",
                  <<Plain("id", {"key"}, None),
                    Attribute("ref", "ref", p[1], {}, To("e1", "id"))>>)>>, <<>>) :
        p \in Pairs}

\* A line between any two columns, with every cardinality.
Lines ==
  LET Ends == {To("e1", "a1"), To("e1", "a2"), To("e2", "b1"), To("e2", "b2"),
               To("e2", "gone"), To("e2", Blank)}
  IN {Drawing(<<Entity("e1", "users",
                  <<Plain("a1", {"key"}, None), Plain("a2", f1, r1)>>),
                Entity("e2", "posts",
                  <<Plain("b1", {"key"}, None), Plain("b2", f2, r2)>>)>>,
              <<[id |-> "r", description |-> IF f1 = {} THEN "told" ELSE Blank, from |-> from, to |-> to,
                 cardinality |-> cardinality]>>) :
        from, to \in Ends, cardinality \in {"1:1", "1:N", "N:M"},
        f1, f2 \in {{}, {"unique"}, {"nullable"}},
        r1 \in {None, To("e2", "b1"), To("e2", "b2")},
        r2 \in {None, To("e1", "a1"), To("e1", "a2")}}

MCPayloads ==
  [keys |-> Keys, circles |-> Circles, names |-> Names, types |-> Types,
   lines |-> Lines]
=============================================================================
