---------------------------- MODULE MCCycleCheck ----------------------------
(* CycleCheck over every graph of three tables with both kinds of foreign  *)
(* key, every graph of four tables, and the references that are left out.  *)
EXTENDS CycleCheck

Ids == <<"t1", "t2", "t3", "t4">>

Key(to, nullable) == [entity_id |-> to, nullable |-> nullable]

\* Tables 1..n; Keys(from, to) are the foreign keys of one table to another.
Drawn(n, Keys(_, _)) ==
  [from \in 1..n |->
     [id |-> Ids[from],
      references |-> FlattenSeq([to \in 1..n |-> Keys(from, to)])]]

Pairs(n) == {p \in (1..n) \X (1..n) : p[1] # p[2]}

\* No key, one of either kind, or two.
KeysOfPair ==
  {<<>>} \cup {<<nullable>> : nullable \in BOOLEAN} \cup {<<TRUE, FALSE>>}

Between(choice, from, to) ==
  IF from = to THEN <<>>
  ELSE [k \in DOMAIN choice[from, to] |-> Key(Ids[to], choice[from, to][k])]

ThreeTables ==
  {Drawn(3, LAMBDA from, to : Between(choice, from, to)) :
     choice \in [Pairs(3) -> KeysOfPair]}

\* The same tables, the columns of each drawn in the opposite order.
Backwards(schema) ==
  [t \in DOMAIN schema |->
     [schema[t] EXCEPT !.references = Reverse(@)]]

\* Four tables; the keys of the last one allow NULL.
FourTables ==
  {Drawn(4, LAMBDA from, to : IF <<from, to>> \in edges
                              THEN <<Key(Ids[to], from = 4)>> ELSE <<>>) :
     edges \in SUBSET Pairs(4)}

\* Keys to the table itself, to a table that is not there, and no table.
Odd ==
  {<<>>} \cup
  {<<[id |-> "t1", references |-> <<Key("t1", FALSE), Key(to, FALSE)>>],
     [id |-> "t2", references |-> <<Key("gone", FALSE), Key(back, null)>>]>> :
       to, back \in {"t1", "t2", "gone"}, null \in BOOLEAN}

MCSchemas ==
  ThreeTables \cup {Backwards(schema) : schema \in ThreeTables}
    \cup FourTables \cup Odd
=============================================================================
